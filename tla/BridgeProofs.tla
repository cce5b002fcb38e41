---------------------------- MODULE BridgeProofs ----------------------------
(***************************************************************************)
(* The bridge never owes more than its escrow holds, and writes no proof   *)
(* of a burn that a reorganization can take back - for any set of locks    *)
(* and relayers, any number of burns, crashes and reorganizations, and any *)
(* depth of confirmation.                                                  *)
(***************************************************************************)
EXTENDS Bridge, SumsProofs, FiniteSetTheorems

-----------------------------------------------------------------------------
(***************************************************************************)
(* Totals over finite sets.  SumFunctionOnSet adds in an order CHOOSE      *)
(* picks; g stands for the totals whatever the order.                      *)
(***************************************************************************)
\* g gives every part of X the total of w over it.
Totals(g, w, X) ==
    /\ g \in [SUBSET X -> Nat]
    /\ g[{}] = 0
    /\ \A x \in X : g[{x}] = w[x]
    /\ \A T \in SUBSET X : \A R \in SUBSET T : g[T] = g[R] + g[T \ R]

\* A finite set has its totals.
LEMMA TotalsExist ==
    ASSUME NEW X, IsFiniteSet(X), NEW w \in [X -> Nat]
    PROVE  \E g : Totals(g, w, X)
<1>1. PICK n \in Nat : ExistsBijection(1..n, X)
  BY Zenon, FS_NatBijection
<1>2. PICK e \in [1..n -> X] : /\ \A x \in X : \E i \in 1..n : e[i] = x
                               /\ \A i, j \in 1..n : e[i] = e[j] => i = j
  BY Zenon, <1>1 DEF ExistsBijection, Bijection, Injection, Surjection, IsInjective
<1> DEFINE f(T) == [i \in 1..n |-> IF e[i] \in T THEN w[e[i]] ELSE 0]
           g == [T \in SUBSET X |-> SumTo(f(T), n)]
<1>3. ASSUME NEW T PROVE \A i \in 1..n : f(T)[i] \in Nat /\ f(T)[i] = IF e[i] \in T THEN w[e[i]] ELSE 0
  BY Zenon, <1>2
<1> HIDE DEF f
<1>4. \A T : SumTo(f(T), n) \in Nat
  BY Zenon, <1>3, SumToNat
<1>5. g \in [SUBSET X -> Nat]
  BY Zenon, <1>4
<1> DEFINE zero == [i \in 1..n |-> 0]
<1>6. SumTo(zero, n) = 0
  <2>1. SumTo(zero, n) = SumTo(zero, n) + SumTo(zero, n)
    BY SMTT(30), SumToAdd
  <2>2. SumTo(zero, n) \in Nat
    BY Zenon, SumToNat
  <2> HIDE DEF zero
  <2> QED BY SMTT(30), <2>1, <2>2
<1>7. g[{}] = 0
  <2>1. \A i \in 1..n : f({})[i] = zero[i]
    BY Zenon, <1>3
  <2>2. SumTo(f({}), n) = SumTo(zero, n)
    BY Zenon, <2>1, SumToEqual
  <2> QED BY Zenon, <1>6, <2>2
<1>8. ASSUME NEW x \in X PROVE g[{x}] = w[x]
  <2>1. PICK a \in 1..n : e[a] = x
    BY Zenon, <1>2
  <2>2. \A i \in 1..n : i # a => f({x})[i] = zero[i]
    BY ZenonT(40), <1>2, <1>3, <2>1
  <2>3. f({x})[a] = w[x] /\ zero[a] = 0
    BY Zenon, <1>3, <2>1
  <2>4. SumTo(f({x}), n) + zero[a] = SumTo(zero, n) + f({x})[a]
    <3> DEFINE p == f({x})
    <3>1. \A i \in 1..n : p[i] \in Nat /\ zero[i] \in Nat
      BY Zenon, <1>3
    <3>2. \A i \in 1..n : i # a => p[i] = zero[i]
      BY Zenon, <2>2
    <3> HIDE DEF p, zero
    <3>3. SumTo(p, n) + zero[a] = SumTo(zero, n) + p[a]
      BY ZenonT(40), <3>1, <3>2, SumToUpdate
    <3> QED BY Zenon, <3>3 DEF p
  <2>5. SumTo(f({x}), n) \in Nat /\ w[x] \in Nat
    BY Zenon, <1>4
  <2>6. SumTo(f({x}), n) = w[x]
    BY SMTT(30), <1>6, <2>3, <2>4, <2>5
  <2> QED BY Zenon, <2>6
<1>9. ASSUME NEW T \in SUBSET X, NEW R \in SUBSET T PROVE g[T] = g[R] + g[T \ R]
  <2> DEFINE a == f(T)
             b == f(R)
             c == f(T \ R)
  <2>1. \A i \in 1..n : /\ a[i] \in Nat /\ b[i] \in Nat /\ c[i] \in Nat
                        /\ a[i] = IF e[i] \in T THEN w[e[i]] ELSE 0
                        /\ b[i] = IF e[i] \in R THEN w[e[i]] ELSE 0
                        /\ c[i] = IF e[i] \in T \ R THEN w[e[i]] ELSE 0
    BY Zenon, <1>3
  <2> HIDE DEF a, b, c
  <2>2. \A i \in 1..n : a[i] = b[i] + c[i]
    BY SMTT(30), <2>1
  <2>3. SumTo(a, n) = SumTo(b, n) + SumTo(c, n)
    BY SMTT(30), <2>1, <2>2, SumToAdd
  <2> QED BY Zenon, <2>3 DEF a, b, c
<1> HIDE DEF g
<1> QED BY ZenonT(40), <1>5, <1>7, <1>8, <1>9 DEF Totals

\* A set of parts of a finite set has a smallest one.
LEMMA SmallestPart ==
    ASSUME NEW X, IsFiniteSet(X), NEW B \in SUBSET (SUBSET X), B # {}
    PROVE  \E T \in B : \A U \in B : U \subseteq T => U = T
<1>1. IsWellFoundedOn(StrictSubsetOrdering(X), SUBSET X)
  BY Zenon, FS_StrictSubsetOrderingWellFounded, FS_FiniteSubsetsOfFinite
<1>2. \E T \in B : \A U \in B : ~(<<U, T>> \in StrictSubsetOrdering(X))
  BY Zenon, <1>1, WFMin
<1> QED BY ZenonT(40), <1>2 DEF StrictSubsetOrdering

\* The value SumFunctionOnSet computes is the total.
LEMMA SumIsTotal ==
    ASSUME NEW X, IsFiniteSet(X), NEW w, w \in [X -> Nat], NEW g, Totals(g, w, X),
           NEW S \in SUBSET X
    PROVE  SumFunctionOnSet(w, S) = g[S]
<1> DEFINE pick(s) == CHOOSE x \in s : TRUE
           body(h) == [s \in SUBSET S |-> IF s = {} THEN 0
                                          ELSE w[pick(s)] + h[s \ {pick(s)}]]
           it == CHOOSE h : h = body(h)
<1>1. SumFunctionOnSet(w, S) = it[S]
  BY Zenon DEF SumFunctionOnSet, FoldFunctionOnSet, MapThenFoldSet
<1>2. ASSUME NEW s \in SUBSET S, s # {}
      PROVE  /\ pick(s) \in s /\ s \ {pick(s)} \in SUBSET S
             /\ g[s] = w[pick(s)] + g[s \ {pick(s)}]
  <2>1. pick(s) \in s
    BY Zenon, <1>2
  <2> DEFINE p == pick(s)
  <2> HIDE DEF p
  <2>2. p \in X /\ {p} \in SUBSET s /\ s \in SUBSET X
    BY Zenon, <2>1 DEF p
  <2>3. g[s] = g[{p}] + g[s \ {p}] /\ g[{p}] = w[p]
    BY Zenon, <2>2 DEF Totals
  <2>4. s \ {p} \in SUBSET S
    BY Zenon
  <2> QED BY Zenon, <2>1, <2>3, <2>4 DEF p
<1> HIDE DEF pick
<1>3. \E h : h = body(h)
  <2> DEFINE h == [s \in SUBSET S |-> g[s]]
  <2>1. \A s \in SUBSET S : h[s] = body(h)[s]
    <3> TAKE s \in SUBSET S
    <3>1. CASE s = {}
      BY Zenon, <3>1 DEF Totals
    <3>2. CASE s # {}
      BY Zenon, <1>2, <3>2
    <3> QED BY Zenon, <3>1, <3>2
  <2>2. h = body(h)
    BY Zenon, <2>1
  <2> QED BY Zenon, <2>2
<1>4. it = body(it)
  BY Zenon, <1>3
<1> HIDE DEF it
<1>5. ASSUME NEW s \in SUBSET S
      PROVE  it[s] = IF s = {} THEN 0 ELSE w[pick(s)] + it[s \ {pick(s)}]
  BY Zenon, <1>4
<1> DEFINE B == {s \in SUBSET S : it[s] # g[s]}
<1>6. B = {}
  <2> SUFFICES ASSUME B # {} PROVE FALSE
    BY Zenon
  <2>1. IsFiniteSet(S)
    BY Zenon, FS_Subset
  <2>2. PICK T \in B : \A U \in B : U \subseteq T => U = T
    <3>1. B \in SUBSET (SUBSET S)
      BY Zenon
    <3> HIDE DEF B
    <3> QED BY SMTT(30), <2>1, <3>1, SmallestPart
  <2>3. CASE T = {}
    BY Zenon, <1>5, <2>2, <2>3 DEF Totals
  <2>4. CASE T # {}
    <3>1. /\ T \in SUBSET S /\ it[T] # g[T]
          /\ pick(T) \in T /\ T \ {pick(T)} \in SUBSET S
          /\ g[T] = w[pick(T)] + g[T \ {pick(T)}]
      BY Zenon, <1>2, <2>2, <2>4
    <3>2. T \ {pick(T)} \notin B
      BY Zenon, <2>2, <3>1
    <3>3. it[T \ {pick(T)}] = g[T \ {pick(T)}]
      BY Zenon, <3>1, <3>2
    <3>4. it[T] = w[pick(T)] + it[T \ {pick(T)}]
      BY Zenon, <1>5, <2>4, <3>1
    <3> QED BY Zenon, <3>1, <3>3, <3>4
  <2> QED BY Zenon, <2>3, <2>4
<1> QED BY Zenon, <1>1, <1>6

-----------------------------------------------------------------------------
(***************************************************************************)
(* The inductive invariant.                                                *)
(***************************************************************************)
Contract ==
    [supply : Nat, minted : SUBSET ToEscrow, burns : SUBSET Burn,
     approved : [Locks -> SUBSET Relayers]]

Depth == MinConfirmations + 1

\* The block whose state is the i-th of evm.recent.
BlockOf(i) == Height - Depth + i

\* The locks that came into the escrow.
Escrowed == ToEscrow \cap locked

TypedChains ==
    /\ scene \in Scenes
    /\ nonce \in Nat /\ escrow \in Int /\ locked \in SUBSET Locks
    /\ mempool \in SUBSET [burn : Burn, nonce : Nat, signed : BOOLEAN]
    /\ evm.height \in Nat /\ evm.recent \in [1..Depth -> Contract]
    /\ txs \in Nat

\* What the Go relayer is doing.
Watching ==
    [pc : {"sleep", "logs", "work", "post", "down"}, head : Nat, next : Int,
     todo : SUBSET Burn, seen : SUBSET Burn, nonce : Nat]

\* What a Node relayer is doing.
Minting == [pc : {"poll", "send", "mined"}, lock : Locks]

TypedRelayers ==
    /\ outbox \in SUBSET Burn
    /\ watch \in Watching
    /\ op \in [pc : {"idle", "post"}, burn : Burn, nonce : Nat]
    /\ mint \in [Relayers -> Minting]

\* Each of the last states of the EVM chain has the burns up to its block,
\* and a burn not yet made has a hash of its own.
BurnsByBlock ==
    /\ \A i \in 1..Depth :
          evm.recent[i].burns = {b \in Contracts.burns : b.block <= BlockOf(i)}
    /\ IsFiniteSet(Contracts.burns)
    /\ \A b \in Contracts.burns : b.id < txs

\* What the relayers rely on is in the oldest state, which stays.
Final ==
    /\ outbox \subseteq evm.recent[1].burns
    /\ \A b \in outbox : Whole(b)
    /\ watch.head <= Height
    /\ watch.pc \in {"work", "post"} => watch.todo \subseteq evm.recent[1].burns
    /\ op.pc = "post" => op.burn \in outbox
    /\ \A t \in mempool : t.signed => t.burn \in outbox
    /\ released \subseteq outbox

\* Every one of the states has minted no more than was locked for it.
Covered(c) == c.minted \subseteq locked /\ c.supply + Units(c.burns) <= Scale * Coins(c.minted)

Solvent ==
    /\ \A i \in 1..Depth : Covered(evm.recent[i])
    /\ \A r \in Relayers : mint[r].pc = "send" => mint[r].lock \in Escrowed

\* The escrow holds what was locked and not released.
Holdings == escrow + Fee * nonce - Float
EscrowExact == Scale * Holdings + Units(released) = Scale * Coins(Escrowed)

BridgeInv ==
    TypedChains /\ TypedRelayers /\ BurnsByBlock /\ Final /\ Solvent /\ EscrowExact

-----------------------------------------------------------------------------
(***************************************************************************)
(* Coins and units.                                                        *)
(***************************************************************************)
\* The SYN of the locks in S, of one lock, and of a part of S and the rest.
LEMMA CoinsSplit ==
    ASSUME NEW S \in SUBSET Locks
    PROVE  /\ Coins(S) \in Nat
           /\ \A l \in Locks : Coins({l}) = Amount[l]
           /\ \A R \in SUBSET S : Coins(S) = Coins(R) + Coins(S \ R)
<1>1. IsFiniteSet(Locks) /\ Amount \in [Locks -> Nat]
  BY Zenon, BridgeConstants
<1>2. PICK g : Totals(g, Amount, Locks)
  BY Zenon, <1>1, TotalsExist
<1>3. ASSUME NEW T \in SUBSET Locks PROVE Coins(T) = g[T]
  BY SMTT(30), <1>1, <1>2, SumIsTotal DEF Coins
<1>4. Coins(S) \in Nat
  BY Zenon, <1>2, <1>3 DEF Totals
<1>5. ASSUME NEW l \in Locks PROVE Coins({l}) = Amount[l]
  BY Zenon, <1>2, <1>3 DEF Totals
<1>6. ASSUME NEW R \in SUBSET S PROVE Coins(S) = Coins(R) + Coins(S \ R)
  <2>1. Coins(S) = g[S] /\ Coins(R) = g[R] /\ Coins(S \ R) = g[S \ R]
    BY Zenon, <1>3
  <2> QED BY Zenon, <1>2, <2>1 DEF Totals
<1> QED BY Zenon, <1>4, <1>5, <1>6

\* One more lock.
LEMMA CoinsAdd ==
    ASSUME NEW S \in SUBSET Locks, NEW l \in Locks, l \notin S
    PROVE  Coins(S \cup {l}) = Coins(S) + Amount[l]
<1> DEFINE T == S \cup {l}
<1>1. T \in SUBSET Locks /\ S \in SUBSET T /\ T \ S = {l}
  BY Zenon
<1> HIDE DEF T
<1>2. Coins(T) = Coins(S) + Coins(T \ S) /\ Coins({l}) = Amount[l]
  BY Zenon, <1>1, CoinsSplit
<1> QED BY Zenon, <1>1, <1>2 DEF T

\* The totals of a set of burns.
LEMMA UnitsTotals ==
    ASSUME NEW A, A \subseteq Burn, IsFiniteSet(A)
    PROVE  \E g : Totals(g, [b \in A |-> b.units], A) /\ \A R \in SUBSET A : Units(R) = g[R]
<1> DEFINE w == [b \in A |-> b.units]
<1>1. \A b \in A : b.units \in Nat
  BY Zenon DEF Burn
<1>2. w \in [A -> Nat]
  BY Zenon, <1>1
<1> HIDE DEF w
<1>3. PICK g : Totals(g, w, A)
  BY Zenon, <1>2, TotalsExist
<1>4. ASSUME NEW R \in SUBSET A PROVE Units(R) = g[R]
  <2> DEFINE v == [b \in R |-> b.units]
             h == [T \in SUBSET R |-> g[T]]
  <2>1. v \in [R -> Nat] /\ IsFiniteSet(R) /\ DOMAIN v = R
    BY Zenon, <1>1, FS_Subset
  <2>2. \A b \in R : v[b] = w[b]
    BY Zenon DEF w
  <2>3. /\ h \in [SUBSET R -> Nat] /\ h[{}] = 0
        /\ \A x \in R : h[{x}] = v[x]
    <3> HIDE DEF v
    <3> QED BY Zenon, <1>3, <2>2 DEF Totals
  <2>4. \A T \in SUBSET R : \A U \in SUBSET T : h[T] = h[U] + h[T \ U]
    <3> SUFFICES ASSUME NEW T \in SUBSET R, NEW U \in SUBSET T PROVE h[T] = h[U] + h[T \ U]
      BY Zenon
    <3>1. T \in SUBSET A /\ U \in SUBSET R /\ T \ U \in SUBSET R
      BY Zenon
    <3>2. h[T] = g[T] /\ h[U] = g[U] /\ h[T \ U] = g[T \ U]
      BY Zenon, <3>1
    <3>3. g[T] = g[U] + g[T \ U]
      BY Zenon, <1>3, <3>1 DEF Totals
    <3> QED BY Zenon, <3>2, <3>3
  <2>5. h[R] = g[R]
    BY Zenon
  <2> HIDE DEF h, v
  <2>6. Totals(h, v, R)
    BY Zenon, <2>3, <2>4 DEF Totals
  <2>7. SumFunctionOnSet(v, R) = h[R]
    BY SMTT(30), <2>1, <2>6, SumIsTotal
  <2>8. Units(R) = SumFunctionOnSet(v, R)
    BY Zenon, <2>1 DEF Units, SumFunction, v
  <2> QED BY Zenon, <2>5, <2>7, <2>8
<1> QED BY Zenon, <1>3, <1>4 DEF w

\* The units of a part of a set of burns and of the rest.
LEMMA UnitsSplit ==
    ASSUME NEW A, A \subseteq Burn, IsFiniteSet(A), NEW R \in SUBSET A
    PROVE  /\ Units(A) \in Nat /\ Units(R) \in Nat /\ Units(A \ R) \in Nat
           /\ Units(A) = Units(R) + Units(A \ R)
<1>1. PICK g : Totals(g, [b \in A |-> b.units], A) /\ \A T \in SUBSET A : Units(T) = g[T]
  BY Zenon, UnitsTotals
<1>2. A \in SUBSET A /\ R \in SUBSET A /\ A \ R \in SUBSET A
  BY Zenon
<1>3. Units(A) = g[A] /\ Units(R) = g[R] /\ Units(A \ R) = g[A \ R]
  BY Zenon, <1>1, <1>2
<1>4. g \in [SUBSET A -> Nat] /\ g[A] = g[R] + g[A \ R]
  BY Zenon, <1>1, <1>2 DEF Totals
<1>5. g[A] \in Nat /\ g[R] \in Nat /\ g[A \ R] \in Nat
  BY Zenon, <1>2, <1>4
<1> QED BY Zenon, <1>3, <1>4, <1>5

\* One more burn.
LEMMA UnitsAdd ==
    ASSUME NEW A, A \subseteq Burn, IsFiniteSet(A), NEW b \in Burn, b \notin A
    PROVE  Units(A \cup {b}) = Units(A) + b.units /\ IsFiniteSet(A \cup {b})
<1> DEFINE T == A \cup {b}
<1>1. T \subseteq Burn /\ IsFiniteSet(T) /\ T \ A = {b} /\ A \in SUBSET T /\ {b} \in SUBSET T /\ b \in T
  BY Zenon, FS_AddElement
<1> HIDE DEF T
<1>2. PICK g : Totals(g, [a \in T |-> a.units], T) /\ \A R \in SUBSET T : Units(R) = g[R]
  BY Zenon, <1>1, UnitsTotals
<1>3. g[{b}] = b.units
  BY Zenon, <1>1, <1>2 DEF Totals
<1>4. Units(T) = Units(A) + Units(T \ A)
  BY Zenon, <1>1, UnitsSplit
<1>5. Units({b}) = b.units
  BY Zenon, <1>1, <1>2, <1>3
<1> QED BY Zenon, <1>1, <1>4, <1>5 DEF T

\* Nothing was burned at first.
LEMMA UnitsNone == Units({}) = 0
<1>1. PICK g : Totals(g, [b \in {} |-> b.units], {}) /\ \A R \in SUBSET {} : Units(R) = g[R]
  BY Zenon, UnitsTotals, FS_EmptySet
<1> QED BY Zenon, <1>1 DEF Totals

-----------------------------------------------------------------------------
(***************************************************************************)
(* The EVM chain.                                                          *)
(***************************************************************************)
\* The depth is a positive number of blocks.
LEMMA DepthNat == Depth \in Nat /\ Depth >= 1 /\ MinConfirmations = Depth - 1
BY SMTT(30), BridgeConstants DEF Depth

\* A block is appended and the oldest state forgotten.
LEMMA Mined ==
    ASSUME evm.recent \in [1..Depth -> Contract], NEW c \in Contract, Mine(c)
    PROVE  /\ evm'.height = Height + 1
           /\ evm'.recent \in [1..Depth -> Contract]
           /\ \A i \in 1..Depth : i < Depth => evm'.recent[i] = evm.recent[i + 1]
           /\ evm'.recent[Depth] = c
<1> DEFINE r == evm.recent
           t == Tail(r)
<1>1. r \in Seq(Contract) /\ Len(r) = Depth
  BY SMTT(30), DepthNat
<1> HIDE DEF r
<1>2. /\ t \in Seq(Contract) /\ Len(t) = Depth - 1
      /\ \A i \in 1..(Depth - 1) : t[i] = r[i + 1]
  BY SMTT(30), <1>1, DepthNat
<1> HIDE DEF t
<1>3. /\ Append(t, c) \in Seq(Contract) /\ Len(Append(t, c)) = Depth
      /\ \A i \in 1..(Depth - 1) : Append(t, c)[i] = t[i]
      /\ Append(t, c)[Depth] = c
  BY SMTT(30), <1>2, DepthNat
<1>4. evm'.height = Height + 1 /\ evm'.recent = Append(t, c)
  BY Zenon DEF Mine, r, t
<1>5. evm'.recent \in [1..Depth -> Contract]
  <2> DEFINE q == Append(t, c)
  <2>1. q \in Seq(Contract) /\ Len(q) = Depth
    BY Zenon, <1>3
  <2> HIDE DEF q
  <2>2. q \in [1..Len(q) -> Contract]
    BY SMTT(30), <2>1
  <2> QED BY Zenon, <1>4, <2>1, <2>2 DEF q
<1>6. \A i \in 1..Depth : i < Depth => evm'.recent[i] = r[i + 1]
  BY SMTT(30), <1>2, <1>3, <1>4, DepthNat
<1> QED BY Zenon, <1>3, <1>4, <1>5, <1>6 DEF r

\* The new block holds the old burns and at most new ones.
LEMMA MinedBurns ==
    ASSUME TypedChains, BurnsByBlock, NEW c \in Contract, Mine(c),
           \A b \in c.burns : b.block <= Height + 1,
           Contracts.burns = {b \in c.burns : b.block <= Height}
    PROVE  /\ \A i \in 1..Depth :
                 evm'.recent[i].burns = {b \in c.burns : b.block <= evm'.height - Depth + i}
           /\ evm.recent[1].burns \subseteq evm'.recent[1].burns
<1>1. /\ evm'.height = Height + 1 /\ Height \in Nat
      /\ \A i \in 1..Depth : i < Depth => evm'.recent[i] = evm.recent[i + 1]
      /\ evm'.recent[Depth] = c
  BY Zenon, Mined DEF TypedChains, Height
<1>2. c.burns \subseteq Burn /\ \A b \in c.burns : b.block \in Nat
  BY Zenon DEF Contract, Burn
<1>3. ASSUME NEW i \in 1..Depth, i < Depth
      PROVE  evm'.recent[i].burns = {b \in c.burns : b.block <= Height - Depth + (i + 1)}
  <2>1. i + 1 \in 1..Depth
    BY SMTT(30), <1>3, DepthNat
  <2>2. evm.recent[i + 1].burns = {b \in Contracts.burns : b.block <= Height - Depth + (i + 1)}
    BY Zenon, <2>1 DEF BurnsByBlock, BlockOf
  <2>3. Height - Depth + (i + 1) <= Height
    BY SMTT(30), <1>1, <1>3, DepthNat
  <2>4. \A b \in c.burns : b.block <= Height - Depth + (i + 1) => b.block <= Height
    BY SMTT(30), <1>1, <1>2, <2>3, DepthNat
  <2> QED BY Zenon, <1>1, <1>3, <2>2, <2>4
<1>4. ASSUME NEW i \in 1..Depth
      PROVE  evm'.recent[i].burns = {b \in c.burns : b.block <= evm'.height - Depth + i}
  <2>1. CASE i < Depth
    <3>1. Height - Depth + (i + 1) = evm'.height - Depth + i
      BY SMTT(30), <1>1, DepthNat
    <3> QED BY Zenon, <1>3, <2>1, <3>1
  <2>2. CASE i = Depth
    <3>1. evm'.height - Depth + i = Height + 1
      BY SMTT(30), <1>1, <2>2, DepthNat
    <3> QED BY Zenon, <1>1, <2>2, <3>1
  <2> QED BY SMTT(30), <2>1, <2>2, DepthNat
<1>5. evm.recent[1].burns \subseteq evm'.recent[1].burns
  <2>1. 1 \in 1..Depth
    BY SMTT(30), DepthNat
  <2>2. evm.recent[1].burns = {b \in Contracts.burns : b.block <= Height - Depth + 1}
    BY Zenon, <2>1 DEF BurnsByBlock, BlockOf
  <2>3. \A b \in c.burns : b.block <= Height - Depth + 1 => b.block <= evm'.height - Depth + 1
    BY SMTT(30), <1>1, <1>2, DepthNat
  <2> QED BY Zenon, <1>4, <2>1, <2>2, <2>3
<1> QED BY Zenon, <1>4, <1>5

\* A reorganization keeps the states up to the fork.
LEMMA Reorganized ==
    ASSUME TypedChains, BurnsByBlock, NEW k \in 1..MinConfirmations, Reorg(k)
    PROVE  /\ evm'.height = Height + 1 /\ evm'.recent \in [1..Depth -> Contract]
           /\ \A i \in 1..Depth : \E j \in 1..Depth : evm'.recent[i] = evm.recent[j]
           /\ \A i \in 1..Depth :
                 evm'.recent[i].burns =
                    {b \in evm'.recent[Depth].burns : b.block <= evm'.height - Depth + i}
           /\ evm'.recent[Depth].burns \subseteq Contracts.burns
           /\ evm.recent[1].burns \subseteq evm'.recent[1].burns
<1> DEFINE fork == MinConfirmations + 1 - k
           from(i) == IF i < fork THEN i + 1 ELSE fork
<1>1. fork \in 1..Depth /\ fork < Depth /\ Height \in Nat
  BY SMTT(30), DepthNat DEF TypedChains, Height
<1>2. \A i \in 1..Depth : from(i) \in 1..Depth /\ from(i) <= fork /\ from(i) <= i + 1
  BY SMTT(30), <1>1, DepthNat
<1>3. DOMAIN evm.recent = 1..Depth /\ evm.recent \in [1..Depth -> Contract]
  BY Zenon DEF TypedChains
<1>4. evm' = [height |-> Height + 1, recent |-> [i \in 1..Depth |-> evm.recent[from(i)]]]
  BY Zenon, <1>3 DEF Reorg
<1>5. \A i \in 1..Depth : i >= fork => from(i) = fork
  BY SMTT(30), <1>1, DepthNat
<1>6. \A i \in 1..Depth : i < fork => from(i) = i + 1
  BY Zenon, <1>1, DepthNat
<1> HIDE DEF from, fork
<1>7. /\ evm'.height = Height + 1
      /\ \A i \in 1..Depth : evm'.recent[i] = evm.recent[from(i)]
      /\ evm'.recent \in [1..Depth -> Contract]
  BY Zenon, <1>2, <1>3, <1>4
<1>8. \A i \in 1..Depth : evm.recent[i].burns = {b \in Contracts.burns : b.block <= Height - Depth + i}
  BY Zenon DEF BurnsByBlock, BlockOf
<1>9. Contracts.burns \subseteq Burn /\ \A b \in Contracts.burns : b.block \in Nat
  <2>1. Contracts \in Contract
    BY SMTT(30), <1>3, DepthNat DEF Contracts, Depth
  <2> QED BY Zenon, <2>1 DEF Contract, Burn
<1>10. Depth \in 1..Depth /\ evm'.recent[Depth] = evm.recent[fork]
  BY SMTT(30), <1>1, <1>5, <1>7, DepthNat
<1>11. ASSUME NEW i \in 1..Depth
       PROVE  evm'.recent[i].burns =
                 {b \in evm'.recent[Depth].burns : b.block <= evm'.height - Depth + i}
  <2>1. evm'.recent[Depth].burns = {b \in Contracts.burns : b.block <= Height - Depth + fork}
    BY Zenon, <1>1, <1>8, <1>10
  <2>2. evm'.recent[i].burns = {b \in Contracts.burns : b.block <= Height - Depth + from(i)}
    BY Zenon, <1>2, <1>7, <1>8
  <2>3. \A b \in Contracts.burns :
           b.block <= Height - Depth + from(i)
             <=> b.block <= Height - Depth + fork /\ b.block <= evm'.height - Depth + i
    <3>1. CASE i < fork
      BY SMTT(30), <1>1, <1>6, <1>7, <1>9, <3>1, DepthNat
    <3>2. CASE i >= fork
      BY SMTT(30), <1>1, <1>5, <1>7, <1>9, <3>2, DepthNat
    <3> QED BY SMTT(30), <1>1, <3>1, <3>2, DepthNat
  <2> QED BY Zenon, <2>1, <2>2, <2>3
<1>12. evm'.recent[Depth].burns \subseteq Contracts.burns
  BY Zenon, <1>1, <1>8, <1>10
<1>13. evm.recent[1].burns \subseteq evm'.recent[1].burns
  <2>1. 1 \in 1..Depth /\ from(1) \in 1..Depth /\ from(1) >= 1
    BY SMTT(30), <1>2, DepthNat
  <2>2. \A b \in Contracts.burns : b.block <= Height - Depth + 1 => b.block <= Height - Depth + from(1)
    BY SMTT(30), <1>1, <1>9, <2>1, DepthNat
  <2> QED BY Zenon, <1>7, <1>8, <2>1, <2>2
<1>14. \A i \in 1..Depth : \E j \in 1..Depth : evm'.recent[i] = evm.recent[j]
  BY Zenon, <1>2, <1>7
<1> QED BY Zenon, <1>7, <1>11, <1>12, <1>13, <1>14

-----------------------------------------------------------------------------
(***************************************************************************)
(* The invariant holds at first and every step keeps it.                   *)
(***************************************************************************)
\* The contracts now, and the burns they hold.
LEMMA Now ==
    ASSUME TypedChains, BurnsByBlock
    PROVE  /\ Contracts = evm.recent[Depth] /\ Contracts \in Contract
           /\ Depth \in 1..Depth /\ 1 \in 1..Depth /\ Height \in Nat
           /\ Contracts.burns \subseteq Burn
           /\ evm.recent[1].burns \subseteq Contracts.burns
           /\ \A b \in Contracts.burns : b.block \in Nat /\ b.block <= Height
<1>1. Contracts = evm.recent[Depth]
  BY Zenon DEF Contracts, Depth
<1>2. Depth \in 1..Depth /\ 1 \in 1..Depth /\ Height \in Nat
  BY SMTT(30), DepthNat DEF TypedChains, Height
<1>3. Contracts \in Contract
  BY Zenon, <1>1, <1>2 DEF TypedChains
<1>4. Contracts.burns \subseteq Burn
  BY Zenon, <1>3 DEF Contract
<1>5. evm.recent[1].burns \subseteq Contracts.burns
  BY Zenon, <1>2 DEF BurnsByBlock
<1>6. \A b \in Contracts.burns : b.block <= Height - Depth + Depth
  BY Zenon, <1>1, <1>2 DEF BurnsByBlock, BlockOf
<1>7. \A b \in Contracts.burns : b.block \in Nat
  BY Zenon, <1>4 DEF Burn
<1>8. Height - Depth + Depth = Height
  BY SMTT(30), <1>2
<1> QED BY Zenon, <1>1, <1>2, <1>3, <1>4, <1>5, <1>6, <1>7, <1>8

\* The program starts in a state of the invariant.
LEMMA BridgeInit == Init => BridgeInv
<1> SUFFICES ASSUME Init PROVE BridgeInv
  BY Zenon
<1> DEFINE M == scene.minted
           d == Deployed(M)
<1>1. scene \in Scenes /\ M \in SUBSET ToEscrow /\ ToEscrow \in SUBSET Locks
  BY Zenon, BridgeConstants DEF Init
<1>2. Coins(M) \in Nat
  BY Zenon, <1>1, CoinsSplit
<1>3. /\ d.supply = Scale * Coins(M) /\ d.minted = M /\ d.burns = {}
      /\ d.approved \in [Locks -> SUBSET Relayers]
      /\ d = [supply |-> d.supply, minted |-> d.minted, burns |-> d.burns, approved |-> d.approved]
  BY Zenon DEF Deployed
<1>4. Scale * Coins(M) \in Nat
  BY SMTT(30), <1>2, BridgeConstants
<1> HIDE DEF d, M
<1>5. d \in Contract
  BY Zenon, <1>1, <1>3, <1>4 DEF Contract
<1>6. /\ evm = [height |-> 1, recent |-> [i \in 1..Depth |-> d]]
      /\ \A i \in 1..Depth : evm.recent[i] = d
  BY Zenon DEF Init, Depth, d, M
<1>7. Contracts = d
  BY SMTT(30), <1>6, DepthNat DEF Contracts, Depth
<1>8. /\ nonce = 0 /\ escrow = Float + Coins(M) /\ locked = M /\ released = {} /\ mempool = {}
      /\ txs = 0 /\ outbox = {} /\ op.pc = "idle" /\ Fee \in Nat /\ Float \in Nat
      /\ watch = Started
  BY Zenon, BridgeConstants DEF Init, M
<1>9. TypedChains
  BY SMTT(30), <1>1, <1>2, <1>5, <1>6, <1>8 DEF TypedChains
<1>10. TypedRelayers
  <2>1. (CHOOSE l \in Locks : TRUE) \in Locks
    BY Zenon, BridgeConstants
  <2>2. mint \in [Relayers -> Minting]
    BY Zenon, <2>1 DEF Init, Minting
  <2>3. op \in [pc : {"idle", "post"}, burn : Burn, nonce : Nat]
    BY Zenon DEF Init, NoBurn, Burn
  <2>4. watch \in Watching
    BY SMTT(30), <1>8, BridgeConstants DEF Started, Watching
  <2> QED BY Zenon, <1>8, <2>2, <2>3, <2>4 DEF TypedRelayers
<1>11. BurnsByBlock
  BY Zenon, <1>3, <1>6, <1>7, FS_EmptySet DEF BurnsByBlock
<1>12. Final
  BY SMTT(30), <1>6, <1>8 DEF Final, Started, Height
<1>13. Solvent
  <2>1. Covered(d)
    BY SMTT(30), <1>2, <1>3, <1>4, <1>8, UnitsNone DEF Covered
  <2>2. \A r \in Relayers : mint[r].pc = "poll"
    BY Zenon DEF Init
  <2> QED BY Zenon, <1>6, <2>1, <2>2 DEF Solvent
<1>14. EscrowExact
  <2>1. Escrowed = M
    BY Zenon, <1>1, <1>8 DEF Escrowed
  <2>2. Holdings = Coins(M)
    BY SMTT(30), <1>2, <1>8 DEF Holdings
  <2> QED BY SMTT(30), <1>4, <1>8, <2>1, <2>2, UnitsNone DEF EscrowExact
<1> QED BY Zenon, <1>9, <1>10, <1>11, <1>12, <1>13, <1>14 DEF BridgeInv

\* A transaction is mined on the EVM chain.
LEMMA Mining ==
    ASSUME BridgeInv, NEW c \in Contract, Mine(c),
           \A b \in c.burns : b.block <= Height + 1,
           Contracts.burns = {b \in c.burns : b.block <= Height},
           IsFiniteSet(c.burns), \A b \in c.burns : b.id < txs', Covered(c),
           UNCHANGED <<scene, native, outbox, watch, op>>, txs' \in Nat,
           mint' \in [Relayers -> Minting],
           \A r \in Relayers : mint'[r].pc = "send" => mint'[r].lock \in Escrowed
    PROVE  BridgeInv'
<1> USE DEF BridgeInv
<1>1. /\ evm'.height = Height + 1
      /\ evm'.recent \in [1..Depth -> Contract]
      /\ \A i \in 1..Depth : i < Depth => evm'.recent[i] = evm.recent[i + 1]
      /\ evm'.recent[Depth] = c
  BY Zenon, Mined DEF TypedChains
<1>2. /\ \A i \in 1..Depth :
            evm'.recent[i].burns = {b \in c.burns : b.block <= evm'.height - Depth + i}
      /\ evm.recent[1].burns \subseteq evm'.recent[1].burns
  BY Zenon, MinedBurns
<1>3. Height \in Nat /\ Depth \in 1..Depth /\ Contracts' = c
  BY Zenon, Now, <1>1 DEF Contracts, Depth
<1>4. nonce' = nonce /\ escrow' = escrow /\ locked' = locked /\ released' = released /\ mempool' = mempool
  BY Zenon DEF native
<1>5. TypedChains'
  BY SMTT(30), <1>1, <1>3, <1>4 DEF TypedChains
<1>6. TypedRelayers'
  BY Zenon DEF TypedRelayers
<1>7. BurnsByBlock'
  BY Zenon, <1>2, <1>3 DEF BurnsByBlock, BlockOf, Height
<1>8. Final'
  <2>1. Height' = Height + 1 /\ watch.head \in Nat /\ watch.head <= Height
    BY Zenon, <1>1 DEF Height, Final, TypedRelayers, Watching
  <2>2. watch'.head <= Height'
    BY SMTT(30), <1>3, <2>1
  <2> QED BY Zenon, <1>2, <1>4, <2>2 DEF Final, Whole
<1>9. Solvent'
  <2>1. ASSUME NEW i \in 1..Depth PROVE Covered(evm'.recent[i])
    <3>1. CASE i < Depth
      <4>1. i + 1 \in 1..Depth
        BY SMTT(30), <3>1, DepthNat
      <4> QED BY Zenon, <1>1, <3>1, <4>1 DEF Solvent
    <3>2. CASE i = Depth
      BY Zenon, <1>1, <3>2
    <3> QED BY SMTT(30), <3>1, <3>2, DepthNat
  <2>2. Escrowed' = Escrowed
    BY Zenon, <1>4 DEF Escrowed
  <2> QED BY Zenon, <1>4, <2>1, <2>2 DEF Solvent, Covered
<1>10. EscrowExact'
  BY Zenon, <1>4 DEF EscrowExact, Holdings, Escrowed
<1> QED BY Zenon, <1>5, <1>6, <1>7, <1>8, <1>9, <1>10

\* burnToNative: the burn gets a hash of its own, the supply what is left.
LEMMA Burning ==
    ASSUME BridgeInv, NEW u \in 1..MaxUnits, BurnToNative(u)
    PROVE  BridgeInv'
<1> DEFINE b == [id |-> txs, units |-> u, block |-> Height + 1]
           c == [Contracts EXCEPT !.supply = @ - u, !.burns = @ \cup {b}]
           B == Contracts.burns
<1>1. /\ Contracts \in Contract /\ Contracts = evm.recent[Depth] /\ Depth \in 1..Depth
      /\ Height \in Nat /\ B \subseteq Burn
      /\ \A a \in B : a.block \in Nat /\ a.block <= Height
  BY Zenon, Now DEF BridgeInv
<1>2. /\ IsFiniteSet(B) /\ \A a \in B : a.id < txs /\ a.id \in Nat
      /\ txs \in Nat /\ Covered(Contracts)
  BY Zenon, <1>1 DEF BridgeInv, BurnsByBlock, Solvent, TypedChains, Burn
<1>3. Contracts.supply \in Nat /\ u \in 1..Contracts.supply /\ txs' = txs + 1 /\ Mine(c)
  BY Zenon, <1>1 DEF BurnToNative, Contract
<1>4. b \in Burn /\ b.units = u /\ b.block = Height + 1 /\ b.id = txs
  BY SMTT(30), <1>1, <1>2, <1>3 DEF Burn
<1> HIDE DEF b
<1>5. /\ c.supply = Contracts.supply - u /\ c.burns = B \cup {b}
      /\ c.minted = Contracts.minted /\ c \in Contract
  <2> DEFINE k == Contracts
             s == k.supply - u
             A == k.burns \cup {b}
             d == [k EXCEPT !.supply = s, !.burns = A]
  <2>1. s \in Nat /\ A \in SUBSET Burn /\ k \in Contract
    BY SMTT(30), <1>1, <1>3, <1>4
  <2>2. c = d
    BY Zenon
  <2> HIDE DEF s, A, k, c
  <2>3. d.supply = s /\ d.burns = A /\ d.minted = k.minted /\ d.approved = k.approved
    BY Zenon, <2>1 DEF Contract
  <2>4. d \in Contract
    BY Zenon, <2>1 DEF Contract
  <2> HIDE DEF d
  <2>5. c.supply = s /\ c.burns = A /\ c.minted = k.minted /\ c \in Contract
    BY Zenon, <2>2, <2>3, <2>4
  <2> QED BY Zenon, <2>5 DEF s, A, k
<1> HIDE DEF c
<1>6. b \notin B
  BY SMTT(30), <1>2, <1>4
<1>7. Units(c.burns) = Units(B) + u /\ IsFiniteSet(c.burns) /\ Units(B) \in Nat
  <2>1. Units(B \cup {b}) = Units(B) + b.units /\ IsFiniteSet(B \cup {b})
    BY Zenon, <1>1, <1>2, <1>4, <1>6, UnitsAdd
  <2>2. Units(B) \in Nat
    <3> HIDE DEF B
    <3>1. B \in SUBSET B
      BY Zenon
    <3> QED BY Zenon, <1>1, <1>2, <3>1, UnitsSplit
  <2> QED BY Zenon, <1>4, <1>5, <2>1, <2>2
<1>8. Covered(c)
  <2>1. c.supply + Units(c.burns) = Contracts.supply + Units(B)
    BY SMTT(30), <1>3, <1>5, <1>7
  <2> QED BY Zenon, <1>2, <1>5, <2>1 DEF Covered
<1>9. \A a \in c.burns : a.block <= Height + 1
  BY SMTT(30), <1>1, <1>4, <1>5
<1>10. B = {a \in c.burns : a.block <= Height}
  BY SMTT(30), <1>1, <1>4, <1>5
<1>11. \A a \in c.burns : a.id < txs'
  BY SMTT(30), <1>2, <1>3, <1>4, <1>5
<1>12. /\ UNCHANGED <<scene, native, outbox, watch, op>>
       /\ mint' \in [Relayers -> Minting]
       /\ \A r \in Relayers : mint'[r].pc = "send" => mint'[r].lock \in Escrowed
  BY Zenon DEF BurnToNative, setup, minters, BridgeInv, TypedRelayers, Solvent
<1>13. txs' \in Nat
  BY SMTT(30), <1>2, <1>3
<1> QED BY Zenon, <1>3, <1>5, <1>7, <1>8, <1>9, <1>10, <1>11, <1>12, <1>13, Mining

\* The contracts' burns stay what they are.
LEMMA MiningNoBurn ==
    ASSUME BridgeInv, NEW c \in Contract, Mine(c), c.burns = Contracts.burns, Covered(c),
           UNCHANGED <<scene, native, outbox, watch, op>>, txs' \in {txs, txs + 1},
           mint' \in [Relayers -> Minting],
           \A r \in Relayers : mint'[r].pc = "send" => mint'[r].lock \in Escrowed
    PROVE  BridgeInv'
<1>1. /\ Height \in Nat /\ txs \in Nat /\ IsFiniteSet(c.burns) /\ c.burns \subseteq Burn
      /\ \A a \in c.burns : a.block \in Nat /\ a.block <= Height
      /\ \A a \in c.burns : a.id < txs
  BY Zenon, Now DEF BridgeInv, BurnsByBlock, TypedChains
<1>2. \A a \in c.burns : a.id \in Nat
  BY Zenon, <1>1 DEF Burn
<1>3. /\ \A a \in c.burns : a.block <= Height + 1
      /\ \A a \in c.burns : a.id < txs'
      /\ txs' \in Nat
  BY SMTT(30), <1>1, <1>2
<1>4. Contracts.burns = {a \in c.burns : a.block <= Height}
  BY Zenon, <1>1
<1> QED BY Zenon, <1>1, <1>3, <1>4, Mining

\* treasuryRecyclingBurn: the supply gets smaller.
LEMMA Recycling ==
    ASSUME BridgeInv, NEW u \in 1..MaxUnits, TreasuryRecyclingBurn(u)
    PROVE  BridgeInv'
<1> DEFINE c == [Contracts EXCEPT !.supply = @ - u \div 2]
<1>1. Contracts \in Contract /\ Contracts = evm.recent[Depth] /\ Depth \in 1..Depth
  BY Zenon, Now DEF BridgeInv
<1>2. Contracts.supply \in Nat /\ u \in 2..Contracts.supply /\ txs' = txs + 1 /\ Mine(c)
  BY Zenon, <1>1 DEF TreasuryRecyclingBurn, Contract
<1>3. u \div 2 \in Nat /\ u \div 2 <= u
  BY SMTT(30), <1>2
<1>4. /\ c.supply = Contracts.supply - u \div 2 /\ c.burns = Contracts.burns
      /\ c.minted = Contracts.minted /\ c \in Contract
  BY SMTT(30), <1>1, <1>2, <1>3 DEF Contract
<1> HIDE DEF c
<1>5. Covered(c)
  <2>1. Covered(Contracts) /\ IsFiniteSet(Contracts.burns) /\ Contracts.burns \subseteq Burn
    BY Zenon, <1>1, Now DEF BridgeInv, BurnsByBlock, Solvent
  <2>2. Units(Contracts.burns) \in Nat
    <3> DEFINE B == Contracts.burns
    <3> HIDE DEF B
    <3>1. B \subseteq Burn /\ IsFiniteSet(B) /\ B \in SUBSET B
      BY Zenon, <2>1 DEF B
    <3>2. Units(B) \in Nat
      BY Zenon, <3>1, UnitsSplit
    <3> QED BY Zenon, <3>2 DEF B
  <2>3. Scale * Coins(Contracts.minted) \in Nat
    <3>1. Contracts.minted \in SUBSET Locks
      BY Zenon, <1>1, BridgeConstants DEF Contract
    <3>2. Coins(Contracts.minted) \in Nat
      BY Zenon, <3>1, CoinsSplit
    <3> QED BY SMTT(30), <3>2, BridgeConstants
  <2>4. c.supply + Units(c.burns) <= Contracts.supply + Units(Contracts.burns)
    BY SMTT(30), <1>2, <1>3, <1>4, <2>2
  <2> QED BY SMTT(30), <1>2, <1>3, <1>4, <2>1, <2>2, <2>3, <2>4 DEF Covered
<1>6. /\ UNCHANGED <<scene, native, outbox, watch, op>>
      /\ mint' \in [Relayers -> Minting]
      /\ \A r \in Relayers : mint'[r].pc = "send" => mint'[r].lock \in Escrowed
  BY Zenon DEF TreasuryRecyclingBurn, setup, minters, BridgeInv, TypedRelayers, Solvent
<1>7. txs' \in {txs, txs + 1}
  BY Zenon, <1>2
<1> QED BY Zenon, <1>2, <1>4, <1>5, <1>6, <1>7, MiningNoBurn

\* An empty block.
LEMMA Idling ==
    ASSUME BridgeInv, EmptyBlock
    PROVE  BridgeInv'
<1>1. Contracts \in Contract /\ Contracts = evm.recent[Depth] /\ Depth \in 1..Depth
  BY Zenon, Now DEF BridgeInv
<1>2. Covered(Contracts)
  BY Zenon, <1>1 DEF BridgeInv, Solvent
<1>3. Mine(Contracts) /\ txs' = txs
  BY Zenon DEF EmptyBlock
<1>4. /\ UNCHANGED <<scene, native, outbox, watch, op>>
      /\ mint' \in [Relayers -> Minting]
      /\ \A r \in Relayers : mint'[r].pc = "send" => mint'[r].lock \in Escrowed
  BY Zenon DEF EmptyBlock, setup, minters, BridgeInv, TypedRelayers, Solvent
<1>5. txs' \in {txs, txs + 1}
  BY Zenon, <1>3
<1> QED BY Zenon, <1>1, <1>2, <1>3, <1>4, <1>5, MiningNoBurn

\* Every state kept on the EVM chain counts in natural numbers.
LEMMA Counts ==
    ASSUME NEW c \in Contract, IsFiniteSet(c.burns)
    PROVE  /\ Units(c.burns) \in Nat /\ Coins(c.minted) \in Nat
           /\ c.supply \in Nat /\ c.minted \in SUBSET Locks
           /\ Scale * Coins(c.minted) \in Nat
<1> DEFINE B == c.burns
<1>1. B \subseteq Burn /\ B \in SUBSET B /\ c.supply \in Nat /\ c.minted \in SUBSET Locks
  BY Zenon, BridgeConstants DEF Contract
<1>2. Units(B) \in Nat
  <2>1. IsFiniteSet(B)
    BY Zenon
  <2> HIDE DEF B
  <2> QED BY Zenon, <1>1, <2>1, UnitsSplit
<1>3. Coins(c.minted) \in Nat
  BY Zenon, <1>1, CoinsSplit
<1>4. Scale * Coins(c.minted) \in Nat
  BY SMTT(30), <1>3, BridgeConstants
<1> QED BY Zenon, <1>1, <1>2, <1>3, <1>4

\* approveMint: the approval of a lock of the escrow leaves a covered state.
LEMMA Approving ==
    ASSUME BridgeInv, NEW r \in Relayers, NEW l \in Escrowed, ~ApproveMintReverts(r, l)
    PROVE  /\ ApproveMint(r, l) \in Contract
           /\ ApproveMint(r, l).burns = Contracts.burns
           /\ Covered(ApproveMint(r, l))
<1> DEFINE k == Contracts
           a == k.approved[l] \cup {r}
           q == Cardinality(a) >= scene.threshold
           m == IF q THEN k.minted \cup {l} ELSE k.minted
           s == IF q THEN k.supply + Scale * Amount[l] ELSE k.supply
           p == [k.approved EXCEPT ![l] = a]
           c == ApproveMint(r, l)
<1>1. k \in Contract /\ k = evm.recent[Depth] /\ Depth \in 1..Depth
  BY Zenon, Now DEF BridgeInv
<1>2. Covered(k) /\ IsFiniteSet(k.burns)
  BY Zenon, <1>1 DEF BridgeInv, Solvent, BurnsByBlock
<1>3. l \in ToEscrow /\ l \in locked /\ l \in Locks /\ l \notin k.minted
  BY Zenon, BridgeConstants DEF Escrowed, ApproveMintReverts
<1>4. Amount[l] \in Nat /\ Scale \in Nat /\ Scale * Amount[l] \in Nat
  <2>1. Amount[l] \in Nat /\ Scale \in Nat
    BY Zenon, <1>3, BridgeConstants
  <2> QED BY SMTT(30), <2>1
<1>5. c = [k EXCEPT !.approved[l] = a, !.minted = m, !.supply = s]
  BY Zenon DEF ApproveMint
<1>6. /\ Units(k.burns) \in Nat /\ Coins(k.minted) \in Nat /\ k.supply \in Nat
      /\ k.minted \in SUBSET Locks
  BY Zenon, <1>1, <1>2, Counts
<1> HIDE DEF k
<1>7. a \in SUBSET Relayers /\ k.approved \in [Locks -> SUBSET Relayers]
  BY Zenon, <1>1, <1>3 DEF Contract
<1> HIDE DEF a, q
<1>8. p \in [Locks -> SUBSET Relayers]
  BY Zenon, <1>7
<1>9. m \in SUBSET ToEscrow /\ s \in Nat
  <2>1. k.minted \in SUBSET ToEscrow
    BY Zenon, <1>1 DEF Contract
  <2>2. k.supply + Scale * Amount[l] \in Nat
    BY SMTT(30), <1>4, <1>6
  <2> QED BY Zenon, <1>3, <1>6, <2>1, <2>2
<1> HIDE DEF m, s, c
<1>10. c = [k EXCEPT !.approved = p, !.minted = m, !.supply = s]
  BY Zenon, <1>1, <1>5 DEF Contract
<1> HIDE DEF p
<1>11. /\ c \in Contract /\ c.burns = k.burns /\ c.minted = m /\ c.supply = s
  BY Zenon, <1>1, <1>8, <1>9, <1>10 DEF Contract
<1>12. m \subseteq locked
  BY Zenon, <1>2, <1>3 DEF Covered, m
<1>13. s + Units(k.burns) <= Scale * Coins(m)
  <2>1. CASE q
    <3>1. m = k.minted \cup {l} /\ s = k.supply + Scale * Amount[l]
      BY Zenon, <2>1 DEF m, s
    <3>2. Coins(m) = Coins(k.minted) + Amount[l]
      BY Zenon, <1>3, <1>6, <3>1, CoinsAdd
    <3>3. Scale * Coins(m) = Scale * Coins(k.minted) + Scale * Amount[l]
      BY SMTT(30), <1>4, <1>6, <3>2
    <3>4. k.supply + Units(k.burns) <= Scale * Coins(k.minted) /\ Scale * Coins(k.minted) \in Nat
      BY SMTT(30), <1>2, <1>4, <1>6 DEF Covered
    <3> QED BY SMTT(30), <1>4, <1>6, <3>1, <3>3, <3>4
  <2>2. CASE ~q
    BY Zenon, <1>2, <2>2 DEF Covered, m, s
  <2> QED BY Zenon, <2>1, <2>2
<1>14. Covered(c)
  BY Zenon, <1>11, <1>12, <1>13 DEF Covered
<1> QED BY Zenon, <1>11, <1>14 DEF c, k

\* The Node relayer sends its approval.
LEMMA Sending ==
    ASSUME BridgeInv, NEW r \in Relayers, SendMint(r), ~ApproveMintReverts(r, mint[r].lock)
    PROVE  BridgeInv'
<1> DEFINE l == mint[r].lock
<1>1. /\ mint \in [Relayers -> Minting] /\ mint[r].pc = "send" /\ l \in Escrowed
      /\ \A x \in Relayers : mint[x].pc = "send" => mint[x].lock \in Escrowed
      /\ UNCHANGED <<scene, native, outbox, watch, op>> /\ txs' = txs
  BY Zenon DEF SendMint, BridgeInv, TypedRelayers, Solvent, setup
<1>2. Mine(ApproveMint(r, l)) /\ mint' = [mint EXCEPT ![r].pc = "mined"]
  BY Zenon DEF SendMint
<1>3. mint' \in [Relayers -> Minting]
  BY Zenon, <1>1, <1>2 DEF Minting
<1>4. \A x \in Relayers : mint'[x].pc = "send" => mint'[x].lock \in Escrowed
  BY Zenon, <1>1, <1>2 DEF Minting
<1>5. /\ ApproveMint(r, l) \in Contract
      /\ ApproveMint(r, l).burns = Contracts.burns
      /\ Covered(ApproveMint(r, l))
  BY Zenon, <1>1, Approving
<1>6. txs' \in {txs, txs + 1}
  BY Zenon, <1>1
<1> QED BY Zenon, <1>1, <1>2, <1>3, <1>4, <1>5, <1>6, MiningNoBurn

\* What was released was burned for good.
LEMMA Settled ==
    ASSUME BridgeInv
    PROVE  /\ released \subseteq Contracts.burns /\ released \subseteq Burn
           /\ IsFiniteSet(released) /\ Units(released) \in Nat
<1>1. /\ released \subseteq Contracts.burns /\ Contracts.burns \subseteq Burn
      /\ IsFiniteSet(Contracts.burns)
  BY Zenon, Now DEF BridgeInv, Final, BurnsByBlock
<1>2. IsFiniteSet(released)
  BY Zenon, <1>1, FS_Subset
<1>3. released \subseteq Burn /\ released \in SUBSET released
  BY Zenon, <1>1
<1>4. Units(released) \in Nat
  BY Zenon, <1>2, <1>3, UnitsSplit
<1> QED BY Zenon, <1>1, <1>2, <1>3, <1>4

\* A reorganization keeps what is confirmed.
LEMMA Reorganizing ==
    ASSUME BridgeInv, NEW k \in 1..MinConfirmations, Reorg(k)
    PROVE  BridgeInv'
<1> USE DEF BridgeInv
<1>1. /\ evm'.height = Height + 1 /\ evm'.recent \in [1..Depth -> Contract]
      /\ \A i \in 1..Depth : \E j \in 1..Depth : evm'.recent[i] = evm.recent[j]
      /\ \A i \in 1..Depth :
            evm'.recent[i].burns =
               {b \in evm'.recent[Depth].burns : b.block <= evm'.height - Depth + i}
      /\ evm'.recent[Depth].burns \subseteq Contracts.burns
      /\ evm.recent[1].burns \subseteq evm'.recent[1].burns
  BY Zenon, Reorganized
<1>2. /\ scene' = scene /\ nonce' = nonce /\ escrow' = escrow /\ locked' = locked
      /\ released' = released /\ mempool' = mempool /\ txs' = txs /\ outbox' = outbox
      /\ watch' = watch /\ op' = op /\ mint' = mint
  BY Zenon DEF Reorg, setup, native, minters
<1>3. Height \in Nat /\ Contracts' = evm'.recent[Depth]
  BY Zenon, Now DEF Contracts, Depth
<1>4. TypedChains'
  BY SMTT(30), <1>1, <1>2, <1>3 DEF TypedChains
<1>5. TypedRelayers'
  BY Zenon, <1>2 DEF TypedRelayers
<1>6. BurnsByBlock'
  <2>1. IsFiniteSet(evm'.recent[Depth].burns)
    BY Zenon, <1>1, FS_Subset DEF BurnsByBlock
  <2>2. \A b \in evm'.recent[Depth].burns : b.id < txs
    BY Zenon, <1>1 DEF BurnsByBlock
  <2> QED BY Zenon, <1>1, <1>2, <1>3, <2>1, <2>2 DEF BurnsByBlock, BlockOf, Height
<1>7. Final'
  <2>1. Height' = Height + 1 /\ watch.head \in Nat /\ watch.head <= Height
    BY Zenon, <1>1 DEF Height, Final, TypedRelayers, Watching
  <2>2. watch'.head <= Height'
    BY SMTT(30), <1>2, <1>3, <2>1
  <2> QED BY Zenon, <1>1, <1>2, <2>2 DEF Final, Whole
<1>8. Solvent'
  <2>1. \A i \in 1..Depth : Covered(evm'.recent[i])
    BY Zenon, <1>1 DEF Solvent
  <2>2. Escrowed' = Escrowed
    BY Zenon, <1>2 DEF Escrowed
  <2> QED BY Zenon, <1>2, <2>1, <2>2 DEF Solvent, Covered
<1>9. EscrowExact'
  BY Zenon, <1>2 DEF EscrowExact, Holdings, Escrowed
<1> QED BY Zenon, <1>4, <1>5, <1>6, <1>7, <1>8, <1>9

\* A lock pays the escrow.
LEMMA Locking ==
    ASSUME BridgeInv, NEW l \in Locks, LockNative(l)
    PROVE  BridgeInv'
<1> USE DEF BridgeInv
<1>1. /\ scene' = scene /\ nonce' = nonce /\ released' = released /\ mempool' = mempool
      /\ txs' = txs /\ outbox' = outbox /\ watch' = watch /\ op' = op /\ mint' = mint
      /\ evm' = evm /\ locked' = locked \cup {l} /\ l \notin locked
  BY Zenon DEF LockNative, setup, minters
<1>2. escrow' = IF l \in ToEscrow THEN escrow + Amount[l] ELSE escrow
  BY Zenon DEF LockNative
<1>3. /\ Amount[l] \in Nat /\ escrow \in Int /\ nonce \in Nat /\ Fee \in Nat /\ Float \in Nat
      /\ Scale \in Nat /\ Escrowed \in SUBSET Locks
  BY Zenon, BridgeConstants DEF TypedChains, Escrowed
<1>4. TypedChains'
  <2>1. escrow' \in Int
    BY SMTT(30), <1>2, <1>3
  <2> QED BY Zenon, <1>1, <2>1 DEF TypedChains
<1>5. TypedRelayers' /\ BurnsByBlock' /\ Final'
  BY Zenon, <1>1 DEF TypedRelayers, BurnsByBlock, Final, Contracts, BlockOf, Height, Whole
<1>6. Solvent'
  <2>1. \A c : Covered(c) => c.minted \subseteq locked'
    BY Zenon, <1>1 DEF Covered
  <2>2. \A r \in Relayers : mint'[r].pc = "send" => mint'[r].lock \in Escrowed'
    BY Zenon, <1>1 DEF Solvent, Escrowed
  <2> QED BY Zenon, <1>1, <2>1, <2>2 DEF Solvent, Covered
<1>7. EscrowExact'
  <2>1. CASE l \in ToEscrow
    <3>1. Escrowed' = Escrowed \cup {l} /\ l \notin Escrowed
      BY Zenon, <1>1, <2>1 DEF Escrowed
    <3>2. Coins(Escrowed') = Coins(Escrowed) + Amount[l] /\ Coins(Escrowed) \in Nat
      BY Zenon, <1>3, <3>1, CoinsAdd, CoinsSplit
    <3>3. Holdings' = Holdings + Amount[l] /\ Holdings \in Int
      BY SMTT(30), <1>1, <1>2, <1>3, <2>1 DEF Holdings
    <3>4. /\ Scale * (Holdings + Amount[l]) = Scale * Holdings + Scale * Amount[l]
          /\ Scale * (Coins(Escrowed) + Amount[l]) = Scale * Coins(Escrowed) + Scale * Amount[l]
          /\ Scale * Holdings \in Int /\ Scale * Amount[l] \in Int /\ Scale * Coins(Escrowed) \in Nat
      BY SMTT(30), <1>3, <3>2, <3>3
    <3>5. Units(released) \in Nat
      BY Zenon, Settled
    <3> QED BY SMTT(30), <1>1, <3>2, <3>3, <3>4, <3>5 DEF EscrowExact
  <2>2. CASE l \notin ToEscrow
    <3>1. Escrowed' = Escrowed
      BY Zenon, <1>1, <2>2 DEF Escrowed
    <3>2. Holdings' = Holdings
      BY Zenon, <1>1, <1>2, <2>2 DEF Holdings
    <3> QED BY Zenon, <1>1, <3>1, <3>2 DEF EscrowExact
  <2> QED BY Zenon, <2>1, <2>2
<1> QED BY Zenon, <1>4, <1>5, <1>6, <1>7

\* A release pays a burn of the outbox that was not paid before.
LEMMA Releasing ==
    ASSUME BridgeInv, NEW t \in mempool, NativeBlock(t)
    PROVE  BridgeInv'
<1> USE DEF BridgeInv
<1> DEFINE b == t.burn
           q == b.units \div Scale
<1>1. /\ scene' = scene /\ locked' = locked
      /\ txs' = txs /\ outbox' = outbox /\ watch' = watch /\ op' = op /\ mint' = mint
      /\ evm' = evm /\ nonce' = nonce + 1 /\ escrow' = escrow - (q + Fee)
      /\ released' = released \cup {b} /\ mempool' = mempool \ {t}
      /\ t.signed /\ b \notin released
  BY Zenon DEF NativeBlock, Applies, setup, minters
<1>2. b \in outbox /\ Whole(b) /\ b \in Burn
  BY Zenon, <1>1 DEF Final, TypedRelayers
<1>3. /\ escrow \in Int /\ nonce \in Nat /\ Fee \in Nat /\ Float \in Nat
      /\ Scale \in Nat /\ Scale > 0 /\ b.units \in Nat /\ Escrowed \in SUBSET Locks
  BY SMTT(30), <1>2, BridgeConstants DEF TypedChains, Burn, Escrowed
<1>4. q \in Nat /\ b.units = Scale * q
  <2> DEFINE n == b.units
  <2>1. n % Scale = 0 /\ n \in Nat
    BY Zenon, <1>2, <1>3 DEF Whole
  <2> HIDE DEF n
  <2>2. n \div Scale \in Nat /\ n = Scale * (n \div Scale)
    BY SMTT(30), <1>3, <2>1
  <2> QED BY Zenon, <2>2 DEF n
<1> HIDE DEF q, b
<1>5. TypedChains'
  <2>1. escrow' \in Int /\ nonce' \in Nat
    BY SMTT(30), <1>1, <1>3, <1>4
  <2>2. mempool' \subseteq mempool
    BY Zenon, <1>1
  <2>3. mempool' \in SUBSET [burn : Burn, nonce : Nat, signed : BOOLEAN]
    BY Zenon, <2>2 DEF TypedChains
  <2> QED BY Zenon, <1>1, <2>1, <2>3 DEF TypedChains
<1>6. TypedRelayers' /\ BurnsByBlock' /\ Solvent'
  BY Zenon, <1>1 DEF TypedRelayers, BurnsByBlock, Contracts, BlockOf, Height, Solvent, Covered, Escrowed
<1>7. Final'
  BY Zenon, <1>1, <1>2 DEF Final, Height, Whole
<1>8. EscrowExact'
  <2>1. released \subseteq Burn /\ IsFiniteSet(released) /\ Units(released) \in Nat
    BY Zenon, Settled
  <2>2. Units(released') = Units(released) + b.units
    BY Zenon, <1>1, <1>2, <2>1, UnitsAdd
  <2>3. Holdings' = Holdings - q /\ Holdings \in Int
    <3>1. Fee * (nonce + 1) = Fee * nonce + Fee /\ Fee * nonce \in Nat
      BY SMTT(30), <1>3
    <3> QED BY SMTT(30), <1>1, <1>3, <1>4, <3>1 DEF Holdings
  <2>4. Scale * (Holdings - q) = Scale * Holdings - Scale * q /\ Scale * Holdings \in Int
    BY SMTT(30), <1>3, <1>4, <2>3
  <2>5. Escrowed' = Escrowed
    BY Zenon, <1>1 DEF Escrowed
  <2> QED BY SMTT(30), <1>3, <1>4, <2>1, <2>2, <2>3, <2>4, <2>5 DEF EscrowExact
<1> QED BY Zenon, <1>5, <1>6, <1>7, <1>8

\* A step of the relayers and the operator that leaves both ledgers alone.
LEMMA Relaying ==
    ASSUME BridgeInv, UNCHANGED <<scene, evm, txs, nonce, escrow, locked, released>>,
           mempool' \in SUBSET [burn : Burn, nonce : Nat, signed : BOOLEAN],
           TypedRelayers', Final',
           \A r \in Relayers : mint'[r].pc = "send" => mint'[r].lock \in Escrowed
    PROVE  BridgeInv'
<1> USE DEF BridgeInv
<1>1. TypedChains'
  BY Zenon DEF TypedChains
<1>2. BurnsByBlock'
  BY Zenon DEF BurnsByBlock, Contracts, BlockOf, Height
<1>3. Solvent'
  BY Zenon DEF Solvent, Covered, Escrowed
<1>4. EscrowExact'
  BY Zenon DEF EscrowExact, Holdings, Escrowed
<1> QED BY Zenon, <1>1, <1>2, <1>3, <1>4

\* A step of a Node relayer.
LEMMA MintersStep ==
    ASSUME BridgeInv, NEW r \in Relayers, MintStep(r) \/ CrashMint(r)
    PROVE  BridgeInv'
<1>1. /\ mint \in [Relayers -> Minting]
      /\ \A x \in Relayers : mint[x].pc = "send" => mint[x].lock \in Escrowed
      /\ mempool \in SUBSET [burn : Burn, nonce : Nat, signed : BOOLEAN]
  BY Zenon DEF BridgeInv, TypedRelayers, TypedChains, Solvent
<1>2. ASSUME UNCHANGED <<scene, native, evm, txs, outbox, watch, op>>,
             mint' \in [Relayers -> Minting],
             \A x \in Relayers : mint'[x].pc = "send" => mint'[x].lock \in Escrowed
      PROVE  BridgeInv'
  <2>1. /\ UNCHANGED <<scene, evm, txs, nonce, escrow, locked, released, mempool>>
        /\ outbox' = outbox /\ watch' = watch /\ op' = op
    BY Zenon, <1>2 DEF native
  <2>2. TypedRelayers'
    BY Zenon, <1>2, <2>1 DEF BridgeInv, TypedRelayers
  <2>3. Final'
    BY Zenon, <2>1 DEF BridgeInv, Final, Height, Whole
  <2> QED BY Zenon, <1>1, <1>2, <2>1, <2>2, <2>3, Relaying
<1>3. ASSUME NEW l \in Locks, SimulateMint(r, l) PROVE BridgeInv'
  <2>1. UNCHANGED <<scene, native, evm, txs, outbox, watch, op>> /\ l \in Escrowed
    BY Zenon, <1>3 DEF SimulateMint, setup, Escrowed, IsMintableNativeLock
  <2>2. CASE mint' = mint
    BY Zenon, <1>1, <1>2, <2>1, <2>2
  <2>3. CASE mint' = [mint EXCEPT ![r] = [pc |-> "send", lock |-> l]]
    <3>1. mint' \in [Relayers -> Minting]
      BY Zenon, <1>1, <2>3 DEF Minting
    <3>2. \A x \in Relayers : mint'[x].pc = "send" => mint'[x].lock \in Escrowed
      BY Zenon, <1>1, <2>1, <2>3
    <3> QED BY Zenon, <1>2, <2>1, <3>1, <3>2
  <2> QED BY Zenon, <1>3, <2>2, <2>3 DEF SimulateMint
<1>4. ASSUME mint' = [mint EXCEPT ![r].pc = "poll"],
             UNCHANGED <<scene, native, evm, txs, outbox, watch, op>>
      PROVE  BridgeInv'
  <2>1. mint' \in [Relayers -> Minting]
    BY Zenon, <1>1, <1>4 DEF Minting
  <2>2. \A x \in Relayers : mint'[x].pc = "send" => mint'[x].lock \in Escrowed
    BY Zenon, <1>1, <1>4 DEF Minting
  <2> QED BY Zenon, <1>2, <1>4, <2>1, <2>2
<1>5. CASE SendMint(r)
  <2>1. CASE ApproveMintReverts(r, mint[r].lock)
    BY Zenon, <1>4, <1>5, <2>1 DEF SendMint, setup
  <2>2. CASE ~ApproveMintReverts(r, mint[r].lock)
    BY Zenon, <1>5, <2>2, Sending
  <2> QED BY Zenon, <2>1, <2>2
<1>6. CASE MarkProcessed(r)
  BY Zenon, <1>4, <1>6 DEF MarkProcessed, setup
<1>7. CASE CrashMint(r)
  BY Zenon, <1>4, <1>7 DEF CrashMint, setup
<1> QED BY Zenon, <1>3, <1>5, <1>6, <1>7 DEF MintStep

\* A step of the Go relayer that posts nothing.
LEMMA Observing ==
    ASSUME BridgeInv, UNCHANGED <<scene, native, evm, txs, op, mint>>,
           watch' \in Watching, watch'.head <= Height,
           watch'.pc \in {"work", "post"} => watch'.todo \subseteq evm.recent[1].burns,
           outbox \subseteq outbox', outbox' \subseteq evm.recent[1].burns,
           \A b \in outbox' : Whole(b)
    PROVE  BridgeInv'
<1>1. UNCHANGED <<scene, evm, txs, nonce, escrow, locked, released, mempool>>
  BY Zenon DEF native
<1>2. outbox' \subseteq Burn
  BY Zenon, Now DEF BridgeInv
<1>3. TypedRelayers'
  BY Zenon, <1>2 DEF BridgeInv, TypedRelayers, Watching
<1>4. Final'
  BY Zenon, <1>1 DEF BridgeInv, Final, Height, Whole
<1>5. /\ mempool' \in SUBSET [burn : Burn, nonce : Nat, signed : BOOLEAN]
      /\ \A r \in Relayers : mint'[r].pc = "send" => mint'[r].lock \in Escrowed
  BY Zenon, <1>1 DEF BridgeInv, TypedChains, Solvent
<1> QED BY Zenon, <1>1, <1>3, <1>4, <1>5, Relaying

\* A confirmed burn is in the oldest state of the EVM chain.
LEMMA ConfirmedBurns ==
    ASSUME BridgeInv, NEW b \in Contracts.burns, b.block <= ConfirmedHead(watch.head)
    PROVE  b \in evm.recent[1].burns
<1>1. b.block \in Nat /\ 1 \in 1..Depth /\ Height \in Nat
  BY Zenon, Now DEF BridgeInv
<1>2. watch.head \in Nat /\ watch.head <= Height
  BY Zenon DEF BridgeInv, TypedRelayers, Final, Watching
<1>3. b.block <= Height - Depth + 1
  BY SMTT(30), <1>1, <1>2, DepthNat DEF ConfirmedHead
<1> QED BY Zenon, <1>1, <1>3 DEF BridgeInv, BurnsByBlock, BlockOf

\* A step of the Go relayer.
LEMMA WatchingStep ==
    ASSUME BridgeInv, WatchStep \/ CrashWatch
    PROVE  BridgeInv'
<1>1. /\ watch \in Watching /\ watch.head <= Height /\ Height \in Nat
      /\ (watch.pc \in {"work", "post"} => watch.todo \subseteq evm.recent[1].burns)
      /\ outbox \subseteq evm.recent[1].burns /\ \A b \in outbox : Whole(b)
      /\ evm.recent[1].burns \subseteq Contracts.burns /\ Contracts.burns \subseteq Burn
      /\ nonce \in Nat
  BY Zenon, Now DEF BridgeInv, TypedRelayers, TypedChains, Final, Watching
<1>2. ASSUME UNCHANGED <<scene, native, evm, txs, op, mint, outbox>>,
             watch' \in Watching, watch'.head <= Height,
             watch'.pc \in {"work", "post"} => watch'.todo \subseteq evm.recent[1].burns
      PROVE  BridgeInv'
  BY Zenon, <1>1, <1>2, Observing
<1>3. CASE ReadHead
  <2> DEFINE n == IF watch.next = 0 THEN ConfirmedHead(Height) ELSE watch.next
             v == [watch EXCEPT !.next = n]
             w == [watch EXCEPT !.next = n, !.head = Height, !.pc = "logs"]
  <2>1. UNCHANGED <<scene, native, evm, txs, op, mint, outbox>> /\ watch' \in {v, w}
    BY Zenon, <1>3 DEF ReadHead, setup, minters
  <2>2. watch.pc = "sleep" /\ n \in Int
    BY SMTT(30), <1>1, <1>3, BridgeConstants DEF ReadHead, ConfirmedHead, Watching
  <2> HIDE DEF n
  <2>3. v \in Watching /\ v.head = watch.head /\ v.pc = "sleep"
    BY Zenon, <1>1, <2>2 DEF Watching
  <2>4. w \in Watching /\ w.head = Height /\ w.pc = "logs"
    BY Zenon, <1>1, <2>2 DEF Watching
  <2> HIDE DEF v, w
  <2>5. watch' \in Watching /\ watch'.head <= Height /\ watch'.pc \notin {"work", "post"}
    BY SMTT(30), <1>1, <2>1, <2>3, <2>4
  <2> QED BY Zenon, <1>2, <2>1, <2>5
<1>4. CASE ReadLogs
  <2> DEFINE L == {b \in Contracts.burns : b.block \in watch.next..ConfirmedHead(watch.head)}
  <2>1. /\ UNCHANGED <<scene, native, evm, txs, op, mint, outbox>>
        /\ watch' = [watch EXCEPT !.pc = "work", !.todo = L]
    BY Zenon, <1>4 DEF ReadLogs, setup, minters
  <2>2. \A b \in L : b.block <= ConfirmedHead(watch.head)
    BY SMTT(30), <1>1, BridgeConstants DEF Watching, ConfirmedHead
  <2>3. L \subseteq evm.recent[1].burns
    BY Zenon, <2>2, ConfirmedBurns
  <2>4. L \in SUBSET Burn
    BY Zenon, <1>1
  <2> HIDE DEF L
  <2>5. watch' \in Watching /\ watch'.head = watch.head /\ watch'.todo = L
    BY Zenon, <1>1, <2>1, <2>4 DEF Watching
  <2> QED BY Zenon, <1>1, <1>2, <2>1, <2>3, <2>5
<1>5. ASSUME NEW b \in watch.todo, ObserveBurn(b) PROVE BridgeInv'
  <2>1. /\ UNCHANGED <<scene, native, evm, txs, op, mint>> /\ watch.pc = "work"
        /\ b \in evm.recent[1].burns /\ b \in Burn
    BY Zenon, <1>1, <1>5 DEF ObserveBurn, setup, minters
  <2>2. /\ Exit(watch) \in Watching /\ Exit(watch).pc = "down" /\ Exit(watch).head = watch.head
    BY Zenon, <1>1 DEF Exit, Watching
  <2>3. ASSUME NEW w \in Watching, w.head = watch.head, w.todo = watch.todo
        PROVE  /\ Done(w, b) \in Watching /\ Done(w, b).head = watch.head
               /\ Done(w, b).todo = watch.todo \ {b}
    BY Zenon, <2>3 DEF Done, Watching
  <2> DEFINE w == [watch EXCEPT !.seen = @ \cup {b}]
             p == [w EXCEPT !.pc = "post", !.nonce = nonce]
  <2>4. w \in Watching /\ w.head = watch.head /\ w.todo = watch.todo
    BY Zenon, <1>1, <2>1 DEF Watching
  <2> HIDE DEF w
  <2>5. p \in Watching /\ p.head = watch.head /\ p.todo = watch.todo
    BY Zenon, <1>1, <2>4 DEF Watching
  <2> HIDE DEF p
  <2>6. /\ watch' \in {Exit(watch), Done(watch, b), Done(w, b), p}
        /\ (outbox' = outbox \/ (outbox' = outbox \cup {b} /\ Whole(b)))
    BY Zenon, <1>5 DEF ObserveBurn, w, p
  <2>7. /\ watch' \in Watching /\ watch'.head = watch.head
        /\ (watch'.pc \in {"work", "post"} => watch'.todo \subseteq watch.todo)
    BY Zenon, <1>1, <2>2, <2>3, <2>4, <2>5, <2>6
  <2>8. /\ outbox \subseteq outbox' /\ outbox' \subseteq evm.recent[1].burns
        /\ \A a \in outbox' : Whole(a)
    BY Zenon, <1>1, <2>1, <2>6
  <2>9. watch'.pc \in {"work", "post"} => watch'.todo \subseteq evm.recent[1].burns
    BY Zenon, <1>1, <2>1, <2>7
  <2>10. watch'.head <= Height
    BY Zenon, <1>1, <2>7
  <2> QED BY Zenon, <2>1, <2>7, <2>8, <2>9, <2>10, Observing
<1>6. ASSUME NEW b \in watch.todo, PostRelease(b) PROVE BridgeInv'
  <2> DEFINE t == Release(b, watch.nonce, FALSE)
  <2>1. /\ UNCHANGED <<scene, nonce, escrow, locked, released, evm, txs, outbox, op, mint>>
        /\ watch.pc = "post"
    BY Zenon, <1>6 DEF PostRelease, setup, minters
  <2>2. /\ b \in Burn /\ watch.nonce \in Nat
        /\ mempool \in SUBSET [burn : Burn, nonce : Nat, signed : BOOLEAN]
    BY Zenon, <1>1, <2>1 DEF Watching, BridgeInv, TypedChains
  <2>3. t \in [burn : Burn, nonce : Nat, signed : BOOLEAN] /\ t.signed = FALSE
    BY Zenon, <2>2 DEF Release
  <2>4. watch' \in {Done(watch, b), Exit(watch)} /\ mempool' \in {mempool, mempool \cup {t}}
    BY Zenon, <1>6 DEF PostRelease
  <2> HIDE DEF t
  <2>5. /\ Exit(watch) \in Watching /\ Exit(watch).head = watch.head /\ Exit(watch).todo = watch.todo
        /\ Done(watch, b) \in Watching /\ Done(watch, b).head = watch.head
        /\ Done(watch, b).todo = watch.todo \ {b}
    BY Zenon, <1>1 DEF Exit, Done, Watching
  <2>6. watch' \in Watching /\ watch'.head = watch.head /\ watch'.todo \subseteq evm.recent[1].burns
    BY Zenon, <1>1, <2>1, <2>4, <2>5
  <2>7. /\ mempool' \in SUBSET [burn : Burn, nonce : Nat, signed : BOOLEAN]
        /\ \A x \in mempool' : x.signed => x \in mempool
    BY Zenon, <2>2, <2>3, <2>4
  <2>8. TypedRelayers'
    BY Zenon, <2>1, <2>6 DEF BridgeInv, TypedRelayers, Watching
  <2>9. Final'
    BY Zenon, <1>1, <2>1, <2>6, <2>7 DEF BridgeInv, Final, Height, Whole
  <2>10. \A r \in Relayers : mint'[r].pc = "send" => mint'[r].lock \in Escrowed
    BY Zenon, <2>1 DEF BridgeInv, Solvent
  <2> QED BY Zenon, <2>1, <2>7, <2>8, <2>9, <2>10, Relaying
<1>7. CASE EndPass
  <2>1. /\ UNCHANGED <<scene, native, evm, txs, op, mint, outbox>>
        /\ watch' = [watch EXCEPT !.next = ConfirmedHead(watch.head) + 1, !.pc = "sleep"]
    BY Zenon, <1>7 DEF EndPass, setup, minters
  <2>2. ConfirmedHead(watch.head) + 1 \in Int
    BY SMTT(30), <1>1, BridgeConstants DEF ConfirmedHead, Watching
  <2>3. watch' \in Watching /\ watch'.head = watch.head /\ watch'.pc = "sleep"
    BY Zenon, <1>1, <2>1, <2>2 DEF Watching
  <2> QED BY Zenon, <1>1, <1>2, <2>1, <2>3
<1>8. CASE RestartWatch
  <2>1. UNCHANGED <<scene, native, evm, txs, op, mint, outbox>> /\ watch' = Started
    BY Zenon, <1>8 DEF RestartWatch, setup, minters
  <2>2. Started \in Watching /\ Started.head = 0 /\ Started.pc = "sleep"
    <3>1. StartBlock \in Int /\ 0 \in Nat
      BY SMTT(30), BridgeConstants
    <3> QED BY Zenon, <3>1 DEF Started, Watching
  <2>3. \A n \in Nat : 0 <= n
    BY SMTT(30)
  <2>4. watch' \in Watching /\ watch'.head <= Height /\ watch'.pc = "sleep"
    BY Zenon, <1>1, <2>1, <2>2, <2>3
  <2> QED BY Zenon, <1>2, <2>1, <2>4
<1>9. CASE CrashWatch
  <2>1. UNCHANGED <<scene, native, evm, txs, op, mint, outbox>> /\ watch' = Exit(watch)
    BY Zenon, <1>9 DEF CrashWatch, setup, minters
  <2>2. Exit(watch) \in Watching /\ Exit(watch).head = watch.head /\ Exit(watch).pc = "down"
    BY Zenon, <1>1 DEF Exit, Watching
  <2> QED BY Zenon, <1>1, <1>2, <2>1, <2>2
<1> QED BY Zenon, <1>3, <1>4, <1>5, <1>6, <1>7, <1>8, <1>9 DEF WatchStep


\* Every step of the system keeps the invariant.
LEMMA BridgeNext == BridgeInv /\ [Next]_vars => BridgeInv'
<1> SUFFICES ASSUME BridgeInv, [Next]_vars PROVE BridgeInv'
  BY Zenon
<1>1. ASSUME NEW b \in outbox, SignProof(b) PROVE BridgeInv'
  <2>1. /\ UNCHANGED <<scene, evm, txs, nonce, escrow, locked, released, mempool, outbox, watch, mint>>
        /\ op' = [pc |-> "post", burn |-> b, nonce |-> nonce]
    BY Zenon, <1>1 DEF SignProof, setup, native, minters
  <2>2. b \in Burn /\ nonce \in Nat
    BY Zenon DEF BridgeInv, TypedRelayers, TypedChains
  <2>3. op' \in [pc : {"idle", "post"}, burn : Burn, nonce : Nat] /\ op'.burn \in outbox
    BY Zenon, <2>1, <2>2
  <2>4. TypedRelayers'
    BY Zenon, <2>1, <2>3 DEF BridgeInv, TypedRelayers
  <2>5. Final'
    BY Zenon, <2>1, <2>3 DEF BridgeInv, Final, Height, Whole
  <2>6. /\ \A r \in Relayers : mint'[r].pc = "send" => mint'[r].lock \in Escrowed
        /\ mempool' \in SUBSET [burn : Burn, nonce : Nat, signed : BOOLEAN]
    BY Zenon, <2>1 DEF BridgeInv, Solvent, TypedChains
  <2> QED BY Zenon, <2>1, <2>4, <2>5, <2>6, Relaying
<1>2. CASE SubmitNativeRelease
  <2> DEFINE t == Release(op.burn, op.nonce, TRUE)
  <2>1. /\ UNCHANGED <<scene, nonce, escrow, locked, released, evm, txs, outbox, watch, mint>>
        /\ op.pc = "post" /\ op' = [op EXCEPT !.pc = "idle"]
        /\ mempool' \in {mempool, mempool \cup {t}}
    BY Zenon, <1>2 DEF SubmitNativeRelease, setup, minters
  <2>2. /\ op \in [pc : {"idle", "post"}, burn : Burn, nonce : Nat] /\ op.burn \in outbox
        /\ mempool \in SUBSET [burn : Burn, nonce : Nat, signed : BOOLEAN]
        /\ \A x \in mempool : x.signed => x.burn \in outbox
    BY Zenon, <2>1 DEF BridgeInv, TypedRelayers, TypedChains, Final
  <2>3. t \in [burn : Burn, nonce : Nat, signed : BOOLEAN] /\ t.burn \in outbox
    BY Zenon, <2>2 DEF Release
  <2> HIDE DEF t
  <2>4. op' \in [pc : {"idle", "post"}, burn : Burn, nonce : Nat] /\ op'.pc = "idle"
    BY Zenon, <2>1, <2>2
  <2>5. /\ mempool' \in SUBSET [burn : Burn, nonce : Nat, signed : BOOLEAN]
        /\ \A x \in mempool' : x.signed => x.burn \in outbox
    BY Zenon, <2>1, <2>2, <2>3
  <2>6. TypedRelayers'
    BY Zenon, <2>1, <2>4 DEF BridgeInv, TypedRelayers
  <2>7. op'.pc # "post"
    BY Zenon, <2>4
  <2>8. Final'
    BY Zenon, <2>1, <2>5, <2>7 DEF BridgeInv, Final, Height, Whole
  <2>9. \A r \in Relayers : mint'[r].pc = "send" => mint'[r].lock \in Escrowed
    BY Zenon, <2>1 DEF BridgeInv, Solvent
  <2> QED BY Zenon, <2>1, <2>5, <2>6, <2>8, <2>9, Relaying
<1>3. CASE UNCHANGED vars
  <2>1. /\ UNCHANGED <<scene, evm, txs, nonce, escrow, locked, released, mempool>>
        /\ outbox' = outbox /\ watch' = watch /\ op' = op /\ mint' = mint
    BY Zenon, <1>3 DEF vars, setup, native, minters
  <2>2. TypedRelayers' /\ Final'
    BY Zenon, <2>1 DEF BridgeInv, TypedRelayers, Final, Height, Whole
  <2>3. /\ \A r \in Relayers : mint'[r].pc = "send" => mint'[r].lock \in Escrowed
        /\ mempool' \in SUBSET [burn : Burn, nonce : Nat, signed : BOOLEAN]
    BY Zenon, <2>1 DEF BridgeInv, Solvent, TypedChains
  <2> QED BY Zenon, <2>1, <2>2, <2>3, Relaying
<1>4. CASE \/ \E l \in Locks : LockNative(l)
           \/ \E t \in mempool : NativeBlock(t)
  BY Zenon, <1>4, Locking, Releasing
<1>5. CASE \/ \E u \in 1..MaxUnits : BurnToNative(u) \/ TreasuryRecyclingBurn(u)
           \/ EmptyBlock
           \/ \E k \in 1..MinConfirmations : Reorg(k)
  BY Zenon, <1>5, Burning, Recycling, Idling, Reorganizing
<1>6. CASE \/ \E r \in Relayers : MintStep(r) \/ CrashMint(r)
           \/ WatchStep \/ CrashWatch
  BY Zenon, <1>6, MintersStep, WatchingStep
<1> QED BY Zenon, <1>1, <1>2, <1>3, <1>4, <1>5, <1>6 DEF Next

-----------------------------------------------------------------------------
(***************************************************************************)
(* The theorems.                                                           *)
(***************************************************************************)
\* BridgeInv is inductive: the last states of the EVM chain share their burns
\* up to each block, the relayers rely on the oldest only, every one of the
\* states is covered by locks, and the escrow is exact to the coin.
THEOREM BridgeInvariant == Spec => []BridgeInv
<1>1. Init => BridgeInv
  BY Zenon, BridgeInit
<1>2. BridgeInv /\ [Next]_vars => BridgeInv'
  BY Zenon, BridgeNext
<1> QED BY <1>1, <1>2, PTL DEF Spec

\* watchEVM writes no proof of a burn that a reorganization within
\* -min-confirmations can take back.
THEOREM ProofsStay == Spec => []ProofsFinal
<1>1. BridgeInv => ProofsFinal
  BY Zenon, Now DEF BridgeInv, Final, ProofsFinal
<1> QED BY <1>1, BridgeInvariant, PTL

\* What the escrow holds covers the wrapped supply, the burns still to be
\* released and the locks still to be minted, whatever crashes, lost races,
\* repeated releases and reorganizations happen.
THEOREM AlwaysBacked == Spec => []Backed
<1>1. ASSUME BridgeInv PROVE Backed
  <2> DEFINE k == Contracts
             R == released
             M == k.minted
             owed == Escrowed \ M
  <2>1. k \in Contract /\ k = evm.recent[Depth] /\ Depth \in 1..Depth /\ k.burns \subseteq Burn
    BY Zenon, <1>1, Now DEF BridgeInv
  <2>2. Covered(k) /\ IsFiniteSet(k.burns) /\ R \in SUBSET k.burns
    BY Zenon, <1>1, <2>1, Settled DEF BridgeInv, Solvent, BurnsByBlock
  <2>3. k.supply \in Nat /\ M \in SUBSET ToEscrow
    BY Zenon, <2>1 DEF Contract
  <2>4. M \in SUBSET Escrowed /\ Escrowed \in SUBSET Locks /\ owed \in SUBSET Locks
        /\ M \in SUBSET Locks
    BY Zenon, <2>2, <2>3, BridgeConstants DEF Escrowed, Covered
  <2>5. k.supply + Units(k.burns) <= Scale * Coins(M)
    BY Zenon, <2>2 DEF Covered
  <2>6. Scale * Holdings + Units(R) = Scale * Coins(Escrowed)
    BY Zenon, <1>1 DEF BridgeInv, EscrowExact
  <2>7. /\ Scale \in Nat /\ Holdings \in Int /\ Scale * Holdings \in Int
    <3>1. /\ Scale \in Nat /\ Fee \in Nat /\ Float \in Nat /\ escrow \in Int /\ nonce \in Nat
      BY Zenon, <1>1, BridgeConstants DEF BridgeInv, TypedChains
    <3>2. Fee * nonce \in Nat
      BY SMTT(30), <3>1
    <3>3. Holdings \in Int
      BY SMTT(30), <3>1, <3>2 DEF Holdings
    <3> QED BY SMTT(30), <3>1, <3>3
  <2> HIDE DEF k, R
  <2>8. /\ Units(k.burns) \in Nat /\ Units(R) \in Nat /\ Units(k.burns \ R) \in Nat
        /\ Units(k.burns) = Units(R) + Units(k.burns \ R)
    <3> DEFINE A == k.burns
    <3>1. A \subseteq Burn /\ IsFiniteSet(A) /\ R \in SUBSET A
      BY Zenon, <2>1, <2>2
    <3> HIDE DEF A
    <3>2. /\ Units(A) \in Nat /\ Units(R) \in Nat /\ Units(A \ R) \in Nat
          /\ Units(A) = Units(R) + Units(A \ R)
      BY Zenon, <3>1, UnitsSplit
    <3> QED BY Zenon, <3>2 DEF A
  <2> HIDE DEF M
  <2>9. /\ Coins(Escrowed) = Coins(M) + Coins(owed)
        /\ Coins(M) \in Nat /\ Coins(owed) \in Nat
    BY Zenon, <2>4, CoinsSplit
  <2> HIDE DEF owed
  <2>10. /\ Scale * (Coins(M) + Coins(owed)) = Scale * Coins(M) + Scale * Coins(owed)
         /\ Scale * Coins(M) \in Nat /\ Scale * Coins(owed) \in Nat
    BY SMTT(30), <2>7, <2>9
  <2>11. k.supply + Units(k.burns \ R) + Scale * Coins(owed) <= Scale * Holdings
    BY SMTT(30), <2>3, <2>5, <2>6, <2>7, <2>8, <2>9, <2>10
  <2> QED BY Zenon, <2>11 DEF Backed, Holdings, owed, M, R, k, Escrowed
<1>2. BridgeInv => Backed
  BY Zenon, <1>1
<1> QED BY <1>2, BridgeInvariant, PTL

=============================================================================
