-------------------------- MODULE ChainStoreSteps ---------------------------
(***************************************************************************)
(* What the block files, state.json and the memory of a node have to do    *)
(* with each other at every moment (StoreInv), and that every step of the  *)
(* network, of Save, of the handlers and of the restart keeps it so.       *)
(***************************************************************************)
EXTENDS ChainStore, TLAPS

-----------------------------------------------------------------------------
(* Definitions. *)

Window == [start : Nat, baseState : Seq(Nat), baseBlock : Seq(Nat)]

(* The conditions of the theorems.  One Save runs at a time, and the       *)
(* window has been trimmed once, because TryReorg drops the genesis block  *)
(* of one that still has it.                                               *)
Sheltered ==
    /\ Savers = {Main}
    /\ maxHotBlocks \in 1..InitHeight
    /\ reorgTailSize >= 1 /\ catchUpBatchSize >= 1
    /\ NoBlock \notin Seq(Nat) /\ NoFile \notin [state : Seq(Nat), hw : Window]

(* The branch fits into the window, and into the tail of it that           *)
(* archiveOneBlock writes again.                                           *)
Fits(n) == n <= maxHotBlocks /\ n <= reorgTailSize

(* And the node is not far behind when it leaves an abandoned branch.      *)
FitsBranch ==
    \A s \in Savers, back \in 0..3 :
        CatchUpReorg(s, back) => Fits(Fetched(Height(mem) - back))

(* Two facts of the libraries the lemmas about replaying and loading rest  *)
(* on.  They are hypotheses here and discharged in ChainStoreProofs.       *)
Induction ==
    \A S : 0 \in S /\ (\A n \in Nat : n \in S => n + 1 \in S) => \A n \in Nat : n \in S

IntervalSizes ==
    \A a, b \in Int : Cardinality(a..b) = IF a > b THEN 0 ELSE b - a + 1

(* The network has made block b, and block b is on its chain. *)
Made(b) == b \in Seq(0..forks) /\ Len(b) <= Len(net)
OnNet(b) == b = Ancestor(net, Len(b))

Chain == [blocks : Seq(Seq(Nat)), start : Nat, state : Seq(Nat),
          baseState : Seq(Nat), baseBlock : Seq(Nat)]
Save == [pc : {"idle", "snapshot", "archive", "state", "offload", "remove", "saved"},
         blocks : Seq(Seq(Nat)), state : Seq(Nat), next : Nat, hw : Window]

NetTyped == forks \in Nat /\ net \in Seq(0..forks) /\ Len(net) <= MaxHeight

MemTyped ==
    /\ mem \in Chain /\ boot \in Window
    /\ mem.blocks # <<>>
    /\ \A i \in 1..Len(mem.blocks) :
          Made(mem.blocks[i]) /\ Len(mem.blocks[i]) = Len(mem.blocks[1]) + i - 1

DiskTyped ==
    /\ file \in [Heights -> Seq(Nat) \cup {NoBlock}]
    /\ cloud \in [Heights -> Seq(Nat) \cup {NoBlock}]
    /\ \A h \in Heights :
          /\ file[h] # NoBlock => Made(file[h]) /\ Len(file[h]) = h
          /\ cloud[h] # NoBlock => Made(cloud[h]) /\ Len(cloud[h]) = h
    /\ state \in [state : Seq(Nat), hw : Window]

saver == sv[Main]

(* Where Save is, and what it holds: nothing changes the chain meanwhile. *)
SaveTyped ==
    /\ up \in {"down", "loaded", "restored", "up"}
    /\ sv \in [Savers -> Save]
    /\ up = "down" => saver.pc = "idle"
    /\ saver.pc = "idle" => up \in {"down", "up"}
    /\ saver.pc = "snapshot" => saver.next = 1
    /\ saver.pc = "archive" => saver.next >= 1 /\ saver.blocks = mem.blocks
    /\ saver.pc \in {"archive", "state"} => saver.state = mem.state
    /\ saver.pc \in {"state", "offload", "remove", "saved"} => saver.hw = HotWindowInfo(mem)
    /\ saver.pc = "remove" =>
          /\ saver.next \in Heights /\ saver.next < saver.hw.start
          /\ file[saver.next] # NoBlock /\ cloud[saver.next] = file[saver.next]

Typed == NetTyped /\ MemTyped /\ DiskTyped /\ SaveTyped

(* The heights up to t can be read, and no other.  Whatever a reorg that   *)
(* was not saved to its end has left, the blocks outside the last          *)
(* maxHotBlocks are the ancestors of the first one inside, and below a     *)
(* block of the network's chain there are only such blocks.                *)
Disk(t) ==
    /\ t \in Heights /\ maxHotBlocks <= t
    /\ \A h \in Heights : ColdBlockAt(h) # NoBlock <=> h <= t
    /\ \A h \in 0..(t - maxHotBlocks + 1) : \A g \in 0..h :
          ColdBlockAt(g) = Ancestor(ColdBlockAt(h), g)
    /\ \A h \in 0..t : \A g \in 0..h :
          OnNet(ColdBlockAt(h)) => OnNet(ColdBlockAt(g))

(* The recorded window w fits the files. *)
Recorded(w, t) ==
    \/ w.start = 0 /\ w.baseState = Genesis
    \/ /\ w.start \in 1..(t - maxHotBlocks + 1)
       /\ w.baseBlock = ColdBlockAt(w.start - 1)
       /\ w.baseState = w.baseBlock

StateSaved(t) == Recorded(state.hw, t) /\ Len(state.state) <= t

(* After Load, memory holds what the files hold from the window on. *)
Loaded(t) ==
    /\ Recorded(boot, t)
    /\ mem.start = 0
    /\ Len(mem.blocks) = t - boot.start + 1
    /\ \A i \in 1..Len(mem.blocks) : mem.blocks[i] = ColdBlockAt(boot.start + i - 1)
    /\ Len(mem.state) <= t

(* Save has dealt with the i-th block of the window. *)
Archived(i) == saver.pc \notin {"snapshot", "archive"} \/ i < saver.next

At(i) == mem.start + i - 1

(* The window of a running node, of which Save has written a part: a block *)
(* that is not written yet has no file, or its own, or that of a block the *)
(* network has abandoned, and the last only in the tail that is written    *)
(* whether or not there is a file.                                         *)
Running(t) ==
    /\ Len(mem.blocks) = maxHotBlocks
    /\ mem.start >= 1 /\ mem.start = Len(mem.blocks[1])
    /\ t <= Height(mem) /\ Len(mem.state) <= Height(mem)
    /\ mem.start - 1 <= t
    /\ mem.baseState = mem.baseBlock
    /\ Len(mem.baseBlock) = mem.start - 1
    /\ Parent(mem.blocks[1]) = mem.baseBlock
    /\ \A h \in 0..(mem.start - 1) : ColdBlockAt(h) = Ancestor(mem.baseBlock, h)
    /\ \A j \in 1..maxHotBlocks : \A i \in 1..j :
          OnNet(mem.blocks[j]) => OnNet(mem.blocks[i])
    /\ \A i \in 1..maxHotBlocks :
          IF Archived(i) THEN file[At(i)] = mem.blocks[i]
          ELSE /\ i <= maxHotBlocks - reorgTailSize => ColdBlockAt(At(i)) = mem.blocks[i]
               /\ \/ ColdBlockAt(At(i)) \in {NoBlock, mem.blocks[i]}
                  \/ ~OnNet(ColdBlockAt(At(i)))

Follows(t) ==
    /\ Disk(t) /\ StateSaved(t)
    /\ up = "loaded" => Loaded(t)
    /\ up \in {"restored", "up"} => Running(t)

StoreInv == Typed /\ \E t \in Heights : Follows(t)

-----------------------------------------------------------------------------
(* Blocks. *)

\* A function on 1..n is a sequence of length n.
LEMMA FunctionSeq ==
    ASSUME NEW S, NEW n \in Nat, NEW f \in [1..n -> S]
    PROVE  f \in Seq(S) /\ Len(f) = n
  BY SMTT(30)

\* A sequence over a set is one over a larger set.
LEMMA WiderSeq == ASSUME NEW S, NEW T, S \subseteq T, NEW b \in Seq(S) PROVE b \in Seq(T)
  BY SMTT(30)

\* The elements of a sequence are in its set.
LEMMA ElementIn == ASSUME NEW S, NEW b \in Seq(S), NEW i \in 1..Len(b) PROVE b[i] \in S
  BY SMTT(30)

\* The elements of two sequences in a row.
LEMMA JoinedSeq ==
    ASSUME NEW S, NEW a \in Seq(S), NEW b \in Seq(S)
    PROVE  /\ a \o b \in Seq(S) /\ Len(a \o b) = Len(a) + Len(b)
           /\ \A i \in 1..Len(a) : (a \o b)[i] = a[i]
           /\ \A i \in 1..Len(b) : (a \o b)[Len(a) + i] = b[i]
  BY SMTT(30)

\* The rest of a sequence, from its m-th element on.
LEMMA RestOfSeq ==
    ASSUME NEW S, NEW b \in Seq(S), NEW m \in 1..(Len(b) + 1)
    PROVE  /\ SubSeq(b, m, Len(b)) \in Seq(S)
           /\ Len(SubSeq(b, m, Len(b))) = Len(b) - m + 1
           /\ \A i \in 1..(Len(b) - m + 1) : SubSeq(b, m, Len(b))[i] = b[m + i - 1]
  BY SMTT(30)

\* The ancestor of block b at height h.
LEMMA AncestorTyped ==
    ASSUME NEW S, NEW b \in Seq(S), NEW h \in 0..Len(b)
    PROVE  /\ Ancestor(b, h) \in Seq(S) /\ Len(Ancestor(b, h)) = h
           /\ \A i \in 1..h : Ancestor(b, h)[i] = b[i]
  BY SMTT(30) DEF Ancestor

\* Two blocks with the same ancestry are equal.
LEMMA SameBlock ==
    ASSUME NEW S, NEW a \in Seq(S), NEW b \in Seq(S), Len(a) = Len(b),
           \A i \in 1..Len(a) : a[i] = b[i]
    PROVE  a = b
  BY SMTT(30)

\* A block is its own ancestor at its own height.
LEMMA OwnAncestor == ASSUME NEW S, NEW b \in Seq(S) PROVE Ancestor(b, Len(b)) = b
<1>1. Len(b) \in 0..Len(b)
  BY SMTT(30)
<1> QED BY SMTT(30), <1>1, AncestorTyped, SameBlock

\* An ancestor of an ancestor is an ancestor.
LEMMA AncestorTwice ==
    ASSUME NEW S, NEW b \in Seq(S), NEW h \in 0..Len(b), NEW g \in 0..h
    PROVE  Ancestor(Ancestor(b, h), g) = Ancestor(b, g)
<1> DEFINE a == Ancestor(b, h)
<1>1. a \in Seq(S) /\ Len(a) = h /\ \A i \in 1..h : a[i] = b[i]
  BY Zenon, AncestorTyped
<1> HIDE DEF a
<1>2. g \in 0..Len(a) /\ g \in 0..Len(b)
  BY SMTT(30), <1>1
<1>3. /\ Ancestor(a, g) \in Seq(S) /\ Len(Ancestor(a, g)) = g
      /\ \A i \in 1..g : Ancestor(a, g)[i] = a[i]
  BY Zenon, <1>1, <1>2, AncestorTyped
<1>4. /\ Ancestor(b, g) \in Seq(S) /\ Len(Ancestor(b, g)) = g
      /\ \A i \in 1..g : Ancestor(b, g)[i] = b[i]
  BY Zenon, <1>2, AncestorTyped
<1>5. \A i \in 1..g : Ancestor(a, g)[i] = Ancestor(b, g)[i]
  BY SMTT(30), <1>1, <1>3, <1>4
<1>6. Ancestor(a, g) = Ancestor(b, g)
  BY Zenon, <1>3, <1>4, <1>5, SameBlock
<1> QED BY Zenon, <1>6 DEF a

\* The parent of an ancestor is the ancestor before it.
LEMMA AncestorParent ==
    ASSUME NEW S, NEW b \in Seq(S), NEW h \in 1..Len(b)
    PROVE  Parent(Ancestor(b, h)) = Ancestor(b, h - 1)
<1>1. Len(Ancestor(b, h)) = h /\ h \in 0..Len(b) /\ h - 1 \in 0..h
  BY SMTT(30), AncestorTyped
<1> QED BY Zenon, <1>1, AncestorTwice DEF Parent

\* Applying the next block of a branch to the state after the one before it
\* gives the state after that block.
LEMMA AncestorApplied ==
    ASSUME NEW S, NEW b \in Seq(S), NEW h \in 1..Len(b)
    PROVE  Applied(Ancestor(b, h - 1), Ancestor(b, h)) = Ancestor(b, h)
<1> DEFINE p == Ancestor(b, h - 1)
           a == Ancestor(b, h)
<1>1. h \in 0..Len(b) /\ h - 1 \in 0..Len(b)
  BY SMTT(30)
<1>2. p \in Seq(S) /\ Len(p) = h - 1 /\ \A i \in 1..(h - 1) : p[i] = b[i]
  BY Zenon, <1>1, AncestorTyped
<1>3. a \in Seq(S) /\ Len(a) = h /\ \A i \in 1..h : a[i] = b[i]
  BY Zenon, <1>1, AncestorTyped
<1> HIDE DEF p, a
<1>4. Append(p, a[Len(a)]) = a
  <2>1. a[h] \in S
    BY SMTT(30), <1>3
  <2>2. Append(p, a[h]) \in Seq(S) /\ Len(Append(p, a[h])) = Len(a)
    BY SMTT(30), <1>2, <1>3, <2>1
  <2>3. \A i \in 1..Len(a) : Append(p, a[h])[i] = a[i]
    BY SMTT(30), <1>2, <1>3
  <2>4. Append(p, a[h]) = a
    BY Zenon, <1>3, <2>2, <2>3, SameBlock
  <2> QED BY Zenon, <1>3, <2>4
<1>5. a # Genesis
  BY SMTT(30), <1>3 DEF Genesis
<1>6. Applied(p, a) = a
  BY Zenon, <1>4, <1>5 DEF Applied
<1> QED BY Zenon, <1>6 DEF p, a

-----------------------------------------------------------------------------
(* The network. *)

\* The network's chain keeps its blocks up to some height; above it there is
\* none that was made before.
LEMMA NetKept ==
    ASSUME NetTyped, NetGrows \/ \E fork \in Heights : NetForks(fork)
    PROVE  /\ NetTyped' /\ Len(net) <= Len(net') /\ forks <= forks'
           /\ \E k \in 0..Len(net) :
                 /\ \A h \in 0..k : Ancestor(net', h) = Ancestor(net, h)
                 /\ \A b : Made(b) /\ Len(b) > k => b # Ancestor(net', Len(b))
<1>0. MaxHeight \in Nat /\ Len(net) \in Nat /\ net \in Seq(0..forks) /\ forks \in Nat
  BY SMTT(30), ChainStoreAssumption DEF NetTyped
<1>1. CASE NetGrows
  <2>1. net' = Append(net, forks) /\ forks' = forks /\ Len(net) < MaxHeight
    BY Zenon, <1>1 DEF NetGrows
  <2>2. net' \in Seq(0..forks) /\ Len(net') = Len(net) + 1
    BY SMTT(30), <1>0, <2>1
  <2>3. NetTyped' /\ Len(net) <= Len(net') /\ forks <= forks'
    BY SMTT(30), <1>0, <2>1, <2>2 DEF NetTyped
  <2>4. ASSUME NEW h \in 0..Len(net) PROVE Ancestor(net', h) = Ancestor(net, h)
    <3>1. /\ Ancestor(net', h) \in Seq(0..forks) /\ Len(Ancestor(net', h)) = h
          /\ \A i \in 1..h : Ancestor(net', h)[i] = net'[i]
      <4>1. h \in 0..Len(net')
        BY SMTT(30), <2>2
      <4> QED BY Zenon, <2>2, <4>1, AncestorTyped
    <3>2. /\ Ancestor(net, h) \in Seq(0..forks) /\ Len(Ancestor(net, h)) = h
          /\ \A i \in 1..h : Ancestor(net, h)[i] = net[i]
      BY Zenon, <1>0, AncestorTyped
    <3>3. \A i \in 1..h : net'[i] = net[i]
      BY SMTT(30), <1>0, <2>1
    <3> QED BY Zenon, <3>1, <3>2, <3>3, SameBlock
  <2>5. \A b : Made(b) /\ Len(b) > Len(net) => b # Ancestor(net', Len(b))
    BY SMTT(30), <1>0 DEF Made
  <2>6. Len(net) \in 0..Len(net)
    BY SMTT(30), <1>0
  <2> QED BY Zenon, <2>3, <2>4, <2>5, <2>6
<1>2. ASSUME NEW fork \in Heights, NetForks(fork)
      PROVE  /\ NetTyped' /\ Len(net) <= Len(net') /\ forks <= forks'
             /\ \E k \in 0..Len(net) :
                   /\ \A h \in 0..k : Ancestor(net', h) = Ancestor(net, h)
                   /\ \A b : Made(b) /\ Len(b) > k => b # Ancestor(net', Len(b))
  <2> DEFINE k == fork - 1
             new == [i \in 1..(Len(net) - k) |-> forks + 1]
  <2>1. /\ fork \in 1..Len(net) /\ forks' = forks + 1
        /\ net' = Ancestor(net, k) \o [i \in 1..(Len(net) - fork + 1) |-> forks + 1]
    BY Zenon, <1>2 DEF NetForks
  <2>2. k \in 0..Len(net) /\ Len(net) - fork + 1 = Len(net) - k /\ Len(net) - k \in Nat
    BY SMTT(30), <1>0, <2>1
  <2>3. /\ Ancestor(net, k) \in Seq(0..forks) /\ Len(Ancestor(net, k)) = k
        /\ \A i \in 1..k : Ancestor(net, k)[i] = net[i]
    BY Zenon, <1>0, <2>2, AncestorTyped
  <2>4. Ancestor(net, k) \in Seq(0..forks') /\ new \in Seq(0..forks') /\ Len(new) = Len(net) - k
    <3>1. 0..forks \subseteq 0..forks' /\ forks + 1 \in 0..forks'
      BY SMTT(30), <1>0, <2>1
    <3>2. new \in [1..(Len(net) - k) -> 0..forks']
      BY Zenon, <3>1
    <3> HIDE DEF new, k
    <3>3. new \in Seq(0..forks') /\ Len(new) = Len(net) - k
      BY Zenon, <2>2, <3>2, FunctionSeq
    <3>4. Ancestor(net, k) \in Seq(0..forks')
      BY Zenon, <2>3, <3>1, WiderSeq
    <3> QED BY Zenon, <3>3, <3>4
  <2>5. net' = Ancestor(net, k) \o new
    BY Zenon, <2>1, <2>2
  <2>6. \A i \in 1..(Len(net) - k) : new[i] = forks + 1
    BY Zenon
  <2> HIDE DEF new
  <2>7. /\ net' \in Seq(0..forks') /\ Len(net') = Len(net)
        /\ \A i \in 1..k : net'[i] = net[i]
        /\ \A i \in (k + 1)..Len(net) : net'[i] = forks + 1
    <3>1. net' \in Seq(0..forks') /\ Len(net') = Len(net)
      BY SMTT(30), <1>0, <2>2, <2>3, <2>4, <2>5
    <3>2. \A i \in 1..k : net'[i] = net[i]
      BY SMTT(30), <1>0, <2>2, <2>3, <2>4, <2>5
    <3>3. ASSUME NEW i \in (k + 1)..Len(net) PROVE net'[i] = forks + 1
      <4>1. i - k \in 1..(Len(net) - k) /\ k + (i - k) = i
        BY SMTT(30), <1>0, <2>2
      <4> HIDE DEF k
      <4>2. net'[k + (i - k)] = new[i - k]
        BY SMTT(30), <2>3, <2>4, <2>5, <4>1, JoinedSeq
      <4> QED BY Zenon, <2>6, <4>1, <4>2
    <3> QED BY Zenon, <3>1, <3>2, <3>3
  <2> HIDE DEF k
  <2>8. NetTyped' /\ Len(net) <= Len(net') /\ forks <= forks'
    BY SMTT(30), <1>0, <2>1, <2>7 DEF NetTyped
  <2>9. ASSUME NEW h \in 0..k PROVE Ancestor(net', h) = Ancestor(net, h)
    <3>0. h \in 0..Len(net) /\ h \in 0..Len(net') /\ forks' \in Nat
      BY SMTT(30), <1>0, <2>1, <2>2, <2>7
    <3>1. /\ Ancestor(net', h) \in Seq(0..forks') /\ Len(Ancestor(net', h)) = h
          /\ \A i \in 1..h : Ancestor(net', h)[i] = net'[i]
      BY Zenon, <2>7, <3>0, AncestorTyped
    <3>2. /\ Ancestor(net, h) \in Seq(0..forks) /\ Len(Ancestor(net, h)) = h
          /\ \A i \in 1..h : Ancestor(net, h)[i] = net[i]
      BY Zenon, <1>0, <3>0, AncestorTyped
    <3>3. Ancestor(net, h) \in Seq(0..forks')
      BY SMTT(30), <1>0, <2>1, <3>2
    <3>4. \A i \in 1..h : Ancestor(net', h)[i] = Ancestor(net, h)[i]
      BY SMTT(30), <2>2, <2>7, <3>1, <3>2
    <3> QED BY Zenon, <3>1, <3>2, <3>3, <3>4, SameBlock
  <2>10. ASSUME NEW b, Made(b), Len(b) > k PROVE b # Ancestor(net', Len(b))
    <3> SUFFICES ASSUME b = Ancestor(net', Len(b)) PROVE FALSE
      BY Zenon
    <3>1. b \in Seq(0..forks) /\ Len(b) \in (k + 1)..Len(net) /\ Len(b) \in 0..Len(net')
      BY SMTT(30), <1>0, <2>2, <2>7, <2>10 DEF Made
    <3>2. Ancestor(net', Len(b))[Len(b)] = net'[Len(b)]
      <4>1. Len(b) \in 1..Len(b)
        BY SMTT(30), <1>0, <2>2, <3>1
      <4> QED BY ZenonT(40), <2>7, <3>1, <4>1, AncestorTyped
    <3>3. b[Len(b)] = forks + 1 /\ b[Len(b)] \in 0..forks
      <4>1. Len(b) \in 1..Len(b)
        BY <1>0, <2>2, <3>1
      <4>2. b[Len(b)] \in 0..forks
        BY Zenon, <3>1, <4>1, ElementIn
      <4>3. b[Len(b)] = net'[Len(b)]
        BY Zenon, <3>2
      <4> QED BY Zenon, <2>7, <3>1, <4>2, <4>3
    <3> QED BY SMTT(30), <1>0, <3>3
  <2> QED BY Zenon, <2>2, <2>8, <2>9, <2>10
<1> QED BY Zenon, <1>1, <1>2

\* What the network has made, it has made for good, and a block that it has
\* left does not come back.
LEMMA NetStable ==
    ASSUME NetTyped, NetGrows \/ \E fork \in Heights : NetForks(fork)
    PROVE  /\ \A b : Made(b) => Made(b)'
           /\ \A b : Made(b) /\ OnNet(b)' => OnNet(b)
           /\ \A a, b : /\ Made(a) /\ Made(b) /\ Len(a) <= Len(b)
                        /\ OnNet(b) => OnNet(a)
                        => (OnNet(b)' => OnNet(a)')
<1>1. /\ NetTyped' /\ Len(net) <= Len(net') /\ forks <= forks'
      /\ \E k \in 0..Len(net) :
            /\ \A h \in 0..k : Ancestor(net', h) = Ancestor(net, h)
            /\ \A b : Made(b) /\ Len(b) > k => b # Ancestor(net', Len(b))
  BY Zenon, NetKept
<1>2. PICK k \in 0..Len(net) :
         /\ \A h \in 0..k : Ancestor(net', h) = Ancestor(net, h)
         /\ \A b : Made(b) /\ Len(b) > k => b # Ancestor(net', Len(b))
  BY Zenon, <1>1
<1>3. Len(net) \in Nat /\ Len(net') \in Nat /\ forks \in Nat /\ forks' \in Nat
  BY SMTT(30), <1>1 DEF NetTyped
<1>4. ASSUME NEW b, Made(b) PROVE Made(b)'
  <2>1. 0..forks \subseteq 0..forks' /\ Len(b) <= Len(net')
    BY SMTT(30), <1>1, <1>3, <1>4 DEF Made
  <2> QED BY Zenon, <1>4, <2>1, WiderSeq DEF Made
<1>5. ASSUME NEW b, Made(b), OnNet(b)' PROVE Len(b) \in 0..k /\ OnNet(b)
  <2>1. Len(b) \in Nat
    BY SMTT(30), <1>5 DEF Made
  <2>2. ~(Len(b) > k)
    BY Zenon, <1>2, <1>5 DEF OnNet
  <2>3. Len(b) \in 0..k
    BY SMTT(30), <2>1, <2>2
  <2> QED BY Zenon, <1>2, <1>5, <2>3 DEF OnNet
<1>6. ASSUME NEW a, NEW b, Made(a), Made(b), Len(a) <= Len(b), OnNet(b) => OnNet(a), OnNet(b)'
      PROVE  OnNet(a)'
  <2>1. Len(b) \in 0..k /\ OnNet(a)
    BY Zenon, <1>5, <1>6
  <2>2. Len(a) \in 0..k
    BY SMTT(30), <1>6, <2>1 DEF Made
  <2> QED BY Zenon, <1>2, <2>1, <2>2 DEF OnNet
<1> QED BY Zenon, <1>4, <1>5, <1>6

\* A block that was made is not above the network's chain.
LEMMA MadeHeight == ASSUME NetTyped, NEW b, Made(b) PROVE Len(b) \in Heights
<1>1. Len(b) \in Nat /\ Len(net) \in Nat /\ MaxHeight \in Nat
  BY SMTT(30), ChainStoreAssumption DEF Made, NetTyped
<1>2. Len(b) <= Len(net) /\ Len(net) <= MaxHeight
  BY Zenon DEF Made, NetTyped
<1> QED BY SMTT(30), <1>1, <1>2 DEF Heights

-----------------------------------------------------------------------------
(* The disk. *)

\* What is read of the archive at height h is a block of that height.
LEMMA ColdTyped ==
    ASSUME DiskTyped, NEW h \in Heights, ColdBlockAt(h) # NoBlock
    PROVE  /\ ColdBlockAt(h) \in Seq(Nat) /\ Made(ColdBlockAt(h))
           /\ Len(ColdBlockAt(h)) = h
  BY Zenon DEF DiskTyped, ColdBlockAt

\* A step that leaves the files alone changes nothing that is read.
LEMMA ColdLeft ==
    ASSUME UNCHANGED <<file, cloud>> PROVE \A h : ColdBlockAt(h)' = ColdBlockAt(h)
  BY Zenon DEF ColdBlockAt

\* The network's steps: nothing that is said of the node's blocks depends on
\* more of its chain than which of them it has left.
LEMMA NetSteps ==
    ASSUME Sheltered, Typed, NEW t \in Heights, Follows(t),
           NetGrows \/ \E fork \in Heights : NetForks(fork)
    PROVE  Typed' /\ Follows(t)'
<1>0. UNCHANGED <<up, mem, boot, sv, file, cloud, state>>
  BY Zenon DEF NetGrows, NetForks, disk
<1>1. NetTyped' /\ \A b : Made(b) => Made(b)'
  BY Zenon, NetKept, NetStable DEF Typed
<1>2. /\ \A b : Made(b) /\ OnNet(b)' => OnNet(b)
      /\ \A a, b : /\ Made(a) /\ Made(b) /\ Len(a) <= Len(b)
                   /\ OnNet(b) => OnNet(a)
                   => (OnNet(b)' => OnNet(a)')
  BY Zenon, NetStable DEF Typed
<1>3. Typed'
  <2>1. MemTyped'
    BY Zenon, <1>0, <1>1 DEF Typed, MemTyped
  <2>2. DiskTyped'
    BY Zenon, <1>0, <1>1 DEF Typed, DiskTyped
  <2>3. SaveTyped'
    BY Zenon, <1>0 DEF Typed, SaveTyped, saver, HotWindowInfo, BaseState, BaseBlock
  <2> QED BY Zenon, <1>1, <2>1, <2>2, <2>3 DEF Typed
<1>4. \A h : ColdBlockAt(h)' = ColdBlockAt(h)
  BY Zenon, <1>0, ColdLeft
<1>5. \A h \in 0..t : h \in Heights /\ Made(ColdBlockAt(h)) /\ Len(ColdBlockAt(h)) = h
  <2>1. \A h \in 0..t : h \in Heights /\ h <= t
    BY SMTT(30), ChainStoreAssumption DEF Heights
  <2> QED BY Zenon, <2>1, ColdTyped DEF Follows, Disk, Typed
<1>6. Disk(t)'
  <2>1. ASSUME NEW h \in 0..t, NEW g \in 0..h, OnNet(ColdBlockAt(h))'
        PROVE  OnNet(ColdBlockAt(g))'
    <3>1. g \in 0..t /\ g <= h
      BY SMTT(30), ChainStoreAssumption DEF Heights
    <3> DEFINE a == ColdBlockAt(g)
               b == ColdBlockAt(h)
    <3>2. Made(a) /\ Made(b) /\ Len(a) <= Len(b) /\ (OnNet(b) => OnNet(a))
      BY Zenon, <1>5, <3>1 DEF Follows, Disk
    <3>3. OnNet(b)'
      BY Zenon, <2>1
    <3>4. OnNet(a)'
      <4>1. a' = a /\ b' = b
        BY Zenon, <1>4
      <4> HIDE DEF a, b
      <4>2. b = Ancestor(net', Len(b)) => a = Ancestor(net', Len(a))
        BY Zenon, <1>2, <3>2 DEF OnNet
      <4> QED BY Zenon, <3>3, <4>1, <4>2 DEF OnNet
    <3> QED BY Zenon, <3>4
  <2> QED BY Zenon, <1>4, <2>1 DEF Follows, Disk
<1>7. StateSaved(t)'
  BY Zenon, <1>0, <1>4 DEF Follows, StateSaved, Recorded
<1>8. up' = "loaded" => Loaded(t)'
  BY Zenon, <1>0, <1>4 DEF Follows, Loaded, Recorded
<1>9. ASSUME up' \in {"restored", "up"} PROVE Running(t)'
  <2>0. Running(t)
    BY Zenon, <1>0, <1>9 DEF Follows
  <2>1. \A i \in 1..maxHotBlocks : i \in 1..Len(mem.blocks) /\ Made(mem.blocks[i])
    BY Zenon, <2>0 DEF Running, Typed, MemTyped
  <2>2. ASSUME NEW j \in 1..maxHotBlocks, NEW i \in 1..j, OnNet(mem.blocks[j])'
        PROVE  OnNet(mem.blocks[i])'
    <3> DEFINE a == mem.blocks[i]
               b == mem.blocks[j]
    <3>1. i \in 1..maxHotBlocks /\ i <= j
      BY SMTT(30) DEF Sheltered
    <3>2. Len(a) = Len(mem.blocks[1]) + i - 1 /\ Len(b) = Len(mem.blocks[1]) + j - 1
      BY Zenon, <2>1, <3>1 DEF Typed, MemTyped
    <3>3. Len(a) <= Len(b)
      <4>1. Len(mem.blocks[1]) \in Nat
        BY Zenon, <2>0 DEF Running, Typed, MemTyped, Chain
      <4> QED BY SMTT(30), <3>1, <3>2, <4>1
    <3>4. Made(a) /\ Made(b) /\ (OnNet(b) => OnNet(a))
      BY Zenon, <2>0, <2>1, <3>1 DEF Running
    <3>5. a' = a /\ b' = b
      BY Zenon, <1>0
    <3>6. OnNet(b)'
      BY Zenon, <2>2
    <3> HIDE DEF a, b
    <3>7. b = Ancestor(net', Len(b)) => a = Ancestor(net', Len(a))
      BY Zenon, <1>2, <3>3, <3>4 DEF OnNet
    <3>8. OnNet(a)'
      BY Zenon, <3>5, <3>6, <3>7 DEF OnNet
    <3> QED BY Zenon, <3>8 DEF a
  <2>3. ASSUME NEW i \in 1..maxHotBlocks, ~Archived(i)
        PROVE  \/ ColdBlockAt(At(i)) \in {NoBlock, mem.blocks[i]}
               \/ ~(OnNet(ColdBlockAt(At(i)))')
    <3>1. CASE ColdBlockAt(At(i)) \in {NoBlock, mem.blocks[i]}
      BY Zenon, <3>1
    <3>2. CASE ColdBlockAt(At(i)) # NoBlock /\ ~OnNet(ColdBlockAt(At(i)))
      <4> DEFINE b == ColdBlockAt(At(i))
      <4>1. At(i) \in Heights
        BY Zenon, <2>0, <3>2 DEF ColdBlockAt
      <4>2. Made(b)
        BY Zenon, <3>2, <4>1, ColdTyped DEF Typed
      <4>3. b' = b
        BY Zenon, <1>0 DEF At, ColdBlockAt
      <4> HIDE DEF b
      <4>4. b # Ancestor(net', Len(b))
        BY Zenon, <1>2, <3>2, <4>2 DEF OnNet, b
      <4>5. ~(OnNet(b)')
        BY Zenon, <4>3, <4>4 DEF OnNet
      <4> QED BY Zenon, <4>5 DEF b
    <3> QED BY Zenon, <2>0, <2>3, <3>1, <3>2 DEF Running
  <2>4. \A i : Archived(i)' = Archived(i) /\ At(i)' = At(i)
    BY Zenon, <1>0 DEF Archived, saver, At
  <2>5. Height(mem)' = Height(mem)
    BY Zenon, <1>0
  <2> QED BY Zenon, <1>0, <1>4, <2>0, <2>2, <2>3, <2>4, <2>5 DEF Running
<1> QED BY Zenon, <1>0, <1>3, <1>6, <1>7, <1>8, <1>9 DEF Follows

-----------------------------------------------------------------------------
(* The window of a running node. *)

\* The i-th block of the window is the block of height At(i).
LEMMA WindowBlocks ==
    ASSUME Sheltered, Typed, NEW t \in Heights, Running(t), NEW i \in 1..maxHotBlocks
    PROVE  /\ i \in 1..Len(mem.blocks) /\ Made(mem.blocks[i])
           /\ mem.blocks[i] \in Seq(Nat) /\ mem.blocks[i] # NoBlock
           /\ Len(mem.blocks[i]) = At(i) /\ At(i) \in Heights
<1>1. /\ i \in 1..Len(mem.blocks) /\ Made(mem.blocks[i]) /\ mem.blocks[i] \in Seq(Nat)
      /\ Len(mem.blocks[i]) = mem.start + i - 1
  <2>1. i \in 1..Len(mem.blocks) /\ mem.start = Len(mem.blocks[1])
    BY Zenon DEF Running
  <2>2. Made(mem.blocks[i]) /\ Len(mem.blocks[i]) = mem.start + i - 1
    BY Zenon, <2>1 DEF Typed, MemTyped
  <2>3. mem.blocks[i] \in Seq(Nat)
    BY Zenon, <2>1, ElementIn DEF Typed, MemTyped, Chain
  <2> QED BY Zenon, <2>1, <2>2, <2>3
<1>2. mem.blocks[i] # NoBlock
  BY Zenon, <1>1 DEF Sheltered
<1>3. At(i) \in Heights
  <2>1. Len(mem.blocks[i]) \in Nat
    BY SMTT(30), <1>1
  <2>2. Len(mem.blocks[i]) <= MaxHeight
    BY SMTT(30), <1>1, <2>1, ChainStoreAssumption DEF Made, Typed, NetTyped
  <2> QED BY SMTT(30), <1>1, <2>1, <2>2, ChainStoreAssumption DEF At, Heights
<1> QED BY Zenon, <1>1, <1>2, <1>3 DEF At

\* A height from the start of the window on is that of one of its blocks.
LEMMA WindowIndex ==
    ASSUME mem.start \in Nat, NEW n \in Nat, NEW h \in Nat, ~(h < mem.start),
           h <= mem.start + n - 1
    PROVE  \E k \in 1..n : h = At(k)
<1>1. PICK m \in Nat : m = mem.start
  BY Zenon
<1>2. h - m + 1 \in 1..n /\ h = m + (h - m + 1) - 1
  BY SMTT(30), <1>1
<1> QED BY Zenon, <1>1, <1>2 DEF At

\* Its bounds.
LEMMA WindowBounds ==
    ASSUME Sheltered, Typed, NEW t \in Heights, Running(t)
    PROVE  /\ maxHotBlocks \in Nat \ {0} /\ reorgTailSize \in Nat \ {0}
           /\ mem.start \in Nat \ {0} /\ Len(mem.blocks) = maxHotBlocks
           /\ Height(mem) = mem.start + maxHotBlocks - 1
           /\ Tip(mem) = mem.blocks[maxHotBlocks]
           /\ mem.start - 1 <= t /\ t <= Height(mem) /\ t \in Nat
<1>1. maxHotBlocks \in Nat \ {0} /\ reorgTailSize \in Nat \ {0} /\ t \in Nat
  BY SMTT(30), ChainStoreAssumption DEF Sheltered, Heights
<1>2. mem.start \in Nat \ {0} /\ Len(mem.blocks) = maxHotBlocks
  <2>1. mem.start \in Nat
    BY Zenon DEF Typed, MemTyped, Chain
  <2> QED BY SMTT(30), <2>1 DEF Running
<1>3. Tip(mem) = mem.blocks[maxHotBlocks]
  BY Zenon, <1>2 DEF Tip
<1>4. Height(mem) = mem.start + maxHotBlocks - 1
  <2>1. maxHotBlocks \in 1..maxHotBlocks
    BY SMTT(30), <1>1
  <2>2. Len(mem.blocks[maxHotBlocks]) = At(maxHotBlocks)
    BY Zenon, <2>1, WindowBlocks
  <2> QED BY Zenon, <1>3, <2>2 DEF Height, At
<1>5. mem.start - 1 <= t /\ t <= Height(mem)
  BY Zenon DEF Running
<1> QED BY Zenon, <1>1, <1>2, <1>3, <1>4, <1>5

\* The files of the blocks that Save has dealt with are read back.
LEMMA ArchivedRead ==
    ASSUME Sheltered, Typed, NEW t \in Heights, Disk(t), Running(t),
           NEW i \in 1..maxHotBlocks, Archived(i)
    PROVE  ColdBlockAt(At(i)) = mem.blocks[i] /\ At(i) <= t
<1>1. mem.blocks[i] # NoBlock /\ At(i) \in Heights
  BY Zenon, WindowBlocks
<1>2. file[At(i)] = mem.blocks[i]
  BY Zenon DEF Running
<1>3. ColdBlockAt(At(i)) = mem.blocks[i]
  BY Zenon, <1>1, <1>2 DEF ColdBlockAt
<1>4. At(i) <= t
  BY Zenon, <1>1, <1>3 DEF Disk
<1> QED BY Zenon, <1>3, <1>4

\* Once it has dealt with all of them, the tip is the highest block there is.
LEMMA AllArchived ==
    ASSUME Sheltered, Typed, NEW t \in Heights, Disk(t), Running(t),
           \A i \in 1..maxHotBlocks : Archived(i)
    PROVE  t = Height(mem)
<1>1. maxHotBlocks \in 1..maxHotBlocks
  BY SMTT(30), WindowBounds
<1>2. At(maxHotBlocks) <= t
  BY Zenon, <1>1, ArchivedRead
<1> QED BY SMTT(30), <1>2, WindowBounds DEF At

-----------------------------------------------------------------------------
(* Steps of Save. *)

\* The saver moves.
LEMMA SaverMoves ==
    ASSUME Sheltered, SaveTyped, NEW s \in Savers, NEW n \in Save, sv' = [sv EXCEPT ![s] = n]
    PROVE  s = Main /\ sv' \in [Savers -> Save] /\ saver' = n
<1>1. s = Main /\ Main \in Savers
  BY Zenon, ChainStoreAssumption DEF Sheltered
<1> QED BY Zenon, <1>1 DEF SaveTyped, saver

\* A step that leaves the chain and what is read of the files alone.
LEMMA ReadsSame ==
    ASSUME Sheltered, Typed, NEW t \in Heights, Follows(t),
           UNCHANGED <<net, forks, mem, boot>>,
           \A h : ColdBlockAt(h)' = ColdBlockAt(h),
           DiskTyped', SaveTyped', StateSaved(t)',
           up' = "loaded" => up = "loaded",
           up' \in {"restored", "up"} =>
              /\ up \in {"restored", "up"}
              /\ \A i \in 1..maxHotBlocks : Archived(i)' => file'[At(i)] = mem.blocks[i]
    PROVE  Typed' /\ Follows(t)'
<1>1. NetTyped' /\ MemTyped'
  BY Zenon DEF Typed, NetTyped, MemTyped, Made
<1>2. \A h : OnNet(ColdBlockAt(h))' = OnNet(ColdBlockAt(h))
  BY Zenon DEF OnNet
<1>3. Disk(t)'
  BY Zenon, <1>2 DEF Follows, Disk
<1>4. ASSUME up' = "loaded" PROVE Loaded(t)'
  BY Zenon, <1>4 DEF Follows, Loaded, Recorded
<1>5. ASSUME up' \in {"restored", "up"} PROVE Running(t)'
  <2>1. Running(t) /\ Disk(t)
    BY Zenon, <1>5 DEF Follows
  <2>2. \A i : At(i)' = At(i) /\ OnNet(mem.blocks[i])' = OnNet(mem.blocks[i])
    BY Zenon DEF At, OnNet
  <2>3. ASSUME NEW i \in 1..maxHotBlocks
        PROVE  (IF Archived(i) THEN file[At(i)] = mem.blocks[i]
                ELSE /\ i <= maxHotBlocks - reorgTailSize => ColdBlockAt(At(i)) = mem.blocks[i]
                     /\ \/ ColdBlockAt(At(i)) \in {NoBlock, mem.blocks[i]}
                        \/ ~OnNet(ColdBlockAt(At(i))))'
    <3>1. CASE Archived(i)'
      BY Zenon, <1>5, <2>2, <3>1
    <3>2. CASE ~Archived(i)' /\ Archived(i)
      <4>1. ColdBlockAt(At(i)) = mem.blocks[i]
        BY Zenon, <2>1, <3>2, ArchivedRead
      <4>2. ColdBlockAt(At(i))' = mem.blocks[i]'
        BY Zenon, <2>2, <4>1
      <4> QED BY Zenon, <3>2, <4>2
    <3>3. CASE ~Archived(i)' /\ ~Archived(i)
      <4>1. /\ i <= maxHotBlocks - reorgTailSize => ColdBlockAt(At(i)) = mem.blocks[i]
            /\ \/ ColdBlockAt(At(i)) \in {NoBlock, mem.blocks[i]}
               \/ ~OnNet(ColdBlockAt(At(i)))
        BY Zenon, <2>1, <3>3 DEF Running
      <4>2. ColdBlockAt(At(i))' = ColdBlockAt(At(i)) /\ mem.blocks[i]' = mem.blocks[i]
        BY Zenon, <2>2
      <4>3. OnNet(ColdBlockAt(At(i)))' = OnNet(ColdBlockAt(At(i)))
        BY Zenon, <4>2 DEF OnNet
      <4> QED BY Zenon, <3>3, <4>1, <4>2, <4>3
    <3> QED BY Zenon, <3>1, <3>2, <3>3
  <2>4. Height(mem)' = Height(mem)
    BY Zenon
  <2> QED BY ZenonT(40), <2>1, <2>2, <2>3, <2>4 DEF Running
<1> QED BY Zenon, <1>1, <1>3, <1>4, <1>5 DEF Typed, Follows

\* The window that Save reads, and an idle saver, have their types.
LEMMA WindowTyped ==
    ASSUME MemTyped
    PROVE  /\ HotWindowInfo(mem) \in Window /\ HotWindowInfo(mem).start = mem.start
           /\ Idle \in Save /\ StartSave \in Save
           /\ Idle.pc = "idle" /\ StartSave.pc = "snapshot" /\ StartSave.next = 1
           /\ NewChain \in Chain /\ HotWindowInfo(NewChain) \in Window
<1>1. <<>> \in Seq(Nat) /\ <<Genesis>> \in Seq(Seq(Nat)) /\ <<>> \in Seq(Seq(Nat))
      /\ Genesis \in Seq(Nat) /\ <<Genesis>>[1] = Genesis
  BY SMTT(30) DEF Genesis
<1>2. NewChain \in Chain /\ HotWindowInfo(NewChain) \in Window
  BY Zenon, <1>1 DEF NewChain, Chain, HotWindowInfo, BaseState, BaseBlock, Window
<1>3. Idle \in Save /\ Idle.pc = "idle"
  BY Zenon, <1>1, <1>2 DEF Idle, Save
<1>4. StartSave \in Save /\ StartSave.pc = "snapshot" /\ StartSave.next = 1
  BY Zenon, <1>1, <1>2 DEF StartSave, Idle, Save
<1>5. /\ mem.start \in Nat /\ mem.baseState \in Seq(Nat) /\ mem.baseBlock \in Seq(Nat)
      /\ mem.blocks[1] \in Seq(Nat)
  <2>1. mem.blocks \in Seq(Seq(Nat)) /\ 1 \in 1..Len(mem.blocks)
    BY SMTT(30) DEF MemTyped, Chain
  <2>2. mem.blocks[1] \in Seq(Nat)
    BY Zenon, <2>1, ElementIn
  <2> QED BY Zenon, <2>2 DEF MemTyped, Chain
<1>6. HotWindowInfo(mem) \in Window /\ HotWindowInfo(mem).start = mem.start
  BY Zenon, <1>1, <1>5 DEF HotWindowInfo, BaseState, BaseBlock, Window
<1> QED BY Zenon, <1>2, <1>3, <1>4, <1>6

\* A transaction is accepted.
LEMMA SubmitTxStep ==
    ASSUME Sheltered, Typed, NEW t \in Heights, Follows(t), NEW s \in Savers, SubmitTx(s)
    PROVE  Typed' /\ Follows(t)'
<1>1. /\ up = "up" /\ saver.pc = "idle" /\ sv' = [sv EXCEPT ![s] = StartSave]
      /\ UNCHANGED <<net, forks, up, mem, boot, file, cloud, state, crashes>>
  BY Zenon DEF SubmitTx, Ready, Handler, disk, saver, Sheltered
<1>2. sv' \in [Savers -> Save] /\ saver' = StartSave
  BY Zenon, <1>1, SaverMoves, WindowTyped DEF Typed
<1>3. saver'.pc = "snapshot" /\ saver'.next = 1
  BY Zenon, <1>2, WindowTyped DEF Typed
<1>4. SaveTyped'
  BY Zenon, <1>1, <1>2, <1>3 DEF Typed, SaveTyped
<1>5. \A h : ColdBlockAt(h)' = ColdBlockAt(h)
  BY Zenon, <1>1, ColdLeft
<1>6. DiskTyped' /\ StateSaved(t)'
  BY Zenon, <1>1, <1>5 DEF Typed, DiskTyped, Made, Follows, StateSaved, Recorded
<1>7. \A i \in 1..maxHotBlocks : ~Archived(i)'
  BY SMTT(30), <1>3 DEF Archived
<1> QED BY Zenon, <1>1, <1>4, <1>5, <1>6, <1>7, ReadsSame

\* Save copies the chain.
LEMMA SnapshotDataStep ==
    ASSUME Sheltered, Typed, NEW t \in Heights, Follows(t), NEW s \in Savers, SnapshotData(s)
    PROVE  Typed' /\ Follows(t)'
<1> DEFINE n == [saver EXCEPT !.pc = "archive", !.blocks = mem.blocks, !.state = mem.state]
<1>1. /\ up # "down" /\ saver.pc = "snapshot" /\ sv' = [sv EXCEPT ![s] = n]
      /\ UNCHANGED <<net, forks, up, mem, boot, file, cloud, state, crashes>>
  BY Zenon DEF SnapshotData, Step, disk, saver, Sheltered
<1>2. /\ n \in Save /\ n.pc = "archive" /\ n.blocks = mem.blocks /\ n.state = mem.state
      /\ n.next = 1
  <2>1. saver \in Save /\ saver.next = 1
    BY Zenon, <1>1, ChainStoreAssumption DEF Typed, SaveTyped, saver
  <2>2. mem.blocks \in Seq(Seq(Nat)) /\ mem.state \in Seq(Nat)
    BY Zenon DEF Typed, MemTyped, Chain
  <2> QED BY Zenon, <2>1, <2>2 DEF Save
<1> HIDE DEF n
<1>3. sv' \in [Savers -> Save] /\ saver' = n
  BY Zenon, <1>1, <1>2, SaverMoves DEF Typed
<1>4. SaveTyped'
  BY SMTT(30), <1>1, <1>2, <1>3 DEF Typed, SaveTyped
<1>5. \A h : ColdBlockAt(h)' = ColdBlockAt(h)
  BY Zenon, <1>1, ColdLeft
<1>6. DiskTyped' /\ StateSaved(t)'
  BY Zenon, <1>1, <1>5 DEF Typed, DiskTyped, Made, Follows, StateSaved, Recorded
<1>7. \A i \in 1..maxHotBlocks : ~Archived(i)'
  BY SMTT(30), <1>2, <1>3 DEF Archived
<1>8. up \in {"loaded", "restored", "up"}
  BY Zenon, <1>1 DEF Typed, SaveTyped
<1> QED BY Zenon, <1>1, <1>4, <1>5, <1>6, <1>7, <1>8, ReadsSame

\* While nothing is written, Save keeps what it has dealt with.
LEMMA ReadsKept ==
    ASSUME Sheltered, Typed, NEW t \in Heights, Follows(t),
           UNCHANGED <<net, forks, mem, boot, file, cloud>>,
           up' = "loaded" => up = "loaded",
           up' \in {"restored", "up"} =>
              up \in {"restored", "up"} /\ \A i \in 1..maxHotBlocks : Archived(i),
           state' \in [state : Seq(Nat), hw : Window], SaveTyped', StateSaved(t)'
    PROVE  Typed' /\ Follows(t)'
<1>1. \A h : ColdBlockAt(h)' = ColdBlockAt(h)
  BY Zenon, ColdLeft
<1>2. DiskTyped'
  BY Zenon, <1>1 DEF Typed, DiskTyped, Made
<1>3. ASSUME up' \in {"restored", "up"}, NEW i \in 1..maxHotBlocks
      PROVE  file'[At(i)] = mem.blocks[i]
  BY Zenon, <1>3 DEF Follows, Running
<1> QED BY Zenon, <1>1, <1>2, <1>3, ReadsSame

\* Save reads the window it will record.
LEMMA ReadWindowStep ==
    ASSUME Sheltered, Typed, NEW t \in Heights, Follows(t), NEW s \in Savers, ReadWindow(s)
    PROVE  Typed' /\ Follows(t)'
<1> DEFINE n == [saver EXCEPT !.pc = "state", !.hw = HotWindowInfo(mem)]
<1>1. /\ up # "down" /\ saver.pc = "archive" /\ sv' = [sv EXCEPT ![s] = n]
      /\ saver.next > Len(saver.blocks)
      /\ UNCHANGED <<net, forks, up, mem, boot, file, cloud, state, crashes>>
  BY Zenon DEF ReadWindow, Step, disk, saver, Sheltered
<1>2. /\ n \in Save /\ n.pc = "state" /\ n.hw = HotWindowInfo(mem)
      /\ n.state = mem.state /\ saver \in Save
  <2>1. saver \in Save /\ saver.state = mem.state
    BY Zenon, <1>1, ChainStoreAssumption DEF Typed, SaveTyped, saver
  <2>2. HotWindowInfo(mem) \in Window
    BY Zenon, WindowTyped DEF Typed
  <2> QED BY Zenon, <2>1, <2>2 DEF Save
<1> HIDE DEF n
<1>3. sv' \in [Savers -> Save] /\ saver' = n
  BY Zenon, <1>1, <1>2, SaverMoves DEF Typed
<1>4. HotWindowInfo(mem)' = HotWindowInfo(mem)
  BY Zenon, <1>1
<1>5. SaveTyped'
  BY Zenon, <1>1, <1>2, <1>3, <1>4 DEF Typed, SaveTyped
<1>6. \A h : ColdBlockAt(h)' = ColdBlockAt(h)
  BY Zenon, <1>1, ColdLeft
<1>7. StateSaved(t)' /\ state' \in [state : Seq(Nat), hw : Window]
  BY Zenon, <1>1, <1>6 DEF Typed, DiskTyped, Follows, StateSaved, Recorded
<1>8. ASSUME up' \in {"restored", "up"}
      PROVE  up \in {"restored", "up"} /\ \A i \in 1..maxHotBlocks : Archived(i)
  <2>1. up \in {"restored", "up"} /\ Len(mem.blocks) = maxHotBlocks
    BY Zenon, <1>1, <1>8 DEF Follows, Running
  <2>2. saver.next > maxHotBlocks /\ saver.next \in Nat /\ maxHotBlocks \in Nat
    <3>1. saver.blocks = mem.blocks /\ saver.next \in Nat
      BY Zenon, <1>1, <1>2 DEF Typed, SaveTyped, Save
    <3> QED BY Zenon, <1>1, <2>1, <3>1, ChainStoreAssumption
  <2>3. \A i \in 1..maxHotBlocks : i < saver.next
    BY SMTT(30), <2>2
  <2> QED BY Zenon, <2>1, <2>3 DEF Archived
<1> QED BY Zenon, <1>1, <1>5, <1>7, <1>8, ReadsKept

\* state.json is replaced: the window it records fits the files.
LEMMA WriteStateStep ==
    ASSUME Sheltered, Typed, NEW t \in Heights, Follows(t), NEW s \in Savers, WriteState(s)
    PROVE  Typed' /\ Follows(t)'
<1> DEFINE n == [saver EXCEPT !.pc = "offload"]
<1>1. /\ up # "down" /\ saver.pc = "state" /\ sv' = [sv EXCEPT ![s] = n]
      /\ state' = [state |-> saver.state, hw |-> saver.hw]
      /\ UNCHANGED <<net, forks, up, mem, boot, file, cloud, crashes>>
  BY Zenon DEF WriteState, Step, saver, Sheltered
<1>2. /\ saver \in Save /\ saver.state = mem.state /\ saver.hw = HotWindowInfo(mem)
  BY Zenon, <1>1, ChainStoreAssumption DEF Typed, SaveTyped, saver
<1>3. n \in Save /\ n.pc = "offload" /\ n.hw = HotWindowInfo(mem)
  BY Zenon, <1>2 DEF Save
<1> HIDE DEF n
<1>4. sv' \in [Savers -> Save] /\ saver' = n
  BY Zenon, <1>1, <1>3, SaverMoves DEF Typed
<1>5. HotWindowInfo(mem)' = HotWindowInfo(mem)
  BY Zenon, <1>1
<1>6. SaveTyped'
  BY Zenon, <1>1, <1>3, <1>4, <1>5 DEF Typed, SaveTyped
<1>7. \A i : Archived(i)
  BY Zenon, <1>1 DEF Archived
<1>8. /\ state'.state = mem.state /\ state'.hw = HotWindowInfo(mem)
      /\ state' \in [state : Seq(Nat), hw : Window]
  <2>1. saver.state \in Seq(Nat) /\ saver.hw \in Window
    BY Zenon, <1>2 DEF Save
  <2> QED BY Zenon, <1>1, <1>2, <2>1
<1>9. up \in {"loaded", "restored", "up"}
  BY Zenon, <1>1 DEF Typed, SaveTyped
<1>10. Recorded(HotWindowInfo(mem), t) /\ Len(mem.state) <= t
  <2>1. CASE up = "loaded"
    <3>1. mem.start = 0 /\ Len(mem.state) <= t
      BY Zenon, <2>1 DEF Follows, Loaded
    <3> QED BY Zenon, <3>1 DEF Recorded, HotWindowInfo, BaseState
  <2>2. CASE up # "loaded"
    <3>1. Running(t) /\ Disk(t)
      BY Zenon, <1>9, <2>2 DEF Follows
    <3>2. t = Height(mem)
      BY Zenon, <1>7, <3>1, AllArchived
    <3>3. /\ mem.start # 0 /\ mem.start \in 1..(t - maxHotBlocks + 1)
          /\ mem.start - 1 \in 0..(mem.start - 1)
      BY SMTT(30), <3>1, <3>2, WindowBounds
    <3>4. /\ HotWindowInfo(mem).start = mem.start
          /\ HotWindowInfo(mem).baseState = mem.baseState
          /\ HotWindowInfo(mem).baseBlock = mem.baseBlock
      BY Zenon, <3>3 DEF HotWindowInfo, BaseState, BaseBlock
    <3>5. mem.baseBlock = ColdBlockAt(mem.start - 1)
      <4>1. ColdBlockAt(mem.start - 1) = Ancestor(mem.baseBlock, Len(mem.baseBlock))
        BY Zenon, <3>1, <3>3 DEF Running
      <4>2. mem.baseBlock \in Seq(Nat)
        BY Zenon DEF Typed, MemTyped, Chain
      <4> QED BY Zenon, <4>1, <4>2, OwnAncestor
    <3>6. mem.baseState = mem.baseBlock /\ Len(mem.state) <= t
      BY Zenon, <3>1, <3>2 DEF Running
    <3> QED BY Zenon, <3>3, <3>4, <3>5, <3>6 DEF Recorded
  <2> QED BY Zenon, <2>1, <2>2
<1>11. \A h : ColdBlockAt(h)' = ColdBlockAt(h)
  BY Zenon, <1>1, ColdLeft
<1>12. StateSaved(t)'
  BY Zenon, <1>8, <1>10, <1>11 DEF StateSaved, Recorded
<1> QED BY Zenon, <1>1, <1>6, <1>7, <1>8, <1>12, ReadsKept

\* The oldest file is copied to the archive directory: it is still read from
\* where it was.
LEMMA CopyToArchiveStep ==
    ASSUME Sheltered, Typed, NEW t \in Heights, Follows(t), NEW s \in Savers, CopyToArchive(s)
    PROVE  Typed' /\ Follows(t)'
<1>0. s = Main
  BY Zenon DEF Sheltered
<1>1. PICK h \in Offloadable(s) :
         /\ up # "down" /\ saver.pc = "offload"
         /\ sv' = [sv EXCEPT ![s] = [saver EXCEPT !.pc = "remove", !.next = h]]
         /\ cloud' = [cloud EXCEPT ![h] = file[h]]
         /\ UNCHANGED <<net, forks, up, mem, boot, file, state, crashes>>
  BY Zenon, <1>0 DEF CopyToArchive, Step, saver
<1> DEFINE n == [saver EXCEPT !.pc = "remove", !.next = h]
<1>2. h \in Heights /\ file[h] # NoBlock /\ h < saver.hw.start
  BY Zenon, <1>0, <1>1 DEF Offloadable, LocalHeights, saver
<1>3. /\ saver \in Save /\ saver.hw = HotWindowInfo(mem)
      /\ file \in [Heights -> Seq(Nat) \cup {NoBlock}]
      /\ cloud \in [Heights -> Seq(Nat) \cup {NoBlock}]
  BY Zenon, <1>1, ChainStoreAssumption DEF Typed, SaveTyped, DiskTyped, saver
<1>4. n \in Save /\ n.pc = "remove" /\ n.hw = saver.hw /\ n.next = h
  <2>1. h \in Nat
    BY SMTT(30), <1>2 DEF Heights
  <2> QED BY Zenon, <1>3, <2>1 DEF Save
<1> HIDE DEF n
<1>5. sv' \in [Savers -> Save] /\ saver' = n
  BY Zenon, <1>1, <1>4, SaverMoves DEF Typed, n
<1>6. /\ cloud'[h] = file[h] /\ cloud' \in [Heights -> Seq(Nat) \cup {NoBlock}]
      /\ \A g \in Heights : g # h => cloud'[g] = cloud[g]
  BY Zenon, <1>1, <1>2, <1>3
<1>7. HotWindowInfo(mem)' = HotWindowInfo(mem)
  BY Zenon, <1>1
<1>8. SaveTyped'
  BY Zenon, <1>1, <1>2, <1>3, <1>4, <1>5, <1>6, <1>7 DEF Typed, SaveTyped
<1>9. \A g : ColdBlockAt(g)' = ColdBlockAt(g)
  BY Zenon, <1>1, <1>2, <1>6 DEF ColdBlockAt
<1>10. DiskTyped'
  <2>1. \A g \in Heights : cloud'[g] = cloud[g] \/ cloud'[g] = file[g]
    BY Zenon, <1>6
  <2>2. \A b : Made(b)' = Made(b)
    BY Zenon, <1>1 DEF Made
  <2>3. ASSUME NEW g \in Heights
        PROVE  /\ file[g] # NoBlock => Made(file[g]) /\ Len(file[g]) = g
               /\ cloud'[g] # NoBlock => Made(cloud'[g]) /\ Len(cloud'[g]) = g
    BY Zenon, <2>1 DEF Typed, DiskTyped
  <2>4. ASSUME NEW g \in Heights
        PROVE  (/\ file[g] # NoBlock => Made(file[g]) /\ Len(file[g]) = g
                /\ cloud[g] # NoBlock => Made(cloud[g]) /\ Len(cloud[g]) = g)'
    BY Zenon, <1>1, <2>3 DEF Made
  <2> QED BY Zenon, <1>1, <1>3, <1>6, <2>4 DEF Typed, DiskTyped
<1>11. StateSaved(t)'
  BY Zenon, <1>1, <1>9 DEF Follows, StateSaved, Recorded
<1>12. ASSUME up' \in {"restored", "up"}
       PROVE  /\ up \in {"restored", "up"}
              /\ \A i \in 1..maxHotBlocks : file'[At(i)] = mem.blocks[i]
  <2>1. \A i : Archived(i)
    BY Zenon, <1>1 DEF Archived
  <2> QED BY Zenon, <1>1, <1>12, <2>1 DEF Follows, Running
<1> QED BY Zenon, <1>1, <1>8, <1>9, <1>10, <1>11, <1>12, ReadsSame

\* The file is removed: the copy is read instead, and it is none of the window's.
LEMMA RemoveLocalStep ==
    ASSUME Sheltered, Typed, NEW t \in Heights, Follows(t), NEW s \in Savers, RemoveLocal(s)
    PROVE  Typed' /\ Follows(t)'
<1> DEFINE n == [saver EXCEPT !.pc = "offload"]
           h == saver.next
<1>1. /\ up # "down" /\ saver.pc = "remove" /\ sv' = [sv EXCEPT ![s] = n]
      /\ file' = [file EXCEPT ![h] = NoBlock]
      /\ UNCHANGED <<net, forks, up, mem, boot, cloud, state, crashes>>
  BY Zenon DEF RemoveLocal, Step, saver, Sheltered
<1>2. /\ saver \in Save /\ saver.hw = HotWindowInfo(mem)
      /\ file \in [Heights -> Seq(Nat) \cup {NoBlock}]
      /\ h \in Heights /\ h < saver.hw.start
      /\ file[h] # NoBlock /\ cloud[h] = file[h]
  BY Zenon, <1>1, ChainStoreAssumption DEF Typed, SaveTyped, DiskTyped, saver
<1>3. n \in Save /\ n.pc = "offload" /\ n.hw = saver.hw
  BY Zenon, <1>2 DEF Save
<1> HIDE DEF n, h
<1>4. sv' \in [Savers -> Save] /\ saver' = n
  BY Zenon, <1>1, <1>3, SaverMoves DEF Typed
<1>5. /\ file'[h] = NoBlock /\ file' \in [Heights -> Seq(Nat) \cup {NoBlock}]
      /\ \A g \in Heights : g # h => file'[g] = file[g]
  BY Zenon, <1>1, <1>2
<1>6. HotWindowInfo(mem)' = HotWindowInfo(mem)
  BY Zenon, <1>1
<1>7. SaveTyped'
  BY Zenon, <1>1, <1>2, <1>3, <1>4, <1>6 DEF Typed, SaveTyped
<1>8. \A g : ColdBlockAt(g)' = ColdBlockAt(g)
  BY Zenon, <1>1, <1>2, <1>5 DEF ColdBlockAt
<1>9. DiskTyped'
  <2>1. \A g \in Heights : file'[g] = NoBlock \/ file'[g] = file[g]
    BY Zenon, <1>5
  <2>2. ASSUME NEW g \in Heights
        PROVE  (/\ file[g] # NoBlock => Made(file[g]) /\ Len(file[g]) = g
                /\ cloud[g] # NoBlock => Made(cloud[g]) /\ Len(cloud[g]) = g)'
    BY Zenon, <1>1, <2>1 DEF Typed, DiskTyped, Made
  <2> QED BY Zenon, <1>1, <1>5, <2>2 DEF Typed, DiskTyped
<1>10. StateSaved(t)'
  BY Zenon, <1>1, <1>8 DEF Follows, StateSaved, Recorded
<1>11. ASSUME up' \in {"restored", "up"}
       PROVE  /\ up \in {"restored", "up"}
              /\ \A i \in 1..maxHotBlocks : file'[At(i)] = mem.blocks[i]
  <2>1. up \in {"restored", "up"} /\ Running(t)
    BY Zenon, <1>1, <1>11 DEF Follows
  <2>2. ASSUME NEW i \in 1..maxHotBlocks PROVE file'[At(i)] = mem.blocks[i]
    <3>1. Archived(i)
      BY Zenon, <1>1 DEF Archived
    <3>2. file[At(i)] = mem.blocks[i]
      BY Zenon, <2>1, <3>1 DEF Running
    <3>3. h < mem.start
      BY Zenon, <1>2, WindowTyped DEF Typed
    <3>4. At(i) # h
      BY SMTT(30), <1>2, <2>1, <3>3, WindowBounds DEF At, Heights
    <3>5. At(i) \in Heights
      BY Zenon, <2>1, WindowBlocks
    <3> QED BY Zenon, <1>5, <3>2, <3>4, <3>5
  <2> QED BY Zenon, <2>1, <2>2
<1> QED BY Zenon, <1>1, <1>7, <1>8, <1>9, <1>10, <1>11, ReadsSame

\* Nothing is left to move, Save returns, and main() has started.
LEMMA SaveEnds ==
    ASSUME Sheltered, Typed, NEW t \in Heights, Follows(t), NEW s \in Savers,
           EnforceStorageLimit(s) \/ SaveReturns(s) \/ Started
    PROVE  Typed' /\ Follows(t)'
<1> DEFINE n == [saver EXCEPT !.pc = "saved"]
<1>0. s = Main /\ saver \in Save
  BY Zenon, ChainStoreAssumption DEF Sheltered, Typed, SaveTyped, saver
<1>1. /\ saver.pc \in {"offload", "saved"}
      /\ \/ sv' = [sv EXCEPT ![s] = n] /\ up' = up /\ up # "down" /\ saver.pc = "offload"
         \/ sv' = [sv EXCEPT ![s] = Idle] /\ up' = "up" /\ up \in {"restored", "up"}
      /\ UNCHANGED <<net, forks, mem, boot, file, cloud, state>>
  BY Zenon, <1>0 DEF EnforceStorageLimit, SaveReturns, Started, Step, disk, saver
<1>2. n \in Save /\ n.pc = "saved" /\ n.hw = saver.hw
  BY Zenon, <1>0 DEF Save
<1> HIDE DEF n
<1>3. /\ sv' \in [Savers -> Save]
      /\ \/ saver' = n /\ up' = up /\ up # "down" /\ saver.pc = "offload"
         \/ saver' = Idle /\ up' = "up" /\ up \in {"restored", "up"}
  BY Zenon, <1>1, <1>2, SaverMoves, WindowTyped DEF Typed
<1>4. HotWindowInfo(mem)' = HotWindowInfo(mem)
  BY Zenon, <1>1
<1>5. SaveTyped'
  <2>1. CASE saver' = n /\ up' = up /\ up # "down" /\ saver.pc = "offload"
    BY Zenon, <1>1, <1>2, <1>3, <1>4, <2>1 DEF Typed, SaveTyped
  <2>2. CASE saver' = Idle /\ up' = "up"
    <3>1. Idle.pc = "idle"
      BY Zenon, WindowTyped DEF Typed
    <3> QED BY Zenon, <1>1, <1>3, <2>2, <3>1 DEF Typed, SaveTyped
  <2> QED BY Zenon, <1>3, <2>1, <2>2
<1>6. \A i : Archived(i)
  BY Zenon, <1>1 DEF Archived
<1>7. \A h : ColdBlockAt(h)' = ColdBlockAt(h)
  BY Zenon, <1>1, ColdLeft
<1>8. StateSaved(t)' /\ state' \in [state : Seq(Nat), hw : Window]
  BY Zenon, <1>1, <1>7 DEF Typed, DiskTyped, Follows, StateSaved, Recorded
<1>9. /\ up' = "loaded" => up = "loaded"
      /\ up' \in {"restored", "up"} => up \in {"restored", "up"}
  BY Zenon, <1>1
<1> QED BY Zenon, <1>1, <1>5, <1>6, <1>8, <1>9, ReadsKept

\* Save writes the next block of the window: the facts both kinds of step share.
LEMMA ArchiveMoves ==
    ASSUME Sheltered, Typed, NEW t \in Heights, Follows(t), NEW s \in Savers, archiveOneBlock(s)
    PROVE  LET i == saver.next
               b == mem.blocks[i]
               g == Len(b)
           IN  /\ up # "down" /\ saver.pc = "archive" /\ i \in 1..Len(mem.blocks)
               /\ UNCHANGED <<net, forks, up, mem, boot, cloud, state>>
               /\ saver'.pc = "archive" /\ saver'.next = i + 1
               /\ b \in Seq(Nat) /\ b # NoBlock /\ Made(b) /\ g \in Heights
               /\ file' \in [Heights -> Seq(Nat) \cup {NoBlock}]
               /\ \A h \in Heights : h # g => file'[h] = file[h]
               /\ \/ file'[g] = b
                  \/ /\ file' = file /\ file[g] # NoBlock
                     /\ i <= Len(mem.blocks) - reorgTailSize
               /\ SaveTyped' /\ DiskTyped'
<1> DEFINE i == saver.next
           b == mem.blocks[i]
           g == Len(b)
           n == [saver EXCEPT !.next = i + 1]
<1>1. /\ up # "down" /\ saver.pc = "archive" /\ i <= Len(saver.blocks)
      /\ sv' = [sv EXCEPT ![s] = n]
      /\ file' = IF /\ file[Len(saver.blocks[i])] # NoBlock
                    /\ i <= Len(saver.blocks) - reorgTailSize
                 THEN file ELSE [file EXCEPT ![Len(saver.blocks[i])] = saver.blocks[i]]
      /\ UNCHANGED <<net, forks, up, mem, boot, cloud, state>>
  BY Zenon DEF archiveOneBlock, Step, saver, Sheltered
<1>2. /\ saver \in Save /\ saver.blocks = mem.blocks /\ i >= 1 /\ i \in Nat
      /\ saver.state = mem.state
  <2>1. saver \in Save
    BY Zenon, ChainStoreAssumption DEF Typed, SaveTyped, saver
  <2> QED BY Zenon, <1>1, <2>1 DEF Typed, SaveTyped, Save
<1>3. /\ n \in Save /\ n.pc = "archive" /\ n.next = i + 1
      /\ n.blocks = mem.blocks /\ n.state = mem.state
  <2>1. saver.pc = "archive" /\ i + 1 \in Nat
    BY SMTT(30), <1>1, <1>2
  <2> HIDE DEF i
  <2> QED BY Zenon, <1>2, <2>1 DEF Save
<1>4. i \in 1..Len(mem.blocks)
  <2>1. mem.blocks \in Seq(Seq(Nat))
    BY Zenon DEF Typed, MemTyped, Chain
  <2> QED BY SMTT(30), <1>1, <1>2, <2>1
<1> HIDE DEF n
<1>5. b \in Seq(Nat) /\ b # NoBlock /\ Made(b)
  <2>1. b \in Seq(Nat)
    BY Zenon, <1>4, ElementIn DEF Typed, MemTyped, Chain
  <2> QED BY Zenon, <1>4, <2>1 DEF Typed, MemTyped, Sheltered
<1>6. g \in Heights
  BY Zenon, <1>5, MadeHeight DEF Typed
<1>7. \/ file' = [file EXCEPT ![g] = b]
      \/ file' = file /\ file[g] # NoBlock /\ i <= Len(mem.blocks) - reorgTailSize
  BY Zenon, <1>1, <1>2
<1>8. saver' = n /\ sv' \in [Savers -> Save]
  BY Zenon, <1>1, <1>3, SaverMoves DEF Typed
<1>9. file \in [Heights -> Seq(Nat) \cup {NoBlock}]
  BY Zenon DEF Typed, DiskTyped
<1> HIDE DEF b, g, i
<1>10. /\ file' \in [Heights -> Seq(Nat) \cup {NoBlock}]
       /\ \A h \in Heights : h # g => file'[h] = file[h]
       /\ \/ file'[g] = b
          \/ file' = file /\ file[g] # NoBlock /\ i <= Len(mem.blocks) - reorgTailSize
  BY Zenon, <1>5, <1>6, <1>7, <1>9
<1>11. SaveTyped'
  BY SMTT(30), <1>1, <1>2, <1>3, <1>8 DEF Typed, SaveTyped
<1>12. DiskTyped'
  <2>1. ASSUME NEW h \in Heights
        PROVE  (/\ file[h] # NoBlock => Made(file[h]) /\ Len(file[h]) = h
                /\ cloud[h] # NoBlock => Made(cloud[h]) /\ Len(cloud[h]) = h)'
    <3>1. file'[h] # NoBlock => Made(file'[h]) /\ Len(file'[h]) = h
      <4>1. CASE file'[h] = file[h]
        BY Zenon, <4>1 DEF Typed, DiskTyped
      <4>2. CASE file'[h] # file[h]
        <5>1. h = g /\ file'[g] = b
          BY Zenon, <1>10, <4>2
        <5> QED BY Zenon, <1>5, <5>1 DEF g
      <4> QED BY Zenon, <4>1, <4>2
    <3> QED BY Zenon, <1>1, <3>1 DEF Typed, DiskTyped, Made
  <2> QED BY Zenon, <1>1, <1>10, <2>1 DEF Typed, DiskTyped
<1> QED BY Zenon, <1>1, <1>3, <1>4, <1>5, <1>6, <1>8, <1>10, <1>11, <1>12 DEF b, g, i

\* Before the window is restored, the blocks written are those that were read.
LEMMA ArchiveLoaded ==
    ASSUME Sheltered, Typed, NEW t \in Heights, Follows(t), NEW s \in Savers,
           archiveOneBlock(s), up = "loaded"
    PROVE  Typed' /\ Follows(t)'
<1> DEFINE i == saver.next
           b == mem.blocks[i]
           g == Len(b)
<1>1. /\ i \in 1..Len(mem.blocks) /\ b # NoBlock /\ g \in Heights
      /\ UNCHANGED <<net, forks, up, mem, boot, cloud, state>>
      /\ \A h \in Heights : h # g => file'[h] = file[h]
      /\ file'[g] = b \/ file' = file
      /\ SaveTyped' /\ DiskTyped'
  BY Zenon, ArchiveMoves
<1>2. b = ColdBlockAt(g)
  <2> DEFINE h == boot.start + i - 1
  <2>1. b = ColdBlockAt(h)
    BY Zenon, <1>1 DEF Follows, Loaded
  <2>2. h \in Heights
    BY Zenon, <1>1, <2>1 DEF ColdBlockAt
  <2>3. Len(ColdBlockAt(h)) = h
    BY Zenon, <1>1, <2>1, <2>2, ColdTyped DEF Typed
  <2> QED BY Zenon, <2>1, <2>3
<1> HIDE DEF b, g, i
<1>3. ASSUME NEW h PROVE ColdBlockAt(h)' = ColdBlockAt(h)
  <2>1. CASE h = g /\ file'[g] = b
    BY Zenon, <1>1, <1>2, <2>1 DEF ColdBlockAt
  <2>2. CASE ~(h = g /\ file'[g] = b)
    <3>1. h \in Heights => file'[h] = file[h]
      BY Zenon, <1>1, <2>2
    <3> QED BY Zenon, <1>1, <3>1 DEF ColdBlockAt
  <2> QED BY Zenon, <2>1, <2>2
<1>4. StateSaved(t)'
  BY Zenon, <1>1, <1>3 DEF Follows, StateSaved, Recorded
<1>5. up' = "loaded"
  BY Zenon, <1>1
<1>6. up' \notin {"restored", "up"}
  BY Zenon, <1>5
<1> QED BY Zenon, <1>1, <1>3, <1>4, <1>6, ReadsSame

\* What a running node's Save has read back, up to the block it has written last.
LEMMA WrittenPart ==
    ASSUME Sheltered, Typed, NEW t \in Heights, Disk(t), Running(t),
           saver.pc = "archive", saver.next \in 1..maxHotBlocks
    PROVE  /\ At(saver.next) \in Heights /\ At(saver.next) <= t + 1
           /\ \A k \in 1..(saver.next - 1) :
                 k \in 1..maxHotBlocks /\ ColdBlockAt(At(k)) = mem.blocks[k]
           /\ ~Archived(saver.next)
<1> DEFINE i == saver.next
<1>1. At(i) \in Heights
  BY Zenon, WindowBlocks
<1>2. ASSUME NEW k \in 1..(i - 1)
      PROVE  k \in 1..maxHotBlocks /\ ColdBlockAt(At(k)) = mem.blocks[k] /\ At(k) <= t
  <2>1. k \in 1..maxHotBlocks /\ k < i
    BY SMTT(30), WindowBounds
  <2> QED BY Zenon, <2>1, ArchivedRead DEF Archived
<1>3. At(i) <= t + 1
  <2>1. CASE i = 1
    BY SMTT(30), <2>1, WindowBounds DEF At
  <2>2. CASE i # 1
    <3>1. i - 1 \in 1..(i - 1)
      BY SMTT(30), <2>2
    <3>2. At(i - 1) <= t
      BY Zenon, <1>2, <3>1
    <3> QED BY SMTT(30), <3>2, WindowBounds DEF At
  <2> QED BY Zenon, <2>1, <2>2
<1>4. ~Archived(i)
  BY SMTT(30) DEF Archived
<1> QED BY Zenon, <1>1, <1>2, <1>3, <1>4

\* The parent of the window and its ancestors are on the network's chain when
\* a block of the window is.
LEMMA BelowOnNet ==
    ASSUME Sheltered, Typed, NEW t \in Heights, Running(t),
           NEW j \in 1..maxHotBlocks, OnNet(mem.blocks[j])
    PROVE  /\ mem.baseBlock = Ancestor(net, mem.start - 1)
           /\ \A i \in 1..j : mem.blocks[i] = Ancestor(net, At(i)) /\ At(i) \in 0..Len(net)
           /\ \A h \in 0..(mem.start - 1) : ColdBlockAt(h) = Ancestor(net, h)
<1>1. net \in Seq(0..forks) /\ Len(net) \in Nat
  BY SMTT(30) DEF Typed, NetTyped
<1>2. ASSUME NEW i \in 1..j
      PROVE  mem.blocks[i] = Ancestor(net, At(i)) /\ At(i) \in 0..Len(net)
  <2>1. i \in 1..maxHotBlocks
    BY SMTT(30), WindowBounds
  <2>2. OnNet(mem.blocks[i])
    BY Zenon, <2>1 DEF Running
  <2>3. Len(mem.blocks[i]) = At(i) /\ Made(mem.blocks[i]) /\ At(i) \in Heights
    BY Zenon, <2>1, WindowBlocks
  <2>4. At(i) \in 0..Len(net)
    <3>1. At(i) <= Len(net) /\ At(i) \in Nat
      BY SMTT(30), <2>3 DEF Made, Heights
    <3> QED BY SMTT(30), <1>1, <3>1
  <2> QED BY Zenon, <2>2, <2>3, <2>4 DEF OnNet
<1>3. At(1) = mem.start /\ 1 \in 1..j /\ mem.start \in Nat \ {0}
  BY SMTT(30), WindowBounds DEF At
<1>4. mem.blocks[1] = Ancestor(net, mem.start) /\ mem.start \in 1..Len(net)
  BY SMTT(30), <1>2, <1>3
<1>5. mem.baseBlock = Ancestor(net, mem.start - 1)
  <2>1. Parent(Ancestor(net, mem.start)) = Ancestor(net, mem.start - 1)
    BY Zenon, <1>1, <1>4, AncestorParent
  <2> QED BY Zenon, <1>4, <2>1 DEF Running
<1>6. ASSUME NEW h \in 0..(mem.start - 1) PROVE ColdBlockAt(h) = Ancestor(net, h)
  <2>1. mem.start - 1 \in 0..Len(net)
    BY SMTT(30), <1>1, <1>4
  <2>2. Ancestor(Ancestor(net, mem.start - 1), h) = Ancestor(net, h)
    BY Zenon, <1>1, <2>1, AncestorTwice
  <2> QED BY Zenon, <1>5, <2>2 DEF Running
<1> QED BY Zenon, <1>2, <1>5, <1>6

\* An ancestor of the network's tip is on its chain.
LEMMA AncestorOnNet ==
    ASSUME NetTyped, NEW h \in 0..Len(net) PROVE OnNet(Ancestor(net, h))
<1>1. Len(Ancestor(net, h)) = h
  BY Zenon, AncestorTyped DEF NetTyped
<1> QED BY Zenon, <1>1 DEF OnNet

\* A file that exists and is not written again is that of the block.
LEMMA ArchiveSkips ==
    ASSUME Sheltered, Typed, NEW t \in Heights, Follows(t), NEW s \in Savers,
           archiveOneBlock(s), up \in {"restored", "up"}, UNCHANGED file,
           file[Len(mem.blocks[saver.next])] # NoBlock,
           saver.next <= Len(mem.blocks) - reorgTailSize
    PROVE  Typed' /\ Follows(t)'
<1> DEFINE i == saver.next
<1>1. /\ saver.pc = "archive" /\ i \in 1..Len(mem.blocks)
      /\ saver'.pc = "archive" /\ saver'.next = i + 1
      /\ UNCHANGED <<net, forks, up, mem, boot, cloud, state>>
      /\ SaveTyped' /\ DiskTyped'
  BY Zenon, ArchiveMoves
<1>2. Running(t) /\ Disk(t) /\ StateSaved(t)
  BY Zenon DEF Follows
<1>3. i \in 1..maxHotBlocks /\ Len(mem.blocks) = maxHotBlocks
  BY Zenon, <1>1, <1>2 DEF Running
<1>4. Len(mem.blocks[i]) = At(i) /\ At(i) \in Heights
  BY Zenon, <1>2, <1>3, WindowBlocks
<1>5. ~Archived(i)
  BY Zenon, <1>1, <1>2, <1>3, WrittenPart
<1>6. ColdBlockAt(At(i)) = mem.blocks[i]
  BY Zenon, <1>2, <1>3, <1>5 DEF Running
<1>7. file[At(i)] = mem.blocks[i]
  BY Zenon, <1>4, <1>6 DEF ColdBlockAt
<1>8. \A h : ColdBlockAt(h)' = ColdBlockAt(h)
  BY Zenon, <1>1, ColdLeft
<1>9. StateSaved(t)'
  BY Zenon, <1>1, <1>2, <1>8 DEF StateSaved, Recorded
<1>10. ASSUME NEW k \in 1..maxHotBlocks, Archived(k)' PROVE file'[At(k)] = mem.blocks[k]
  <2>1. k = i \/ k < i
    <3>1. k < i + 1
      BY Zenon, <1>1, <1>10 DEF Archived
    <3> QED BY SMTT(30), <1>3, <3>1
  <2>2. k < i => Archived(k)
    BY Zenon DEF Archived
  <2> QED BY Zenon, <1>2, <1>7, <2>1, <2>2 DEF Running
<1>11. up' \in {"restored", "up"} /\ up' # "loaded"
  BY Zenon, <1>1
<1> QED BY Zenon, <1>1, <1>8, <1>9, <1>10, <1>11, ReadsSame

\* A block is written: the files reach as far as before or one height further.
LEMMA ArchiveWrites ==
    ASSUME Sheltered, Typed, NEW t \in Heights, Follows(t), NEW s \in Savers,
           archiveOneBlock(s), up \in {"restored", "up"},
           file'[Len(mem.blocks[saver.next])] = mem.blocks[saver.next]
    PROVE  Typed' /\ \E u \in Heights : Follows(u)'
<1>0. PICK i, b, g : i = saver.next /\ b = mem.blocks[i] /\ g = At(i)
  BY Zenon
<1> DEFINE u == IF g > t THEN g ELSE t
<1>1. /\ saver.pc = "archive" /\ i \in 1..Len(mem.blocks)
      /\ saver'.pc = "archive" /\ saver'.next = i + 1
      /\ UNCHANGED <<net, forks, up, mem, boot, cloud, state>>
      /\ \A h \in Heights : h # Len(b) => file'[h] = file[h]
      /\ SaveTyped' /\ DiskTyped'
  BY Zenon, <1>0, ArchiveMoves
<1>2. Running(t) /\ Disk(t) /\ StateSaved(t)
  BY Zenon DEF Follows
<1>3. i \in 1..maxHotBlocks
  BY Zenon, <1>1, <1>2 DEF Running
<1>4. Len(b) = g /\ g \in Heights /\ b # NoBlock /\ b \in Seq(Nat)
  BY Zenon, <1>0, <1>2, <1>3, WindowBlocks
<1>5. /\ g <= t + 1 /\ ~Archived(i)
      /\ \A k \in 1..(i - 1) : k \in 1..maxHotBlocks /\ ColdBlockAt(At(k)) = mem.blocks[k]
  BY Zenon, <1>0, <1>1, <1>2, <1>3, WrittenPart
<1>6. /\ maxHotBlocks \in Nat \ {0} /\ mem.start \in Nat \ {0}
      /\ Height(mem) = mem.start + maxHotBlocks - 1
      /\ mem.start - 1 <= t /\ t <= Height(mem) /\ t \in Nat
      /\ g = mem.start + i - 1 /\ i \in Nat
  BY SMTT(30), <1>0, <1>2, <1>3, WindowBounds DEF At
<1>7. /\ u \in Heights /\ u >= t /\ u <= Height(mem) /\ u <= t + 1 /\ u >= g
      /\ \A h : h \in Nat => (h <= u <=> h <= t \/ h = g)
  BY SMTT(30), <1>3, <1>4, <1>5, <1>6 DEF Heights
<1>8. file'[g] = b /\ \A h \in Heights : h # g => file'[h] = file[h]
  BY Zenon, <1>0, <1>1, <1>4
<1> HIDE DEF u
<1>9. ColdBlockAt(g)' = b /\ \A h : h # g => ColdBlockAt(h)' = ColdBlockAt(h)
  <2>1. ColdBlockAt(g)' = b
    BY Zenon, <1>4, <1>8 DEF ColdBlockAt
  <2>2. ASSUME NEW h, h # g PROVE ColdBlockAt(h)' = ColdBlockAt(h)
    BY Zenon, <1>1, <1>8, <2>2 DEF ColdBlockAt
  <2> QED BY Zenon, <2>1, <2>2
<1>10. \A a : OnNet(a)' = OnNet(a)
  BY Zenon, <1>1 DEF OnNet
<1>11. \A h \in 0..(mem.start - 1) :
          h # g /\ ColdBlockAt(h)' = ColdBlockAt(h) /\ ColdBlockAt(h) = Ancestor(mem.baseBlock, h)
  <2>1. \A h \in 0..(mem.start - 1) : h # g
    BY SMTT(30), <1>3, <1>6
  <2> QED BY Zenon, <1>2, <1>9, <2>1 DEF Running
<1>12. \A k \in 1..i : \A h : h = At(k) => ColdBlockAt(h)' = mem.blocks[k]
  <2> TAKE k \in 1..i
  <2> TAKE h
  <2> HAVE h = At(k)
  <2>1. CASE k = i
    BY Zenon, <1>0, <1>9, <2>1
  <2>2. CASE k # i
    <3>1. k \in 1..(i - 1) /\ At(k) # g
      BY SMTT(30), <1>6, <2>2 DEF At
    <3> QED BY Zenon, <1>5, <1>9, <3>1
  <2> QED BY Zenon, <2>1, <2>2
<1>13. /\ mem.blocks[1] \in Seq(Nat) /\ Len(mem.blocks[1]) = mem.start
       /\ \A h \in 0..mem.start : ColdBlockAt(h)' = Ancestor(mem.blocks[1], h)
  <2>1. PICK a : a = mem.blocks[1]
    BY Zenon
  <2>2. 1 \in 1..maxHotBlocks /\ 1 \in 1..i /\ At(1) = mem.start
    BY SMTT(30), <1>3, <1>6 DEF At
  <2>3. a \in Seq(Nat) /\ Len(a) = mem.start
    BY Zenon, <1>2, <2>1, <2>2, WindowBlocks
  <2>4. ASSUME NEW h \in 0..mem.start PROVE ColdBlockAt(h)' = Ancestor(a, h)
    <3>1. CASE h = mem.start
      <4>1. ColdBlockAt(h)' = a
        BY Zenon, <1>12, <2>1, <2>2, <3>1
      <4> QED BY Zenon, <2>3, <3>1, <4>1, OwnAncestor
    <3>2. CASE h # mem.start
      <4>1. h \in 0..(mem.start - 1) /\ mem.start - 1 \in 0..Len(a)
        BY SMTT(30), <1>6, <2>3, <3>2
      <4>2. mem.baseBlock = Ancestor(a, mem.start - 1)
        BY Zenon, <1>2, <2>1, <2>3 DEF Running, Parent
      <4>3. Ancestor(Ancestor(a, mem.start - 1), h) = Ancestor(a, h)
        BY Zenon, <2>3, <4>1, AncestorTwice
      <4> QED BY Zenon, <1>11, <4>1, <4>2, <4>3
    <3> QED BY Zenon, <3>1, <3>2
  <2> QED BY Zenon, <2>1, <2>3, <2>4
<1>14. \A h \in 0..(u - maxHotBlocks + 1) : \A q \in 0..h :
          ColdBlockAt(q)' = Ancestor(ColdBlockAt(h)', q)
  <2> TAKE h \in 0..(u - maxHotBlocks + 1)
  <2> TAKE q \in 0..h
  <2>1. h \in 0..mem.start /\ q \in 0..mem.start
    BY SMTT(30), <1>6, <1>7 DEF Heights
  <2>2. h \in 0..Len(mem.blocks[1])
    BY Zenon, <1>13, <2>1
  <2>3. Ancestor(Ancestor(mem.blocks[1], h), q) = Ancestor(mem.blocks[1], q)
    BY Zenon, <1>13, <2>2, AncestorTwice
  <2> QED BY Zenon, <1>13, <2>1, <2>3
<1>15. \A h \in 0..u : \A q \in 0..h : OnNet(ColdBlockAt(h)') => OnNet(ColdBlockAt(q)')
  <2> TAKE h \in 0..u
  <2> TAKE q \in 0..h
  <2>0. ASSUME OnNet(ColdBlockAt(h)') PROVE OnNet(ColdBlockAt(q)')
    <3>1. h \in Nat /\ q \in Nat /\ q <= h /\ h <= u /\ u \in Nat
      BY SMTT(30), <1>7 DEF Heights
    <3>2. CASE h = g /\ q = g
      BY Zenon, <2>0, <3>2
    <3>3. CASE h # g /\ q # g
      <4>1. h \in 0..t
        BY SMTT(30), <1>6, <1>7, <3>1, <3>3
      <4>2. OnNet(ColdBlockAt(h))
        BY Zenon, <1>9, <2>0, <3>3
      <4>3. OnNet(ColdBlockAt(q))
        BY Zenon, <1>2, <4>1, <4>2 DEF Disk
      <4> QED BY Zenon, <1>9, <3>3, <4>3
    <3>4. CASE h = g /\ q # g
      <4>1. OnNet(mem.blocks[i])
        BY Zenon, <1>0, <1>9, <2>0, <3>4
      <4>2. CASE q < mem.start
        <5>1. q \in 0..(mem.start - 1)
          BY SMTT(30), <1>6, <3>1, <4>2
        <5>2. ColdBlockAt(q)' = Ancestor(net, q)
          BY Zenon, <1>2, <1>3, <1>11, <4>1, <5>1, BelowOnNet
        <5>3. q \in 0..Len(net)
          <6>1. g \in 0..Len(net)
            <7>1. i \in 1..i
              BY SMTT(30), <1>3, <1>6
            <7> QED BY Zenon, <1>0, <1>2, <1>3, <4>1, <7>1, BelowOnNet
          <6>2. Len(net) \in Nat
            BY SMTT(30) DEF Typed, NetTyped
          <6> QED BY SMTT(30), <3>1, <3>4, <6>1, <6>2
        <5> QED BY Zenon, <5>2, <5>3, AncestorOnNet DEF Typed
      <4>3. CASE ~(q < mem.start)
        <5>1. PICK k \in 1..i : q = At(k)
          <6>1. q <= mem.start + i - 1
            BY Zenon, <1>6, <3>1, <3>4
          <6>2. mem.start \in Nat
            BY Zenon, <1>6
          <6> QED BY Zenon, <1>6, <3>1, <4>3, <6>1, <6>2, WindowIndex
        <5>2. ColdBlockAt(q)' = mem.blocks[k]
          BY Zenon, <1>12, <5>1
        <5>3. OnNet(mem.blocks[k])
          BY Zenon, <1>2, <1>3, <4>1, <5>1 DEF Running
        <5> QED BY Zenon, <5>2, <5>3
      <4> QED BY Zenon, <4>2, <4>3
    <3>5. CASE h # g /\ q = g
      <4>1. h <= t /\ h > g /\ ~(h < mem.start) /\ h <= mem.start + maxHotBlocks - 1
        <5>1. g \in Nat /\ g <= h /\ g # h /\ h \in Nat
          BY Zenon, <1>4, <3>1, <3>5 DEF Heights
        <5>2. h <= t
          BY Zenon, <1>7, <3>1, <3>5
        <5>3. h > g
          BY SMTT(30), <5>1
        <5>4. ~(h < mem.start)
          BY SMTT(30), <1>3, <1>6, <5>1
        <5>5. h <= mem.start + maxHotBlocks - 1
          BY SMTT(30), <1>6, <5>1, <5>2
        <5> QED BY Zenon, <5>2, <5>3, <5>4, <5>5
      <4>2. PICK j \in 1..maxHotBlocks : h = At(j) /\ i \in 1..j /\ ~Archived(j)
        <5>1. mem.start \in Nat /\ maxHotBlocks \in Nat
          BY Zenon, <1>6
        <5>2. PICK j \in 1..maxHotBlocks : h = At(j)
          BY Zenon, <3>1, <4>1, <5>1, WindowIndex
        <5>3. i \in 1..j /\ ~(j < i)
          BY SMTT(30), <1>3, <1>6, <4>1, <5>2 DEF At
        <5>4. ~Archived(j)
          BY Zenon, <1>0, <1>1, <5>3 DEF Archived
        <5> QED BY Zenon, <5>2, <5>3, <5>4
      <4>3. OnNet(ColdBlockAt(h)) /\ ColdBlockAt(h) # NoBlock
        <5>1. h \in Heights
          <6>1. u <= MaxHeight /\ MaxHeight \in Nat
            BY SMTT(30), <1>7, ChainStoreAssumption DEF Heights
          <6> QED BY SMTT(30), <3>1, <6>1 DEF Heights
        <5> QED BY Zenon, <1>2, <1>9, <2>0, <3>5, <4>1, <5>1 DEF Disk
      <4>4. ColdBlockAt(h) = mem.blocks[j]
        BY Zenon, <1>2, <4>2, <4>3 DEF Running
      <4>5. OnNet(mem.blocks[i])
        BY ZenonT(40), <1>2, <4>2, <4>3, <4>4 DEF Running
      <4> QED BY Zenon, <1>0, <1>9, <3>5, <4>5
    <3> QED BY Zenon, <3>2, <3>3, <3>4, <3>5
  <2> QED BY Zenon, <2>0
<1>16. Disk(u)'
  <2>1. \A h \in Heights : ColdBlockAt(h)' # NoBlock <=> h <= u
    <3> TAKE h \in Heights
    <3>1. h \in Nat
      BY SMTT(30) DEF Heights
    <3>2. h <= u <=> h <= t \/ h = g
      BY Zenon, <1>7, <3>1
    <3>3. CASE h = g
      BY Zenon, <1>4, <1>9, <3>2, <3>3
    <3>4. CASE h # g
      BY Zenon, <1>2, <1>9, <3>2, <3>4 DEF Disk
    <3> QED BY Zenon, <3>3, <3>4
  <2>2. maxHotBlocks <= u
    <3>1. maxHotBlocks <= t
      BY Zenon, <1>2 DEF Disk
    <3> QED BY Zenon, <1>6, <1>7, <3>1 DEF Heights
  <2>3. \A h, q : /\ OnNet(ColdBlockAt(h))' = OnNet(ColdBlockAt(h)')
                  /\ OnNet(ColdBlockAt(q))' = OnNet(ColdBlockAt(q)')
    BY Zenon, <1>1 DEF OnNet
  <2>4. \A h \in 0..u : \A q \in 0..h : OnNet(ColdBlockAt(h))' => OnNet(ColdBlockAt(q))'
    BY Zenon, <1>15, <2>3
  <2> QED BY Zenon, <1>7, <1>14, <2>1, <2>2, <2>4 DEF Disk
<1>17. StateSaved(u)'
  <2>1. Len(state.state) <= u
    <3>1. Len(state.state) <= t /\ Len(state.state) \in Nat
      BY SMTT(30), <1>2 DEF StateSaved, Typed, DiskTyped
    <3> QED BY Zenon, <1>6, <1>7, <3>1 DEF Heights
  <2>2. PICK w : w = state.hw
    BY Zenon
  <2>3. Recorded(w, t)
    BY Zenon, <1>2, <2>2 DEF StateSaved
  <2>4. CASE w.start \in 1..(t - maxHotBlocks + 1)
    <3>1. w.start \in 1..(u - maxHotBlocks + 1) /\ w.start - 1 \in 0..(mem.start - 1)
      BY SMTT(30), <1>6, <1>7, <2>4 DEF Heights
    <3>2. ColdBlockAt(w.start - 1)' = ColdBlockAt(w.start - 1)
      BY Zenon, <1>11, <3>1
    <3> QED BY Zenon, <1>1, <2>1, <2>2, <2>3, <3>1, <3>2 DEF StateSaved, Recorded
  <2>5. CASE ~(w.start \in 1..(t - maxHotBlocks + 1))
    BY Zenon, <1>1, <2>1, <2>2, <2>3, <2>5 DEF StateSaved, Recorded
  <2> QED BY Zenon, <2>4, <2>5
<1>18. \A k \in 1..maxHotBlocks : \A h : h = At(k) =>
          IF Archived(k)' THEN file'[h] = mem.blocks[k]
          ELSE /\ k <= maxHotBlocks - reorgTailSize => ColdBlockAt(h)' = mem.blocks[k]
               /\ \/ ColdBlockAt(h)' \in {NoBlock, mem.blocks[k]}
                  \/ ~OnNet(ColdBlockAt(h)')
  <2> TAKE k \in 1..maxHotBlocks
  <2> TAKE h
  <2> HAVE h = At(k)
  <2>1. Archived(k)' <=> k < i + 1
    BY Zenon, <1>1 DEF Archived
  <2>2. Archived(k) <=> k < i
    BY Zenon, <1>0, <1>1 DEF Archived
  <2>3. h \in Heights
    BY Zenon, <1>2, WindowBlocks
  <2>4. CASE k = i
    <3>1. Archived(k)'
      BY SMTT(30), <1>6, <2>1, <2>4
    <3> QED BY Zenon, <1>0, <1>8, <2>4, <3>1
  <2>5. CASE k # i
    <3>1. h # g /\ (Archived(k)' <=> Archived(k))
      BY SMTT(30), <1>6, <2>1, <2>2, <2>5 DEF At
    <3>2. ColdBlockAt(h)' = ColdBlockAt(h) /\ file'[h] = file[h]
      BY Zenon, <1>8, <1>9, <2>3, <3>1
    <3>3. IF Archived(k) THEN file[h] = mem.blocks[k]
          ELSE /\ k <= maxHotBlocks - reorgTailSize => ColdBlockAt(h) = mem.blocks[k]
               /\ \/ ColdBlockAt(h) \in {NoBlock, mem.blocks[k]}
                  \/ ~OnNet(ColdBlockAt(h))
      BY Zenon, <1>2 DEF Running
    <3> QED BY Zenon, <3>1, <3>2, <3>3
  <2> QED BY Zenon, <2>4, <2>5
<1>19. Running(u)'
  <2>1. mem' = mem /\ mem.start - 1 <= u
    <3>1. mem.start - 1 <= u
      BY SMTT(30), <1>6, <1>7 DEF Heights
    <3> QED BY Zenon, <1>1, <3>1
  <2>2. \A h : OnNet(ColdBlockAt(h))' = OnNet(ColdBlockAt(h)')
    BY Zenon, <1>1 DEF OnNet
  <2>3. ASSUME NEW k \in 1..maxHotBlocks
        PROVE  (IF Archived(k) THEN file[At(k)] = mem.blocks[k]
                ELSE /\ k <= maxHotBlocks - reorgTailSize => ColdBlockAt(At(k)) = mem.blocks[k]
                     /\ \/ ColdBlockAt(At(k)) \in {NoBlock, mem.blocks[k]}
                        \/ ~OnNet(ColdBlockAt(At(k))))'
    <3>1. PICK h : h = At(k)
      BY Zenon
    <3>2. At(k)' = h
      BY Zenon, <2>1, <3>1 DEF At
    <3>3. ColdBlockAt(At(k))' = ColdBlockAt(h)'
      BY Zenon, <3>2 DEF ColdBlockAt
    <3>4. OnNet(ColdBlockAt(At(k)))' = OnNet(ColdBlockAt(h)')
      BY Zenon, <1>1, <3>3 DEF OnNet
    <3> QED BY Zenon, <1>18, <2>1, <3>1, <3>2, <3>3, <3>4
  <2>4. \A j \in 1..maxHotBlocks : \A k \in 1..j :
           OnNet(mem.blocks[j])' => OnNet(mem.blocks[k])'
    BY Zenon, <1>1, <1>2 DEF Running, OnNet
  <2>5. Height(mem)' = Height(mem)
    BY Zenon, <2>1
  <2> QED BY Zenon, <1>2, <1>7, <1>11, <2>1, <2>3, <2>4, <2>5 DEF Running
<1>20. Typed'
  BY Zenon, <1>1 DEF Typed, NetTyped, MemTyped, Made
<1>21. Follows(u)'
  <2>1. up' \in {"restored", "up"} /\ up' # "loaded"
    BY Zenon, <1>1
  <2> QED BY Zenon, <1>16, <1>17, <1>19, <2>1 DEF Follows
<1> QED BY Zenon, <1>7, <1>20, <1>21

\* Save writes a block.
LEMMA ArchiveStep ==
    ASSUME Sheltered, Typed, NEW t \in Heights, Follows(t), NEW s \in Savers, archiveOneBlock(s)
    PROVE  Typed' /\ \E u \in Heights : Follows(u)'
<1> DEFINE b == mem.blocks[saver.next]
<1>1. CASE up = "loaded"
  BY Zenon, <1>1, ArchiveLoaded
<1>2. CASE up # "loaded"
  <2>1. /\ up # "down"
        /\ \/ file'[Len(b)] = b
           \/ /\ file' = file /\ file[Len(b)] # NoBlock
              /\ saver.next <= Len(mem.blocks) - reorgTailSize
    BY Zenon, ArchiveMoves
  <2>2. up \in {"restored", "up"}
    BY Zenon, <1>2, <2>1 DEF Typed, SaveTyped
  <2>3. CASE file'[Len(b)] = b
    BY Zenon, <2>2, <2>3, ArchiveWrites
  <2>4. CASE file'[Len(b)] # b
    BY Zenon, <2>1, <2>2, <2>4, ArchiveSkips
  <2> QED BY Zenon, <2>3, <2>4
<1> QED BY Zenon, <1>1, <1>2

-----------------------------------------------------------------------------
(* Applying blocks. *)

\* The recursion AppliedAll is defined by: g lists the states after s.
StatesAfter(g, s, bs) ==
    g = [i \in 0..Len(bs) |-> IF i = 0 THEN s ELSE Applied(g[i-1], bs[i])]

\* When every block leads to the state that is the block itself, so do all.
LEMMA AppliedAllTo ==
    ASSUME Induction, NEW s, NEW bs, Len(bs) \in Nat,
           \A i \in 1..Len(bs) : Applied(IF i = 1 THEN s ELSE bs[i-1], bs[i]) = bs[i]
    PROVE  AppliedAll(s, bs) = IF Len(bs) = 0 THEN s ELSE bs[Len(bs)]
<1> DEFINE n == Len(bs)
           g == [i \in 0..n |-> IF i = 0 THEN s ELSE bs[i]]
           c == CHOOSE f : StatesAfter(f, s, bs)
<1>1. \A i \in 0..n : g[i] = IF i = 0 THEN s ELSE Applied(g[i-1], bs[i])
  <2> TAKE i \in 0..n
  <2>1. CASE i = 0
    BY Zenon, <2>1
  <2>2. CASE i # 0
    <3>1. i \in 1..n /\ i - 1 \in 0..n
      BY SMTT(30), <2>2
    <3>2. g[i-1] = IF i = 1 THEN s ELSE bs[i-1]
      BY SMTT(30), <3>1
    <3> QED BY Zenon, <2>2, <3>1, <3>2
  <2> QED BY Zenon, <2>1, <2>2
<1>2. g = [i \in 0..n |-> IF i = 0 THEN s ELSE Applied(g[i-1], bs[i])]
  BY Zenon, <1>1
<1>3. \E f : StatesAfter(f, s, bs)
  BY Zenon, <1>2 DEF StatesAfter
<1>4. StatesAfter(c, s, bs)
  BY Zenon, <1>3
<1>5. AppliedAll(s, bs) = c[n]
  BY Zenon DEF AppliedAll, StatesAfter
<1>6. \A j \in 0..n : c[j] = IF j = 0 THEN s ELSE Applied(c[j-1], bs[j])
  BY Zenon, <1>4 DEF StatesAfter
<1> HIDE DEF c
<1> DEFINE T == {j \in Nat : j <= n => c[j] = IF j = 0 THEN s ELSE bs[j]}
<1>7. 0 \in T
  BY SMTT(30), <1>6
<1>8. ASSUME NEW j \in Nat, j \in T PROVE j + 1 \in T
  <2> SUFFICES ASSUME j + 1 <= n PROVE c[j+1] = bs[j+1]
    BY SMTT(30)
  <2>1. c[j] = IF j + 1 = 1 THEN s ELSE bs[(j+1)-1]
    BY SMTT(30), <1>8
  <2>2. c[j+1] = Applied(c[j], bs[j+1])
    BY SMTT(30), <1>6
  <2>3. j + 1 \in 1..n
    BY SMTT(30)
  <2> QED BY Zenon, <2>1, <2>2, <2>3
<1> HIDE DEF T
<1>9. n \in T
  <2>1. \A j \in Nat : j \in T
    BY Zenon, <1>7, <1>8 DEF Induction
  <2> QED BY Zenon, <2>1
<1> QED BY SMTT(30), <1>5, <1>9 DEF T

-----------------------------------------------------------------------------
(* Trimming. *)

\* The state before height m of branch a.
Before(a, m) == IF m = 0 THEN Genesis ELSE Ancestor(a, m - 1)

\* The state after a run of blocks of one branch is the last of them.
LEMMA RunApplied ==
    ASSUME Induction, NEW a \in Seq(Nat), NEW m \in Nat, NEW n \in Nat \ {0},
           m + n - 1 <= Len(a), NEW bs \in Seq(Seq(Nat)), Len(bs) = n,
           \A i \in 1..n : bs[i] = Ancestor(a, m + i - 1)
    PROVE  AppliedAll(Before(a, m), bs) = Ancestor(a, m + n - 1)
<1> DEFINE s == Before(a, m)
<1>0. (m = 0 => s = Genesis) /\ (m # 0 => s = Ancestor(a, m - 1))
  BY Zenon DEF Before
<1> HIDE DEF s
<1>1. ASSUME NEW i \in 1..n PROVE Applied(IF i = 1 THEN s ELSE bs[i-1], bs[i]) = bs[i]
  <2> DEFINE h == m + i - 1
  <2>1. bs[i] = Ancestor(a, h)
    BY Zenon
  <2>2. CASE h = 0
    <3>1. i = 1 /\ m = 0 /\ 0 \in 0..Len(a)
      BY SMTT(30), <2>2
    <3>2. Ancestor(a, 0) = Genesis
      <4>1. Ancestor(a, 0) \in Seq(Nat) /\ Len(Ancestor(a, 0)) = 0
        BY ZenonT(40), <3>1, AncestorTyped
      <4> QED BY SMTT(30), <4>1 DEF Genesis
    <3>3. bs[i] = Genesis /\ s = Genesis
      BY Zenon, <1>0, <2>1, <2>2, <3>1, <3>2
    <3> QED BY Zenon, <3>1, <3>3 DEF Applied
  <2>3. CASE h # 0
    <3>1. h \in 1..Len(a)
      BY SMTT(30), <2>3
    <3>2. (IF i = 1 THEN s ELSE bs[i-1]) = Ancestor(a, h - 1)
      <4>1. CASE i = 1
        <5>1. m # 0 /\ m - 1 = h - 1
          BY SMTT(30), <2>3, <4>1
        <5> QED BY Zenon, <1>0, <4>1, <5>1
      <4>2. CASE i # 1
        <5>1. i - 1 \in 1..n /\ m + (i - 1) - 1 = h - 1
          BY SMTT(30), <4>2
        <5>2. bs[i-1] = Ancestor(a, m + (i - 1) - 1)
          BY Zenon, <5>1
        <5> QED BY Zenon, <4>2, <5>1, <5>2
      <4> QED BY Zenon, <4>1, <4>2
    <3> HIDE DEF h
    <3>3. Applied(Ancestor(a, h - 1), Ancestor(a, h)) = Ancestor(a, h)
      BY Zenon, <3>1, AncestorApplied
    <3> QED BY Zenon, <2>1, <3>2, <3>3
  <2> QED BY Zenon, <2>2, <2>3
<1>2. Len(bs) \in Nat /\ Len(bs) # 0 /\ n \in 1..n
  BY SMTT(30)
<1>3. AppliedAll(s, bs) = bs[n]
  BY Zenon, <1>1, <1>2, AppliedAllTo
<1> QED BY Zenon, <1>2, <1>3 DEF s

\* When the blocks that leave a window are a run of one branch, the window
\* that is left has that branch as its checkpoint.
LEMMA TrimTo ==
    ASSUME Induction, NEW c \in Chain, NEW a \in Seq(Nat), NEW n \in Nat,
           maxHotBlocks \in Nat \ {0}, Len(c.blocks) = maxHotBlocks + n, c.start + n - 1 <= Len(a),
           \A i \in 1..n : c.blocks[i] = Ancestor(a, c.start + i - 1),
           c.start # 0 => /\ c.baseState = Ancestor(a, c.start - 1)
                          /\ c.baseBlock = Ancestor(a, c.start - 1),
           c.start # 0 \/ n # 0
    PROVE  LET d == trimHotWindow(c)
           IN  /\ d \in Chain /\ Len(d.blocks) = maxHotBlocks
               /\ \A i \in 1..maxHotBlocks : d.blocks[i] = c.blocks[n + i]
               /\ d.start = c.start + n /\ d.state = c.state
               /\ d.baseState = Ancestor(a, d.start - 1)
               /\ d.baseBlock = Ancestor(a, d.start - 1)
<1> DEFINE excess == Len(c.blocks) - maxHotBlocks
           gone == SubSeq(c.blocks, 1, excess)
           left == SubSeq(c.blocks, excess + 1, Len(c.blocks))
           base == AppliedAll(BaseState(c), gone)
           d == [c EXCEPT !.blocks = left, !.start = c.start + excess,
                          !.baseState = base, !.baseBlock = c.blocks[excess]]
<1>1. /\ excess = n /\ maxHotBlocks # 0 /\ c.start \in Nat
      /\ c.blocks \in Seq(Seq(Nat)) /\ Len(c.blocks) \in Nat
  BY SMTT(30) DEF Chain
<1>2. CASE n = 0
  <2>1. trimHotWindow(c) = c
    BY SMTT(30), <1>1, <1>2 DEF trimHotWindow
  <2>2. \A i \in 1..maxHotBlocks : n + i = i
    BY SMTT(30), <1>2
  <2>3. c.start + n = c.start /\ c.start # 0 /\ Len(c.blocks) = maxHotBlocks
    BY SMTT(30), <1>1, <1>2
  <2> QED BY Zenon, <2>1, <2>2, <2>3
<1>3. CASE n # 0
  <2>1. trimHotWindow(c) = d
    BY SMTT(30), <1>1, <1>3 DEF trimHotWindow
  <2>2. /\ left \in Seq(Seq(Nat)) /\ Len(left) = maxHotBlocks
        /\ \A i \in 1..maxHotBlocks : left[i] = c.blocks[n + i]
    <3>1. n + 1 \in 1..(Len(c.blocks) + 1) /\ Len(c.blocks) - (n + 1) + 1 = maxHotBlocks
      BY SMTT(30), <1>1
    <3>2. \A i \in 1..maxHotBlocks : (n + 1) + i - 1 = n + i
      BY SMTT(30)
    <3> DEFINE rest == SubSeq(c.blocks, n + 1, Len(c.blocks))
    <3>3. /\ rest \in Seq(Seq(Nat)) /\ Len(rest) = Len(c.blocks) - (n + 1) + 1
          /\ \A i \in 1..(Len(c.blocks) - (n + 1) + 1) : rest[i] = c.blocks[(n + 1) + i - 1]
      BY ZenonT(40), <1>1, <3>1, RestOfSeq
    <3>4. left = rest
      BY Zenon, <1>1
    <3> HIDE DEF left, rest
    <3> QED BY ZenonT(40), <3>1, <3>2, <3>3, <3>4
  <2>3. /\ gone \in Seq(Seq(Nat)) /\ Len(gone) = n /\ \A i \in 1..n : gone[i] = c.blocks[i]
    BY SMTT(30), <1>1, <1>3
  <2> HIDE DEF gone, left, excess
  <2>4. base = Ancestor(a, c.start + n - 1)
    <3>1. /\ c.start = 0 => BaseState(c) = Genesis
          /\ c.start # 0 => BaseState(c) = Ancestor(a, c.start - 1)
      BY Zenon DEF BaseState
    <3>2. \A i \in 1..n : gone[i] = Ancestor(a, c.start + i - 1)
      BY Zenon, <2>3
    <3>3. n \in Nat \ {0}
      BY Zenon, <1>3
    <3>4. PICK m \in Nat : m = c.start
      BY Zenon, <1>1
    <3>5. BaseState(c) = Before(a, m)
      BY Zenon, <3>1, <3>4 DEF Before
    <3>6. m + n - 1 <= Len(a)
      BY Zenon, <3>4
    <3>7. \A i \in 1..n : gone[i] = Ancestor(a, m + i - 1)
      BY Zenon, <3>2, <3>4
    <3>8. AppliedAll(Before(a, m), gone) = Ancestor(a, m + n - 1)
      BY ZenonT(40), <2>3, <3>3, <3>6, <3>7, RunApplied
    <3> QED BY Zenon, <3>4, <3>5, <3>8
  <2>5. c.blocks[excess] = Ancestor(a, c.start + n - 1)
    <3>1. n \in 1..n
      BY SMTT(30), <1>3
    <3> QED BY Zenon, <1>1, <3>1
  <2>6. Ancestor(a, c.start + n - 1) \in Seq(Nat)
    <3>1. c.start + n - 1 \in 0..Len(a)
      BY SMTT(30), <1>1, <1>3
    <3> QED BY Zenon, <3>1, AncestorTyped
  <2>7. base \in Seq(Nat) /\ c.blocks[excess] \in Seq(Nat) /\ c.start + excess \in Nat
    <3>1. c.start + excess \in Nat
      BY SMTT(30), <1>1
    <3> QED BY Zenon, <2>4, <2>5, <2>6, <3>1
  <2> HIDE DEF base
  <2>8. /\ d \in Chain /\ d.blocks = left /\ d.start = c.start + excess /\ d.state = c.state
        /\ d.baseState = base /\ d.baseBlock = c.blocks[excess]
    BY Zenon, <2>2, <2>7 DEF Chain
  <2> HIDE DEF d
  <2>9. /\ d \in Chain /\ Len(d.blocks) = maxHotBlocks
        /\ d.start = c.start + n /\ d.state = c.state
    BY Zenon, <1>1, <2>2, <2>8
  <2>10. \A i \in 1..maxHotBlocks : d.blocks[i] = c.blocks[n + i]
    BY Zenon, <2>2, <2>8
  <2>11. d.baseState = Ancestor(a, d.start - 1) /\ d.baseBlock = Ancestor(a, d.start - 1)
    <3>1. PICK m \in Nat, q \in Nat : m = c.start /\ q = d.start
      BY SMTT(30), <1>1, <2>9
    <3>2. q = m + n
      BY Zenon, <2>9, <3>1
    <3>3. q - 1 = m + n - 1
      BY SMTT(30), <3>2
    <3> QED BY Zenon, <2>4, <2>5, <2>8, <3>1, <3>3
  <2> QED BY Zenon, <2>1, <2>9, <2>10, <2>11
<1> QED BY Zenon, <1>2, <1>3

-----------------------------------------------------------------------------
(* A running node takes blocks from the network. *)

\* The first k blocks of the window are on the network's chain and stay, and
\* its chain replaces or extends the rest: n blocks in all.
Takes(k, n, x) ==
    /\ k \in 0..maxHotBlocks /\ n \in maxHotBlocks..(k + maxHotBlocks)
    /\ n - k <= reorgTailSize
    /\ mem.start + n - 1 <= Len(net)
    /\ mem.baseBlock = Ancestor(net, mem.start - 1)
    /\ \A i \in 1..k : mem.blocks[i] = Ancestor(net, At(i))
    /\ \A i \in (k + 1)..maxHotBlocks : ~OnNet(mem.blocks[i])
    /\ x \in Seq(Nat) /\ Len(x) <= mem.start + n - 1
    /\ \E bs \in Seq(Seq(Nat)) :
          /\ Len(bs) = n /\ \A i \in 1..n : bs[i] = Ancestor(net, At(i))
          /\ mem' = trimHotWindow([mem EXCEPT !.blocks = bs, !.state = x])

\* What memory holds then.
LEMMA TakesWindow ==
    ASSUME Induction, Sheltered, Typed, NEW t \in Heights, Running(t), NEW k, NEW n, NEW x, Takes(k, n, x)
    PROVE  /\ mem' \in Chain /\ Len(mem'.blocks) = maxHotBlocks /\ mem'.state = x
           /\ mem'.start = mem.start + (n - maxHotBlocks)
           /\ mem'.baseState = Ancestor(net, mem'.start - 1)
           /\ mem'.baseBlock = Ancestor(net, mem'.start - 1)
           /\ \A i \in 1..maxHotBlocks : mem'.blocks[i] = Ancestor(net, mem'.start + i - 1)
<1>1. PICK bs \in Seq(Seq(Nat)) :
         /\ Len(bs) = n /\ \A i \in 1..n : bs[i] = Ancestor(net, At(i))
         /\ mem' = trimHotWindow([mem EXCEPT !.blocks = bs, !.state = x])
  BY Zenon DEF Takes
<1> DEFINE c == [mem EXCEPT !.blocks = bs, !.state = x]
           e == n - maxHotBlocks
<1>2. /\ maxHotBlocks \in Nat \ {0} /\ mem.start \in Nat \ {0} /\ n \in Nat /\ e \in Nat
      /\ n = maxHotBlocks + e /\ mem.start + n - 1 <= Len(net) /\ x \in Seq(Nat)
  <2>1. maxHotBlocks \in Nat \ {0} /\ mem.start \in Nat \ {0}
    BY Zenon, WindowBounds
  <2>2. /\ k \in 0..maxHotBlocks /\ n \in maxHotBlocks..(k + maxHotBlocks)
        /\ mem.start + n - 1 <= Len(net) /\ x \in Seq(Nat)
    BY Zenon DEF Takes
  <2>3. n \in Nat /\ e \in Nat /\ n = maxHotBlocks + e
    BY SMTT(30), <2>1, <2>2
  <2> QED BY Zenon, <2>1, <2>2, <2>3
<1>3. /\ c \in Chain /\ c.blocks = bs /\ c.state = x /\ c.start = mem.start
      /\ c.baseState = mem.baseState /\ c.baseBlock = mem.baseBlock
  <2>1. mem \in Chain
    BY Zenon DEF Typed, MemTyped
  <2> QED BY Zenon, <1>2, <2>1 DEF Chain
<1> HIDE DEF c, e
<1>4. PICK a \in Seq(Nat) : a = net
  <2>1. net \in Seq(0..forks) /\ 0..forks \subseteq Nat
    BY SMTT(30) DEF Typed, NetTyped
  <2>2. net \in Seq(Nat)
    BY Zenon, <2>1, WiderSeq
  <2> QED BY Zenon, <2>2
<1>5. /\ Len(c.blocks) = maxHotBlocks + e /\ c.start + e - 1 <= Len(a)
      /\ c.start # 0
  BY SMTT(30), <1>1, <1>2, <1>3, <1>4
<1>6. \A i \in 1..n : c.blocks[i] = Ancestor(a, c.start + i - 1)
  BY Zenon, <1>1, <1>3, <1>4 DEF At
<1>7. \A i \in 1..e : c.blocks[i] = Ancestor(a, c.start + i - 1)
  <2>1. \A i \in 1..e : i \in 1..n
    BY SMTT(30), <1>2
  <2> QED BY Zenon, <1>6, <2>1
<1>8. c.baseState = Ancestor(a, c.start - 1) /\ c.baseBlock = Ancestor(a, c.start - 1)
  BY Zenon, <1>3, <1>4 DEF Takes, Running
<1>9. PICK d : d = trimHotWindow(c)
  BY Zenon
<1>10. /\ d \in Chain /\ Len(d.blocks) = maxHotBlocks
       /\ \A i \in 1..maxHotBlocks : d.blocks[i] = c.blocks[e + i]
       /\ d.start = c.start + e /\ d.state = c.state
       /\ d.baseState = Ancestor(a, d.start - 1)
       /\ d.baseBlock = Ancestor(a, d.start - 1)
  <2>1. c.start # 0 => /\ c.baseState = Ancestor(a, c.start - 1)
                       /\ c.baseBlock = Ancestor(a, c.start - 1)
    BY Zenon, <1>8
  <2>2. c.start # 0 \/ e # 0
    BY Zenon, <1>5
  <2> QED BY ZenonT(40), <1>2, <1>3, <1>5, <1>7, <1>9, <2>1, <2>2, TrimTo
<1>11. ASSUME NEW i \in 1..maxHotBlocks PROVE d.blocks[i] = Ancestor(net, d.start + i - 1)
  <2>1. e + i \in 1..n
    BY SMTT(30), <1>2
  <2>2. c.start + (e + i) - 1 = d.start + i - 1
    <3>1. c.start \in Nat /\ e \in Nat /\ d.start = c.start + e
      BY Zenon, <1>2, <1>3, <1>10
    <3> QED BY SMTT(30), <3>1
  <2> QED BY Zenon, <1>4, <1>6, <1>10, <2>1, <2>2
<1>12. mem' = d
  BY Zenon, <1>1, <1>9 DEF c
<1> QED BY Zenon, <1>3, <1>4, <1>10, <1>11, <1>12 DEF e

\* The handlers' step, when the blocks fit.
LEMMA TakesStep ==
    ASSUME Induction, Sheltered, Typed, NEW t \in Heights, Follows(t), NEW s \in Savers, Ready(s),
           sv' = [sv EXCEPT ![s] = StartSave],
           UNCHANGED <<net, forks, up, boot, file, cloud, state>>,
           NEW k \in Nat, NEW n \in Nat, NEW x, Takes(k, n, x)
    PROVE  Typed' /\ Follows(t)'
<1>1. up = "up" /\ saver.pc = "idle" /\ Running(t) /\ Disk(t) /\ StateSaved(t)
  BY Zenon DEF Ready, saver, Sheltered, Follows
<1>2. \A i : Archived(i)
  BY Zenon, <1>1 DEF Archived
<1>3. t = Height(mem)
  BY Zenon, <1>1, <1>2, AllArchived
<1>4. PICK o \in Nat, l \in Nat : o = mem.start /\ l = Len(net)
  <2>1. mem.start \in Nat /\ Len(net) \in Nat
    BY SMTT(30), <1>1, WindowBounds DEF Typed, NetTyped
  <2> QED BY Zenon, <2>1
<1>5. /\ maxHotBlocks \in Nat /\ maxHotBlocks >= 1 /\ reorgTailSize \in Nat /\ t \in Nat
      /\ o >= 1 /\ t = o + maxHotBlocks - 1
      /\ n >= maxHotBlocks /\ n <= k + maxHotBlocks /\ n - k <= reorgTailSize
      /\ k <= maxHotBlocks /\ o + n - 1 <= l
  <2>1. /\ maxHotBlocks \in Nat \ {0} /\ reorgTailSize \in Nat \ {0} /\ t \in Nat
        /\ mem.start \in Nat \ {0} /\ Height(mem) = mem.start + maxHotBlocks - 1
    BY Zenon, <1>1, WindowBounds
  <2>2. /\ k \in 0..maxHotBlocks /\ n \in maxHotBlocks..(k + maxHotBlocks)
        /\ n - k <= reorgTailSize /\ o + n - 1 <= l
    BY Zenon, <1>4 DEF Takes
  <2>3. t = o + maxHotBlocks - 1
    BY Zenon, <1>3, <1>4, <2>1
  <2> QED BY SMTT(30), <1>4, <2>1, <2>2, <2>3
<1>6. PICK m \in Nat : m = o + (n - maxHotBlocks)
  BY SMTT(30), <1>5
<1>7. /\ mem' \in Chain /\ Len(mem'.blocks) = maxHotBlocks /\ mem'.state = x
      /\ mem'.start = m
      /\ mem'.baseState = Ancestor(net, m - 1) /\ mem'.baseBlock = Ancestor(net, m - 1)
      /\ \A i \in 1..maxHotBlocks : mem'.blocks[i] = Ancestor(net, m + i - 1)
  BY Zenon, <1>1, <1>4, <1>6, TakesWindow
<1>8. net \in Seq(0..forks)
  BY Zenon DEF Typed, NetTyped
<1>9. ASSUME NEW i \in 1..maxHotBlocks
      PROVE  /\ mem'.blocks[i] = Ancestor(net, m + i - 1) /\ m + i - 1 \in 0..Len(net)
             /\ Made(mem'.blocks[i]) /\ OnNet(mem'.blocks[i])
             /\ Len(mem'.blocks[i]) = m + i - 1
  <2>1. m + i - 1 \in 0..Len(net)
    <3>1. m + i - 1 \in 0..l
      BY SMTT(30), <1>5, <1>6
    <3> QED BY Zenon, <1>4, <3>1
  <2>2. Ancestor(net, m + i - 1) \in Seq(0..forks) /\ Len(Ancestor(net, m + i - 1)) = m + i - 1
    BY Zenon, <1>8, <2>1, AncestorTyped
  <2>3. m + i - 1 <= Len(net)
    BY SMTT(30), <1>4, <2>1
  <2>4. OnNet(Ancestor(net, m + i - 1))
    BY Zenon, <2>1, AncestorOnNet DEF Typed
  <2> QED BY Zenon, <1>7, <2>1, <2>2, <2>3, <2>4 DEF Made
<1>10. 1 \in 1..maxHotBlocks /\ maxHotBlocks \in 1..maxHotBlocks /\ m + 1 - 1 = m
  BY SMTT(30), <1>5
<1>11. MemTyped'
  <2>1. mem'.blocks # <<>>
    BY SMTT(30), <1>7, <1>5
  <2>2. Len(mem'.blocks[1]) = m
    BY Zenon, <1>9, <1>10
  <2>3. \A b : Made(b)' = Made(b)
    BY Zenon DEF Made
  <2>4. ASSUME NEW i \in 1..Len(mem'.blocks)
        PROVE  /\ Made(mem'.blocks[i])
               /\ Len(mem'.blocks[i]) = Len(mem'.blocks[1]) + i - 1
    BY Zenon, <1>7, <1>9, <2>2
  <2>5. ASSUME NEW i \in 1..Len(mem'.blocks)
        PROVE  (Made(mem.blocks[i]) /\ Len(mem.blocks[i]) = Len(mem.blocks[1]) + i - 1)'
    BY Zenon, <2>4 DEF Made
  <2> QED BY Zenon, <1>7, <2>1, <2>5 DEF Typed, MemTyped
<1>12. \A h : ColdBlockAt(h)' = ColdBlockAt(h) /\ OnNet(ColdBlockAt(h))' = OnNet(ColdBlockAt(h))
  BY Zenon, ColdLeft DEF OnNet
<1>13. DiskTyped' /\ NetTyped' /\ Disk(t)' /\ StateSaved(t)'
  <2>1. DiskTyped' /\ NetTyped'
    BY Zenon DEF Typed, DiskTyped, NetTyped, Made
  <2>2. Disk(t)'
    BY Zenon, <1>1, <1>12 DEF Disk
  <2>3. StateSaved(t)'
    BY Zenon, <1>1, <1>12 DEF StateSaved, Recorded
  <2> QED BY Zenon, <2>1, <2>2, <2>3
<1>14. saver'.pc = "snapshot" /\ saver'.next = 1 /\ sv' \in [Savers -> Save]
  <2>1. StartSave \in Save /\ StartSave.pc = "snapshot" /\ StartSave.next = 1
    BY Zenon, WindowTyped DEF Typed
  <2> QED BY Zenon, <2>1, SaverMoves DEF Typed
<1>15. SaveTyped'
  BY Zenon, <1>1, <1>14 DEF Typed, SaveTyped
<1>16. ASSUME NEW h \in 0..(m - 1) PROVE ColdBlockAt(h) = Ancestor(net, h)
  <2>1. CASE h < o
    <3>1. h \in 0..(o - 1) /\ o - 1 \in 0..Len(net)
      <4>1. h \in 0..(o - 1) /\ o - 1 \in 0..l
        BY SMTT(30), <1>5, <2>1
      <4> QED BY Zenon, <1>4, <4>1
    <3>2. ColdBlockAt(h) = Ancestor(Ancestor(net, o - 1), h)
      BY Zenon, <1>1, <1>4, <3>1 DEF Running, Takes
    <3>3. Ancestor(Ancestor(net, o - 1), h) = Ancestor(net, h)
      BY Zenon, <1>8, <3>1, AncestorTwice
    <3> QED BY Zenon, <3>2, <3>3
  <2>2. CASE ~(h < o)
    <3>1. h \in Nat /\ h <= o + k - 1
      BY SMTT(30), <1>5, <1>6
    <3>2. PICK i \in 1..k : h = At(i)
      BY Zenon, <1>4, <2>2, <3>1, WindowIndex
    <3>3. i \in 1..maxHotBlocks
      BY SMTT(30), <1>5
    <3>4. ColdBlockAt(h) = mem.blocks[i]
      BY Zenon, <1>1, <1>2, <3>2, <3>3, ArchivedRead
    <3> QED BY Zenon, <3>2, <3>4 DEF Takes
  <2> QED BY Zenon, <2>1, <2>2
<1>17. ASSUME NEW i \in 1..maxHotBlocks, NEW h, h = m + i - 1
       PROVE  /\ i <= maxHotBlocks - reorgTailSize => ColdBlockAt(h) = mem'.blocks[i]
              /\ \/ ColdBlockAt(h) \in {NoBlock, mem'.blocks[i]}
                 \/ ~OnNet(ColdBlockAt(h))
  <2>1. PICK j \in Nat : j = i + (n - maxHotBlocks)
    BY SMTT(30), <1>5
  <2>2. h = o + j - 1 /\ j >= 1 /\ h \in Nat
    BY SMTT(30), <1>5, <1>6, <1>17, <2>1
  <2>3. i <= maxHotBlocks - reorgTailSize => j <= k
    BY SMTT(30), <1>5, <2>1
  <2>4. h = At(j) /\ mem'.blocks[i] = Ancestor(net, At(j))
    BY Zenon, <1>4, <1>9, <1>17, <2>2 DEF At
  <2>5. CASE j <= k
    <3>1. j \in 1..k /\ j \in 1..maxHotBlocks
      BY SMTT(30), <1>5, <2>2, <2>5
    <3>2. ColdBlockAt(h) = mem.blocks[j]
      BY Zenon, <1>1, <1>2, <2>4, <3>1, ArchivedRead
    <3>3. mem.blocks[j] = Ancestor(net, At(j))
      BY Zenon, <3>1 DEF Takes
    <3> QED BY Zenon, <2>4, <3>2, <3>3
  <2>6. CASE ~(j <= k) /\ j <= maxHotBlocks
    <3>1. j \in (k + 1)..maxHotBlocks /\ j \in 1..maxHotBlocks
      BY SMTT(30), <1>5, <2>2, <2>6
    <3>2. ColdBlockAt(h) = mem.blocks[j]
      BY Zenon, <1>1, <1>2, <2>4, <3>1, ArchivedRead
    <3>3. ~OnNet(mem.blocks[j])
      BY Zenon, <3>1 DEF Takes
    <3> QED BY Zenon, <2>3, <2>6, <3>2, <3>3
  <2>7. CASE ~(j <= k) /\ ~(j <= maxHotBlocks)
    <3>1. ~(h <= t)
      BY SMTT(30), <1>5, <2>2, <2>7
    <3>2. ColdBlockAt(h) = NoBlock
      <4>1. CASE h \in Heights
        BY Zenon, <1>1, <3>1, <4>1 DEF Disk
      <4>2. CASE h \notin Heights
        BY Zenon, <4>2 DEF ColdBlockAt
      <4> QED BY Zenon, <4>1, <4>2
    <3> QED BY Zenon, <2>3, <2>7, <3>2
  <2> QED BY Zenon, <2>5, <2>6, <2>7
<1>18. Height(mem)' = m + maxHotBlocks - 1
  <2>1. Len(mem'.blocks[maxHotBlocks]) = m + maxHotBlocks - 1
    BY Zenon, <1>9, <1>10
  <2> QED BY Zenon, <1>7, <2>1 DEF Height, Tip
<1>19. /\ m >= 1 /\ t <= m + maxHotBlocks - 1 /\ m - 1 <= t
       /\ m - 1 \in 0..Len(net) /\ m \in 1..Len(net)
  <2>1. /\ m >= 1 /\ t <= m + maxHotBlocks - 1 /\ m - 1 <= t
        /\ m - 1 \in 0..l /\ m \in 1..l
    BY SMTT(30), <1>5, <1>6
  <2> QED BY Zenon, <1>4, <2>1
<1>20. Len(mem'.state) <= m + maxHotBlocks - 1
  <2>1. x \in Seq(Nat) /\ Len(x) <= o + n - 1
    BY Zenon, <1>4 DEF Takes
  <2>2. o + n - 1 = m + maxHotBlocks - 1
    BY SMTT(30), <1>5, <1>6
  <2> QED BY Zenon, <1>7, <2>1, <2>2
<1>21. Len(mem'.baseBlock) = m - 1 /\ Parent(mem'.blocks[1]) = mem'.baseBlock
  <2>1. Len(Ancestor(net, m - 1)) = m - 1
    BY Zenon, <1>8, <1>19, AncestorTyped
  <2>2. Parent(Ancestor(net, m)) = Ancestor(net, m - 1)
    BY Zenon, <1>8, <1>19, AncestorParent
  <2>3. mem'.blocks[1] = Ancestor(net, m)
    BY Zenon, <1>9, <1>10
  <2> QED BY Zenon, <1>7, <2>1, <2>2, <2>3
<1>22. \A h \in 0..(m - 1) : ColdBlockAt(h)' = Ancestor(mem'.baseBlock, h)
  <2> TAKE h \in 0..(m - 1)
  <2>1. Ancestor(Ancestor(net, m - 1), h) = Ancestor(net, h)
    BY Zenon, <1>8, <1>19, AncestorTwice
  <2> QED BY Zenon, <1>7, <1>12, <1>16, <2>1
<1>23. \A i \in 1..maxHotBlocks : ~Archived(i)'
  BY SMTT(30), <1>14 DEF Archived
<1>24. ASSUME NEW i \in 1..maxHotBlocks
       PROVE  (IF Archived(i) THEN file[At(i)] = mem.blocks[i]
               ELSE /\ i <= maxHotBlocks - reorgTailSize => ColdBlockAt(At(i)) = mem.blocks[i]
                    /\ \/ ColdBlockAt(At(i)) \in {NoBlock, mem.blocks[i]}
                       \/ ~OnNet(ColdBlockAt(At(i))))'
  <2>1. PICK h : h = m + i - 1
    BY Zenon
  <2>2. At(i)' = h
    BY Zenon, <1>7, <2>1 DEF At
  <2>3. ColdBlockAt(At(i))' = ColdBlockAt(h)
    BY Zenon, <1>12, <2>2 DEF ColdBlockAt
  <2>4. OnNet(ColdBlockAt(At(i)))' = OnNet(ColdBlockAt(h))
    BY Zenon, <2>3 DEF OnNet
  <2> QED BY Zenon, <1>17, <1>23, <2>1, <2>3, <2>4
<1>25. \A j \in 1..maxHotBlocks : \A i \in 1..j :
          OnNet(mem.blocks[j])' => OnNet(mem.blocks[i])'
  <2> TAKE j \in 1..maxHotBlocks
  <2> TAKE i \in 1..j
  <2>1. i \in 1..maxHotBlocks
    BY SMTT(30), <1>5
  <2>2. OnNet(mem'.blocks[i])
    BY Zenon, <1>9, <2>1
  <2> QED BY Zenon, <2>2 DEF OnNet
<1>26. Running(t)'
  <2>1. mem'.start = Len(mem'.blocks[1]) /\ mem'.baseState = mem'.baseBlock
    BY Zenon, <1>7, <1>9, <1>10
  <2> QED BY Zenon, <1>7, <1>18, <1>19, <1>20, <1>21, <1>22, <1>24, <1>25, <2>1 DEF Running
<1>27. up' = "up"
  BY Zenon, <1>1
<1>28. up' # "loaded"
  BY Zenon, <1>27
<1> QED BY Zenon, <1>11, <1>13, <1>15, <1>26, <1>28 DEF Typed, Follows

\* FinalizeBlock: the next block of the network's chain fits on the tip, so
\* that the whole window is on it.
LEMMA FinalizeTakes ==
    ASSUME Sheltered, Typed, NEW t \in Heights, Running(t), NEW h \in 1..Len(net),
           Valid(mem.state, Tip(mem), Ancestor(net, h)),
           mem' = FinalizeBlock(mem, Ancestor(net, h))
    PROVE  \E k, n \in Nat : \E x : Takes(k, n, x)
<1>0. PICK b : b = Ancestor(net, h)
  BY Zenon
<1>1. PICK l \in Nat : b = Ancestor(net, h) /\ l = Len(net)
  <2>1. Len(net) \in Nat
    BY SMTT(30) DEF Typed, NetTyped
  <2> QED BY Zenon, <1>0, <2>1
<1>2. /\ maxHotBlocks \in Nat \ {0} /\ mem.start \in Nat \ {0} /\ reorgTailSize \in Nat \ {0}
      /\ Len(mem.blocks) = maxHotBlocks /\ Height(mem) = mem.start + maxHotBlocks - 1
      /\ Tip(mem) = mem.blocks[maxHotBlocks]
  BY Zenon, WindowBounds
<1>3. PICK o \in Nat : o = mem.start
  BY Zenon, <1>2
<1>4. /\ o >= 1 /\ maxHotBlocks \in Nat /\ maxHotBlocks >= 1
      /\ reorgTailSize \in Nat /\ reorgTailSize >= 1
      /\ Height(mem) = o + maxHotBlocks - 1 /\ h \in 1..l
  BY SMTT(30), <1>1, <1>2, <1>3
<1>5. net \in Seq(0..forks) /\ 0..forks \subseteq Nat
  BY SMTT(30) DEF Typed, NetTyped
<1>6. b \in Seq(Nat) /\ Len(b) = h
  <2>1. h \in 0..Len(net)
    BY SMTT(30), <1>1, <1>4
  <2>2. b \in Seq(0..forks) /\ Len(b) = h
    BY Zenon, <1>1, <1>5, <2>1, AncestorTyped
  <2> QED BY Zenon, <1>5, <2>2, WiderSeq
<1>7. /\ Len(b) = Height(mem) + 1 /\ Parent(b) = Tip(mem) /\ Applied(mem.state, b) = b
  BY Zenon, <1>1 DEF Valid, Height
<1>8. h = o + maxHotBlocks
  BY SMTT(30), <1>4, <1>6, <1>7
<1>9. maxHotBlocks \in 1..maxHotBlocks /\ h - 1 \in 0..Len(net)
  <2>1. maxHotBlocks \in 1..maxHotBlocks /\ h - 1 \in 0..l
    BY SMTT(30), <1>4
  <2> QED BY Zenon, <1>1, <2>1
<1>10. OnNet(mem.blocks[maxHotBlocks])
  <2>1. Parent(Ancestor(net, h)) = Ancestor(net, h - 1)
    BY Zenon, <1>5, AncestorParent
  <2>2. OnNet(Ancestor(net, h - 1))
    BY Zenon, <1>9, AncestorOnNet DEF Typed
  <2> QED BY Zenon, <1>1, <1>2, <1>7, <2>1, <2>2
<1>11. /\ mem.baseBlock = Ancestor(net, mem.start - 1)
       /\ \A i \in 1..maxHotBlocks : mem.blocks[i] = Ancestor(net, At(i))
  BY Zenon, <1>9, <1>10, BelowOnNet
<1> DEFINE bs == Append(mem.blocks, b)
<1>12. mem' = trimHotWindow([mem EXCEPT !.blocks = bs, !.state = b])
  BY Zenon, <1>1, <1>7 DEF FinalizeBlock
<1>13. /\ bs \in Seq(Seq(Nat)) /\ Len(bs) = maxHotBlocks + 1
       /\ \A i \in 1..maxHotBlocks : bs[i] = mem.blocks[i]
       /\ bs[maxHotBlocks + 1] = b
  <2>1. mem.blocks \in Seq(Seq(Nat))
    BY Zenon DEF Typed, MemTyped, Chain
  <2> QED BY SMTT(30), <1>2, <1>6, <2>1
<1> HIDE DEF bs
<1>14. \A i \in 1..(maxHotBlocks + 1) : bs[i] = Ancestor(net, At(i))
  <2> TAKE i \in 1..(maxHotBlocks + 1)
  <2>1. CASE i = maxHotBlocks + 1
    <3>1. o + i - 1 = h
      BY SMTT(30), <1>4, <1>8, <2>1
    <3>2. At(i) = h
      BY Zenon, <1>3, <3>1 DEF At
    <3> QED BY Zenon, <1>1, <1>13, <2>1, <3>2
  <2>2. CASE i # maxHotBlocks + 1
    <3>1. i \in 1..maxHotBlocks
      BY SMTT(30), <1>4, <2>2
    <3> QED BY Zenon, <1>11, <1>13, <3>1
  <2> QED BY Zenon, <2>1, <2>2
<1>15. Takes(maxHotBlocks, maxHotBlocks + 1, b)
  <2>1. /\ maxHotBlocks \in 0..maxHotBlocks
        /\ maxHotBlocks + 1 \in maxHotBlocks..(maxHotBlocks + maxHotBlocks)
        /\ (maxHotBlocks + 1) - maxHotBlocks <= reorgTailSize
        /\ \A i \in (maxHotBlocks + 1)..maxHotBlocks : FALSE
    BY SMTT(30), <1>4
  <2>2. o + (maxHotBlocks + 1) - 1 = h /\ h <= l
    BY SMTT(30), <1>4, <1>8
  <2>3. mem.start + (maxHotBlocks + 1) - 1 = Len(b)
    BY Zenon, <1>3, <1>6, <2>2
  <2>4. mem.start + (maxHotBlocks + 1) - 1 <= Len(net)
    BY Zenon, <1>1, <1>6, <2>2, <2>3
  <2>5. Len(b) <= mem.start + (maxHotBlocks + 1) - 1
    BY SMTT(30), <1>6, <2>3
  <2> QED BY Zenon, <1>6, <1>11, <1>12, <1>13, <1>14, <2>1, <2>4, <2>5 DEF Takes
<1>16. maxHotBlocks + 1 \in Nat
  BY SMTT(30), <1>4
<1> QED BY Zenon, <1>4, <1>15, <1>16

\* TryReorg: the branch starts where the window leaves the network's chain.
LEMMA ReorgTakes ==
    ASSUME Sheltered, Typed, NEW t \in Heights, Running(t),
           NEW fork \in Nat, NEW m \in Nat, m >= 1, Fits(m), fork + m - 1 <= Len(net),
           NEW cand, cand = [i \in 1..m |-> Ancestor(net, fork + i - 1)],
           BlockAt(fork) # Ancestor(net, fork), CanReorg(mem, fork, cand),
           mem' = TryReorg(mem, fork, cand)
    PROVE  \E k, n \in Nat : \E x : Takes(k, n, x)
<1>1. PICK l \in Nat : l = Len(net)
  <2>1. Len(net) \in Nat
    BY SMTT(30) DEF Typed, NetTyped
  <2> QED BY Zenon, <2>1
<1>2. /\ maxHotBlocks \in Nat \ {0} /\ mem.start \in Nat \ {0} /\ reorgTailSize \in Nat \ {0}
      /\ Len(mem.blocks) = maxHotBlocks /\ Height(mem) = mem.start + maxHotBlocks - 1
  BY Zenon, WindowBounds
<1>3. PICK o \in Nat : o = mem.start
  BY Zenon, <1>2
<1>4. net \in Seq(0..forks) /\ 0..forks \subseteq Nat
  <2>1. net \in Seq(0..forks) /\ forks \in Nat
    BY Zenon DEF Typed, NetTyped
  <2> QED BY SMTT(30), <2>1
<1>5. \A i \in 1..m : /\ fork + i - 1 \in 0..Len(net)
                      /\ Ancestor(net, fork + i - 1) \in Seq(Nat)
                      /\ Len(Ancestor(net, fork + i - 1)) = fork + i - 1
  <2> TAKE i \in 1..m
  <2>1. fork + i - 1 \in 0..Len(net)
    <3>1. fork + m - 1 <= l
      BY Zenon, <1>1
    <3>2. fork + i - 1 \in 0..l
      BY SMTT(30), <3>1
    <3> QED BY Zenon, <1>1, <3>2
  <2>2. /\ Ancestor(net, fork + i - 1) \in Seq(0..forks)
        /\ Len(Ancestor(net, fork + i - 1)) = fork + i - 1
    BY Zenon, <1>4, <2>1, AncestorTyped
  <2> QED BY Zenon, <1>4, <2>1, <2>2, WiderSeq
<1>6. /\ cand \in Seq(Seq(Nat)) /\ Len(cand) = m
      /\ \A i \in 1..m : cand[i] = Ancestor(net, fork + i - 1)
  <2>1. cand \in [1..m -> Seq(Nat)]
    BY Zenon, <1>5
  <2>2. cand \in Seq(Seq(Nat)) /\ Len(cand) = m
    BY Zenon, <2>1, FunctionSeq
  <2>3. \A i \in 1..m : cand[i] = Ancestor(net, fork + i - 1)
    BY Zenon
  <2> QED BY Zenon, <2>2, <2>3
<1>7. PICK k \in Nat : k = fork - o /\ fork = o + k /\ k < maxHotBlocks
  <2>1. fork <= o + maxHotBlocks - 1 /\ fork >= o
    BY Zenon, <1>2, <1>3 DEF CanReorg
  <2> QED BY SMTT(30), <1>2, <2>1
<1>8. /\ maxHotBlocks \in Nat /\ maxHotBlocks >= 1 /\ reorgTailSize \in Nat /\ o >= 1
      /\ m \in Nat /\ m >= 1 /\ m <= maxHotBlocks /\ m <= reorgTailSize /\ o + k + m - 1 <= l
  <2>1. /\ maxHotBlocks \in Nat /\ maxHotBlocks >= 1 /\ reorgTailSize \in Nat /\ o >= 1
    BY SMTT(30), <1>2, <1>3
  <2>2. fork + m - 1 <= l /\ fork = o + k
    BY Zenon, <1>1, <1>7
  <2>3. m \in Nat /\ m >= 1 /\ m <= maxHotBlocks /\ m <= reorgTailSize
    BY Zenon DEF Fits
  <2>4. o + k + m - 1 <= l
    BY Zenon, <2>2, <2>3
  <2> QED BY Zenon, <2>1, <2>3, <2>4
<1>9. m >= maxHotBlocks - k
  BY Zenon, <1>2, <1>3, <1>6, <1>7 DEF CanReorg
<1> DEFINE prefix == SubSeq(mem.blocks, 1, k)
           bs == prefix \o cand
<1>10. AgreedPrefix(mem, fork) = prefix
  <2>1. mem.start # 0 /\ fork - mem.start = k
    BY Zenon, <1>2, <1>3, <1>7
  <2> QED BY Zenon, <2>1 DEF AgreedPrefix
<1>11. /\ prefix \in Seq(Seq(Nat)) /\ Len(prefix) = k
       /\ \A i \in 1..k : prefix[i] = mem.blocks[i]
  <2>1. PICK w \in Seq(Seq(Nat)) : w = mem.blocks
    BY Zenon DEF Typed, MemTyped, Chain
  <2>2. k \in 0..Len(w)
    BY SMTT(30), <1>2, <1>7, <2>1
  <2>3. /\ SubSeq(w, 1, k) \in Seq(Seq(Nat)) /\ Len(SubSeq(w, 1, k)) = k
        /\ \A i \in 1..k : SubSeq(w, 1, k)[i] = w[i]
    BY Zenon, <2>2, AncestorTyped DEF Ancestor
  <2> QED BY Zenon, <2>1, <2>3
<1> HIDE DEF prefix
<1>12. /\ bs \in Seq(Seq(Nat)) /\ Len(bs) = k + m
       /\ \A i \in 1..k : bs[i] = mem.blocks[i]
       /\ \A i \in 1..m : bs[k + i] = Ancestor(net, fork + i - 1)
  <2>1. PICK u \in Seq(Seq(Nat)), v \in Seq(Seq(Nat)) : u = prefix /\ v = cand
    BY Zenon, <1>6, <1>11
  <2>2. /\ u \o v \in Seq(Seq(Nat)) /\ Len(u \o v) = Len(u) + Len(v)
        /\ \A i \in 1..Len(u) : (u \o v)[i] = u[i]
        /\ \A i \in 1..Len(v) : (u \o v)[Len(u) + i] = v[i]
    BY SMTT(30), JoinedSeq
  <2>3. bs = u \o v /\ Len(u) = k /\ Len(v) = m
    BY Zenon, <1>6, <1>11, <2>1
  <2> HIDE DEF bs
  <2> QED BY ZenonT(40), <1>6, <1>11, <2>1, <2>2, <2>3
<1> HIDE DEF bs
<1>13. mem' = trimHotWindow([mem EXCEPT !.blocks = bs, !.state = cand[Len(cand)]])
  BY Zenon, <1>10 DEF TryReorg, bs
<1>14. k + 1 \in 1..(k + m) /\ 1 \in 1..m /\ m \in 1..m /\ fork + 1 - 1 = fork
  BY SMTT(30), <1>8
<1>15. Parent(bs[k + 1]) = IF k + 1 = 1 THEN mem.baseBlock ELSE bs[(k + 1) - 1]
  <2>1. Replays(mem, bs)
    BY Zenon, <1>10 DEF CanReorg, bs
  <2>2. BaseBlock(mem) = mem.baseBlock
    BY Zenon, <1>2 DEF BaseBlock
  <2> QED BY Zenon, <1>12, <1>14, <2>1, <2>2 DEF Replays, Valid
<1>16. Parent(bs[k + 1]) = Ancestor(net, fork - 1) /\ fork - 1 \in 0..Len(net)
  <2>1. fork \in 1..l /\ fork - 1 \in 0..l
    BY SMTT(30), <1>7, <1>8
  <2>2. bs[k + 1] = Ancestor(net, fork)
    BY Zenon, <1>12, <1>14
  <2>3. Parent(Ancestor(net, fork)) = Ancestor(net, fork - 1)
    BY Zenon, <1>1, <1>4, <2>1, AncestorParent
  <2> QED BY Zenon, <1>1, <2>1, <2>2, <2>3
<1>17. /\ mem.baseBlock = Ancestor(net, mem.start - 1)
       /\ \A i \in 1..k : mem.blocks[i] = Ancestor(net, At(i))
  <2>1. CASE k = 0
    <3>1. k + 1 = 1 /\ fork - 1 = o - 1 /\ \A i \in 1..k : FALSE
      BY SMTT(30), <1>7, <2>1
    <3> QED BY Zenon, <1>3, <1>15, <1>16, <3>1
  <2>2. CASE k # 0
    <3>1. k + 1 # 1 /\ (k + 1) - 1 = k /\ k \in 1..k /\ k \in 1..maxHotBlocks
      BY SMTT(30), <1>7, <1>8, <2>2
    <3>2. mem.blocks[k] = Ancestor(net, fork - 1)
      BY Zenon, <1>12, <1>15, <1>16, <3>1
    <3>3. OnNet(mem.blocks[k])
      BY Zenon, <1>16, <3>2, AncestorOnNet DEF Typed
    <3> QED BY Zenon, <3>1, <3>3, BelowOnNet
  <2> QED BY Zenon, <2>1, <2>2
<1>18. \A i \in 1..(k + m) : bs[i] = Ancestor(net, At(i))
  <2> TAKE i \in 1..(k + m)
  <2>1. CASE i <= k
    <3>1. i \in 1..k
      BY SMTT(30), <1>8, <2>1
    <3> QED BY Zenon, <1>12, <1>17, <3>1
  <2>2. CASE ~(i <= k)
    <3>1. PICK j \in 1..m : i = k + j /\ fork + j - 1 = o + i - 1
      <4>1. i - k \in 1..m /\ i = k + (i - k) /\ fork + (i - k) - 1 = o + i - 1
        BY SMTT(30), <1>7, <1>8, <2>2
      <4> QED BY Zenon, <4>1
    <3> QED BY Zenon, <1>3, <1>12, <3>1 DEF At
  <2> QED BY Zenon, <2>1, <2>2
<1>19. ASSUME NEW i \in (k + 1)..maxHotBlocks PROVE ~OnNet(mem.blocks[i])
  <2>1. k + 1 \in 1..i /\ i \in 1..maxHotBlocks /\ k + 1 \in 1..maxHotBlocks
    BY SMTT(30), <1>7, <1>8
  <2>2. fork >= o /\ ~(fork > o + maxHotBlocks - 1) /\ fork - o < maxHotBlocks
    BY SMTT(30), <1>7, <1>8
  <2>3. (fork - o) + 1 = k + 1
    BY Zenon, <1>7
  <2>4. BlockAt(fork) = mem.blocks[k + 1]
    <3>1. /\ ~(fork > Height(mem)) /\ fork >= mem.start /\ fork - mem.start < Len(mem.blocks)
          /\ (fork - mem.start) + 1 = k + 1
      BY Zenon, <1>2, <1>3, <2>2, <2>3
    <3>2. fork - mem.start + 1 = k + 1
      BY Zenon, <1>3, <1>7
    <3> QED BY Zenon, <3>1, <3>2 DEF BlockAt
  <2>5. Len(mem.blocks[k + 1]) = fork
    <3>1. Len(mem.blocks[k + 1]) = At(k + 1)
      BY Zenon, <2>1, WindowBlocks
    <3>2. o + (k + 1) - 1 = fork
      BY SMTT(30), <1>7
    <3> QED BY Zenon, <1>3, <3>1, <3>2 DEF At
  <2>6. ~OnNet(mem.blocks[k + 1])
    BY Zenon, <2>4, <2>5 DEF OnNet
  <2> QED BY Zenon, <2>1, <2>6 DEF Running
<1>20. Takes(k, k + m, cand[Len(cand)])
  <2>1. /\ k \in 0..maxHotBlocks /\ k + m \in maxHotBlocks..(k + maxHotBlocks)
        /\ (k + m) - k <= reorgTailSize
    BY SMTT(30), <1>7, <1>8, <1>9
  <2>2. o + (k + m) - 1 <= l /\ fork + m - 1 = o + (k + m) - 1
    BY SMTT(30), <1>7, <1>8
  <2>3. mem.start + (k + m) - 1 <= Len(net)
    BY Zenon, <1>1, <1>3, <2>2
  <2>4. /\ cand[Len(cand)] \in Seq(Nat) /\ Len(cand[Len(cand)]) = mem.start + (k + m) - 1
    BY Zenon, <1>3, <1>5, <1>6, <1>14, <2>2
  <2>5. Len(cand[Len(cand)]) <= mem.start + (k + m) - 1
    BY SMTT(30), <2>4
  <2> QED BY Zenon, <1>12, <1>13, <1>17, <1>18, <1>19, <2>1, <2>3, <2>4, <2>5 DEF Takes
<1>21. k + m \in Nat
  BY SMTT(30), <1>8
<1> QED BY Zenon, <1>20, <1>21

\* A batch is not empty and ends at the network's tip or before.
LEMMA BatchLength ==
    ASSUME NEW l \in Nat, NEW fork \in Nat, fork < l, NEW size \in Nat, size >= 1,
           NEW z, z = IF l - fork + 1 > size THEN size ELSE l - fork + 1
    PROVE  \E m \in Nat : m = z /\ m >= 1 /\ fork + m - 1 <= l
  BY SMTT(30)

\* The handlers that take a block or a branch.
LEMMA HandlerSteps ==
    ASSUME Induction, Sheltered, Typed, NEW t \in Heights, Follows(t), FitsBranch, NEW s \in Savers,
           \/ \E h \in 1..Len(net) : ApplyPeerBlock(s, h)
           \/ \E back \in 0..3 : CatchUpReorg(s, back)
    PROVE  Typed' /\ Follows(t)'
<1>1. /\ Ready(s) /\ sv' = [sv EXCEPT ![s] = StartSave]
      /\ UNCHANGED <<net, forks, up, boot, file, cloud, state>>
  BY Zenon DEF ApplyPeerBlock, CatchUpReorg, Handler, disk
<1>2. up = "up" /\ Running(t)
  BY Zenon, <1>1 DEF Ready, Follows
<1>3. PICK l \in Nat, q \in Nat : l = Len(net) /\ q = Height(mem)
  <2>1. Len(net) \in Nat
    BY SMTT(30) DEF Typed, NetTyped
  <2>2. Height(mem) \in Nat
    BY SMTT(30), <1>2, WindowBounds
  <2> QED BY Zenon, <2>1, <2>2
<1>4. catchUpBatchSize \in Nat /\ catchUpBatchSize >= 1 /\ 1 \in Nat /\ Fits(1)
  BY SMTT(30), ChainStoreAssumption DEF Sheltered, Fits
<1>5. \E k, n \in Nat : \E x : Takes(k, n, x)
  <2>1. ASSUME NEW h \in 1..Len(net), ApplyPeerBlock(s, h)
        PROVE  \E k, n \in Nat : \E x : Takes(k, n, x)
    <3> DEFINE b == Ancestor(net, h)
    <3>1. CASE Valid(mem.state, Tip(mem), b) /\ mem' = FinalizeBlock(mem, b)
      BY Zenon, <1>2, <3>1, FinalizeTakes
    <3>2. CASE BlockAt(h) # b /\ CanReorg(mem, h, <<b>>) /\ mem' = TryReorg(mem, h, <<b>>)
      <4>1. h \in 1..l
        BY Zenon, <1>3
      <4>2. h \in Nat /\ 1 >= 1 /\ h + 1 - 1 <= l
        BY SMTT(30), <4>1
      <4>3. PICK cand : cand = <<b>>
        BY Zenon
      <4>4. cand = [i \in 1..1 |-> Ancestor(net, h + i - 1)]
        <5>1. h + 1 - 1 = h
          BY SMTT(30), <4>2
        <5>2. b = Ancestor(net, h + 1 - 1)
          BY Zenon, <5>1
        <5> HIDE DEF b
        <5> QED BY SMTT(30), <4>3, <5>2
      <4> QED BY Zenon, <1>2, <1>3, <1>4, <3>2, <4>2, <4>3, <4>4, ReorgTakes
    <3> QED BY Zenon, <2>1, <3>1, <3>2 DEF ApplyPeerBlock, Handler
  <2>2. ASSUME NEW back \in 0..3, CatchUpReorg(s, back)
        PROVE  \E k, n \in Nat : \E x : Takes(k, n, x)
    <3>1. PICK fork : fork = Height(mem) - back
      BY Zenon
    <3>2. /\ Height(mem) < Len(net) /\ fork >= 1 /\ BlockAt(fork) # Ancestor(net, fork)
          /\ CanReorg(mem, fork, NetBlocks(fork))
          /\ mem' = TryReorg(mem, fork, NetBlocks(fork))
      BY Zenon, <2>2, <3>1 DEF CatchUpReorg, ForkTried, Handler
    <3>3. fork \in Nat /\ fork < l
      <4>1. fork = q - back /\ q < l
        BY Zenon, <1>3, <3>1, <3>2
      <4> QED BY SMTT(30), <3>2, <4>1
    <3>4. PICK m \in Nat : m = Fetched(fork) /\ m >= 1 /\ fork + m - 1 <= l
      <4>1. Fetched(fork) = IF l - fork + 1 > catchUpBatchSize THEN catchUpBatchSize
                            ELSE l - fork + 1
        BY Zenon, <1>3 DEF Fetched
      <4> QED BY Zenon, <1>4, <3>3, <4>1, BatchLength
    <3>5. NetBlocks(fork) = [i \in 1..m |-> Ancestor(net, fork + i - 1)]
      BY Zenon, <3>4 DEF NetBlocks
    <3>6. PICK cand : cand = NetBlocks(fork)
      BY Zenon
    <3>7. Fits(m)
      BY Zenon, <2>2, <3>1, <3>4 DEF FitsBranch
    <3> QED BY Zenon, <1>2, <1>3, <3>2, <3>3, <3>4, <3>5, <3>6, <3>7, ReorgTakes
  <2> QED BY Zenon, <2>1, <2>2
<1> QED BY Zenon, <1>1, <1>5, TakesStep

-----------------------------------------------------------------------------
(* Crash and restart. *)

\* A crash leaves the files.
LEMMA CrashStep ==
    ASSUME Sheltered, Typed, NEW t \in Heights, Follows(t), Crash
    PROVE  Typed' /\ Follows(t)'
<1>1. /\ up' = "down" /\ mem' = NewChain /\ boot' = HotWindowInfo(NewChain)
      /\ sv' = [p \in Savers |-> Idle]
      /\ UNCHANGED <<net, forks, file, cloud, state>>
  BY Zenon DEF Crash, disk
<1>2. \A h : ColdBlockAt(h)' = ColdBlockAt(h) /\ OnNet(ColdBlockAt(h))' = OnNet(ColdBlockAt(h))
  BY Zenon, <1>1, ColdLeft DEF OnNet
<1>3. NetTyped' /\ DiskTyped'
  BY Zenon, <1>1 DEF Typed, DiskTyped, NetTyped, Made
<1>4. MemTyped'
  <2>1. NewChain \in Chain /\ HotWindowInfo(NewChain) \in Window
    BY Zenon, WindowTyped DEF Typed
  <2>2. NewChain.blocks = <<Genesis>>
    BY Zenon DEF NewChain
  <2>3. /\ <<Genesis>> # <<>> /\ Len(<<Genesis>>) = 1 /\ <<Genesis>>[1] = Genesis
        /\ Len(Genesis) = 0 /\ Genesis \in Seq(0..forks)
    BY SMTT(30) DEF Genesis
  <2>4. Made(Genesis)
    <3>1. 0 <= Len(net)
      BY SMTT(30) DEF Typed, NetTyped
    <3> QED BY Zenon, <2>3, <3>1 DEF Made
  <2>5. ASSUME NEW i \in 1..Len(mem'.blocks)
        PROVE  (Made(mem.blocks[i]) /\ Len(mem.blocks[i]) = Len(mem.blocks[1]) + i - 1)'
    <3>1. mem'.blocks = <<Genesis>>
      BY Zenon, <1>1, <2>2
    <3>2. i = 1
      BY SMTT(30), <2>3, <3>1
    <3>3. mem'.blocks[i] = Genesis /\ mem'.blocks[1] = Genesis
      BY Zenon, <2>3, <3>1, <3>2
    <3>4. Made(mem'.blocks[i])
      BY Zenon, <2>4, <3>3
    <3>5. Len(mem'.blocks[i]) = Len(mem'.blocks[1]) + i - 1
      BY SMTT(30), <2>3, <3>2, <3>3
    <3> QED BY Zenon, <1>1, <3>4, <3>5 DEF Made
  <2> QED BY Zenon, <1>1, <2>1, <2>2, <2>3, <2>5 DEF MemTyped
<1>5. SaveTyped'
  <2>1. Idle \in Save /\ Idle.pc = "idle"
    BY Zenon, WindowTyped DEF Typed
  <2>2. saver' = Idle /\ sv' \in [Savers -> Save]
    BY Zenon, <1>1, <2>1, ChainStoreAssumption DEF saver
  <2> QED BY Zenon, <1>1, <2>1, <2>2 DEF SaveTyped
<1>6. Disk(t)'
  BY Zenon, <1>2 DEF Follows, Disk
<1>7. StateSaved(t)'
  BY Zenon, <1>1, <1>2 DEF Follows, StateSaved, Recorded
<1>8. up' # "loaded" /\ up' \notin {"restored", "up"}
  BY Zenon, <1>1
<1> QED BY Zenon, <1>3, <1>4, <1>5, <1>6, <1>7, <1>8 DEF Typed, Follows

\* What Load reads: every block from the recorded window on.
LEMMA LoadedBlocks ==
    ASSUME IntervalSizes, Sheltered, Typed, NEW t \in Heights, Disk(t), NEW f \in 0..t
    PROVE  loadSplitFormat(f) = [i \in 1..(t - f + 1) |-> ColdBlockAt(f + i - 1)]
<1> DEFINE found == {h \in LoadedHeights(f) : h >= f}
<1>1. t \in Nat /\ f \in Nat /\ f <= t /\ MaxHeight \in Nat /\ t <= MaxHeight
  BY SMTT(30), ChainStoreAssumption DEF Heights
<1>2. \A h \in Heights : h >= f => ((\A g \in f..h : ColdBlockAt(g) # NoBlock) <=> h <= t)
  <2> TAKE h \in Heights
  <2> HAVE h >= f
  <2>1. h \in Nat /\ h <= MaxHeight /\ h \in f..h
    BY SMTT(30), <1>1 DEF Heights
  <2>2. ASSUME h <= t, NEW g \in f..h PROVE ColdBlockAt(g) # NoBlock
    <3>1. g \in Heights /\ g <= t
      BY SMTT(30), <1>1, <2>1, <2>2 DEF Heights
    <3> QED BY Zenon, <3>1 DEF Disk
  <2>3. ASSUME \A g \in f..h : ColdBlockAt(g) # NoBlock PROVE h <= t
    BY Zenon, <2>1, <2>3 DEF Disk
  <2> QED BY Zenon, <2>2, <2>3
<1>3. \A h : h \in found <=> h \in Heights /\ h >= f /\ h <= t
  BY Zenon, <1>2 DEF LoadedHeights
<1>4. \A h : h \in found <=> h \in f..t
  <2> HIDE DEF found
  <2>1. \A h : h \in Heights /\ h >= f /\ h <= t <=> h \in f..t
    BY SMTT(30), <1>1 DEF Heights
  <2> QED BY Zenon, <1>3, <2>1
<1>5. found = f..t
  <2> HIDE DEF found
  <2> QED BY Zenon, <1>4
<1>6. Cardinality(f..t) = t - f + 1
  <2>1. Cardinality(f..t) = IF f > t THEN 0 ELSE t - f + 1
    BY SMTT(30), <1>1 DEF IntervalSizes
  <2> QED BY SMTT(30), <1>1, <2>1
<1> QED BY Zenon, <1>5, <1>6 DEF loadSplitFormat

\* Load finds the window.
LEMMA LoadStep ==
    ASSUME IntervalSizes, Sheltered, Typed, NEW t \in Heights, Follows(t), Load
    PROVE  Typed' /\ Follows(t)'
<1>1. PICK f \in Nat : f = state.hw.start
  <2>1. state.hw.start \in Nat
    BY Zenon DEF Typed, DiskTyped, Window
  <2> QED BY Zenon, <2>1
<1>2. Disk(t) /\ StateSaved(t) /\ up = "down"
  BY Zenon DEF Follows, Load
<1>3. t \in Nat /\ maxHotBlocks \in Nat /\ maxHotBlocks >= 1 /\ maxHotBlocks <= t
  BY SMTT(30), <1>2, ChainStoreAssumption DEF Disk, Sheltered, Heights
<1>4. f \in 0..t
  <2>1. f = 0 \/ f \in 1..(t - maxHotBlocks + 1)
    BY Zenon, <1>1, <1>2 DEF StateSaved, Recorded
  <2> QED BY SMTT(30), <1>3, <2>1
<1>5. PICK n \in Nat : n = t - f + 1
  BY SMTT(30), <1>3, <1>4
<1>6. n >= 1
  BY SMTT(30), <1>3, <1>4, <1>5
<1>7. PICK bs : bs = [i \in 1..n |-> ColdBlockAt(f + i - 1)]
  BY Zenon
<1>8. loadSplitFormat(f) = bs
  BY Zenon, <1>2, <1>4, <1>5, <1>7, LoadedBlocks
<1>9. ASSUME NEW i \in 1..n
      PROVE  /\ bs[i] = ColdBlockAt(f + i - 1)
             /\ ColdBlockAt(f + i - 1) \in Seq(Nat) /\ Made(ColdBlockAt(f + i - 1))
             /\ Len(ColdBlockAt(f + i - 1)) = f + i - 1
  <2>1. f + i - 1 \in Heights /\ f + i - 1 <= t
    <3>1. f + i - 1 \in Nat /\ f + i - 1 <= t
      BY SMTT(30), <1>3, <1>4, <1>5
    <3>2. t <= MaxHeight /\ MaxHeight \in Nat
      BY SMTT(30), ChainStoreAssumption DEF Heights
    <3> QED BY SMTT(30), <1>3, <3>1, <3>2 DEF Heights
  <2>2. ColdBlockAt(f + i - 1) # NoBlock
    BY Zenon, <1>2, <2>1 DEF Disk
  <2> QED BY Zenon, <1>7, <2>1, <2>2, ColdTyped DEF Typed
<1>10. bs \in Seq(Seq(Nat)) /\ Len(bs) = n /\ bs # <<>>
  <2>1. bs \in [1..n -> Seq(Nat)]
    BY Zenon, <1>7, <1>9
  <2>2. bs \in Seq(Seq(Nat)) /\ Len(bs) = n
    BY Zenon, <2>1, FunctionSeq
  <2> QED BY SMTT(30), <1>6, <2>2
<1>11. state # NoFile /\ state \in [state : Seq(Nat), hw : Window]
  BY Zenon DEF Typed, DiskTyped, Sheltered
<1>12. /\ mem' = [NewChain EXCEPT !.blocks = bs, !.state = state.state]
       /\ up' = "loaded" /\ boot' = state.hw
       /\ sv' = [sv EXCEPT ![Main] = StartSave]
       /\ UNCHANGED <<net, forks, file, cloud, state>>
  BY Zenon, <1>1, <1>8, <1>10, <1>11 DEF Load, disk
<1>13. /\ mem' \in Chain /\ mem'.blocks = bs /\ mem'.start = 0 /\ mem'.state = state.state
       /\ boot' \in Window
  <2>1. NewChain \in Chain /\ NewChain.start = 0
    <3>1. NewChain \in Chain
      BY Zenon, WindowTyped DEF Typed
    <3> QED BY Zenon, <3>1 DEF NewChain
  <2> QED BY Zenon, <1>10, <1>11, <1>12, <2>1 DEF Chain
<1>14. \A h : ColdBlockAt(h)' = ColdBlockAt(h) /\ OnNet(ColdBlockAt(h))' = OnNet(ColdBlockAt(h))
  BY Zenon, <1>12, ColdLeft DEF OnNet
<1>15. NetTyped' /\ DiskTyped'
  BY Zenon, <1>12 DEF Typed, DiskTyped, NetTyped, Made
<1>16. MemTyped'
  <2>1. 1 \in 1..n /\ f + 1 - 1 = f
    BY SMTT(30), <1>6
  <2>2. Len(bs[1]) = f
    BY Zenon, <1>9, <2>1
  <2>3. ASSUME NEW i \in 1..Len(mem'.blocks)
        PROVE  (Made(mem.blocks[i]) /\ Len(mem.blocks[i]) = Len(mem.blocks[1]) + i - 1)'
    <3>1. i \in 1..n
      BY Zenon, <1>10, <1>13
    <3>2. Made(bs[i]) /\ Len(bs[i]) = Len(bs[1]) + i - 1
      BY Zenon, <1>9, <2>2, <3>1
    <3> QED BY Zenon, <1>12, <1>13, <3>2 DEF Made
  <2> QED BY Zenon, <1>10, <1>13, <2>3 DEF MemTyped
<1>17. SaveTyped'
  <2>1. StartSave \in Save /\ StartSave.pc = "snapshot" /\ StartSave.next = 1
    BY Zenon, WindowTyped DEF Typed
  <2>2. saver' = StartSave /\ sv' \in [Savers -> Save]
    BY Zenon, <1>12, <2>1, SaverMoves, ChainStoreAssumption DEF Typed
  <2> QED BY Zenon, <1>12, <2>1, <2>2 DEF SaveTyped
<1>18. Disk(t)'
  BY Zenon, <1>2, <1>14 DEF Disk
<1>19. StateSaved(t)'
  BY Zenon, <1>2, <1>12, <1>14 DEF StateSaved, Recorded
<1>20. Loaded(t)'
  <2>1. Recorded(boot, t)' /\ Len(mem'.state) <= t
    BY Zenon, <1>2, <1>12, <1>13, <1>14 DEF StateSaved, Recorded
  <2>2. boot'.start = f
    BY Zenon, <1>1, <1>12
  <2>3. \A i \in 1..Len(mem'.blocks) : mem'.blocks[i] = ColdBlockAt(boot.start + i - 1)'
    <3> TAKE i \in 1..Len(mem'.blocks)
    <3>1. mem'.blocks[i] = ColdBlockAt(f + i - 1)
      BY Zenon, <1>9, <1>10, <1>13
    <3>2. ColdBlockAt(boot.start + i - 1)' = ColdBlockAt(f + i - 1)
      BY Zenon, <1>12, <2>2 DEF ColdBlockAt
    <3> QED BY Zenon, <3>1, <3>2
  <2> QED BY Zenon, <1>5, <1>10, <1>13, <2>1, <2>2, <2>3 DEF Loaded
<1>21. up' \notin {"restored", "up"}
  BY Zenon, <1>12
<1> QED BY Zenon, <1>15, <1>16, <1>17, <1>18, <1>19, <1>20, <1>21 DEF Typed, Follows

\* RestoreHotWindow: the recorded window is put back and trimmed, and its
\* checkpoint is the block before the last maxHotBlocks ones.
LEMMA RestoredWindow ==
    ASSUME Induction, Sheltered, Typed, NEW t \in Heights, Disk(t), Loaded(t), RestoreHotWindow,
           NEW m \in Nat, m = t - maxHotBlocks + 1
    PROVE  /\ mem' \in Chain /\ Len(mem'.blocks) = maxHotBlocks /\ mem'.state = mem.state
           /\ mem'.start = m /\ m >= 1
           /\ mem'.baseState = ColdBlockAt(m - 1) /\ mem'.baseBlock = ColdBlockAt(m - 1)
           /\ \A i \in 1..maxHotBlocks : mem'.blocks[i] = ColdBlockAt(m + i - 1)
<1>1. /\ t \in Nat /\ maxHotBlocks \in Nat /\ maxHotBlocks >= 1 /\ maxHotBlocks <= t
      /\ m >= 1
  BY SMTT(30), ChainStoreAssumption DEF Disk, Sheltered, Heights
<1>2. PICK f \in Nat : f = boot.start
  BY Zenon DEF Typed, MemTyped, Window
<1>3. f = 0 \/ f \in 1..(t - maxHotBlocks + 1)
  BY Zenon, <1>2 DEF Loaded, Recorded
<1>4. PICK n \in Nat : n = m - f
  BY SMTT(30), <1>1, <1>3
<1>5. PICK c : c = [mem EXCEPT !.start = boot.start, !.baseState = boot.baseState,
                               !.baseBlock = boot.baseBlock]
  BY Zenon
<1>6. /\ c \in Chain /\ c.blocks = mem.blocks /\ c.state = mem.state /\ c.start = f
      /\ c.baseState = boot.baseState /\ c.baseBlock = boot.baseBlock
  <2>1. mem \in Chain /\ boot \in Window
    BY Zenon DEF Typed, MemTyped
  <2> QED BY Zenon, <1>2, <1>5, <2>1 DEF Chain, Window
<1>7. PICK a : a = ColdBlockAt(m - 1)
  BY Zenon
<1>8. m - 1 \in Heights /\ m - 1 <= t
  <2>1. t <= MaxHeight /\ MaxHeight \in Nat
    BY SMTT(30), ChainStoreAssumption DEF Heights
  <2> QED BY SMTT(30), <1>1, <2>1 DEF Heights
<1>9. a \in Seq(Nat) /\ Len(a) = m - 1
  <2>1. a # NoBlock
    BY Zenon, <1>7, <1>8 DEF Disk
  <2> QED BY Zenon, <1>7, <1>8, <2>1, ColdTyped DEF Typed
<1>10. \A h \in 0..(m - 1) : ColdBlockAt(h) = Ancestor(a, h)
  <2>1. m - 1 \in 0..(t - maxHotBlocks + 1)
    BY SMTT(30), <1>1
  <2> QED BY Zenon, <1>7, <2>1 DEF Disk
<1>11. \A i \in 1..Len(mem.blocks) : c.blocks[i] = ColdBlockAt(f + i - 1)
  BY Zenon, <1>2, <1>6 DEF Loaded
<1>12. Len(mem.blocks) = maxHotBlocks + n /\ Len(mem.blocks) \in Nat
  <2>1. Len(mem.blocks) = t - f + 1
    BY Zenon, <1>2 DEF Loaded
  <2> QED BY SMTT(30), <1>1, <1>4, <2>1
<1>13. Len(c.blocks) = maxHotBlocks + n /\ c.start + n - 1 <= Len(a)
  <2>1. f + n - 1 <= m - 1
    BY SMTT(30), <1>4
  <2> QED BY Zenon, <1>6, <1>9, <1>12, <2>1
<1>14. \A i \in 1..n : c.blocks[i] = Ancestor(a, c.start + i - 1)
  <2> TAKE i \in 1..n
  <2>1. i \in 1..Len(mem.blocks) /\ f + i - 1 \in 0..(m - 1)
    BY SMTT(30), <1>1, <1>4, <1>12
  <2> QED BY Zenon, <1>6, <1>10, <1>11, <2>1
<1>15. c.start # 0 => /\ c.baseState = Ancestor(a, c.start - 1)
                      /\ c.baseBlock = Ancestor(a, c.start - 1)
  <2>1. ASSUME f # 0 PROVE boot.baseState = Ancestor(a, f - 1) /\ boot.baseBlock = Ancestor(a, f - 1)
    <3>1. boot.baseBlock = ColdBlockAt(f - 1) /\ boot.baseState = boot.baseBlock
      BY Zenon, <1>2, <2>1 DEF Loaded, Recorded
    <3>2. f - 1 \in 0..(m - 1)
      BY SMTT(30), <1>1, <1>3, <2>1
    <3> QED BY Zenon, <1>10, <3>1, <3>2
  <2> QED BY Zenon, <1>6, <2>1
<1>16. c.start # 0 \/ n # 0
  <2>1. f # 0 \/ n # 0
    BY SMTT(30), <1>1, <1>4
  <2> QED BY Zenon, <1>6, <2>1
<1>17. PICK d : d = trimHotWindow(c)
  BY Zenon
<1>18. /\ d \in Chain /\ Len(d.blocks) = maxHotBlocks
       /\ \A i \in 1..maxHotBlocks : d.blocks[i] = c.blocks[n + i]
       /\ d.start = c.start + n /\ d.state = c.state
       /\ d.baseState = Ancestor(a, d.start - 1)
       /\ d.baseBlock = Ancestor(a, d.start - 1)
  <2>1. maxHotBlocks \in Nat \ {0}
    BY SMTT(30), <1>1
  <2> QED BY ZenonT(40), <1>6, <1>9, <1>13, <1>14, <1>15, <1>16, <1>17, <2>1, TrimTo
<1>19. d.start = m
  <2>1. f + n = m
    BY SMTT(30), <1>4
  <2> QED BY Zenon, <1>6, <1>18, <2>1
<1>20. ASSUME NEW i \in 1..maxHotBlocks PROVE d.blocks[i] = ColdBlockAt(m + i - 1)
  <2>1. n + i \in 1..Len(mem.blocks) /\ f + (n + i) - 1 = m + i - 1
    BY SMTT(30), <1>1, <1>4, <1>12
  <2> QED BY Zenon, <1>11, <1>18, <2>1
<1>21. Ancestor(a, m - 1) = ColdBlockAt(m - 1)
  BY Zenon, <1>7, <1>9, OwnAncestor
<1>22. mem' = d
  BY Zenon, <1>5, <1>17 DEF RestoreHotWindow
<1> QED BY Zenon, <1>1, <1>6, <1>18, <1>19, <1>20, <1>21, <1>22

\* Main is running again: its window is the last maxHotBlocks blocks on disk.
LEMMA RestoreStep ==
    ASSUME Induction, Sheltered, Typed, NEW t \in Heights, Follows(t), RestoreHotWindow
    PROVE  Typed' /\ Follows(t)'
<1>1. /\ up = "loaded" /\ up' = "restored" /\ saver.pc = "saved"
      /\ sv' = [sv EXCEPT ![Main] = StartSave]
      /\ UNCHANGED <<net, forks, boot, file, cloud, state>>
  BY Zenon DEF RestoreHotWindow, disk, saver
<1>2. Disk(t) /\ StateSaved(t) /\ Loaded(t)
  BY Zenon, <1>1 DEF Follows
<1>3. t \in Nat /\ maxHotBlocks \in Nat /\ maxHotBlocks >= 1 /\ maxHotBlocks <= t
  BY SMTT(30), <1>2, ChainStoreAssumption DEF Disk, Sheltered, Heights
<1>4. PICK m \in Nat : m = t - maxHotBlocks + 1
  BY SMTT(30), <1>3
<1>5. /\ mem' \in Chain /\ Len(mem'.blocks) = maxHotBlocks /\ mem'.state = mem.state
      /\ mem'.start = m /\ m >= 1
      /\ mem'.baseState = ColdBlockAt(m - 1) /\ mem'.baseBlock = ColdBlockAt(m - 1)
      /\ \A i \in 1..maxHotBlocks : mem'.blocks[i] = ColdBlockAt(m + i - 1)
  BY Zenon, <1>2, <1>4, RestoredWindow
<1>6. ASSUME NEW h \in 0..t
      PROVE  /\ ColdBlockAt(h) # NoBlock /\ ColdBlockAt(h) \in Seq(Nat)
             /\ Made(ColdBlockAt(h)) /\ Len(ColdBlockAt(h)) = h
  <2>1. h \in Heights /\ h <= t
    <3>1. t <= MaxHeight /\ MaxHeight \in Nat
      BY SMTT(30), ChainStoreAssumption DEF Heights
    <3> QED BY SMTT(30), <1>3, <3>1 DEF Heights
  <2>2. ColdBlockAt(h) # NoBlock
    BY Zenon, <1>2, <2>1 DEF Disk
  <2> QED BY Zenon, <2>1, <2>2, ColdTyped DEF Typed
<1>7. ASSUME NEW i \in 1..maxHotBlocks
      PROVE  /\ m + i - 1 \in 0..t /\ mem'.blocks[i] = ColdBlockAt(m + i - 1)
             /\ Made(mem'.blocks[i]) /\ Len(mem'.blocks[i]) = m + i - 1
  <2>1. m + i - 1 \in 0..t
    BY SMTT(30), <1>3, <1>4
  <2> QED BY Zenon, <1>5, <1>6, <2>1
<1>8. /\ 1 \in 1..maxHotBlocks /\ maxHotBlocks \in 1..maxHotBlocks /\ m + 1 - 1 = m
      /\ m + maxHotBlocks - 1 = t
  BY SMTT(30), <1>3, <1>4
<1>9. Len(mem'.blocks[1]) = m
  BY Zenon, <1>7, <1>8
<1>10. \A h : ColdBlockAt(h)' = ColdBlockAt(h) /\ OnNet(ColdBlockAt(h))' = OnNet(ColdBlockAt(h))
  BY Zenon, <1>1, ColdLeft DEF OnNet
<1>11. NetTyped' /\ DiskTyped'
  BY Zenon, <1>1 DEF Typed, DiskTyped, NetTyped, Made
<1>12. MemTyped'
  <2>1. mem'.blocks # <<>>
    BY SMTT(30), <1>3, <1>5
  <2>2. ASSUME NEW i \in 1..Len(mem'.blocks)
        PROVE  (Made(mem.blocks[i]) /\ Len(mem.blocks[i]) = Len(mem.blocks[1]) + i - 1)'
    <3>1. Made(mem'.blocks[i]) /\ Len(mem'.blocks[i]) = Len(mem'.blocks[1]) + i - 1
      BY Zenon, <1>5, <1>7, <1>9
    <3> QED BY Zenon, <1>1, <3>1 DEF Made
  <2> QED BY Zenon, <1>1, <1>5, <2>1, <2>2 DEF Typed, MemTyped
<1>13. saver'.pc = "snapshot" /\ saver'.next = 1 /\ sv' \in [Savers -> Save]
  <2>1. StartSave \in Save /\ StartSave.pc = "snapshot" /\ StartSave.next = 1
    BY Zenon, WindowTyped DEF Typed
  <2> QED BY Zenon, <1>1, <2>1, SaverMoves, ChainStoreAssumption DEF Typed
<1>14. SaveTyped'
  BY Zenon, <1>1, <1>13 DEF SaveTyped
<1>15. Disk(t)' /\ StateSaved(t)'
  <2>1. Disk(t)'
    BY Zenon, <1>2, <1>10 DEF Disk
  <2>2. StateSaved(t)'
    BY Zenon, <1>1, <1>2, <1>10 DEF StateSaved, Recorded
  <2> QED BY Zenon, <2>1, <2>2
<1>16. Height(mem)' = t
  <2>1. Len(mem'.blocks[maxHotBlocks]) = t
    BY Zenon, <1>7, <1>8
  <2> QED BY Zenon, <1>5, <2>1 DEF Height, Tip
<1>17. /\ m - 1 <= t /\ m - 1 \in 0..t /\ t <= t
       /\ m \in 0..(t - maxHotBlocks + 1) /\ m - 1 \in 0..(t - maxHotBlocks + 1)
       /\ m - 1 \in 0..m
  BY SMTT(30), <1>3, <1>4, <1>5
<1>18. Len(mem'.baseBlock) = m - 1 /\ Parent(mem'.blocks[1]) = mem'.baseBlock
  <2>1. Len(ColdBlockAt(m - 1)) = m - 1
    BY Zenon, <1>6, <1>17
  <2>2. ColdBlockAt(m - 1) = Ancestor(ColdBlockAt(m), m - 1)
    BY Zenon, <1>2, <1>17 DEF Disk
  <2>3. mem'.blocks[1] = ColdBlockAt(m)
    BY Zenon, <1>7, <1>8
  <2> QED BY Zenon, <1>5, <1>9, <2>1, <2>2, <2>3 DEF Parent
<1>19. \A h \in 0..(m - 1) : ColdBlockAt(h)' = Ancestor(mem'.baseBlock, h)
  BY ZenonT(40), <1>2, <1>5, <1>10, <1>17 DEF Disk
<1>20. ASSUME NEW i \in 1..maxHotBlocks
       PROVE  (IF Archived(i) THEN file[At(i)] = mem.blocks[i]
               ELSE /\ i <= maxHotBlocks - reorgTailSize => ColdBlockAt(At(i)) = mem.blocks[i]
                    /\ \/ ColdBlockAt(At(i)) \in {NoBlock, mem.blocks[i]}
                       \/ ~OnNet(ColdBlockAt(At(i))))'
  <2>1. ~Archived(i)'
    BY SMTT(30), <1>13 DEF Archived
  <2>2. At(i)' = m + i - 1
    BY Zenon, <1>5 DEF At
  <2>3. ColdBlockAt(At(i))' = mem'.blocks[i]
    BY Zenon, <1>1, <1>7, <2>2 DEF ColdBlockAt
  <2> QED BY Zenon, <2>1, <2>3
<1>21. ASSUME NEW j \in 1..maxHotBlocks, NEW i \in 1..j, OnNet(mem.blocks[j])'
       PROVE  OnNet(mem.blocks[i])'
  <2>1. i \in 1..maxHotBlocks /\ m + i - 1 \in 0..(m + j - 1)
    BY SMTT(30), <1>3
  <2>2. OnNet(mem'.blocks[j])
    BY Zenon, <1>1, <1>21 DEF OnNet
  <2>3. OnNet(mem'.blocks[i])
    BY Zenon, <1>2, <1>7, <2>1, <2>2 DEF Disk
  <2> QED BY Zenon, <1>1, <2>3 DEF OnNet
<1>22. Running(t)'
  <2>1. Len(mem'.state) <= t
    BY Zenon, <1>2, <1>5 DEF Loaded
  <2> QED BY Zenon, <1>5, <1>9, <1>16, <1>17, <1>18, <1>19, <1>20, <1>21, <2>1 DEF Running
<1>23. up' # "loaded"
  BY Zenon, <1>1
<1> QED BY Zenon, <1>11, <1>12, <1>14, <1>15, <1>22, <1>23 DEF Typed, Follows

-----------------------------------------------------------------------------
(* The invariant. *)

\* Every step keeps it.
LEMMA StoreNext ==
    ASSUME Induction, IntervalSizes, Sheltered, StoreInv, [Next]_vars, [FitsBranch]_vars
    PROVE  StoreInv'
<1>1. PICK t \in Heights : Follows(t)
  BY Zenon DEF StoreInv
<1>2. Typed
  BY Zenon DEF StoreInv
<1>3. CASE NetGrows \/ \E fork \in Heights : NetForks(fork)
  BY Zenon, <1>1, <1>2, <1>3, NetSteps DEF StoreInv
<1>4. ASSUME NEW s \in Savers,
             \/ \E h \in 1..Len(net) : ApplyPeerBlock(s, h)
             \/ \E back \in 0..3 : CatchUpReorg(s, back),
             FitsBranch
      PROVE  StoreInv'
  BY Zenon, <1>1, <1>2, <1>4, HandlerSteps DEF StoreInv
<1>5. ASSUME NEW s \in Savers, SubmitTx(s) PROVE StoreInv'
  BY Zenon, <1>1, <1>2, <1>5, SubmitTxStep DEF StoreInv
<1>6. ASSUME NEW s \in Savers, SnapshotData(s) PROVE StoreInv'
  BY Zenon, <1>1, <1>2, <1>6, SnapshotDataStep DEF StoreInv
<1>7. ASSUME NEW s \in Savers, archiveOneBlock(s) PROVE StoreInv'
  BY Zenon, <1>1, <1>2, <1>7, ArchiveStep DEF StoreInv
<1>8. ASSUME NEW s \in Savers, ReadWindow(s) PROVE StoreInv'
  BY Zenon, <1>1, <1>2, <1>8, ReadWindowStep DEF StoreInv
<1>9. ASSUME NEW s \in Savers, WriteState(s) PROVE StoreInv'
  BY Zenon, <1>1, <1>2, <1>9, WriteStateStep DEF StoreInv
<1>10. ASSUME NEW s \in Savers, CopyToArchive(s) PROVE StoreInv'
  BY Zenon, <1>1, <1>2, <1>10, CopyToArchiveStep DEF StoreInv
<1>11. ASSUME NEW s \in Savers, RemoveLocal(s) PROVE StoreInv'
  BY Zenon, <1>1, <1>2, <1>11, RemoveLocalStep DEF StoreInv
<1>12. ASSUME NEW s \in Savers, EnforceStorageLimit(s) \/ SaveReturns(s) \/ Started
       PROVE  StoreInv'
  BY Zenon, <1>1, <1>2, <1>12, SaveEnds DEF StoreInv
<1>13. CASE Crash
  BY Zenon, <1>1, <1>2, <1>13, CrashStep DEF StoreInv
<1>14. CASE Load
  BY Zenon, <1>1, <1>2, <1>14, LoadStep DEF StoreInv
<1>15. CASE RestoreHotWindow
  BY Zenon, <1>1, <1>2, <1>15, RestoreStep DEF StoreInv
<1>16. CASE Started
  BY Zenon, <1>12, <1>16, ChainStoreAssumption
<1>17. CASE UNCHANGED vars
  <2>1. Typed'
    BY ZenonT(40), <1>2, <1>17 DEF vars, Typed, NetTyped, MemTyped, DiskTyped, SaveTyped, Made,
       saver, HotWindowInfo, BaseState, BaseBlock
  <2>2. \A h : ColdBlockAt(h)' = ColdBlockAt(h)
    BY Zenon, <1>17, ColdLeft DEF vars
  <2>3. SaveTyped' /\ DiskTyped' /\ StateSaved(t)'
    BY Zenon, <1>1, <1>17, <2>1, <2>2 DEF Typed, Follows, StateSaved, Recorded, vars
  <2>4. ASSUME up' \in {"restored", "up"}
        PROVE  /\ up \in {"restored", "up"}
               /\ \A i \in 1..maxHotBlocks : Archived(i)' => file'[At(i)] = mem.blocks[i]
    BY Zenon, <1>1, <1>17, <2>4 DEF vars, Follows, Running, Archived, saver
  <2> QED BY Zenon, <1>1, <1>2, <1>17, <2>2, <2>3, <2>4, ReadsSame DEF StoreInv, vars
<1> QED BY Zenon, <1>3, <1>4, <1>5, <1>6, <1>7, <1>8, <1>9, <1>10, <1>11, <1>12, <1>13,
           <1>14, <1>15, <1>16, <1>17 DEF Next

\* It holds of a node that has followed the network and saved everything.
LEMMA StoreInit == ASSUME Induction, Sheltered, Init PROVE StoreInv
<1> DEFINE a == ZeroChain
<1>1. /\ maxHotBlocks \in Nat /\ maxHotBlocks >= 1 /\ maxHotBlocks <= InitHeight
      /\ InitHeight \in Nat /\ MaxHeight \in Nat /\ InitHeight <= MaxHeight
      /\ reorgTailSize \in Nat
  BY SMTT(30), ChainStoreAssumption DEF Sheltered
<1>2. a \in Seq(Nat) /\ a \in Seq(0..0) /\ Len(a) = InitHeight
  <2>1. a \in [1..InitHeight -> Nat] /\ a \in [1..InitHeight -> 0..0]
    BY SMTT(30) DEF ZeroChain
  <2> HIDE DEF a
  <2>2. a \in Seq(Nat) /\ Len(a) = InitHeight
    BY Zenon, <1>1, <2>1, FunctionSeq
  <2>3. a \in Seq(0..0)
    BY Zenon, <1>1, <2>1, FunctionSeq
  <2> QED BY Zenon, <2>2, <2>3
<1> DEFINE bs == [i \in 1..(InitHeight + 1) |-> Ancestor(a, i - 1)]
           c == [NewChain EXCEPT !.blocks = bs, !.state = a]
<1>3. /\ net = a /\ forks = 0 /\ up = "up" /\ mem = trimHotWindow(c)
      /\ boot = HotWindowInfo(NewChain) /\ sv = [s \in Savers |-> Idle]
      /\ file = [h \in Heights |-> IF InitHeight > 0 /\ h <= InitHeight
                                   THEN Ancestor(a, h) ELSE NoBlock]
      /\ cloud = [h \in Heights |-> NoBlock]
      /\ state = [state |-> mem.state, hw |-> HotWindowInfo(mem)]
  <2>1. InitHeight # 0
    BY SMTT(30), <1>1
  <2> QED BY Zenon, <2>1 DEF Init
<1> HIDE DEF a
<1>4. ASSUME NEW h \in 0..InitHeight
      PROVE  /\ Ancestor(a, h) \in Seq(Nat) /\ Len(Ancestor(a, h)) = h
             /\ Ancestor(a, h) \in Seq(0..forks) /\ h \in Heights
             /\ Made(Ancestor(a, h)) /\ OnNet(Ancestor(a, h))
             /\ Ancestor(a, h) # NoBlock /\ h <= InitHeight
  <2>1. h \in 0..Len(a) /\ h \in Heights /\ h <= InitHeight
    BY SMTT(30), <1>1, <1>2 DEF Heights
  <2>2. Ancestor(a, h) \in Seq(Nat) /\ Len(Ancestor(a, h)) = h
    BY Zenon, <1>2, <2>1, AncestorTyped
  <2>3. Ancestor(a, h) \in Seq(0..forks)
    BY Zenon, <1>2, <1>3, <2>1, AncestorTyped
  <2> QED BY Zenon, <1>2, <1>3, <2>1, <2>2, <2>3 DEF Made, OnNet, Sheltered
<1>5. PICK m \in Nat : m = InitHeight + 1 - maxHotBlocks
  BY SMTT(30), <1>1
<1>6. /\ mem \in Chain /\ Len(mem.blocks) = maxHotBlocks /\ mem.start = m /\ mem.state = a
      /\ mem.baseState = Ancestor(a, m - 1) /\ mem.baseBlock = Ancestor(a, m - 1)
      /\ \A i \in 1..maxHotBlocks : mem.blocks[i] = Ancestor(a, m + i - 1)
  <2>1. PICK k \in Nat : k = InitHeight + 1
    BY SMTT(30), <1>1
  <2>2. bs \in Seq(Seq(Nat)) /\ Len(bs) = k
    <3>1. \A i \in 1..k : i - 1 \in 0..InitHeight
      BY SMTT(30), <1>1, <2>1
    <3>2. bs \in [1..k -> Seq(Nat)]
      BY Zenon, <1>4, <2>1, <3>1
    <3> HIDE DEF bs
    <3> QED BY Zenon, <3>2, FunctionSeq
  <2>3. \A i \in 1..k : bs[i] = Ancestor(a, 0 + i - 1)
    <3>1. \A i \in 1..k : bs[i] = Ancestor(a, i - 1)
      BY Zenon, <2>1
    <3>2. \A i \in 1..k : 0 + i - 1 = i - 1
      BY SMTT(30)
    <3> QED BY Zenon, <3>1, <3>2
  <2> HIDE DEF bs
  <2>4. c \in Chain /\ c.blocks = bs /\ c.state = a /\ c.start = 0
    <3>1. <<Genesis>> \in Seq(Seq(Nat)) /\ Genesis \in Seq(Nat)
      BY SMTT(30) DEF Genesis
    <3> QED BY Zenon, <1>2, <2>2, <3>1 DEF NewChain, Chain
  <2> HIDE DEF c
  <2>5. /\ Len(c.blocks) = maxHotBlocks + m /\ c.start + m - 1 <= Len(a)
        /\ c.start # 0 \/ m # 0
        /\ maxHotBlocks \in Nat \ {0}
    <3>1. /\ k = maxHotBlocks + m /\ 0 + m - 1 <= InitHeight /\ m # 0
          /\ maxHotBlocks \in Nat \ {0}
      BY SMTT(30), <1>1, <1>5, <2>1
    <3> QED BY Zenon, <1>2, <2>2, <2>4, <3>1
  <2>6. \A i \in 1..m : c.blocks[i] = Ancestor(a, c.start + i - 1)
    <3>1. \A i \in 1..m : i \in 1..k
      BY SMTT(30), <1>1, <1>5, <2>1
    <3> QED BY Zenon, <2>3, <2>4, <3>1
  <2>7. c.start # 0 => /\ c.baseState = Ancestor(a, c.start - 1)
                       /\ c.baseBlock = Ancestor(a, c.start - 1)
    BY Zenon, <2>4
  <2>8. PICK d : d = trimHotWindow(c)
    BY Zenon
  <2>9. /\ d \in Chain /\ Len(d.blocks) = maxHotBlocks
        /\ \A i \in 1..maxHotBlocks : d.blocks[i] = c.blocks[m + i]
        /\ d.start = c.start + m /\ d.state = c.state
        /\ d.baseState = Ancestor(a, d.start - 1)
        /\ d.baseBlock = Ancestor(a, d.start - 1)
    <3>1. /\ trimHotWindow(c) \in Chain /\ Len(trimHotWindow(c).blocks) = maxHotBlocks
          /\ \A i \in 1..maxHotBlocks : trimHotWindow(c).blocks[i] = c.blocks[m + i]
          /\ trimHotWindow(c).start = c.start + m /\ trimHotWindow(c).state = c.state
          /\ trimHotWindow(c).baseState = Ancestor(a, trimHotWindow(c).start - 1)
          /\ trimHotWindow(c).baseBlock = Ancestor(a, trimHotWindow(c).start - 1)
      BY ZenonT(40), <1>2, <2>4, <2>5, <2>6, <2>7, TrimTo
    <3> QED BY Zenon, <2>8, <3>1
  <2>10. d.start = m
    BY SMTT(30), <2>4, <2>9
  <2>11. ASSUME NEW i \in 1..maxHotBlocks PROVE d.blocks[i] = Ancestor(a, m + i - 1)
    <3>1. m + i \in 1..k /\ 0 + (m + i) - 1 = m + i - 1
      BY SMTT(30), <1>1, <1>5, <2>1
    <3> QED BY Zenon, <2>3, <2>4, <2>9, <3>1
  <2> QED BY Zenon, <1>3, <2>4, <2>8, <2>9, <2>10, <2>11
<1>7. ASSUME NEW h \in Heights
      PROVE  ColdBlockAt(h) = IF h <= InitHeight THEN Ancestor(a, h) ELSE NoBlock
  <2>1. InitHeight > 0
    BY SMTT(30), <1>1
  <2>2. CASE h <= InitHeight
    <3>1. h \in 0..InitHeight
      BY SMTT(30), <1>1, <2>2 DEF Heights
    <3>2. file[h] = Ancestor(a, h) /\ Ancestor(a, h) # NoBlock
      BY Zenon, <1>3, <1>4, <2>1, <2>2, <3>1
    <3> QED BY Zenon, <2>2, <3>2 DEF ColdBlockAt
  <2>3. CASE ~(h <= InitHeight)
    BY Zenon, <1>3, <2>3 DEF ColdBlockAt
  <2> QED BY Zenon, <2>2, <2>3
<1>8. ASSUME NEW h \in 0..InitHeight PROVE ColdBlockAt(h) = Ancestor(a, h)
  BY Zenon, <1>4, <1>7
<1>9. ASSUME NEW i \in 1..maxHotBlocks
      PROVE  m + i - 1 \in 0..InitHeight /\ At(i) = m + i - 1
  <2>1. m + i - 1 \in 0..InitHeight
    BY SMTT(30), <1>1, <1>5
  <2> QED BY Zenon, <1>6, <2>1 DEF At
<1>10. /\ m >= 1 /\ m - 1 \in 0..InitHeight /\ m \in 0..InitHeight /\ m + 1 - 1 = m
       /\ 1 \in 1..maxHotBlocks /\ maxHotBlocks \in 1..maxHotBlocks
       /\ m + maxHotBlocks - 1 = InitHeight /\ InitHeight \in 0..InitHeight
       /\ InitHeight \in Heights /\ 0 \in 0..InitHeight
       /\ m = InitHeight - maxHotBlocks + 1 /\ m \in 1..(InitHeight - maxHotBlocks + 1)
  BY SMTT(30), <1>1, <1>5 DEF Heights
<1>11. NetTyped
  BY Zenon, <1>1, <1>2, <1>3 DEF NetTyped
<1>12. Genesis \in Seq(Nat) /\ HotWindowInfo(NewChain) \in Window
       /\ Idle \in Save /\ Idle.pc = "idle"
  <2>1. <<>> \in Seq(Nat) /\ <<Genesis>> \in Seq(Seq(Nat)) /\ <<>> \in Seq(Seq(Nat))
        /\ Genesis \in Seq(Nat) /\ <<Genesis>>[1] = Genesis
    BY SMTT(30) DEF Genesis
  <2>2. HotWindowInfo(NewChain) \in Window
    BY Zenon, <2>1 DEF NewChain, HotWindowInfo, BaseState, BaseBlock, Window
  <2> QED BY Zenon, <2>1, <2>2 DEF Idle, Save
<1>13. MemTyped
  <2>1. mem.blocks # <<>>
    BY SMTT(30), <1>1, <1>6
  <2>2. ASSUME NEW i \in 1..Len(mem.blocks)
        PROVE  Made(mem.blocks[i]) /\ Len(mem.blocks[i]) = Len(mem.blocks[1]) + i - 1
    <3>1. Made(mem.blocks[i]) /\ Len(mem.blocks[i]) = m + i - 1
      BY Zenon, <1>4, <1>6, <1>9
    <3>2. Len(mem.blocks[1]) = m
      BY ZenonT(40), <1>4, <1>6, <1>10
    <3> QED BY Zenon, <3>1, <3>2
  <2> QED BY Zenon, <1>3, <1>6, <1>12, <2>1, <2>2 DEF MemTyped
<1>14. HotWindowInfo(mem) = [start |-> m, baseState |-> Ancestor(a, m - 1),
                             baseBlock |-> Ancestor(a, m - 1)]
  <2>1. m # 0
    BY SMTT(30), <1>10
  <2> QED BY Zenon, <1>6, <2>1 DEF HotWindowInfo, BaseState, BaseBlock
<1>15. DiskTyped
  <2>1. ASSUME NEW h \in Heights
        PROVE  /\ file[h] \in Seq(Nat) \cup {NoBlock} /\ cloud[h] = NoBlock
               /\ file[h] # NoBlock => Made(file[h]) /\ Len(file[h]) = h
    <3>1. CASE h <= InitHeight
      <4>1. h \in 0..InitHeight /\ InitHeight > 0
        BY SMTT(30), <1>1, <3>1 DEF Heights
      <4>2. file[h] = Ancestor(a, h)
        BY Zenon, <1>3, <3>1, <4>1
      <4> QED BY Zenon, <1>3, <1>4, <4>1, <4>2
    <3>2. CASE ~(h <= InitHeight)
      BY Zenon, <1>3, <3>2
    <3> QED BY Zenon, <3>1, <3>2
  <2>2. /\ file \in [Heights -> Seq(Nat) \cup {NoBlock}]
        /\ cloud \in [Heights -> Seq(Nat) \cup {NoBlock}]
    BY Zenon, <1>3, <2>1
  <2>3. HotWindowInfo(mem) \in Window
    BY Zenon, <1>13, WindowTyped
  <2>4. state \in [state : Seq(Nat), hw : Window]
    BY Zenon, <1>2, <1>3, <1>6, <2>3
  <2> QED BY Zenon, <2>1, <2>2, <2>4 DEF DiskTyped
<1>16. SaveTyped
  <2>1. saver = Idle /\ sv \in [Savers -> Save]
    BY Zenon, <1>3, <1>12, ChainStoreAssumption DEF saver
  <2> QED BY Zenon, <1>3, <1>12, <2>1 DEF SaveTyped
<1>17. Disk(InitHeight)
  <2>1. \A h \in Heights : ColdBlockAt(h) # NoBlock <=> h <= InitHeight
    <3>1. \A h \in Heights : h <= InitHeight => h \in 0..InitHeight
      BY SMTT(30), <1>1 DEF Heights
    <3> QED BY Zenon, <1>4, <1>7, <3>1
  <2>2. ASSUME NEW h \in 0..InitHeight, NEW g \in 0..h
        PROVE  /\ ColdBlockAt(g) = Ancestor(ColdBlockAt(h), g)
               /\ OnNet(ColdBlockAt(g))
    <3>1. g \in 0..InitHeight /\ h \in 0..Len(a)
      BY SMTT(30), <1>1, <1>2
    <3> QED BY ZenonT(40), <1>2, <1>4, <1>8, <3>1, AncestorTwice
  <2>3. \A h \in 0..(InitHeight - maxHotBlocks + 1) : h \in 0..InitHeight
    BY SMTT(30), <1>1
  <2> QED BY Zenon, <1>1, <1>10, <2>1, <2>2, <2>3 DEF Disk
<1>18. StateSaved(InitHeight)
  <2>1. state.hw = HotWindowInfo(mem) /\ state.state = a
    BY Zenon, <1>3, <1>6
  <2>2. /\ state.hw.start = m /\ state.hw.baseState = Ancestor(a, m - 1)
        /\ state.hw.baseBlock = Ancestor(a, m - 1)
    BY SMTT(30), <1>14, <2>1
  <2>3. ColdBlockAt(m - 1) = Ancestor(a, m - 1)
    BY Zenon, <1>8, <1>10
  <2>4. Recorded(state.hw, InitHeight)
    BY Zenon, <1>10, <2>2, <2>3 DEF Recorded
  <2>5. Len(state.state) <= InitHeight
    BY SMTT(30), <1>1, <1>2, <2>1
  <2> QED BY Zenon, <2>4, <2>5 DEF StateSaved
<1>19. Running(InitHeight)
  <2>1. Len(mem.blocks[1]) = m /\ Tip(mem) = mem.blocks[maxHotBlocks]
    BY ZenonT(40), <1>4, <1>6, <1>10 DEF Tip
  <2>2. Height(mem) = InitHeight
    BY ZenonT(40), <1>4, <1>6, <1>10, <2>1 DEF Height
  <2>3. /\ mem.start >= 1 /\ InitHeight <= Height(mem) /\ Len(mem.state) <= Height(mem)
        /\ mem.start - 1 <= InitHeight
    BY SMTT(30), <1>1, <1>2, <1>6, <1>10, <2>2
  <2>4. Len(mem.baseBlock) = mem.start - 1
    BY Zenon, <1>4, <1>6, <1>10
  <2>5. Parent(mem.blocks[1]) = mem.baseBlock
    <3>1. m \in 1..Len(a)
      BY SMTT(30), <1>2, <1>10
    <3>2. mem.blocks[1] = Ancestor(a, m)
      BY Zenon, <1>6, <1>10
    <3>3. Parent(Ancestor(a, m)) = Ancestor(a, m - 1)
      BY Zenon, <1>2, <3>1, AncestorParent
    <3> QED BY Zenon, <1>6, <3>2, <3>3
  <2>6. ASSUME NEW h \in 0..(mem.start - 1)
        PROVE  ColdBlockAt(h) = Ancestor(mem.baseBlock, h)
    <3>1. h \in 0..(m - 1)
      BY Zenon, <1>6
    <3>2. h \in 0..InitHeight /\ m - 1 \in 0..Len(a)
      BY SMTT(30), <1>1, <1>2, <1>10, <3>1
    <3> QED BY ZenonT(40), <1>2, <1>6, <1>8, <3>1, <3>2, AncestorTwice
  <2>7. ASSUME NEW i \in 1..maxHotBlocks
        PROVE  OnNet(mem.blocks[i]) /\ file[At(i)] = mem.blocks[i] /\ Archived(i)
    <3>1. /\ mem.blocks[i] = Ancestor(a, m + i - 1) /\ At(i) = m + i - 1
          /\ m + i - 1 \in 0..InitHeight
      BY Zenon, <1>6, <1>9
    <3>2. InitHeight > 0
      BY SMTT(30), <1>1
    <3>3. file[At(i)] = mem.blocks[i]
      BY Zenon, <1>3, <1>4, <3>1, <3>2
    <3>4. saver = Idle
      BY Zenon, <1>3, ChainStoreAssumption DEF saver
    <3>5. Archived(i)
      BY Zenon, <1>12, <3>4 DEF Archived
    <3> QED BY Zenon, <1>4, <3>1, <3>3, <3>5
  <2>8. \A j \in 1..maxHotBlocks : \A i \in 1..j : i \in 1..maxHotBlocks
    BY SMTT(30), <1>1
  <2> QED BY Zenon, <1>6, <2>1, <2>3, <2>4, <2>5, <2>6, <2>7, <2>8 DEF Running
<1>20. up # "loaded"
  BY Zenon, <1>3
<1> QED BY Zenon, <1>10, <1>11, <1>13, <1>15, <1>16, <1>17, <1>18, <1>19, <1>20
        DEF StoreInv, Typed, Follows
=============================================================================
