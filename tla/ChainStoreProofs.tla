-------------------------- MODULE ChainStoreProofs --------------------------
(***************************************************************************)
(* What the block files and state.json of a node always say, for every     *)
(* size of the hot window, every growth and switch of the network's chain  *)
(* and a crash at any step of Save or of the restart: a restarted node has *)
(* its whole history and an exact checkpoint.                              *)
(***************************************************************************)
EXTENDS ChainStoreSteps, SumsProofs, FiniteSetTheorems

-----------------------------------------------------------------------------
(* The hypotheses of ChainStoreSteps. *)

\* Induction over the naturals, in its set form.
LEMMA NaturalInduction == Induction
  BY Zenon, SetInduction DEF Induction

\* How many heights there are from a to b.
LEMMA IntervalSize == IntervalSizes
  BY Zenon, FS_Interval DEF IntervalSizes

-----------------------------------------------------------------------------
(* The theorems. *)

\* Whatever the network does and wherever the node crashes, the files hold the
\* whole history up to some height t, state.json records a window of it, and
\* what is in memory agrees with both.
THEOREM StoreInvariant ==
    ASSUME Sheltered PROVE Spec /\ [][FitsBranch]_vars => []StoreInv
<1>1. Init => StoreInv
  BY SMTT(30), StoreInit, NaturalInduction
<1>2. StoreInv /\ [Next]_vars /\ [FitsBranch]_vars => StoreInv'
  BY SMTT(30), StoreNext, NaturalInduction, IntervalSize
<1> QED BY <1>1, <1>2, PTL DEF Spec

\* state.json is never ahead of the block files: a node that died anywhere in
\* Save can read every height from the recorded window to the recorded state.
THEOREM FilesCoverState ==
    ASSUME Sheltered PROVE Spec /\ [][FitsBranch]_vars => []StateFileCovered
<1>1. ASSUME StoreInv PROVE StateFileCovered
  <2>1. PICK t \in Heights : Follows(t)
    BY Zenon, <1>1 DEF StoreInv
  <2>2. /\ t \in Nat /\ t <= MaxHeight /\ MaxHeight \in Nat
        /\ maxHotBlocks \in Nat
    BY SMTT(30), <2>1, ChainStoreAssumption DEF Heights
  <2>3. Len(state.state) \in Nat /\ state.hw.start \in Nat
    BY SMTT(30), <1>1 DEF StoreInv, Typed, DiskTyped, Window
  <2>4. Len(state.state) <= t
    BY Zenon, <2>1 DEF Follows, StateSaved
  <2>5. ASSUME NEW h \in state.hw.start..Len(state.state) PROVE ColdBlockAt(h) # NoBlock
    <3>1. h \in Heights /\ h <= t
      BY SMTT(30), <2>2, <2>3, <2>4 DEF Heights
    <3> QED BY Zenon, <2>1, <3>1 DEF Follows, Disk
  <2> QED BY Zenon, <2>5 DEF StateFileCovered
<1>2. StoreInv => StateFileCovered
  BY SMTT(30), <1>1
<1> QED BY <1>2, StoreInvariant, PTL

\* A running node answers for every height up to its tip, below the window with
\* the ancestors of its checkpoint, while files move to the archive directory.
THEOREM WholeHistoryServed ==
    ASSUME Sheltered PROVE Spec /\ [][FitsBranch]_vars => []HistoryServed
<1>1. ASSUME StoreInv PROVE HistoryServed
  <2>1. SUFFICES ASSUME up = "up", NEW h \in 0..Height(mem)
                 PROVE  /\ BlockAt(h) # NoBlock /\ Len(BlockAt(h)) = h
                        /\ h < mem.start => BlockAt(h) = Ancestor(mem.baseBlock, h)
    BY Zenon DEF HistoryServed
  <2>2. PICK t \in Heights : Follows(t)
    BY Zenon, <1>1 DEF StoreInv
  <2>3. Typed /\ Running(t) /\ Disk(t)
    BY SMTT(30), <1>1, <2>1, <2>2 DEF StoreInv, Follows
  <2>4. /\ maxHotBlocks \in Nat /\ mem.start \in Nat /\ mem.start >= 1
        /\ Len(mem.blocks) = maxHotBlocks
        /\ Height(mem) = mem.start + maxHotBlocks - 1
        /\ mem.start - 1 <= t /\ t \in Nat
    <3>1. /\ maxHotBlocks \in Nat \ {0} /\ mem.start \in Nat \ {0}
          /\ Len(mem.blocks) = maxHotBlocks
          /\ Height(mem) = mem.start + maxHotBlocks - 1
          /\ mem.start - 1 <= t /\ t \in Nat
      BY Zenon, <2>3, WindowBounds
    <3>2. \A n \in Nat \ {0} : n \in Nat /\ n >= 1
      BY SMTT(30)
    <3> QED BY Zenon, <3>1, <3>2
  <2>5. PICK m \in Nat, n \in Nat : m = mem.start /\ n = maxHotBlocks
    BY Zenon, <2>4
  <2>6. h \in 0..(m + n - 1) /\ h \in Nat /\ ~(h > Height(mem))
    BY SMTT(30), <2>4, <2>5
  <2>7. CASE h < m
    <3>1. h \in 0..(mem.start - 1) /\ h <= t /\ h \in Heights /\ ~(h >= mem.start)
      <4>1. m - 1 <= t /\ t \in Nat /\ t <= MaxHeight /\ MaxHeight \in Nat
        BY SMTT(30), <2>2, <2>4, <2>5, ChainStoreAssumption DEF Heights
      <4>2. h \in 0..(m - 1) /\ h <= t /\ h \in 0..MaxHeight /\ ~(h >= m)
        BY SMTT(30), <2>6, <2>7, <4>1
      <4> QED BY Zenon, <2>5, <4>2 DEF Heights
    <3>2. BlockAt(h) = ColdBlockAt(h)
      BY Zenon, <2>6, <3>1 DEF BlockAt
    <3>3. ColdBlockAt(h) = Ancestor(mem.baseBlock, h) /\ ColdBlockAt(h) # NoBlock
      BY Zenon, <2>3, <3>1 DEF Running, Disk
    <3>4. mem.baseBlock \in Seq(Nat) /\ h \in 0..Len(mem.baseBlock)
      BY Zenon, <2>3, <3>1 DEF Running, Typed, MemTyped, Chain
    <3>5. Len(Ancestor(mem.baseBlock, h)) = h
      BY Zenon, <3>4, AncestorTyped
    <3> QED BY Zenon, <3>2, <3>3, <3>5
  <2>8. CASE ~(h < m)
    <3>1. PICK i \in Nat : i = h - m + 1
      BY SMTT(30), <2>5, <2>6, <2>8
    <3>2. /\ i \in 1..n /\ h >= m /\ h - m < n /\ m + i - 1 = h
      BY SMTT(30), <2>5, <2>6, <2>8, <3>1
    <3>3. BlockAt(h) = mem.blocks[i]
      BY Zenon, <2>4, <2>5, <2>6, <3>1, <3>2 DEF BlockAt
    <3>4. i \in 1..maxHotBlocks /\ At(i) = h
      BY Zenon, <2>5, <3>2 DEF At
    <3> QED BY Zenon, <2>3, <2>5, <2>8, <3>3, <3>4, WindowBlocks
  <2> QED BY Zenon, <2>7, <2>8
<1>2. StoreInv => HistoryServed
  BY <1>1
<1> QED BY <1>2, StoreInvariant, PTL

\* The checkpoint that TryReorg replays from is the state after the block
\* before the window, through trimming, switches and restarts.
THEOREM CheckpointIsExact ==
    ASSUME Sheltered PROVE Spec /\ [][FitsBranch]_vars => []CheckpointExact
<1>1. StoreInv => CheckpointExact
  BY SMTT(30) DEF StoreInv, Follows, Running, CheckpointExact
<1> QED BY <1>1, StoreInvariant, PTL

\* When Save has returned, the file of every block in memory holds that block,
\* also where a switch has replaced the block that was there.
THEOREM FilesFollowReorg ==
    ASSUME Sheltered PROVE Spec /\ [][FitsBranch]_vars => []ArchiveFollowsReorg
<1>1. ASSUME StoreInv, up = "up", \A s \in Savers : sv[s].pc = "idle",
             NEW i \in 1..Len(mem.blocks)
      PROVE  file[Len(mem.blocks[i])] = mem.blocks[i]
  <2>1. PICK t \in Heights : Follows(t)
    BY Zenon, <1>1 DEF StoreInv
  <2>2. Typed /\ Running(t)
    BY SMTT(30), <1>1, <2>1 DEF StoreInv, Follows
  <2>3. i \in 1..maxHotBlocks
    BY Zenon, <2>2 DEF Running
  <2>4. saver.pc = "idle"
    BY Zenon, <1>1, ChainStoreAssumption DEF saver
  <2>5. Archived(i)
    BY SMTT(30), <2>4 DEF Archived
  <2>6. file[At(i)] = mem.blocks[i]
    BY Zenon, <2>2, <2>3, <2>5 DEF Running
  <2> QED BY Zenon, <2>2, <2>3, <2>6, WindowBlocks
<1>2. StoreInv => ArchiveFollowsReorg
  BY Zenon, <1>1 DEF ArchiveFollowsReorg
<1> QED BY <1>2, StoreInvariant, PTL
=============================================================================
