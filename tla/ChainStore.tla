----------------------------- MODULE ChainStore -----------------------------
(***************************************************************************)
(* One node's finalized history: the hot window of blocks chain.Chain      *)
(* keeps in memory, what storage.Store writes of it (a file per block,     *)
(* state.json, and the archive directory old block files move to), and     *)
(* what a restarted node makes of the files.  The node follows a network   *)
(* whose chain grows and now and then switches to a heavier branch.        *)
(*                                                                         *)
(* A block is its own ancestry: the sequence of the branch numbers of      *)
(* every block up to it, so that its height is its length, its parent is   *)
(* its prefix, and equal blocks have equal hashes.  A state is the         *)
(* sequence of the blocks that were applied to genesis; a block's state    *)
(* root is right exactly when applying it yields the block itself.         *)
(***************************************************************************)
EXTENDS Integers, Sequences, FiniteSets

CONSTANTS
    Savers,         \* goroutines that may be inside Store.Save
    Main,           \* the one that also runs main()
    maxHotBlocks,   \* SYNTHOS_MAX_HOT_BLOCKS; 0: never trim
    reorgTailSize,
    catchUpBatchSize,   \* blocks CatchUpOnce asks a peer for at a time
    MaxLocalBlocks, \* MaxLocalBytes, in block files
    InitHeight,     \* height of the chain the node starts with
    MaxHeight,      \* bound: height of the network's chain
    MaxForks,       \* bound: branches the network abandons
    MaxForkDepth,   \* bound: blocks such a switch replaces
    MaxCrashes,     \* bound: crashes of the node
    NoBlock, NoFile

ASSUME ChainStoreAssumption ==
    /\ Main \in Savers
    /\ {maxHotBlocks, reorgTailSize, catchUpBatchSize, MaxLocalBlocks, InitHeight,
        MaxHeight, MaxForks, MaxForkDepth, MaxCrashes} \subseteq Nat
    /\ InitHeight <= MaxHeight /\ MaxForkDepth >= 1

VARIABLES
    net,      \* the tip of the network's chain
    forks,    \* how often it has switched
    up,       \* where main() is: "down", "loaded", "restored", "up"
    mem,      \* chain.Chain
    boot,     \* the hot window recorded in the snapshot main() loaded
    sv,       \* every saver's position in Save
    file,     \* blocks/<height>.json
    cloud,    \* ArchiveDir/<height>.json
    state,    \* state.json
    crashes

vars == <<net, forks, up, mem, boot, sv, file, cloud, state, crashes>>
disk == <<file, cloud, state>>

Heights == 0..MaxHeight
Block == UNION {[1..h -> 0..MaxForks] : h \in Heights}
Genesis == <<>>
Ancestor(b, h) == SubSeq(b, 1, h)
Parent(b) == Ancestor(b, Len(b) - 1)

-----------------------------------------------------------------------------
(* The hot window. *)

Tip(c) == c.blocks[Len(c.blocks)]
Height(c) == Len(Tip(c))

BaseState(c) == IF c.start = 0 THEN Genesis ELSE c.baseState
BaseBlock(c) == IF c.start = 0 THEN c.blocks[1] ELSE c.baseBlock

HotWindowInfo(c) ==
    [start |-> c.start, baseState |-> BaseState(c), baseBlock |-> BaseBlock(c)]

\* The genesis block carries no transactions.
Applied(s, b) == IF b = Genesis THEN s ELSE Append(s, b[Len(b)])

AppliedAll(s, bs) ==
    LET after[i \in 0..Len(bs)] == IF i = 0 THEN s ELSE Applied(after[i-1], bs[i])
    IN  after[Len(bs)]

\* Mutant: the checkpoint stops one block short of the evicted ones.
trimHotWindow_StaleBase(c) ==
    LET excess == Len(c.blocks) - maxHotBlocks
    IN  IF maxHotBlocks = 0 \/ excess <= 0 THEN c
        ELSE [c EXCEPT !.blocks = SubSeq(@, excess + 1, Len(@)),
                       !.start = @ + excess,
                       !.baseState = AppliedAll(BaseState(c), SubSeq(c.blocks, 1, excess - 1)),
                       !.baseBlock = c.blocks[excess]]

trimHotWindow(c) ==
    LET excess == Len(c.blocks) - maxHotBlocks
    IN  IF maxHotBlocks = 0 \/ excess <= 0 THEN c
        ELSE [c EXCEPT !.blocks = SubSeq(@, excess + 1, Len(@)),
                       !.start = @ + excess,
                       !.baseState = AppliedAll(BaseState(c), SubSeq(c.blocks, 1, excess)),
                       !.baseBlock = c.blocks[excess]]

\* validateBlock: parent, height and state root.
Valid(s, tip, b) == Len(b) = Len(tip) + 1 /\ Parent(b) = tip /\ Applied(s, b) = b

FinalizeBlock(c, b) ==
    trimHotWindow([c EXCEPT !.blocks = Append(@, b), !.state = Applied(@, b)])

\* The scratch chain of TryReorg accepts every block of bs.
Replays(c, bs) ==
    \A i \in 1..Len(bs) :
        Valid(AppliedAll(BaseState(c), SubSeq(bs, 1, i - 1)),
              IF i = 1 THEN BaseBlock(c) ELSE bs[i-1], bs[i])

\* At index 0 of an untrimmed window sits genesis, the anchor of the replay.
AgreedPrefix(c, fork) == SubSeq(c.blocks, IF c.start = 0 THEN 2 ELSE 1, fork - c.start)

\* A branch the network switched to has more approvals than as many blocks of
\* the one it left.
CanReorg(c, fork, cand) ==
    /\ fork > 0 /\ fork <= Height(c) /\ fork >= c.start
    /\ Len(cand) >= Len(c.blocks) - (fork - c.start)
    /\ Replays(c, AgreedPrefix(c, fork) \o cand)

TryReorg(c, fork, cand) ==
    trimHotWindow([c EXCEPT !.blocks = AgreedPrefix(c, fork) \o cand,
                            !.state = cand[Len(cand)]])

ColdBlockAt(h) ==
    IF h \notin Heights THEN NoBlock ELSE IF file[h] # NoBlock THEN file[h] ELSE cloud[h]

BlockAt(h) ==
    IF h > Height(mem) THEN NoBlock
    ELSE IF h >= mem.start /\ h - mem.start < Len(mem.blocks)
    THEN mem.blocks[h - mem.start + 1]
    ELSE ColdBlockAt(h)

NewChain ==
    [blocks |-> <<Genesis>>, start |-> 0, state |-> Genesis,
     baseState |-> Genesis, baseBlock |-> Genesis]

-----------------------------------------------------------------------------
Idle == [pc |-> "idle", blocks |-> <<>>, state |-> Genesis, next |-> 1,
         hw |-> HotWindowInfo(NewChain)]
StartSave == [Idle EXCEPT !.pc = "snapshot"]

ZeroChain == [i \in 1..InitHeight |-> 0]

\* The node has followed the network to InitHeight and saved everything, or
\* starts on an empty directory.
Init ==
    /\ net = ZeroChain /\ forks = 0 /\ crashes = 0
    /\ up = IF InitHeight = 0 THEN "down" ELSE "up"
    /\ mem = trimHotWindow([NewChain EXCEPT
                !.blocks = [i \in 1..(InitHeight + 1) |-> Ancestor(ZeroChain, i - 1)],
                !.state = ZeroChain])
    /\ boot = HotWindowInfo(NewChain)
    /\ sv = [s \in Savers |-> Idle]
    /\ file = [h \in Heights |-> IF InitHeight > 0 /\ h <= InitHeight
                                 THEN Ancestor(ZeroChain, h) ELSE NoBlock]
    /\ cloud = [h \in Heights |-> NoBlock]
    /\ state = IF InitHeight = 0 THEN NoFile
               ELSE [state |-> mem.state, hw |-> HotWindowInfo(mem)]

-----------------------------------------------------------------------------
(* The network. *)

NetGrows ==
    /\ Len(net) < MaxHeight
    /\ net' = Append(net, forks)
    /\ UNCHANGED <<forks, up, mem, boot, sv, disk, crashes>>

\* A heavier branch, at least as long as what it replaces.
NetForks(fork) ==
    /\ forks < MaxForks
    /\ fork \in 1..Len(net) /\ fork > Len(net) - MaxForkDepth
    /\ forks' = forks + 1
    /\ net' = Ancestor(net, fork - 1) \o [i \in 1..(Len(net) - fork + 1) |-> forks + 1]
    /\ UNCHANGED <<up, mem, boot, sv, disk, crashes>>

-----------------------------------------------------------------------------
(* The handlers that change the chain; each saves it before it returns. *)

Ready(s) == up = "up" /\ sv[s].pc = "idle"

Handler(s, c) ==
    /\ mem' = c
    /\ sv' = [sv EXCEPT ![s] = StartSave]
    /\ UNCHANGED <<net, forks, up, boot, disk, crashes>>

ApplyPeerBlock(s, h) ==
    LET b == Ancestor(net, h)
    IN  /\ Ready(s)
        /\ \/ /\ h > Height(mem) /\ Valid(mem.state, Tip(mem), b)
              /\ Handler(s, FinalizeBlock(mem, b))
           \/ /\ h <= Height(mem) /\ BlockAt(h) # b /\ CanReorg(mem, h, <<b>>)
              /\ Handler(s, TryReorg(mem, h, <<b>>))

\* The answer of a peer to a request for blocks, from a height on.
Fetched(from) ==
    LET rest == Len(net) - from + 1
    IN  IF rest > catchUpBatchSize THEN catchUpBatchSize ELSE rest

NetBlocks(from) == [i \in 1..Fetched(from) |-> Ancestor(net, from + i - 1)]

ForkTried(fork) ==
    /\ fork >= 1 /\ fork >= mem.start
    /\ BlockAt(fork) # Ancestor(net, fork)
    /\ CanReorg(mem, fork, NetBlocks(fork))

\* The peer's next block does not fit: look for the fork, nearest first.
CatchUpReorg(s, back) ==
    LET fork == Height(mem) - back
    IN  /\ Ready(s)
        /\ Height(mem) < Len(net)
        /\ ~Valid(mem.state, Tip(mem), Ancestor(net, Height(mem) + 1))
        /\ ForkTried(fork)
        /\ \A less \in 0..(back - 1) : ~ForkTried(Height(mem) - less)
        /\ Handler(s, TryReorg(mem, fork, NetBlocks(fork)))

\* Accepting a transaction changes only the mempool, but saves as well.
SubmitTx(s) == Ready(s) /\ Handler(s, mem)

-----------------------------------------------------------------------------
(* Save, step by step. *)

Step(s, pc, next) ==
    /\ up # "down" /\ sv[s].pc = pc
    /\ sv' = [sv EXCEPT ![s] = next]
    /\ UNCHANGED <<net, forks, up, mem, boot, crashes>>

SnapshotData(s) ==
    /\ Step(s, "snapshot", [sv[s] EXCEPT !.pc = "archive", !.blocks = mem.blocks,
                                         !.state = mem.state])
    /\ UNCHANGED disk

\* Mutant: a file that exists is never rewritten.
archiveOneBlock_NeverForced(s) ==
    LET i == sv[s].next
        b == sv[s].blocks[i]
    IN  /\ i <= Len(sv[s].blocks)
        /\ Step(s, "archive", [sv[s] EXCEPT !.next = @ + 1])
        /\ file' = IF file[Len(b)] # NoBlock THEN file
                   ELSE [file EXCEPT ![Len(b)] = b]
        /\ UNCHANGED <<cloud, state>>

\* Mutant: the loop ends before the tip.
archiveOneBlock_MissesTip(s) ==
    LET i == sv[s].next
        b == sv[s].blocks[i]
    IN  /\ i <= Len(sv[s].blocks)
        /\ Step(s, "archive", [sv[s] EXCEPT !.next = @ + 1])
        /\ file' = IF i = Len(sv[s].blocks) THEN file ELSE [file EXCEPT ![Len(b)] = b]
        /\ UNCHANGED <<cloud, state>>

\* The last reorgTailSize blocks are written whether or not a file exists.
archiveOneBlock(s) ==
    LET i == sv[s].next
        b == sv[s].blocks[i]
    IN  /\ i <= Len(sv[s].blocks)
        /\ Step(s, "archive", [sv[s] EXCEPT !.next = @ + 1])
        /\ file' = IF file[Len(b)] # NoBlock /\ i <= Len(sv[s].blocks) - reorgTailSize
                   THEN file ELSE [file EXCEPT ![Len(b)] = b]
        /\ UNCHANGED <<cloud, state>>

\* The window is read after the blocks and under a lock of its own.
ReadWindow(s) ==
    /\ sv[s].next > Len(sv[s].blocks)
    /\ Step(s, "archive", [sv[s] EXCEPT !.pc = "state", !.hw = HotWindowInfo(mem)])
    /\ UNCHANGED disk

\* A temporary file is written and renamed over state.json.
WriteState(s) ==
    /\ Step(s, "state", [sv[s] EXCEPT !.pc = "offload"])
    /\ state' = [state |-> sv[s].state, hw |-> sv[s].hw]
    /\ UNCHANGED <<file, cloud>>

LocalHeights == {h \in Heights : file[h] # NoBlock}

\* The oldest local file, if there are too many and it is below the window.
Offloadable(s) ==
    {h \in LocalHeights : /\ Cardinality(LocalHeights) > MaxLocalBlocks
                          /\ h < sv[s].hw.start
                          /\ \A g \in LocalHeights : h <= g}

\* Mutant: a failed copy does not keep the file from being removed.
CopyToArchive_IgnoresError(s) ==
    \E h \in Offloadable(s) :
        /\ Step(s, "offload", [sv[s] EXCEPT !.pc = "remove", !.next = h])
        /\ UNCHANGED disk

CopyToArchive(s) ==
    \E h \in Offloadable(s) :
        /\ Step(s, "offload", [sv[s] EXCEPT !.pc = "remove", !.next = h])
        /\ cloud' = [cloud EXCEPT ![h] = file[h]]
        /\ UNCHANGED <<file, state>>

RemoveLocal(s) ==
    /\ Step(s, "remove", [sv[s] EXCEPT !.pc = "offload"])
    /\ file' = [file EXCEPT ![sv[s].next] = NoBlock]
    /\ UNCHANGED <<cloud, state>>

EnforceStorageLimit(s) ==
    /\ Offloadable(s) = {}
    /\ Step(s, "offload", [sv[s] EXCEPT !.pc = "saved"])
    /\ UNCHANGED disk

SaveReturns(s) ==
    /\ up = "up"
    /\ Step(s, "saved", Idle)
    /\ UNCHANGED disk

-----------------------------------------------------------------------------
(* Crash and restart. *)

Crash ==
    /\ up # "down" /\ crashes < MaxCrashes
    /\ crashes' = crashes + 1
    /\ up' = "down"
    /\ mem' = NewChain /\ boot' = HotWindowInfo(NewChain)
    /\ sv' = [s \in Savers |-> Idle]
    /\ UNCHANGED <<net, forks, disk>>

\* Blocks are read upwards until a height is missing.
LoadedHeights(from) == {h \in Heights : \A g \in from..h : ColdBlockAt(g) # NoBlock}
loadSplitFormat(from) ==
    LET n == Cardinality({h \in LoadedHeights(from) : h >= from})
    IN  [i \in 1..n |-> ColdBlockAt(from + i - 1)]

\* main(): what Load returned, with the window not restored yet, or a new
\* chain if nothing could be loaded.
Load ==
    LET blocks == IF state = NoFile THEN <<>> ELSE loadSplitFormat(state.hw.start)
    IN  /\ up = "down"
        /\ IF blocks = <<>>
           THEN mem' = NewChain /\ up' = "restored" /\ UNCHANGED boot
           ELSE /\ mem' = [NewChain EXCEPT !.blocks = blocks, !.state = state.state]
                /\ up' = "loaded" /\ boot' = state.hw
        /\ sv' = [sv EXCEPT ![Main] = StartSave]
        /\ UNCHANGED <<net, forks, disk, crashes>>

\* After the first save: the window of the snapshot, trimmed, and a second save.
RestoreHotWindow ==
    /\ up = "loaded" /\ sv[Main].pc = "saved"
    /\ mem' = trimHotWindow([mem EXCEPT !.start = boot.start, !.baseState = boot.baseState,
                                        !.baseBlock = boot.baseBlock])
    /\ up' = "restored"
    /\ sv' = [sv EXCEPT ![Main] = StartSave]
    /\ UNCHANGED <<net, forks, boot, disk, crashes>>

Started ==
    /\ up = "restored" /\ sv[Main].pc = "saved"
    /\ up' = "up"
    /\ sv' = [sv EXCEPT ![Main] = Idle]
    /\ UNCHANGED <<net, forks, mem, boot, disk, crashes>>

Next ==
    \/ NetGrows
    \/ \E fork \in Heights : NetForks(fork)
    \/ \E s \in Savers :
          \/ \E h \in 1..Len(net) : ApplyPeerBlock(s, h)
          \/ \E back \in 0..3 : CatchUpReorg(s, back)
          \/ SubmitTx(s)
          \/ SnapshotData(s) \/ archiveOneBlock(s) \/ ReadWindow(s)
          \/ WriteState(s)
          \/ CopyToArchive(s) \/ RemoveLocal(s) \/ EnforceStorageLimit(s)
          \/ SaveReturns(s)
    \/ Crash
    \/ Load
    \/ RestoreHotWindow
    \/ Started

Spec == Init /\ [][Next]_vars

-----------------------------------------------------------------------------
(* Properties. *)

\* Whatever Save was doing when the node died, state.json is never ahead of
\* the block files: every height from its window up to its state can be read.
StateFileCovered ==
    state # NoFile =>
        \A h \in state.hw.start..Len(state.state) : ColdBlockAt(h) # NoBlock

\* A running node answers for every height up to its tip with a block of that
\* height, and below the window with the very ancestors of its checkpoint,
\* although files are being moved to the archive directory.
HistoryServed ==
    up = "up" =>
        \A h \in 0..Height(mem) :
            /\ BlockAt(h) # NoBlock /\ Len(BlockAt(h)) = h
            /\ h < mem.start => BlockAt(h) = Ancestor(mem.baseBlock, h)

\* The checkpoint a reorg replays from is exactly the state after the block
\* before the window, through trimming, reorgs and restarts.
CheckpointExact ==
    up = "up" /\ mem.start > 0 =>
        /\ Len(mem.baseBlock) = mem.start - 1
        /\ mem.baseState = mem.baseBlock
        /\ Parent(mem.blocks[1]) = mem.baseBlock

\* Once every Save has returned, the file of each block in memory holds that
\* block, also for heights a reorg has replaced.
ArchiveFollowsReorg ==
    up = "up" /\ (\A s \in Savers : sv[s].pc = "idle") =>
        \A i \in 1..Len(mem.blocks) : file[Len(mem.blocks[i])] = mem.blocks[i]
=============================================================================
