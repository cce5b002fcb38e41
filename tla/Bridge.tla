------------------------------- MODULE Bridge -------------------------------
(***************************************************************************)
(* The SYN bridge in both directions.                                      *)
(*                                                                         *)
(* Native to EVM: a bridge_lock_native transaction pays SYN into an escrow *)
(* account; the Node relayers (relay-native-locks-to-syn-mint.js) approve  *)
(* its mint on SYNTHOSSynBridgeMinter, and the approval that completes the *)
(* quorum mints wrapped SYN.  EVM to native: a holder burns wrapped SYN;   *)
(* the Go relayer (cmd/bridgerelayer -mode watch-evm) writes a proof of    *)
(* every confirmed burn to its outbox and, with auto-submit, posts a       *)
(* release; the bridge operator adds the validators' signatures to a proof *)
(* and posts it (-mode submit-native-release).  The escrow account is the  *)
(* bridge authority that signs the releases.                               *)
(*                                                                         *)
(* evm is the EVM chain, one transaction to a block: its height and the    *)
(* contracts' states after its last blocks, as many as a reorganization    *)
(* can take back.  Wrapped SYN is counted in fractions, Scale to a SYN.    *)
(***************************************************************************)
EXTENDS Integers, FiniteSets, Sequences, Functions

CONSTANTS
    Locks,             \* ids of the native locks
    Amount,            \* SYN of a lock, [Locks -> Nat \ {0}]
    ToEscrow,          \* the locks that pay the escrow address
    Relayers,          \* SYNTHOSSynBridgeMinter.relayers
    Scale,             \* wrappedSynUnitScale (10^18 in the code)
    MinConfirmations,  \* -min-confirmations
    StartBlock,        \* -syn-minter-from-block, 0 for none
    Fee,               \* RequiredFee of a release
    Float,             \* SYN of the authority for fees
    MaxUnits,          \* bound on the run: fractions burned or spent at once
    Scenes             \* the minter's threshold, the locks minted before a
                       \* behaviour starts, and its bounds: burns and spends,
                       \* reorganizations, crashes

VARIABLES
    scene,     \* the member of Scenes that is played
    auto,      \* -auto-submit-native
    nonce,     \* of the authority's native account
    escrow,    \* its balance
    locked,    \* State.BridgeEvents of type bridge_lock_native
    released,  \* State.ProcessedBridgeEvents
    mempool,   \* release transactions posted to the native node
    evm,       \* the EVM chain
    txs,       \* the burns and spends ever sent: each has a hash of its own
    outbox,    \* proof-outbox of the Go relayer
    watch,     \* the Go relayer
    op,        \* the bridge operator
    mint,      \* the Node relayers: what each is doing
    done,      \* their state files
    reorgs, crashes

setup == <<scene, auto>>
minters == <<mint, done>>
faults == <<reorgs, crashes>>
native == <<nonce, escrow, locked, released, mempool>>
vars == <<setup, native, evm, txs, outbox, watch, op, minters, faults>>

ASSUME BridgeConstants ==
    /\ IsFiniteSet(Locks) /\ Locks # {}
    /\ Amount \in [Locks -> Nat \ {0}] /\ ToEscrow \subseteq Locks
    /\ Scale \in Nat \ {0} /\ MinConfirmations \in Nat /\ StartBlock \in Nat
    /\ Fee \in Nat /\ Float \in Nat
    /\ Scenes \subseteq
          [threshold : 1..Cardinality(Relayers), minted : SUBSET ToEscrow,
           burns : Nat, reorgs : Nat, crashes : Nat]

\* A burn as the relayer sees it: hash and log index, fractions, block.
Burn == [id : Nat, units : Nat, block : Nat]

Height == evm.height
Contracts == evm.recent[MinConfirmations + 1]
Whole(b) == b.units % Scale = 0
Mine(c) == evm' = [height |-> Height + 1, recent |-> Append(Tail(evm.recent), c)]

-----------------------------------------------------------------------------
\* applyBridgeMetadata of a bridge_lock_native transaction in a native block.
LockNative(l) ==
    /\ l \notin locked
    /\ locked' = locked \cup {l}
    /\ escrow' = IF l \in ToEscrow THEN escrow + Amount[l] ELSE escrow
    /\ UNCHANGED <<setup, nonce, released, mempool, evm, txs, outbox, watch, op,
                   minters, faults>>

\* Chain.SubmitTx: the nonce must be the account's, the id new.  The id hashes
\* everything but the time, so a repeated release is the same transaction.
Accepted(t) == t.nonce = nonce /\ t \notin mempool

\* ApplyTx on a release: nonce, balance, the validators' signatures, and a
\* source event that was not processed.
Applies(t) ==
    /\ t.nonce = nonce
    /\ t.burn.units \div Scale + Fee <= escrow
    /\ t.signed
    /\ t.burn \notin released

\* A native block: of the releases with the account's nonce one is applied,
\* which makes the others void; they stay in the mempool.
NativeBlock(t) ==
    /\ t \in mempool
    /\ Applies(t)
    /\ nonce' = nonce + 1
    /\ escrow' = escrow - (t.burn.units \div Scale + Fee)
    /\ released' = released \cup {t.burn}
    /\ mempool' = mempool \ {t}
    /\ UNCHANGED <<setup, locked, evm, txs, outbox, watch, op, minters, faults>>

-----------------------------------------------------------------------------
ApproveMintReverts_Unprocessed(r, l) == r \in Contracts.approved[l]

\* approveMint's requirements and its effect, the mint by the approval that
\* completes the quorum included (_executeMint).
ApproveMintReverts(r, l) ==
    l \in Contracts.minted \/ r \in Contracts.approved[l]

ApproveMint(r, l) ==
    LET approvals == Contracts.approved[l] \cup {r}
        quorum    == Cardinality(approvals) >= scene.threshold
    IN  [Contracts EXCEPT
            !.approved[l] = approvals,
            !.minted = IF quorum THEN @ \cup {l} ELSE @,
            !.supply = IF quorum THEN @ + Scale * Amount[l] ELSE @]

\* burnToNative by a holder of wrapped SYN, of any amount.
BurnToNative(u) ==
    /\ txs < scene.burns
    /\ u \in 1..Contracts.supply
    /\ Mine([Contracts EXCEPT
               !.supply = @ - u,
               !.burns = @ \cup {[id |-> txs, units |-> u, block |-> Height + 1]}])
    /\ txs' = txs + 1
    /\ UNCHANGED <<setup, native, outbox, watch, op, minters, faults>>

\* SynCoin.treasuryRecyclingBurn: half of the amount is destroyed.
TreasuryRecyclingBurn(u) ==
    /\ txs < scene.burns
    /\ u \in 2..Contracts.supply
    /\ Mine([Contracts EXCEPT !.supply = @ - u \div 2])
    /\ txs' = txs + 1
    /\ UNCHANGED <<setup, native, outbox, watch, op, minters, faults>>

\* Blocks without bridge transactions, until everything is confirmed.
Confirmed == evm.recent[1] = Contracts

EmptyBlock ==
    /\ ~Confirmed
    /\ Mine(Contracts)
    /\ UNCHANGED <<setup, native, txs, outbox, watch, op, minters, faults>>

\* A branch of k + 1 empty blocks replaces the last k.  -min-confirmations is
\* chosen so that no reorganization is deeper.
Reorg(k) ==
    LET fork == MinConfirmations + 1 - k
    IN  /\ reorgs < scene.reorgs
        /\ evm' = [height |-> Height + 1,
                   recent |-> [i \in DOMAIN evm.recent |->
                                 evm.recent[IF i < fork THEN i + 1 ELSE fork]]]
        /\ reorgs' = reorgs + 1
        /\ UNCHANGED <<setup, native, txs, outbox, watch, op, minters, crashes>>

-----------------------------------------------------------------------------
\* The Node relayer r on lock event l: it simulates the approval, sends it,
\* and marks the event in its state file.
IsMintableNativeLock(l) == l \in ToEscrow

SimulateMint_MarksFirst(r, l) ==
    /\ mint[r].pc = "poll"
    /\ l \in locked \ done[r]
    /\ IsMintableNativeLock(l)
    /\ done' = [done EXCEPT ![r] = @ \cup {l}]
    /\ mint' = IF ApproveMintReverts(r, l) THEN mint
               ELSE [mint EXCEPT ![r] = [pc |-> "send", lock |-> l]]
    /\ UNCHANGED <<setup, native, evm, txs, outbox, watch, op, faults>>

SimulateMint(r, l) ==
    /\ mint[r].pc = "poll"
    /\ l \in locked \ done[r]
    /\ IsMintableNativeLock(l)
    /\ IF ApproveMintReverts(r, l)
       THEN done' = [done EXCEPT ![r] = @ \cup {l}] /\ UNCHANGED mint
       ELSE mint' = [mint EXCEPT ![r] = [pc |-> "send", lock |-> l]] /\ UNCHANGED done
    /\ UNCHANGED <<setup, native, evm, txs, outbox, watch, op, faults>>

\* An approval that reverts now fails the poll; the event is seen again.
SendMint(r) ==
    /\ mint[r].pc = "send"
    /\ IF ApproveMintReverts(r, mint[r].lock)
       THEN mint' = [mint EXCEPT ![r].pc = "poll"] /\ UNCHANGED evm
       ELSE /\ mint' = [mint EXCEPT ![r].pc = "mined"]
            /\ Mine(ApproveMint(r, mint[r].lock))
    /\ UNCHANGED <<setup, native, txs, outbox, watch, op, done, faults>>

MarkProcessed(r) ==
    /\ mint[r].pc = "mined"
    /\ done' = [done EXCEPT ![r] = @ \cup {mint[r].lock}]
    /\ mint' = [mint EXCEPT ![r].pc = "poll"]
    /\ UNCHANGED <<setup, native, evm, txs, outbox, watch, op, faults>>

\* The state file is being rewritten.
Writing(r) ==
    \/ mint[r].pc = "mined"
    \/ mint[r].pc = "poll" /\ \E l \in (locked \cap ToEscrow) \ done[r] :
                                ApproveMintReverts(r, l)

\* The state file is rewritten in place: a crash while it is written leaves
\* one that does not parse, which loadProcessed takes for an empty one.
CrashMint(r) ==
    /\ crashes < scene.crashes
    /\ crashes' = crashes + 1
    /\ \/ UNCHANGED done
       \/ Writing(r) /\ done' = [done EXCEPT ![r] = {}]
    /\ mint' = [mint EXCEPT ![r].pc = "poll"]
    /\ UNCHANGED <<setup, native, evm, txs, outbox, watch, op, reorgs>>

-----------------------------------------------------------------------------
\* The Go relayer, watchEVM.  A pass reads the head and then the logs up to
\* the confirmed head; every log is handled by itself.
ConfirmedHead_Early(head) == head - MinConfirmations + 1

ConfirmedHead(head) == head - MinConfirmations

ReadHead_Strict ==
    LET confirmed == ConfirmedHead(Height)
        next      == IF watch.next = 0 THEN confirmed ELSE watch.next
    IN  /\ watch.pc = "sleep"
        /\ Height >= MinConfirmations
        /\ watch' = IF next >= confirmed THEN [watch EXCEPT !.next = next]
                    ELSE [watch EXCEPT !.next = next, !.head = Height, !.pc = "logs"]
        /\ UNCHANGED <<setup, native, evm, txs, outbox, op, minters, faults>>

\* The head is read, and a relayer without a start block starts here.
ReadHead ==
    LET confirmed == ConfirmedHead(Height)
        next      == IF watch.next = 0 THEN confirmed ELSE watch.next
    IN  /\ watch.pc = "sleep"
        /\ Height >= MinConfirmations
        /\ watch' = IF next > confirmed THEN [watch EXCEPT !.next = next]
                    ELSE [watch EXCEPT !.next = next, !.head = Height, !.pc = "logs"]
        /\ UNCHANGED <<setup, native, evm, txs, outbox, op, minters, faults>>

\* eth_getLogs over the range.
ReadLogs ==
    LET logs == {b \in Contracts.burns : b.block \in watch.next..ConfirmedHead(watch.head)}
    IN  /\ watch.pc = "logs"
        /\ watch' = [watch EXCEPT !.pc = "work", !.todo = logs]
        /\ UNCHANGED <<setup, native, evm, txs, outbox, op, minters, faults>>

\* The logs are handled in block order.
First(b) == b \in watch.todo /\ \A c \in watch.todo : b.block <= c.block

Done(w, b) == [w EXCEPT !.todo = @ \ {b}, !.pc = "work"]
Exit(w) == [w EXCEPT !.pc = "down"]

\* One log: a burn of a fraction of a SYN ends the process, one seen before is
\* skipped, any other goes to the outbox.  The account's nonce is read for
\* the release.
ObserveBurn(b) ==
    /\ watch.pc = "work"
    /\ First(b)
    /\ IF ~Whole(b) THEN watch' = Exit(watch) /\ UNCHANGED outbox
       ELSE IF b \in watch.seen THEN watch' = Done(watch, b) /\ UNCHANGED outbox
       ELSE /\ outbox' = outbox \cup {b}
            /\ watch' = LET w == [watch EXCEPT !.seen = @ \cup {b}]
                        IN  IF auto THEN [w EXCEPT !.pc = "post", !.nonce = nonce]
                            ELSE Done(w, b)
    /\ UNCHANGED <<setup, native, evm, txs, op, minters, faults>>

\* The release transaction posted for a proof; the relayer's own proofs carry
\* no validator signatures.
Release(b, n, signed) == [burn |-> b, nonce |-> n, signed |-> signed]

\* submitNativeReleaseProof: a refused transaction ends the process.
PostRelease(b) ==
    LET t == Release(b, watch.nonce, FALSE)
    IN  /\ watch.pc = "post"
        /\ First(b)
        /\ IF Accepted(t)
           THEN mempool' = mempool \cup {t} /\ watch' = Done(watch, b)
           ELSE watch' = Exit(watch) /\ UNCHANGED mempool
        /\ UNCHANGED <<setup, nonce, escrow, locked, released, evm, txs, outbox,
                       op, minters, faults>>

EndPass ==
    /\ watch.pc = "work"
    /\ watch.todo = {}
    /\ watch' = [watch EXCEPT !.next = ConfirmedHead(watch.head) + 1, !.pc = "sleep"]
    /\ UNCHANGED <<setup, native, evm, txs, outbox, op, minters, faults>>

CrashWatch ==
    /\ crashes < scene.crashes
    /\ watch.pc # "down"
    /\ crashes' = crashes + 1
    /\ watch' = Exit(watch)
    /\ UNCHANGED <<setup, native, evm, txs, outbox, op, minters, reorgs>>

Started == [pc |-> "sleep", head |-> 0, next |-> StartBlock, todo |-> {},
            seen |-> {}, nonce |-> 0]

\* The service manager starts the process again: it has forgotten what it saw.
RestartWatch ==
    /\ watch.pc = "down"
    /\ watch' = Started
    /\ UNCHANGED <<setup, native, evm, txs, outbox, op, minters, faults>>

-----------------------------------------------------------------------------
SignProof_OldNonce(b) ==
    /\ op.pc = "idle"
    /\ b \in outbox \ released
    /\ op' = [pc |-> "post", burn |-> b, nonce |-> op.nonce]
    /\ UNCHANGED <<setup, native, evm, txs, outbox, watch, minters, faults>>

\* The operator collects the validators' signatures on a proof of the outbox
\* that was not released and runs submit-native-release, which reads the
\* nonce and posts the transaction.
SignProof(b) ==
    /\ op.pc = "idle"
    /\ b \in outbox \ released
    /\ op' = [pc |-> "post", burn |-> b, nonce |-> nonce]
    /\ UNCHANGED <<setup, native, evm, txs, outbox, watch, minters, faults>>

SubmitNativeRelease ==
    LET t == Release(op.burn, op.nonce, TRUE)
    IN  /\ op.pc = "post"
        /\ mempool' = IF Accepted(t) THEN mempool \cup {t} ELSE mempool
        /\ op' = [op EXCEPT !.pc = "idle"]
        /\ UNCHANGED <<setup, nonce, escrow, locked, released, evm, txs, outbox,
                       watch, minters, faults>>

-----------------------------------------------------------------------------
NoBurn == [id |-> 0, units |-> 0, block |-> 0]

Coins(locks) == SumFunctionOnSet(Amount, locks)

\* The minter and SynCoin after the mints of a scene.
Deployed(minted) ==
    [supply |-> Scale * Coins(minted), minted |-> minted, burns |-> {},
     approved |-> [l \in Locks |-> IF l \in minted THEN Relayers ELSE {}]]

Init ==
    /\ scene \in Scenes
    /\ auto \in BOOLEAN
    /\ nonce = 0 /\ escrow = Float + Coins(scene.minted)
    /\ locked = scene.minted /\ released = {} /\ mempool = {}
    /\ evm = [height |-> 1, recent |-> [i \in 1..(MinConfirmations + 1) |->
                                         Deployed(scene.minted)]]
    /\ txs = 0 /\ outbox = {}
    /\ watch = Started
    /\ op = [pc |-> "idle", burn |-> NoBurn, nonce |-> 0]
    /\ mint = [r \in Relayers |-> [pc |-> "poll", lock |-> CHOOSE l \in Locks : TRUE]]
    /\ done = [r \in Relayers |-> scene.minted]
    /\ reorgs = 0 /\ crashes = 0

WatchStep == \/ ReadHead \/ ReadLogs
             \/ \E b \in watch.todo : ObserveBurn(b) \/ PostRelease(b)
             \/ EndPass \/ RestartWatch

MintStep(r) == \/ \E l \in Locks : SimulateMint(r, l)
               \/ SendMint(r)
               \/ MarkProcessed(r)

Next ==
    \/ \E l \in Locks : LockNative(l)
    \/ \E t \in mempool : NativeBlock(t)
    \/ \E u \in 1..MaxUnits : BurnToNative(u) \/ TreasuryRecyclingBurn(u)
    \/ EmptyBlock
    \/ \E k \in 1..MinConfirmations : Reorg(k)
    \/ \E r \in Relayers : MintStep(r) \/ CrashMint(r)
    \/ WatchStep \/ CrashWatch
    \/ \E b \in outbox : SignProof(b)
    \/ SubmitNativeRelease

Spec == Init /\ [][Next]_vars

\* Both relayers poll for ever and are restarted, both chains grow.  The
\* operator comes back to every proof that is not released.
FairSpec ==
    /\ Spec
    /\ WF_vars(WatchStep) /\ WF_vars(EmptyBlock)
    /\ WF_vars(\E t \in mempool : NativeBlock(t))
    /\ \A r \in Relayers : WF_vars(MintStep(r))

OperatedSpec ==
    /\ FairSpec
    /\ WF_vars(SubmitNativeRelease)
    /\ WF_vars(\E b \in outbox : SignProof(b))

-----------------------------------------------------------------------------
Units(burns) == SumFunction([b \in burns |-> b.units])

\* SynCoin.sol: every wrapped SYN corresponds to one real SYN locked on the
\* native chain.  Whatever crashes, repeats and reorganizations happen, what
\* came into the escrow and was not released covers the wrapped supply, the
\* burns still to be released and the locks still to be minted.
Backed ==
    LET owed == (ToEscrow \cap locked) \ Contracts.minted
    IN  Contracts.supply + Units(Contracts.burns \ released) + Scale * Coins(owed)
          <= Scale * (escrow + Fee * nonce - Float)

\* A proof in the outbox is of a burn that stays: no reorganization that the
\* confirmations allow for takes it back.
ProofsFinal == outbox \subseteq Contracts.burns

\* relay-native-locks-to-syn-mint.js: a lock into the escrow is eventually
\* minted, whatever the relayers' crashes and lost races, unless the EVM
\* chain drops a mined approval: the relayer marks the event at the first
\* confirmation and never looks again.
LockMinted ==
    \A l \in ToEscrow : l \in locked ~> (l \in Contracts.minted \/ reorgs > 0)

\* The ids a burn can have in a behaviour of the run.
BurnIds == UNION {0..(c.burns - 1) : c \in Scenes}

Unreadable == \E b \in Contracts.burns : ~Whole(b)

\* Without auto-submit, every burn of whole SYN gets into the outbox unless a
\* reorganization removes it or a burn of a fraction stops the relayer.
BurnObserved ==
    \A i \in BurnIds :
        LET burned == {b \in Contracts.burns : b.id = i}
        IN  (~auto /\ burned # {}) ~> (burned \subseteq outbox \/ Unreadable)

\* A proof that the operator keeps signing and submitting is released, however
\* the nonces of concurrent releases collide.
ProofReleased ==
    \A i \in BurnIds :
        (\E b \in outbox : b.id = i) ~> (\E b \in released : b.id = i)
=============================================================================
