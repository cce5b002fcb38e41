---------------------------- MODULE NativeChain -----------------------------
(***************************************************************************)
(* One node of the legacy chain as a ledger (internal/chain/chain.go):     *)
(* clients submit signed transactions to the mempool, the producer builds  *)
(* a block from it on a clone of the state, and the block is validated by  *)
(* replaying it and then finalized.  What a transaction does is            *)
(* NativeState; who may finalize a block is RosterConsensus.               *)
(*                                                                         *)
(* wallet is the set of transactions the clients of a behaviour sign.  A   *)
(* transaction is signed, by the client or by a handler that was given the *)
(* key, with the nonce and time of that moment, and submitted later.       *)
(***************************************************************************)
EXTENDS NativeState, SequencesExt

CONSTANTS
    Wallets,        \* sets of transactions, one of which is in use
    SlowWallets,    \* those whose transactions may be overtaken after signing
    GenesisBalance,
    Proposer,       \* proposerAddressLocked
    BurnPercent,    \* BURN_PERCENT
    Debits,         \* SetIrregularStateCorrections: the total debit of an
                    \* account at a height
    MaxBlockTxs,    \* maxTx of BuildBlock
    MaxCitizenClockSkew,
    NoBlock, NoTx,
    MaxPool,        \* bounds on the run: transactions in the mempool,
    MaxSubmitted,   \* transactions ever submitted,
    MaxHeight,      \* blocks,
    MaxTime         \* and the clock

VARIABLES
    wallet,
    now,            \* time.Now().Unix() at the node
    signed,         \* a transaction on its way to SubmitTx, or NoTx
    mempool,        \* Chain.Mempool
    submitted,      \* how many transactions were ever signed
    height,         \* of the tip
    st,             \* Chain.State
    cand            \* the block being proposed, or NoBlock

vars == <<wallet, now, signed, mempool, submitted, height, st, cand>>

ASSUME ChainConstants ==
    /\ GenesisBalance \in [Accounts -> Nat]
    /\ SumTo(GenesisBalance, NumAccounts) <= MaxUint
    /\ Proposer \in Accounts /\ BurnPercent \in 0..100
    /\ Debits \in [1..MaxHeight -> [Accounts -> Nat]]

CitizenClocked == {"citizen_stake", "citizen_claim_rewards"}

-----------------------------------------------------------------------------
\* The order in which BuildBlock tries its candidates: fee, sender, nonce, id.
Before(t, u) ==
    \/ t.fee > u.fee
    \/ t.fee = u.fee /\ \/ t.from < u.from
                        \/ t.from = u.from /\ \/ t.nonce < u.nonce
                                              \/ t.nonce = u.nonce /\ t.id < u.id

Candidates == SetToSortSeq(mempool, Before)

\* BuildBlock's loop: a candidate that does not apply is skipped.
Fill(s, txs) ==
    FoldLeft(LAMBDA b, t : IF Len(b.txs) < MaxBlockTxs /\ TxOk(b.st, t)
                           THEN [st |-> ApplyTx(b.st, t), txs |-> Append(b.txs, t)]
                           ELSE b,
             [st |-> s, txs |-> <<>>], txs)

TotalFees(txs) == SumTo([i \in 1..Len(txs) |-> txs[i].fee], Len(txs))

\* creditProposerFees
applyBlockEconomics(s, txs) ==
    LET fees == TotalFees(txs)
    IN  [s EXCEPT !.bal[Proposer] = @ + (fees - (fees * BurnPercent) \div 100)]

\* finishBlockStateLocked without validator staking: the irregular
\* corrections, clamped at zero.
finishBlockState(s, h) ==
    [s EXCEPT !.bal = [a \in Accounts |-> @[a] - Lesser(@[a], Debits[h][a])]]

\* Validation and finalization replay the block's own list and stop at the
\* first transaction that does not apply.
Replay(s, b) ==
    FoldLeft(LAMBDA r, t : [ok |-> r.ok /\ TxOk(r.st, t),
                            st |-> IF r.ok /\ TxOk(r.st, t) THEN ApplyTx(r.st, t) ELSE r.st],
             [ok |-> TRUE, st |-> s], b.txs)

\* What Root() commits to: not the stakes, the proposals, the pool or the
\* immune nodes.
Root(s) == [bal |-> s.bal, asset |-> s.asset, nonce |-> s.nonce,
            locked |-> s.locked, released |-> s.released]

NextState(s, b) ==
    finishBlockState(applyBlockEconomics(Replay(s, b).st, b.txs), b.height)

validateBlock(s, b) ==
    /\ b.height = height + 1
    /\ Replay(s, b).ok
    /\ Root(NextState(s, b)) = b.root

-----------------------------------------------------------------------------
Init ==
    /\ wallet \in Wallets
    /\ now = 1
    /\ signed = NoTx
    /\ mempool = {}
    /\ submitted = 0
    /\ height = 0
    /\ st = NewState(GenesisBalance)
    /\ cand = NoBlock

\* What the endpoints require of a transaction before they submit it.
handleDEXSwap(t) == t.type = "dex_swap" /\ t.amount > 0

handleDEXLiquidity(t) ==
    \/ t.type = "dex_remove_liquidity" /\ t.amount > 0
    \/ t.type = "dex_add_liquidity" /\ t.amount > 0 /\ t.tokens > 0

handleDEXIssue(t) == t.type = "asset_issue" /\ t.amount > 0

decodeAndSubmitCitizenGovernanceTx(t) ==
    t.type \in {"citizen_stake", "citizen_unstake", "citizen_claim_rewards",
                "governance_propose", "governance_vote", "governance_execute"}

handleSubmitTx(t) == t.type \in TransferTypes

\* A handler or a client looks up the sender's next nonce and signs.
Sign(t, at) ==
    /\ signed = NoTx /\ submitted < MaxSubmitted /\ Cardinality(mempool) < MaxPool
    /\ \/ handleDEXSwap(t) \/ handleDEXLiquidity(t) \/ handleDEXIssue(t)
       \/ decodeAndSubmitCitizenGovernanceTx(t) \/ handleSubmitTx(t)
    /\ t.type \in CitizenClocked => at \in (now - MaxCitizenClockSkew)..(now + MaxCitizenClockSkew)
    /\ t.type \notin CitizenClocked => at = 0
    /\ signed' = t @@ [nonce |-> st.nonce[t.from], at |-> at]
    /\ submitted' = submitted + 1
    /\ UNCHANGED <<wallet, now, mempool, height, st, cand>>

\* SubmitTx admits a transaction that is new, still has the sender's next nonce
\* and, if rewards depend on its time, a time close to now.
SubmitTx ==
    /\ signed # NoTx
    /\ mempool' =
          IF /\ signed \notin mempool
             /\ signed.nonce = st.nonce[signed.from]
             /\ signed.type \in CitizenClocked =>
                   signed.at \in (now - MaxCitizenClockSkew)..(now + MaxCitizenClockSkew)
          THEN mempool \cup {signed} ELSE mempool
    /\ signed' = NoTx
    /\ UNCHANGED <<wallet, now, submitted, height, st, cand>>

\* Bound: a transaction is overtaken only in some wallets.
Undisturbed == signed = NoTx \/ wallet \in SlowWallets

\* Writes the root of the state before the fees are credited.
BuildBlock_BeforeFees ==
    /\ cand = NoBlock /\ Undisturbed
    /\ height < MaxHeight
    /\ mempool # {}
    /\ LET b == Fill(st, Candidates)
       IN  cand' = [height |-> height + 1, txs |-> b.txs, root |-> Root(b.st)]
    /\ UNCHANGED <<wallet, now, signed, mempool, submitted, height, st>>

\* The block's state is computed on a clone; the corrections of its height are
\* applied once with the end of the block and once more before the root.
BuildBlock ==
    /\ cand = NoBlock /\ Undisturbed
    /\ height < MaxHeight
    /\ mempool # {}
    /\ LET b == Fill(st, Candidates)
           done == finishBlockState(applyBlockEconomics(b.st, b.txs), height + 1)
       IN  cand' = [height |-> height + 1, txs |-> b.txs,
                    root |-> Root(finishBlockState(done, height + 1))]
    /\ UNCHANGED <<wallet, now, signed, mempool, submitted, height, st>>

FinalizeBlock ==
    /\ cand # NoBlock /\ Undisturbed
    /\ validateBlock(st, cand)
    /\ st' = NextState(st, cand)
    /\ height' = height + 1
    /\ mempool' = mempool \ Range(cand.txs)
    /\ cand' = NoBlock
    /\ UNCHANGED <<wallet, now, signed, submitted>>

Tick ==
    /\ now < MaxTime /\ Undisturbed
    /\ now' = now + 1
    /\ UNCHANGED <<wallet, signed, mempool, submitted, height, st, cand>>

\* The chain has run as long as the bounds allow.
Bounded ==
    /\ now = MaxTime /\ cand = NoBlock /\ signed = NoTx
    /\ height = MaxHeight \/ (submitted = MaxSubmitted /\ mempool = {})
    /\ UNCHANGED vars

Next ==
    \/ \E t \in wallet, at \in 0..(MaxTime + MaxCitizenClockSkew) : Sign(t, at)
    \/ SubmitTx
    \/ BuildBlock
    \/ FinalizeBlock
    \/ Tick
    \/ Bounded

Spec == Init /\ [][Next]_vars

-----------------------------------------------------------------------------
\* A block that a node builds is one it validates: the root BuildBlock wrote
\* is the root that replaying the chosen transactions gives, although the
\* builder skips transactions that fail and the replay stops at them
\* (docs/audit/INVARIANTS.md I4).
BuiltBlockValidates == cand # NoBlock => validateBlock(st, cand)

\* The reserves that quotes and withdrawals are computed from are covered by
\* what the pool's account holds, the shares of the providers add up to the
\* total, and while shares are out neither reserve is empty, so a provider is
\* never refused with "pool balance mismatch" or "zero reserve".
PoolBacked ==
    /\ st.syn <= st.bal[PoolAddr] /\ st.tok <= st.asset[PoolAddr]
    /\ SumTo(st.shares, NumAccounts) = st.total
    /\ st.total > 0 => st.syn > 0 /\ st.tok > 0

\* What a share is worth never falls, whatever is added, removed or swapped:
\* the product of the reserves per squared share only grows, so rounding is
\* always in favour of the providers who stay.
ShareValueNeverFalls ==
    [][st.total > 0 /\ st'.total > 0 =>
           st'.syn * st'.tok * st.total * st.total >=
           st.syn * st.tok * st'.total * st'.total]_st

Supply(s) == SumTo(s.bal, NumAccounts) + SumTo([a \in Accounts |-> s.stake[a].amount], NumAccounts)

\* Blocks create SYN in no other way than by executing a grant that the
\* treasury receives itself or whose execution it submits: transfers, stakes,
\* reward claims, pools, bridge records and the fee split never do.
OnlySelfGrantsInflate ==
    [][Supply(st') > Supply(st) =>
           \E i \in DOMAIN cand.txs :
               LET t == cand.txs[i]
               IN  /\ t.type = "governance_execute"
                   /\ t.from = Treasury \/ st'.props[t.prop].to = Treasury]_st

=============================================================================
