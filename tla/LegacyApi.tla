----------------------------- MODULE LegacyApi -----------------------------
(***************************************************************************)
(* A test network's node with its public HTTP interface                    *)
(* (cometapp/legacyapi): the faucet behind POST /faucet, transactions from *)
(* /submitTx, and the count of the chain's activity that a background loop *)
(* and GET /activity keep up to date.                                      *)
(*                                                                         *)
(* drip holds the faucet's lock from its first check to the end, but reads *)
(* the committed state and hands its transaction to the mempool in two     *)
(* calls, between which a block may be committed; it is split there.  The  *)
(* time a request compares with is taken before it waits for the lock.     *)
(* Moments are kept as their age in ticks, up to the age past which the    *)
(* code treats all of them alike.                                          *)
(*                                                                         *)
(* CometBFT is external: it keeps the admitted transactions in order,      *)
(* proposes a prefix of them, and checks the remaining ones again after    *)
(* each block.  Of the ledger, only nonces and balances are kept.          *)
(***************************************************************************)
EXTENDS Integers, FiniteSets, SequencesExt

CONSTANTS
    Addresses,             \* addresses of visitors
    Faucet,                \* the faucet's own address
    Amount, Fee,           \* of a drip; a visitor sends 1 for the same fee
    Cooldown, MinInterval, \* in ticks
    MaxWait,               \* bound: ticks a request waits for lock or mempool
    PoolSize,              \* mempool.size
    RecentKeep,
    NoRequest, NoBlock

VARIABLES
    scene,      \* what this behaviour has: see MCTestNetwork
    committed,  \* App.committed: [nonce, balance] of every account
    check,      \* App.check
    mempool,    \* CometBFT: the transactions admitted, in order
    blocks,     \* CometBFT: the committed blocks, each a sequence of [tx, ok]
    faucet,     \* the Faucet's fields and the request that holds its lock
    request,    \* per visitor, the age of the open POST /faucet
    act,        \* Server.act, and the pass of catchUp that holds its lock
    drips,      \* history: what the faucet sent since the start, with its age
    boots       \* history: restarts

nodeVars == <<scene, committed, check, mempool, blocks, faucet, request, act, drips, boots>>
chainVars == <<committed, check, mempool, blocks>>

Accounts == Addresses \cup {Faucet}
Least(a, b) == IF a <= b THEN a ELSE b
Most(a, b) == IF a >= b THEN a ELSE b

-----------------------------------------------------------------------------
\* ApplyTransaction, for transfers: the next nonce, and funds for both parts.
TxOk(st, tx) ==
    /\ tx.nonce = st[tx.from].nonce
    /\ st[tx.from].balance >= tx.amount + Fee

ApplyTx(st, tx) ==
    [a \in Accounts |->
        [nonce |-> st[a].nonce + (IF a = tx.from THEN 1 ELSE 0),
         balance |-> st[a].balance - (IF a = tx.from THEN tx.amount + Fee ELSE 0)
                                   + (IF a = tx.to THEN tx.amount ELSE 0)]]

\* The loop of FinalizeBlock over a block's transactions.
FinalizeBlock(st, txs) ==
    FoldLeft(LAMBDA acc, tx :
                IF TxOk(acc.st, tx)
                THEN [st |-> ApplyTx(acc.st, tx), done |-> Append(acc.done, [tx |-> tx, ok |-> TRUE])]
                ELSE [acc EXCEPT !.done = Append(@, [tx |-> tx, ok |-> FALSE])],
            [st |-> st, done |-> <<>>], txs)

\* CheckTx of every transaction that stays in the mempool, in order.
Recheck(st, txs) ==
    FoldLeft(LAMBDA acc, tx :
                IF TxOk(acc.st, tx)
                THEN [st |-> ApplyTx(acc.st, tx), kept |-> Append(acc.kept, tx)]
                ELSE acc,
            [st |-> st, kept |-> <<>>], txs)

\* Mutant: CheckTx looks at the committed state only.
Admits_OnCommitted(tx) == Len(mempool) < PoolSize /\ TxOk(committed, tx)

\* BroadcastTxSync: the mempool has room and CheckTx accepts.
Admits(tx) == Len(mempool) < PoolSize /\ TxOk(check, tx)

Admit(tx) ==
    /\ mempool' = Append(mempool, tx)
    /\ check' = ApplyTx(check, tx)
    /\ UNCHANGED <<committed, blocks>>

-----------------------------------------------------------------------------
(* A visitor is an address and the client it asks from.                    *)
Visitors == scene.visitors

\* The age of what is no longer remembered: long ago for any request.
Absent == Cooldown + MaxWait

NewFaucet == [holder |-> NoRequest, nonce |-> 0, next |-> 0, lastAny |-> MinInterval + MaxWait,
              byAddr |-> [a \in Addresses |-> Absent],
              byClient |-> [c \in scene.clients |-> Absent]]

NewActivity == [pass |-> NoBlock, indexed |-> 0, txs |-> 0, drips |-> 0, wallets |-> {},
                recent |-> <<>>]

\* The handler decodes the address and takes the time.
PostFaucet(v) ==
    /\ request[v] = NoRequest
    /\ request' = [request EXCEPT ![v] = 0]
    /\ UNCHANGED <<scene, chainVars, faucet, act, drips, boots>>

\* now.Sub(t) for a moment of this age and a request that has waited.
Since(age, v) == age - request[v]

\* What drip finds before it signs: cool-downs, the pause between any two
\* drips, and the committed balance.
MayDrip(v) ==
    /\ Since(faucet.byAddr[v.to], v) >= Cooldown
    /\ Since(faucet.byClient[v.client], v) >= Cooldown
    /\ Since(faucet.lastAny, v) >= MinInterval
    /\ committed[Faucet].balance >= Amount + Fee

\* The drips drip forgets first: old enough for the request at hand.
Pruned(v) ==
    LET Kept(age) == IF Since(age, v) >= Cooldown THEN Absent ELSE age
    IN  [faucet EXCEPT !.byAddr = [a \in Addresses |-> Kept(@[a])],
                       !.byClient = [c \in scene.clients |-> Kept(@[c])]]

\* Mutant: the nonce on the chain is not read.
drip_OwnCount(v) ==
    /\ request[v] # NoRequest /\ faucet.holder = NoRequest
    /\ IF MayDrip(v)
       THEN /\ faucet' = [Pruned(v) EXCEPT !.holder = v, !.nonce = faucet.next]
            /\ UNCHANGED request
       ELSE /\ request' = [request EXCEPT ![v] = NoRequest]
            /\ faucet' = Pruned(v)
    /\ UNCHANGED <<scene, chainVars, act, drips, boots>>

\* drip up to the signature: earlier drips may still wait for a block.
drip(v) ==
    /\ request[v] # NoRequest /\ faucet.holder = NoRequest
    /\ IF MayDrip(v)
       THEN /\ faucet' = [Pruned(v) EXCEPT !.holder = v, !.nonce = Most(committed[Faucet].nonce, faucet.next)]
            /\ UNCHANGED request
       ELSE /\ request' = [request EXCEPT ![v] = NoRequest]
            /\ faucet' = Pruned(v)
    /\ UNCHANGED <<scene, chainVars, act, drips, boots>>

\* Mutant: the client that asked is not remembered.
Broadcast_ForgetsClient ==
    LET v == faucet.holder
        tx == [from |-> Faucet, to |-> v.to, amount |-> Amount, nonce |-> faucet.nonce]
    IN  /\ v # NoRequest
        /\ \/ /\ Admits(tx)
              /\ Admit(tx)
              /\ faucet' = [faucet EXCEPT !.holder = NoRequest, !.next = faucet.nonce + 1,
                                          !.byAddr[v.to] = request[v],
                                          !.lastAny = request[v]]
              /\ drips' = drips \cup {[to |-> v.to, client |-> v.client, nonce |-> tx.nonce,
                                       age |-> request[v]]}
           \/ /\ ~Admits(tx)
              /\ faucet' = [faucet EXCEPT !.holder = NoRequest, !.next = 0]
              /\ UNCHANGED <<chainVars, drips>>
        /\ request' = [request EXCEPT ![v] = NoRequest]
        /\ UNCHANGED <<scene, act, boots>>

\* The rest of drip: BroadcastTxSync and what follows from its answer.
Broadcast ==
    LET v == faucet.holder
        tx == [from |-> Faucet, to |-> v.to, amount |-> Amount, nonce |-> faucet.nonce]
    IN  /\ v # NoRequest
        /\ \/ /\ Admits(tx)
              /\ Admit(tx)
              /\ faucet' = [faucet EXCEPT !.holder = NoRequest, !.next = faucet.nonce + 1,
                                          !.byAddr[v.to] = request[v],
                                          !.byClient[v.client] = request[v],
                                          !.lastAny = request[v]]
              /\ drips' = drips \cup {[to |-> v.to, client |-> v.client, nonce |-> tx.nonce,
                                       age |-> request[v]]}
           \/ /\ ~Admits(tx)
              /\ faucet' = [faucet EXCEPT !.holder = NoRequest, !.next = 0]
              /\ UNCHANGED <<chainVars, drips>>
        /\ request' = [request EXCEPT ![v] = NoRequest]
        /\ UNCHANGED <<scene, act, boots>>

\* A visitor's signed transfer through POST /submitTx, with the nonce the
\* visitor believes in.
submit(from, to, nonce) ==
    LET tx == [from |-> from, to |-> to, amount |-> 1, nonce |-> nonce]
    IN  /\ from # to
        /\ Admits(tx)
        /\ Admit(tx)
        /\ UNCHANGED <<scene, faucet, request, act, drips, boots>>

-----------------------------------------------------------------------------
\* The number of blocks this node does not have: it joined from a snapshot.
Missing == scene.missing

\* CometBFT commits a block: perhaps a transfer that another node admitted,
\* then the first n transactions of the mempool; Commit makes the result the
\* committed state, and the mempool checks again what it still holds.
CommitBlock(n, foreign) ==
    LET result == FinalizeBlock(committed, foreign \o SubSeq(mempool, 1, n))
        rest == Recheck(result.st, SubSeq(mempool, n + 1, Len(mempool)))
    IN  /\ committed' = result.st
        /\ blocks' = Append(blocks, result.done)
        /\ check' = rest.st /\ mempool' = rest.kept
        /\ UNCHANGED <<scene, faucet, request, act, drips, boots>>

MakeBlock ==
    \E n \in 0..Len(mempool) :
        /\ n > 0 \/ Len(blocks) < scene.emptyUpTo
        /\ CommitBlock(n, <<>>)

Foreign(from, to) ==
    LET tx == [from |-> from, to |-> to, amount |-> 1, nonce |-> committed[from].nonce]
    IN  /\ from # to /\ TxOk(committed, tx)
        /\ \E n \in 0..Len(mempool) : CommitBlock(n, <<tx>>)

-----------------------------------------------------------------------------
(* catchUp, by the WarmActivity loop or GET /activity.                     *)

\* Mutant: every pass begins with the first block.
BeginPass_FromStart ==
    /\ act.pass = NoBlock /\ scene.counts
    /\ act' = [act EXCEPT !.pass = Len(blocks), !.indexed = Missing]
    /\ UNCHANGED <<scene, chainVars, faucet, request, drips, boots>>

\* Under the lock: the latest block, and where the node's blocks begin.
BeginPass ==
    /\ act.pass = NoBlock /\ scene.counts
    /\ act' = [act EXCEPT !.pass = Len(blocks), !.indexed = Most(@, Missing)]
    /\ UNCHANGED <<scene, chainVars, faucet, request, drips, boots>>

Paid(done) == SelectSeq(done, LAMBDA r : r.ok)
\* The last k of a sequence.
Newest(s, k) == SubSeq(s, Most(1, Len(s) - k + 1), Len(s))

\* The transactions of a block that did not fail, in order.
Counted(a, done) ==
    [a EXCEPT !.txs = @ + Len(Paid(done)),
              !.drips = @ + Len(SelectSeq(Paid(done), LAMBDA r : r.tx.from = Faucet)),
              !.wallets = @ \cup {IF r.tx.from = Faucet THEN r.tx.to ELSE r.tx.from :
                                    r \in Range(Paid(done))},
              !.recent = Newest(@ \o Paid(done), RecentKeep)]

CountBlock ==
    /\ act.pass # NoBlock /\ act.indexed < act.pass
    /\ act' = [Counted(act, blocks[act.indexed + 1]) EXCEPT !.indexed = @ + 1]
    /\ UNCHANGED <<scene, chainVars, faucet, request, drips, boots>>

\* The pass is complete, or the request's time is up or a call failed.
EndPass ==
    /\ act.pass # NoBlock
    /\ act.indexed = act.pass \/ scene.failing
    /\ act' = [act EXCEPT !.pass = NoBlock]
    /\ UNCHANGED <<scene, chainVars, faucet, request, drips, boots>>

-----------------------------------------------------------------------------
\* A tick passes; nobody waits longer than MaxWait.
Older(age, most) == Least(age + 1, most)

Tick ==
    /\ \A v \in Visitors : request[v] # NoRequest => request[v] < MaxWait
    /\ request' = [v \in Visitors |-> IF request[v] = NoRequest THEN NoRequest ELSE request[v] + 1]
    /\ faucet' = [faucet EXCEPT
                     !.byAddr = [a \in Addresses |-> Older(@[a], Absent)],
                     !.byClient = [c \in scene.clients |-> Older(@[c], Absent)],
                     !.lastAny = Older(@, MinInterval + MaxWait)]
    /\ drips' = {[d EXCEPT !.age = Older(@, Absent)] : d \in drips}
    /\ UNCHANGED <<scene, chainVars, act, boots>>

\* The process ends and starts again: the state file and the blocks stay,
\* the mempool and everything the interface remembers do not.
Restart ==
    /\ boots < scene.boots
    /\ boots' = boots + 1
    /\ check' = committed /\ mempool' = <<>>
    /\ faucet' = NewFaucet
    /\ request' = [v \in Visitors |-> NoRequest]
    /\ act' = NewActivity
    /\ drips' = {}
    /\ UNCHANGED <<scene, committed, blocks>>

NodeInit ==
    /\ LET start == [a \in Accounts |-> [nonce |-> 0, balance |-> IF a = Faucet THEN scene.funds ELSE 0]]
           past == [i \in 1..Missing |-> [from |-> Faucet, to |-> scene.first, amount |-> Amount,
                                         nonce |-> i - 1]]
           result == FinalizeBlock(start, past)
       IN  /\ committed = result.st
           /\ blocks = [i \in 1..Missing |-> <<result.done[i]>>]
    /\ check = committed /\ mempool = <<>>
    /\ faucet = NewFaucet
    /\ request = [v \in Visitors |-> NoRequest]
    /\ act = NewActivity
    /\ drips = {} /\ boots = 0

NodeStep ==
    \/ \E v \in Visitors : PostFaucet(v)
    \/ \E v \in Visitors : drip(v)
    \/ Broadcast
    \/ \E from, to \in Addresses, n \in 0..1 :
          scene.transfers /\ submit(from, to, committed[from].nonce + n)
    \/ MakeBlock
    \/ \E from, to \in Addresses : scene.transfers /\ Foreign(from, to)
    \/ BeginPass \/ CountBlock \/ EndPass
    \/ Tick
=============================================================================
