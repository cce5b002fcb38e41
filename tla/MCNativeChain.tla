--------------------------- MODULE MCNativeChain ----------------------------
(***************************************************************************)
(* Instances of NativeChain for TLC: two citizens (1 is the founder and    *)
(* the proposer), the treasury 3 and the pool's account 4.                 *)
(***************************************************************************)
EXTENDS NativeChain

CONSTANTS p1, e1, v1, v2, v3

MCGenesisBalance == <<40, 30, 20, 0>>

\* The one correction ever shipped debits an account that is empty.
MCDebits == [h \in 1..MaxHeight |-> [a \in Accounts |-> IF h = 1 /\ a = PoolAddr THEN 2 ELSE 0]]

Tx(id, type, from, to, amount, fee) ==
    [id |-> id, type |-> type, from |-> from, to |-> to, amount |-> amount,
     fee |-> fee, asset |-> FALSE]

Proposal(id, payee, grant) ==
    Tx(id, "governance_propose", 1, 1, 1, 1) @@ [prop |-> p1, payee |-> payee, grant |-> grant]
Vote(id, from, inFavor) ==
    Tx(id, "governance_vote", from, from, 1, 1) @@ [prop |-> p1, inFavor |-> inFavor]
Execute(id, from, fee) ==
    Tx(id, "governance_execute", from, from, 1, fee) @@ [prop |-> p1]

GovernanceTxs ==
    {Proposal(1, 2, 12), Vote(2, 1, TRUE), Vote(3, 2, FALSE), Vote(4, 2, TRUE),
     Execute(5, 2, 1), Execute(6, 3, 2), Tx(7, "transfer", 1, 2, 20, 3), Proposal(8, 3, 19)}

CitizenTxs ==
    {Tx(1, "citizen_stake", 2, 2, 8, 1), Tx(2, "citizen_unstake", 2, 2, 5, 1),
     Tx(3, "citizen_claim_rewards", 2, 2, 1, 1), Tx(4, "transfer", 3, 1, 18, 1)}

AddTx(id, from, syn, tokens, min) ==
    Tx(id, "dex_add_liquidity", from, from, syn, 1) @@ [tokens |-> tokens, min |-> min]
RemoveTx(id, from, shares) ==
    Tx(id, "dex_remove_liquidity", from, from, shares, 1) @@ [min |-> 1, minTokens |-> 0]
SwapTx(id, from, amount, fromSyn) ==
    Tx(id, "dex_swap", from, from, amount, 2) @@ [fromSyn |-> fromSyn, min |-> 1]

\* A transfer to the pool's account changes what it holds behind the reserves.
ExchangeTxs ==
    {Tx(1, "asset_issue", 1, 1, 30, 1), Tx(2, "asset_issue", 2, 2, 9, 3),
     AddTx(3, 1, 5, 9, 0), AddTx(4, 2, 4, 5, 1), RemoveTx(5, 1, 4),
     SwapTx(6, 2, 3, TRUE), SwapTx(7, 1, 5, FALSE), Tx(8, "transfer", 2, 4, 2, 1),
     [Tx(9, "transfer", 1, 4, 3, 1) EXCEPT !.asset = TRUE]}

Release(id, from, signers) ==
    Tx(id, "bridge_release_native", from, 2, 5, 1) @@ [event |-> e1, signers |-> signers]

BridgeTxs ==
    {Tx(1, "bridge_lock_native", 2, 3, 6, 2) @@ [event |-> e1],
     Tx(2, "bridge_lock_native", 1, 3, 6, 1) @@ [event |-> e1],
     Release(3, 3, {v1, v2}), Release(4, 1, {v1, v2, v3}), Release(5, 3, {v3}),
     Tx(6, "immune_node_activate", 2, 2, 1, 1), Tx(7, "sovereign_noise_proof", 2, 1, 1, 1),
     Tx(8, "inner_circle_purchase", 1, 3, 3, 1), Tx(9, "inner_circle_purchase", 1, 3, 9, 1)}

\* A grant to the treasury itself.
SelfGrantTxs == {Proposal(1, 3, 12), Vote(2, 1, TRUE), Execute(3, 1, 1)}

MCSlowWallets == {SelfGrantTxs, CitizenTxs}

MCWallets == {GovernanceTxs, SelfGrantTxs, CitizenTxs, ExchangeTxs, BridgeTxs}
=============================================================================
