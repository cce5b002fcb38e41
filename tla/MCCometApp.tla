----------------------------- MODULE MCCometApp -----------------------------
(***************************************************************************)
(* Instances of CometApp for TLC: three accounts (the third is the         *)
(* treasury), two consensus keys, and the transactions below.              *)
(***************************************************************************)
EXTENDS CometApp

CONSTANTS MaxNonce, TxFee

\* One validator at genesis, an account that may become one, and a treasury
\* that can be spent.
MCGenesisBalance == <<14, 14, 8>>
MCGenesisBond == <<2, 0, 0>>
MCGenesisKey == <<1, 0, 0>>

SignedTx(kind, from, to, key, amount, nonce) ==
    [kind |-> kind, from |-> from, to |-> to, key |-> key, amount |-> amount,
     fee |-> TxFee, nonce |-> nonce]

Nonces == 0..MaxNonce

\* Everything the two validators can do with their stake.
StakingTxs ==
    {SignedTx("bond", a, a, k, 2, n) : a \in {1, 2}, k \in 0..NumKeys, n \in Nonces}
      \cup {SignedTx("unbond", a, a, NoKey, 2, n) : a \in {1, 2}, n \in Nonces}
      \cup {SignedTx("withdraw", a, a, NoKey, 1, n) : a \in {1, 2}, n \in Nonces}

\* A few of them, for the runs that crash the node.
CrashTxs ==
    {SignedTx("bond", 2, 2, k, 2, n) : k \in Keys, n \in Nonces}
      \cup {SignedTx("unbond", 1, 1, NoKey, 2, n) : n \in Nonces}
      \cup {SignedTx("withdraw", 1, 1, NoKey, 1, n) : n \in Nonces}

\* A transfer to oneself, and one by which the treasury spends what the epoch
\* payout would share.
TransferTxs ==
    {SignedTx("transfer", 2, 2, NoKey, 3, 0), SignedTx("transfer", 3, 1, NoKey, 3, 0)}

ValidatorTxs == StakingTxs \cup TransferTxs
=============================================================================
