---------------------------- MODULE NativeState -----------------------------
(***************************************************************************)
(* What a transaction does to the state of the native chain outside        *)
(* validator staking (internal/chain/core.go ApplyTx): transfers of SYN    *)
(* and of an issued asset, citizen staking (citizen.go), treasury          *)
(* governance (governance.go), the constant-product exchange (core.go      *)
(* applyDEXTx and dex.go) and the records of the bridge and of the immune  *)
(* system.  Operators on one record: the chain applies them to clones.     *)
(*                                                                         *)
(* An address is its rank in string order.  One asset besides SYN has a    *)
(* pool; PoolAddr is the account that holds its reserves.  Amounts are     *)
(* uint64: where the code adds, subtracts or multiplies without a check    *)
(* the result is reduced modulo MaxUint + 1.                               *)
(***************************************************************************)
EXTENDS Integers, Sequences, FiniteSets, Sums

CONSTANTS
    NumAccounts,
    Treasury,         \* State.TreasuryAddress
    Founder,          \* State.GovernanceFounder
    PoolAddr,         \* PoolAddress(asset)
    Proposals,        \* ids a proposal may have
    Events,           \* bridge event ids, ours and the source chain's
    BridgeValidators,
    BridgeQuorum,     \* 0 = two thirds of BridgeValidators
    RewardRate,       \* CitizenRewardRateBpsPerYear
    RewardBase,       \* 10000 * SecondsPerYear
    QuorumBps,        \* GovernanceQuorumBasisPoints, 500 in the code
    InnerCirclePrice,
    MaxUint           \* math.MaxUint64

Accounts == 1..NumAccounts

ASSUME NativeConstants ==
    /\ NumAccounts \in Nat \ {0}
    /\ {Treasury, Founder, PoolAddr} \subseteq Accounts
    /\ Founder # PoolAddr /\ Treasury # PoolAddr
    /\ BridgeQuorum \in Nat /\ RewardRate \in Nat /\ RewardBase \in Nat \ {0}
    /\ QuorumBps \in Nat /\ InnerCirclePrice \in Nat /\ MaxUint \in Nat \ {0}

Wrap(x) == x % (MaxUint + 1)
Fits(x) == x <= MaxUint
Lesser(x, y) == IF x < y THEN x ELSE y

NoStake == [amount |-> 0, last |-> 0]
NoProposal ==
    [amount |-> 0, to |-> 0, votesFor |-> 0, votesAgainst |-> 0,
     active |-> FALSE, executed |-> FALSE, voters |-> {}]

\* immune[a] is 0 for an address that is not an immune node, else one more
\* than the proofs it has submitted.  locked and released are the two kinds of
\* bridge record; a release is identified by what its message id hashes.
State ==
    [bal : [Accounts -> Nat], asset : [Accounts -> Nat],
     nonce : [Accounts -> Nat],
     stake : [Accounts -> [amount : Nat, last : Nat]],
     props : [Proposals -> [amount : Nat, to : Accounts \cup {0},
                            votesFor : Nat, votesAgainst : Nat,
                            active : BOOLEAN, executed : BOOLEAN,
                            voters : SUBSET Accounts]],
     syn : Nat, tok : Nat, total : Nat, shares : [Accounts -> Nat],
     locked : SUBSET Events,
     released : SUBSET [event : Events, to : Accounts, asset : BOOLEAN,
                        amount : Nat],
     immune : [Accounts -> Nat]]

NewState(bal) ==
    [bal |-> bal, asset |-> [a \in Accounts |-> 0],
     nonce |-> [a \in Accounts |-> 0],
     stake |-> [a \in Accounts |-> NoStake],
     props |-> [p \in Proposals |-> NoProposal],
     syn |-> 0, tok |-> 0, total |-> 0, shares |-> [a \in Accounts |-> 0],
     locked |-> {}, released |-> {}, immune |-> [a \in Accounts |-> 0]]

\* A successful citizen, governance or exchange transaction takes the fee from
\* what its action left on the account, without looking again.
Settle(s, t) ==
    [s EXCEPT !.bal[t.from] = Wrap(@ - t.fee), !.nonce[t.from] = @ + 1]

-----------------------------------------------------------------------------
(* Transfers and the records that ride on them *)

Funded(s, t) ==
    IF t.asset
    THEN s.asset[t.from] >= t.amount /\ s.bal[t.from] >= t.fee
    ELSE Fits(t.amount + t.fee) /\ s.bal[t.from] >= t.amount + t.fee

Creditable(s, t) ==
    Fits(t.amount + IF t.asset THEN s.asset[t.to] ELSE s.bal[t.to])

\* Sender and recipient are read first and written last, the recipient before
\* the sender: a transfer to oneself keeps the debit and loses the credit.
Move(s, t) ==
    LET paid(h, out) ==
            [[h EXCEPT ![t.to] = @ + t.amount] EXCEPT ![t.from] = h[t.from] - out]
    IN  [s EXCEPT !.asset = IF t.asset THEN paid(@, t.amount) ELSE @,
                  !.bal = IF t.asset THEN [@ EXCEPT ![t.from] = @ - t.fee]
                          ELSE paid(@, t.amount + t.fee),
                  !.nonce[t.from] = @ + 1]

\* applyImmuneMetadata
ImmuneOk(s, t) == t.type = "sovereign_noise_proof" => s.immune[t.from] > 0

RecordImmune(s, t) ==
    CASE t.type = "immune_node_activate" ->
             [s EXCEPT !.immune[t.from] = IF @ = 0 THEN 1 ELSE @]
      [] t.type = "sovereign_noise_proof" -> [s EXCEPT !.immune[t.from] = @ + 1]
      [] OTHER -> s

\* verifyBridgeReleaseProofLocked: t.signers are the validators whose
\* signature over the message verifies.
RequiredSignatures ==
    IF BridgeQuorum = 0 THEN (2 * Cardinality(BridgeValidators) + 2) \div 3
    ELSE BridgeQuorum

ProofOk(t) ==
    /\ BridgeValidators # {}
    /\ RequiredSignatures \in 1..Cardinality(BridgeValidators)
    /\ Cardinality(t.signers \cap BridgeValidators) >= RequiredSignatures

Message(t) == [event |-> t.event, to |-> t.to, asset |-> t.asset, amount |-> t.amount]

\* applyBridgeMetadata
BridgeOk(s, t) ==
    /\ t.type = "bridge_lock_native" => t.event \notin s.locked
    /\ t.type = "bridge_release_native" =>
           ProofOk(t) /\ Message(t) \notin s.released

RecordBridge(s, t) ==
    CASE t.type = "bridge_lock_native" -> [s EXCEPT !.locked = @ \cup {t.event}]
      [] t.type = "bridge_release_native" ->
             [s EXCEPT !.released = @ \cup {Message(t)}]
      [] OTHER -> s

TransferTypes ==
    {"transfer", "inner_circle_purchase", "immune_node_activate",
     "sovereign_noise_proof", "bridge_lock_native", "bridge_release_native"}

TransferOk(s, t) ==
    /\ t.type = "inner_circle_purchase" => t.amount >= InnerCirclePrice
    /\ Funded(s, t)
    /\ Creditable(s, t)
    /\ ImmuneOk(s, t)
    /\ BridgeOk(s, t)

Transfer(s, t) == Move(RecordBridge(RecordImmune(s, t), t), t)

-----------------------------------------------------------------------------
(* Citizen staking *)

StakeCitizenOk(s, t) ==
    /\ Fits(t.amount + t.fee)
    /\ s.bal[t.from] >= t.amount + t.fee
    /\ Fits(s.stake[t.from].amount + t.amount)

\* A first stake starts the reward clock at the transaction's own time; more
\* stake leaves the clock alone.
StakeCitizen(s, t) ==
    [s EXCEPT !.bal[t.from] = @ - t.amount,
              !.stake[t.from] =
                  [amount |-> @.amount + t.amount,
                   last |-> IF @.amount = 0 THEN t.at ELSE @.last]]

\* Does not compare with the stake.
UnstakeCitizenOk(s, t) ==
    /\ t.amount \in 1..s.stake[t.from].amount
    /\ Fits(s.bal[t.from] + t.amount)

UnstakeCitizen(s, t) ==
    [s EXCEPT !.bal[t.from] = @ + t.amount,
              !.stake[t.from] = IF @.amount = t.amount THEN NoStake
                                ELSE [@ EXCEPT !.amount = @ - t.amount]]

pendingCitizenRewards(s, t) ==
    LET k == s.stake[t.from]
    IN  IF k.amount = 0 \/ t.at <= k.last THEN 0
        ELSE Wrap(k.amount * RewardRate * (t.at - k.last)) \div RewardBase

elapsedCoveredBySeconds(k, payout) ==
    Wrap(payout * RewardBase) \div Wrap(k.amount * RewardRate)

CitizenPayout(s, t) == Lesser(pendingCitizenRewards(s, t), s.bal[Treasury])

ClaimCitizenRewardsOk(s, t) ==
    /\ RewardRate > 0
    /\ t.from # Treasury => Fits(s.bal[t.from] + CitizenPayout(s, t))

\* Pays the claimant without debiting the treasury.
ClaimCitizenRewards_FromNowhere(s, t) ==
    [s EXCEPT !.bal[t.from] = @ + CitizenPayout(s, t), !.stake[t.from].last = t.at]

\* The treasury is debited before the claimant is read.
ClaimCitizenRewards(s, t) ==
    LET payout == CitizenPayout(s, t)
        clock(k) == IF payout = pendingCitizenRewards(s, t) THEN t.at
                    ELSE k.last + elapsedCoveredBySeconds(k, payout)
        debited == [s.bal EXCEPT ![Treasury] = @ - payout]
    IN  IF payout = 0 THEN s
        ELSE [s EXCEPT !.bal = [debited EXCEPT ![t.from] = @ + payout],
                       !.stake[t.from] = [@ EXCEPT !.last = clock(s.stake[t.from])]]

-----------------------------------------------------------------------------
(* Treasury governance *)

createGovernanceProposalOk(s, t) ==
    t.from = Founder /\ s.props[t.prop] = NoProposal

createGovernanceProposal(s, t) ==
    [s EXCEPT !.props[t.prop] =
        [NoProposal EXCEPT !.amount = t.grant, !.to = t.payee, !.active = TRUE]]

voteGovernanceOk(s, t) ==
    /\ s.props[t.prop].active
    /\ t.from \notin s.props[t.prop].voters
    /\ s.bal[t.from] > 0

voteGovernance(s, t) ==
    LET weight == s.bal[t.from]
    IN  [s EXCEPT !.props[t.prop] =
            [@ EXCEPT !.votesFor = IF t.inFavor THEN Wrap(@ + weight) ELSE @,
                      !.votesAgainst = IF t.inFavor THEN @ ELSE Wrap(@ + weight),
                      !.voters = @ \cup {t.from}]]

TotalStake(s) == Wrap(SumTo(s.bal, NumAccounts))

executeGovernanceProposalOk(s, t) ==
    LET p == s.props[t.prop]
    IN  /\ p.active /\ ~p.executed
        /\ p.votesFor > p.votesAgainst
        /\ TotalStake(s) > 0 =>
               p.votesFor >= Wrap(TotalStake(s) * QuorumBps) \div 10000
        /\ s.bal[Treasury] >= p.amount
        /\ Fits(s.bal[p.to] + p.amount)

\* Treasury and recipient are both read before either is written.
executeGovernanceProposal(s, t) ==
    LET p == s.props[t.prop]
        debited == [s.bal EXCEPT ![Treasury] = @ - p.amount]
    IN  [s EXCEPT !.bal = [debited EXCEPT ![p.to] = s.bal[p.to] + p.amount],
                  !.props[t.prop] = [@ EXCEPT !.active = FALSE, !.executed = TRUE]]

-----------------------------------------------------------------------------
(* The exchange *)

\* Newton's iteration of dex.go sqrtUint64: y falls until it is the root.
sqrtUint64(x) ==
    LET newton[y \in 0..x] ==
            LET z == IF y = 0 THEN 0 ELSE (x \div y + y) \div 2
            IN  IF z < y THEN newton[z] ELSE y
    IN  newton[x]

\* GetAmountOut, 0 where it reports an error.
GetAmountOut(in, reserveIn, reserveOut) ==
    LET taken == in * 997
    IN  IF /\ in > 0 /\ reserveIn > 0 /\ reserveOut > 0
           /\ Fits(taken * reserveOut) /\ Fits(reserveIn * 1000 + taken)
        THEN (taken * reserveOut) \div (reserveIn * 1000 + taken)
        ELSE 0

QuoteOk(in, reserveIn, reserveOut) ==
    /\ in > 0 /\ reserveIn > 0 /\ reserveOut > 0
    /\ Fits(in * 997 * reserveOut) /\ Fits(reserveIn * 1000 + in * 997)

\* The reserves are read back from the pool's account after every operation.
Refresh_KeepsReserve(s) == [s EXCEPT !.tok = s.asset[PoolAddr]]

Refresh(s) == [s EXCEPT !.syn = s.bal[PoolAddr], !.tok = s.asset[PoolAddr]]

AssetIssueOk(s, t) == s.bal[t.from] >= t.fee /\ Fits(s.asset[t.from] + t.amount)

AssetIssue(s, t) == [s EXCEPT !.asset[t.from] = @ + t.amount]

\* Rounds the share of a later provider up.
LiquidityShares_RoundsUp(s, t) ==
    IF s.total = 0 THEN sqrtUint64(Wrap(t.amount * t.tokens))
    ELSE Lesser((t.amount * s.total + s.syn - 1) \div s.syn,
                (t.tokens * s.total + s.tok - 1) \div s.tok)

LiquidityShares(s, t) ==
    IF s.total = 0
    THEN LET root == sqrtUint64(Wrap(t.amount * t.tokens))
         IN  IF root = 0 THEN t.amount ELSE root
    ELSE Lesser(Wrap(t.amount * s.total) \div s.syn,
                Wrap(t.tokens * s.total) \div s.tok)

AddLiquidityOk(s, t) ==
    /\ t.amount > 0 /\ t.tokens > 0
    /\ Fits(t.amount + t.fee)
    /\ s.bal[t.from] >= t.amount + t.fee
    /\ s.asset[t.from] >= t.tokens
    /\ s.total > 0 => s.syn > 0 /\ s.tok > 0
    /\ LiquidityShares(s, t) > 0
    /\ LiquidityShares(s, t) >= t.min

AddLiquidity(s, t) ==
    LET n == LiquidityShares(s, t)
    IN  Refresh([s EXCEPT !.bal = [@ EXCEPT ![PoolAddr] = Wrap(@ + t.amount),
                                            ![t.from] = @ - t.amount],
                          !.asset = [@ EXCEPT ![PoolAddr] = Wrap(@ + t.tokens),
                                              ![t.from] = @ - t.tokens],
                          !.total = Wrap(@ + n),
                          !.shares[t.from] = Wrap(@ + n)])

SynOut(s, n) == Wrap(n * s.syn) \div s.total
TokOut(s, n) == Wrap(n * s.tok) \div s.total

RemoveLiquidityOk(s, t) ==
    /\ t.amount > 0
    /\ s.bal[t.from] >= t.fee
    /\ s.total > 0
    /\ s.shares[t.from] >= t.amount
    /\ SynOut(s, t.amount) > 0 /\ TokOut(s, t.amount) > 0
    /\ SynOut(s, t.amount) >= t.min /\ TokOut(s, t.amount) >= t.minTokens
    /\ s.bal[PoolAddr] >= SynOut(s, t.amount)
    /\ s.asset[PoolAddr] >= TokOut(s, t.amount)

RemoveLiquidity(s, t) ==
    LET syn == SynOut(s, t.amount)
        tok == TokOut(s, t.amount)
    IN  Refresh([s EXCEPT !.bal = [@ EXCEPT ![PoolAddr] = @ - syn,
                                            ![t.from] = Wrap(@ + syn)],
                          !.asset = [@ EXCEPT ![PoolAddr] = @ - tok,
                                              ![t.from] = Wrap(@ + tok)],
                          !.total = @ - t.amount,
                          !.shares[t.from] = @ - t.amount])

SwapOk(s, t) ==
    /\ t.amount > 0 /\ s.syn > 0 /\ s.tok > 0
    /\ IF t.fromSyn
       THEN LET out == GetAmountOut(t.amount, s.syn, s.tok)
            IN  /\ Fits(t.amount + t.fee) /\ s.bal[t.from] >= t.amount + t.fee
                /\ QuoteOk(t.amount, s.syn, s.tok) /\ out >= t.min
                /\ out < s.tok /\ s.asset[PoolAddr] >= out
       ELSE LET out == GetAmountOut(t.amount, s.tok, s.syn)
            IN  /\ s.bal[t.from] >= t.fee /\ s.asset[t.from] >= t.amount
                /\ QuoteOk(t.amount, s.tok, s.syn) /\ out >= t.min
                /\ out < s.syn /\ s.bal[PoolAddr] >= out

Swap(s, t) ==
    LET out == IF t.fromSyn THEN GetAmountOut(t.amount, s.syn, s.tok)
               ELSE GetAmountOut(t.amount, s.tok, s.syn)
        given(h)   == [h EXCEPT ![PoolAddr] = Wrap(@ + t.amount), ![t.from] = @ - t.amount]
        taken(h)   == [h EXCEPT ![PoolAddr] = @ - out, ![t.from] = Wrap(@ + out)]
    IN  Refresh([s EXCEPT !.bal = IF t.fromSyn THEN given(@) ELSE taken(@),
                          !.asset = IF t.fromSyn THEN taken(@) ELSE given(@)])

-----------------------------------------------------------------------------
(* ApplyTx *)

TxOk(s, t) ==
    /\ t.nonce = s.nonce[t.from]
    /\ t.type \notin TransferTypes => s.bal[t.from] >= t.fee
    /\ CASE t.type = "citizen_stake" -> StakeCitizenOk(s, t)
         [] t.type = "citizen_unstake" -> UnstakeCitizenOk(s, t)
         [] t.type = "citizen_claim_rewards" -> ClaimCitizenRewardsOk(s, t)
         [] t.type = "governance_propose" -> createGovernanceProposalOk(s, t)
         [] t.type = "governance_vote" -> voteGovernanceOk(s, t)
         [] t.type = "governance_execute" -> executeGovernanceProposalOk(s, t)
         [] t.type = "asset_issue" -> AssetIssueOk(s, t)
         [] t.type = "dex_add_liquidity" -> AddLiquidityOk(s, t)
         [] t.type = "dex_remove_liquidity" -> RemoveLiquidityOk(s, t)
         [] t.type = "dex_swap" -> SwapOk(s, t)
         [] OTHER -> TransferOk(s, t)

ApplyTx(s, t) ==
    CASE t.type = "citizen_stake" -> Settle(StakeCitizen(s, t), t)
      [] t.type = "citizen_unstake" -> Settle(UnstakeCitizen(s, t), t)
      [] t.type = "citizen_claim_rewards" -> Settle(ClaimCitizenRewards(s, t), t)
      [] t.type = "governance_propose" -> Settle(createGovernanceProposal(s, t), t)
      [] t.type = "governance_vote" -> Settle(voteGovernance(s, t), t)
      [] t.type = "governance_execute" -> Settle(executeGovernanceProposal(s, t), t)
      [] t.type = "asset_issue" -> Settle(AssetIssue(s, t), t)
      [] t.type = "dex_add_liquidity" -> Settle(AddLiquidity(s, t), t)
      [] t.type = "dex_remove_liquidity" -> Settle(RemoveLiquidity(s, t), t)
      [] t.type = "dex_swap" -> Settle(Swap(s, t), t)
      [] OTHER -> Transfer(s, t)
=============================================================================
