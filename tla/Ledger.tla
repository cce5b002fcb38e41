------------------------------- MODULE Ledger -------------------------------
(***************************************************************************)
(* The replicated state of SYNTHOS that validator staking and fees act on  *)
(* (internal/chain: State, validator_staking.go, abci_support.go), as      *)
(* operators on one record.  The CometBFT application holds several copies *)
(* of it at once (committed, pending, check, on disk), so the component    *)
(* that has VARIABLES is CometApp.                                         *)
(*                                                                         *)
(* An account address is its rank 1..NumAccounts in string order: the code *)
(* breaks ties and orders payouts by comparing addresses.  A consensus key *)
(* is a number too; 0 stands for the empty string.  A validator that is    *)
(* not registered has the record NoRecord.                                 *)
(***************************************************************************)
EXTENDS Integers, Sequences, FiniteSets, Sums

CONSTANTS
    NumAccounts,         \* how many accounts exist
    NumKeys,             \* how many consensus keys exist
    Treasury,            \* State.TreasuryAddress
    MinSelfBond,         \* ValidatorStakingParams
    UnbondingBlocks,
    MaxActiveValidators, \* 0 = no cap
    EpochBlocks,
    SlashFractionBps,
    MaxUnbondingEntries, \* 16 in the code
    ActivationHeight,    \* FeeModelV2ActivationHeight, 102550 in the code
    FeeEpochBlocks,      \* 216000 in the code
    FeeFloor,            \* RequiredFee: 10, 1000 and 1000 in the code
    FeeCap,
    FeeUnit

Accounts == 1..NumAccounts
Keys == 1..NumKeys
NoKey == 0
NoOperator == 0

ASSUME AccountsAssumption == NumAccounts \in Nat \ {0}
ASSUME KeysAssumption == NumKeys \in Nat \ {0}
ASSUME TreasuryAssumption == Treasury \in Accounts
ASSUME SlashAssumption == SlashFractionBps \in Nat /\ 1 <= SlashFractionBps /\ SlashFractionBps <= 10000
ASSUME UnbondingAssumption == UnbondingBlocks \in Nat \ {0} /\ MaxUnbondingEntries \in Nat
ASSUME StakingAssumption ==
    /\ MinSelfBond \in Nat \ {0}
    /\ MaxActiveValidators \in Nat
    /\ EpochBlocks \in Nat \ {0}
    /\ ActivationHeight \in Nat
ASSUME FeeAssumption ==
    /\ FeeEpochBlocks \in Nat \ {0}
    /\ FeeFloor \in Nat \ {0}
    /\ FeeCap \in Nat
    /\ FeeUnit \in Nat \ {0}

UnbondingEntry == [amount : Nat, at : Nat]

ValidatorRecord ==
    [key : Keys \cup {NoKey}, bond : Nat, unbonding : Seq(UnbondingEntry),
     tombstoned : BOOLEAN]

NoRecord == [key |-> NoKey, bond |-> 0, unbonding |-> <<>>, tombstoned |-> FALSE]

\* "set" is ValidatorSetSnapshot as a map from key to power, 0 for a key that
\* is not in it; income, total and signed are the FeeEpoch* fields.  burned is
\* the running total of what the code reports as burned (FeeSplit.BurnAmount
\* and the result of SlashForDoubleSign), kept says that the last refresh of
\* the set found nobody eligible; the program stores neither.
State ==
    [bal : [Accounts -> Nat], nonce : [Accounts -> Nat],
     vals : [Accounts -> ValidatorRecord], set : [Keys -> Nat],
     income : Nat, total : Nat, signed : [Accounts -> Nat], burned : Nat,
     kept : BOOLEAN]

Tx ==
    [kind : {"transfer", "bond", "unbond", "withdraw"}, from : Accounts,
     to : Accounts, key : Keys \cup {NoKey}, amount : Nat \ {0},
     fee : Nat \ {0}, nonce : Nat]

-----------------------------------------------------------------------------
Registered(s, a) == s.vals[a].key # NoKey

validatorOperatorForKey(s, k) ==
    IF \E a \in Accounts : Registered(s, a) /\ s.vals[a].key = k
    THEN CHOOSE a \in Accounts : Registered(s, a) /\ s.vals[a].key = k
    ELSE NoOperator

AtMost(x, y) == IF x < y THEN x ELSE y
AtLeast(x, y) == IF x > y THEN x ELSE y

RequiredFee(tx) ==
    IF tx.kind = "transfer"
    THEN AtMost(FeeCap, AtLeast(FeeFloor, (tx.amount + FeeUnit - 1) \div FeeUnit))
    ELSE FeeFloor

\* The amounts of a list of unbonding entries, and their total.
Amounts(u) == [i \in 1..Len(u) |-> u[i].amount]
UnbondingTotal(u) == SumTo(Amounts(u), Len(u))

-----------------------------------------------------------------------------
(***************************************************************************)
(* One transaction.  Each kind has a guard (the checks that return an      *)
(* error) and an effect (the record written when all of them pass).        *)
(***************************************************************************)
TransferOk(s, tx) == s.bal[tx.from] >= tx.amount + tx.fee

\* Set(tx.To, ...) comes before Set(tx.From, ...) and both were read before.
Transfer(s, tx) ==
    [s EXCEPT !.bal = [@ EXCEPT ![tx.to] = s.bal[tx.to] + tx.amount,
                                ![tx.from] = s.bal[tx.from] - (tx.amount + tx.fee)],
              !.nonce[tx.from] = @ + 1]

\* The record is deleted once nothing is left in it, unless tombstoned.
StoredRecord(rec) ==
    IF rec.bond = 0 /\ rec.unbonding = <<>> /\ ~rec.tombstoned THEN NoRecord ELSE rec

\* Mutant: a new validator's key is not looked up among the others.
BondOk_NoKeyCheck(s, tx) ==
    LET rec == s.vals[tx.from]
    IN  /\ s.bal[tx.from] >= tx.amount + tx.fee
        /\ ~rec.tombstoned
        /\ IF Registered(s, tx.from) THEN tx.key \in {NoKey, rec.key} ELSE tx.key # NoKey
        /\ rec.bond + tx.amount >= MinSelfBond

BondOk(s, tx) ==
    LET rec == s.vals[tx.from]
    IN  /\ s.bal[tx.from] >= tx.amount + tx.fee
        /\ ~rec.tombstoned
        /\ IF Registered(s, tx.from)
           THEN tx.key \in {NoKey, rec.key}
           ELSE tx.key # NoKey /\ validatorOperatorForKey(s, tx.key) = NoOperator
        /\ rec.bond + tx.amount >= MinSelfBond

Bond(s, tx) ==
    LET rec == s.vals[tx.from]
        new == [rec EXCEPT !.key = IF Registered(s, tx.from) THEN @ ELSE tx.key,
                           !.bond = @ + tx.amount]
    IN  [s EXCEPT !.bal[tx.from] = @ - (tx.amount + tx.fee),
                  !.nonce[tx.from] = @ + 1,
                  !.vals[tx.from] = StoredRecord(new)]

UnbondOk(s, tx) ==
    LET rec == s.vals[tx.from]
    IN  /\ Registered(s, tx.from)
        /\ tx.amount <= rec.bond
        /\ rec.bond - tx.amount = 0 \/ rec.bond - tx.amount >= MinSelfBond
        /\ Len(rec.unbonding) < MaxUnbondingEntries
        /\ s.bal[tx.from] >= tx.fee

\* Mutant: the entry matures at once.
Unbond_NoDelay(s, tx, height) ==
    LET new == [s.vals[tx.from] EXCEPT
                  !.bond = @ - tx.amount,
                  !.unbonding = Append(@, [amount |-> tx.amount, at |-> height])]
    IN  [s EXCEPT !.bal[tx.from] = @ - tx.fee,
                  !.nonce[tx.from] = @ + 1,
                  !.vals[tx.from] = StoredRecord(new)]

Unbond(s, tx, height) ==
    LET entry == [amount |-> tx.amount, at |-> height + UnbondingBlocks]
        new == [s.vals[tx.from] EXCEPT !.bond = @ - tx.amount,
                                       !.unbonding = Append(@, entry)]
    IN  [s EXCEPT !.bal[tx.from] = @ - tx.fee,
                  !.nonce[tx.from] = @ + 1,
                  !.vals[tx.from] = StoredRecord(new)]

\* The loop of validator_withdraw: what has matured by height, and the
\* entries that stay, in their order.
Matured(u, height) ==
    SumTo([i \in 1..Len(u) |-> IF u[i].at <= height THEN u[i].amount ELSE 0], Len(u))

StillPending(u, height) ==
    LET kept[i \in 0..Len(u)] ==
            IF i = 0 THEN <<>>
            ELSE IF u[i].at <= height THEN kept[i-1] ELSE Append(kept[i-1], u[i])
    IN  kept[Len(u)]

WithdrawOk(s, tx, height) ==
    LET matured == Matured(s.vals[tx.from].unbonding, height)
    IN  /\ Registered(s, tx.from)
        /\ matured # 0
        /\ s.bal[tx.from] + matured >= tx.fee

\* Mutant: matured entries are paid out and kept.
Withdraw_KeepsEntries(s, tx, height) ==
    [s EXCEPT !.bal[tx.from] = @ + Matured(s.vals[tx.from].unbonding, height) - tx.fee,
              !.nonce[tx.from] = @ + 1]

Withdraw(s, tx, height) ==
    LET rec == s.vals[tx.from]
        new == [rec EXCEPT !.unbonding = StillPending(@, height)]
    IN  [s EXCEPT !.bal[tx.from] = @ + Matured(rec.unbonding, height) - tx.fee,
                  !.nonce[tx.from] = @ + 1,
                  !.vals[tx.from] = StoredRecord(new)]

TxOk(s, tx, height) ==
    /\ height >= ActivationHeight => tx.fee >= RequiredFee(tx)
    /\ tx.nonce = s.nonce[tx.from]
    /\ \/ tx.kind = "transfer" /\ TransferOk(s, tx)
       \/ tx.kind = "bond" /\ BondOk(s, tx)
       \/ tx.kind = "unbond" /\ UnbondOk(s, tx)
       \/ tx.kind = "withdraw" /\ WithdrawOk(s, tx, height)

ApplyTransaction(s, tx, height) ==
    CASE tx.kind = "transfer" -> Transfer(s, tx)
      [] tx.kind = "bond" -> Bond(s, tx)
      [] tx.kind = "unbond" -> Unbond(s, tx, height)
      [] tx.kind = "withdraw" -> Withdraw(s, tx, height)

-----------------------------------------------------------------------------
(***************************************************************************)
(* What the end of a block does to the state, in the order of              *)
(* App.FinalizeBlock: fees, votes, epoch payout, slashing, validator set.  *)
(***************************************************************************)
BurnPart(fees) == (fees * 50) \div 100

\* creditProposerFees: what is not burned goes to the proposer's operator; a
\* proposer that no registered validator owns burns everything.
CreditProposerFees(s, fees, proposer) ==
    IF fees = 0 \/ proposer = NoOperator
    THEN [s EXCEPT !.burned = @ + fees]
    ELSE [s EXCEPT !.bal[proposer] = @ + (fees - BurnPart(fees)),
                   !.burned = @ + BurnPart(fees)]

ApplyBlockFees(s, fees, proposer, height) ==
    IF height < ActivationHeight
    THEN CreditProposerFees(s, fees, proposer)
    ELSE [s EXCEPT !.bal[Treasury] = @ + (fees - BurnPart(fees)),
                   !.income = @ + (fees - BurnPart(fees)),
                   !.burned = @ + BurnPart(fees)]

\* votes[k] is the power key k had when the last block was voted on (0: not a
\* validator then); commits holds the keys whose signature is in the commit.
CommittedPower(s, a, votes, commits) ==
    IF Registered(s, a) /\ s.vals[a].key \in commits THEN votes[s.vals[a].key] ELSE 0

RecordFeeEpochVotes(s, votes, commits) ==
    [s EXCEPT !.total = @ + SumTo(votes, NumKeys),
              !.signed = [a \in Accounts |-> @[a] + CommittedPower(s, a, votes, commits)]]

\* The shares of the epoch's pool, scaled down when the treasury holds less.
Shares(s) ==
    LET pool == s.income \div 2
        share == [a \in Accounts |-> (pool * s.signed[a]) \div s.total]
        sum == SumTo(share, NumAccounts)
    IN  IF sum > s.bal[Treasury]
        THEN [a \in Accounts |-> (share[a] * s.bal[Treasury]) \div sum]
        ELSE share

\* One operator is paid; the treasury may itself be an operator.
PayOne(bal, a, share) ==
    LET amt == AtMost(share, bal[Treasury])
        debited == [bal EXCEPT ![Treasury] = @ - amt]
    IN  [debited EXCEPT ![a] = @ + amt]

PayShares(bal, shares) ==
    LET paid[i \in 0..NumAccounts] ==
            IF i = 0 THEN bal ELSE PayOne(paid[i-1], i, shares[i])
    IN  paid[NumAccounts]

DistributeFeeEpochPayout(s) ==
    LET nothing == \/ s.total = 0
                   \/ s.income \div 2 = 0
                   \/ \A a \in Accounts : s.signed[a] = 0
    IN  [s EXCEPT !.bal = IF nothing THEN @ ELSE PayShares(@, Shares(s)),
                  !.income = 0, !.total = 0,
                  !.signed = [a \in Accounts |-> 0]]

IsFeeEpochEnd(height) ==
    height >= ActivationHeight /\ (height - ActivationHeight + 1) % FeeEpochBlocks = 0

SlashCut(amount) == (amount * SlashFractionBps) \div 10000

\* slashAndTombstone: the new record and what was taken from the old one.
SlashedUnbonding(u) == [i \in 1..Len(u) |-> [u[i] EXCEPT !.amount = @ - SlashCut(@)]]
slashAndTombstone(rec) ==
    [rec EXCEPT !.bond = @ - SlashCut(@), !.unbonding = SlashedUnbonding(@),
                !.tombstoned = TRUE]
SlashedAmount(rec) ==
    SlashCut(rec.bond)
      + SumTo([i \in 1..Len(rec.unbonding) |-> SlashCut(rec.unbonding[i].amount)],
              Len(rec.unbonding))

\* SlashForDoubleSign finds nobody for a key without a record, and charges
\* one offense once.
Slashable(s, a, misbehavior) ==
    Registered(s, a) /\ s.vals[a].key \in misbehavior /\ ~s.vals[a].tombstoned

SlashForDoubleSign(s, misbehavior) ==
    [s EXCEPT
       !.vals = [a \in Accounts |-> IF Slashable(s, a, misbehavior)
                                    THEN slashAndTombstone(@[a]) ELSE @[a]],
       !.burned = @ + SumTo([a \in Accounts |-> IF Slashable(s, a, misbehavior)
                                                THEN SlashedAmount(s.vals[a]) ELSE 0],
                            NumAccounts)]

Eligible(s, a) ==
    Registered(s, a) /\ s.vals[a].bond >= MinSelfBond /\ ~s.vals[a].tombstoned

\* Sorted before: more self-bond first, then the smaller address.
SortsBefore(s, a, b) ==
    \/ s.vals[a].bond > s.vals[b].bond
    \/ s.vals[a].bond = s.vals[b].bond /\ a < b

InActiveSet(s, a) ==
    /\ Eligible(s, a)
    /\ \/ MaxActiveValidators = 0
       \/ Cardinality({b \in Accounts : Eligible(s, b) /\ SortsBefore(s, b, a)})
            < MaxActiveValidators

ActiveValidatorSet(s) ==
    [k \in Keys |-> LET a == validatorOperatorForKey(s, k)
                    IN  IF a # NoOperator /\ InActiveSet(s, a) THEN s.vals[a].bond ELSE 0]

EmptySet == [k \in Keys |-> 0]

\* CometBFT cannot run with an empty set, so an empty one is not installed.
RefreshValidatorSet(s) ==
    IF ActiveValidatorSet(s) = EmptySet
    THEN [s EXCEPT !.kept = TRUE]
    ELSE [s EXCEPT !.set = ActiveValidatorSet(s), !.kept = FALSE]

\* Everything App.FinalizeBlock does after the block's transactions.
EndBlock(s, fees, proposer, height, votes, commits, misbehavior) ==
    LET afterFees == ApplyBlockFees(s, fees, proposer, height)
        afterVotes == IF height >= ActivationHeight
                      THEN RecordFeeEpochVotes(afterFees, votes, commits)
                      ELSE afterFees
        afterPayout == IF IsFeeEpochEnd(height)
                       THEN DistributeFeeEpochPayout(afterVotes) ELSE afterVotes
        slashedAny == \E a \in Accounts : Slashable(afterPayout, a, misbehavior)
        afterSlash == SlashForDoubleSign(afterPayout, misbehavior)
    IN  IF slashedAny \/ height % EpochBlocks = 0
        THEN RefreshValidatorSet(afterSlash) ELSE afterSlash

\* validatorUpdates: the powers CometBFT is told to set, -1 for a key it is
\* told nothing about.
NoUpdate == -1
\* Mutant: validators that left the set are not reported.
validatorUpdates_NoRemovals(from, to) ==
    [k \in Keys |-> IF from[k] = to[k] \/ to[k] = 0 THEN NoUpdate ELSE to[k]]

validatorUpdates(from, to) ==
    [k \in Keys |-> IF from[k] = to[k] THEN NoUpdate ELSE to[k]]

-----------------------------------------------------------------------------
(***************************************************************************)
(* What the invariants of the application are about.                       *)
(***************************************************************************)
TotalStake(s) == SumTo(s.bal, NumAccounts)

\* What staking holds of each account: self-bond and unbonding entries.
Locked(s) == [a \in Accounts |-> s.vals[a].bond + UnbondingTotal(s.vals[a].unbonding)]
TotalValidatorLocked(s) == SumTo(Locked(s), NumAccounts)

\* All SYN in existence or accounted as burned.
Worth(s) == TotalStake(s) + TotalValidatorLocked(s) + s.burned

UniqueKeys(s) ==
    \A a, b \in Accounts :
        a # b /\ Registered(s, a) /\ Registered(s, b) => s.vals[a].key # s.vals[b].key
=============================================================================
