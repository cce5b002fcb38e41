------------------------------ MODULE CometApp ------------------------------
(***************************************************************************)
(* The SYNTHOS application under CometBFT (cometapp/app/app.go): InitChain,*)
(* CheckTx, FinalizeBlock, Commit, and a restart from the state file.      *)
(*                                                                         *)
(* FinalizeBlock runs under the application's mutex and touches only the   *)
(* local clone "st" until it ends; it is split into BeginBlock, one step   *)
(* per transaction and EndFinalize, in the order of the code, so that a    *)
(* block may hold any number of transactions.  Commit is split where a     *)
(* crash matters: before and after the state file is renamed into place.   *)
(*                                                                         *)
(* CometBFT is external: it decides blocks, saves the FinalizeBlock        *)
(* response before Commit, replays the last block after a restart when the *)
(* application is one block behind, and moves the validator set two        *)
(* heights after an update (LastValidators, Validators, NextValidators).   *)
(* The transactions of a block are revealed as the application reaches     *)
(* them, and are the same ones when the block is replayed.                 *)
(***************************************************************************)
EXTENDS Ledger

CONSTANTS
    GenesisBalance, GenesisBond, GenesisKey, \* functions on Accounts
    Txs,          \* the signed transactions that exist
    MaxHeight,    \* bound: blocks decided
    MaxBlockTxs,  \* bound: transactions in a block
    MaxQueued,    \* bound: transactions of a sender admitted by CheckTx
    MaxCrashes,   \* bound: crashes
    NoState, NoBlock, NoResponse

ASSUME GenesisAssumption ==
    /\ GenesisBalance \in [Accounts -> Nat]
    /\ GenesisBond \in [Accounts -> Nat]
    /\ GenesisKey \in [Accounts -> Keys \cup {NoKey}]
    /\ \A a \in Accounts :
          /\ GenesisBond[a] <= GenesisBalance[a]
          /\ (GenesisBond[a] = 0) <=> (GenesisKey[a] = NoKey)
    /\ \A a, b \in Accounts :
          a # b /\ GenesisKey[a] # NoKey => GenesisKey[a] # GenesisKey[b]
    /\ \E a \in Accounts : GenesisBond[a] >= MinSelfBond

ASSUME TxsAssumption == Txs \subseteq Tx

Block == [proposer : Keys, commits : SUBSET Keys, misbehavior : SUBSET Keys,
          txs : Seq(Txs), sealed : BOOLEAN]

Response == [updates : [Keys -> Nat \cup {NoUpdate}], appHash : State]

\* The three values stand for nil pointers and empty stores.
ASSUME NilAssumption ==
    NoState \notin State /\ NoBlock \notin Block /\ NoResponse \notin Response

VARIABLES
    phase,     \* where the application is in its handlers
    committed, height, \* App.committed, App.height
    pending,   \* the clone FinalizeBlock works on, then App.pending
    exec,      \* FinalizeBlock's locals: proposer, fees of the applied, index
    check,     \* App.check
    disk,      \* the state file: [height, state]
    engine,    \* CometBFT: applied height and its validator sets
    block,     \* CometBFT: the decided block not yet applied
    response,  \* CometBFT: the saved FinalizeBlock response of that block
    crashes

appVars == <<phase, committed, height, pending, exec, check>>
engineVars == <<engine, block, response>>
vars == <<phase, committed, height, pending, exec, check, disk, engine, block,
          response, crashes>>

Supply == SumTo(GenesisBalance, NumAccounts)

\* BondGenesisValidator for every genesis validator, then the first set.
BondedGenesis ==
    [bal |-> [a \in Accounts |-> GenesisBalance[a] - GenesisBond[a]],
     nonce |-> [a \in Accounts |-> 0],
     vals |-> [a \in Accounts |-> [key |-> GenesisKey[a], bond |-> GenesisBond[a],
                                   unbonding |-> <<>>, tombstoned |-> FALSE]],
     set |-> EmptySet, income |-> 0, total |-> 0,
     signed |-> [a \in Accounts |-> 0], burned |-> 0, kept |-> FALSE]

GenesisState == [BondedGenesis EXCEPT !.set = ActiveValidatorSet(BondedGenesis)]

NoExec == [proposer |-> NoOperator, fees |-> 0, next |-> 0]

Init ==
    /\ phase = "new"
    /\ committed = NoState /\ height = 0
    /\ pending = NoState /\ exec = NoExec /\ check = NoState
    /\ disk = [height |-> 0, state |-> NoState]
    /\ engine = [height |-> 0, last |-> EmptySet, vals |-> EmptySet, next |-> EmptySet,
                 ever |-> {}]
    /\ block = NoBlock /\ response = NoResponse
    /\ crashes = 0

-----------------------------------------------------------------------------
Members(set) == {k \in Keys : set[k] > 0}

InitChain ==
    /\ phase = "new"
    /\ phase' = "idle"
    /\ committed' = GenesisState /\ height' = 0
    /\ check' = GenesisState
    /\ engine' = [engine EXCEPT !.vals = GenesisState.set, !.next = GenesisState.set,
                                !.ever = Members(GenesisState.set)]
    /\ UNCHANGED <<pending, exec, disk, block, response, crashes>>

CheckTx(tx) ==
    /\ phase \in {"idle", "finalized"}
    /\ check.nonce[tx.from] < committed.nonce[tx.from] + MaxQueued
    /\ TxOk(check, tx, height + 1)
    /\ check' = ApplyTransaction(check, tx, height + 1)
    /\ UNCHANGED <<phase, committed, height, pending, exec, disk, engineVars, crashes>>

\* CometBFT decides the next block.  Its last commit carries more than two
\* thirds of the power that voted on the previous one.
DecideBlock(proposer, commits, misbehavior) ==
    /\ phase # "new" /\ block = NoBlock
    /\ engine.height < MaxHeight
    /\ proposer \in Members(engine.vals)
    /\ commits \subseteq Members(engine.last)
    /\ 3 * SumTo([k \in Keys |-> IF k \in commits THEN engine.last[k] ELSE 0], NumKeys)
         > 2 * SumTo(engine.last, NumKeys) \/ engine.height = 0
    /\ misbehavior \subseteq engine.ever
    /\ block' = [proposer |-> proposer, commits |-> commits,
                 misbehavior |-> misbehavior, txs |-> <<>>, sealed |-> FALSE]
    /\ UNCHANGED <<appVars, disk, engine, response, crashes>>

\* Mutant: FinalizeBlock starts from the state CheckTx works on.
BeginBlock_OnCheckState ==
    /\ phase = "idle" /\ block # NoBlock /\ height = engine.height
    /\ phase' = "deliver"
    /\ pending' = check
    /\ exec' = [proposer |-> validatorOperatorForKey(check, block.proposer),
                fees |-> 0, next |-> 1]
    /\ UNCHANGED <<committed, height, check, disk, engineVars, crashes>>

BeginBlock ==
    /\ phase = "idle" /\ block # NoBlock /\ height = engine.height
    /\ phase' = "deliver"
    /\ pending' = committed
    /\ exec' = [proposer |-> validatorOperatorForKey(committed, block.proposer),
                fees |-> 0, next |-> 1]
    /\ UNCHANGED <<committed, height, check, disk, engineVars, crashes>>

\* One iteration of the loop over req.Txs: a transaction that fails changes
\* nothing and pays no fee.
Execute(tx) ==
    /\ IF TxOk(pending, tx, height + 1)
       THEN /\ pending' = ApplyTransaction(pending, tx, height + 1)
            /\ exec' = [exec EXCEPT !.fees = @ + tx.fee, !.next = @ + 1]
       ELSE pending' = pending /\ exec' = [exec EXCEPT !.next = @ + 1]
    /\ UNCHANGED <<phase, committed, height, check, disk, engine, response, crashes>>

DeliverTx(tx) ==
    /\ phase = "deliver"
    /\ exec.next > Len(block.txs) /\ ~block.sealed /\ Len(block.txs) < MaxBlockTxs
    /\ block' = [block EXCEPT !.txs = Append(@, tx)]
    /\ Execute(tx)

RedeliverTx ==
    /\ phase = "deliver"
    /\ exec.next <= Len(block.txs)
    /\ Execute(block.txs[exec.next])
    /\ UNCHANGED block

EndFinalize ==
    /\ phase = "deliver"
    /\ exec.next > Len(block.txs)
    /\ phase' = "finalized"
    /\ pending' = EndBlock(pending, exec.fees, exec.proposer, height + 1,
                           engine.last, block.commits, block.misbehavior)
    /\ block' = [block EXCEPT !.sealed = TRUE]
    /\ response' = [updates |-> validatorUpdates(pending.set, pending'.set),
                    appHash |-> pending']
    /\ exec' = NoExec
    /\ UNCHANGED <<committed, height, check, disk, engine, crashes>>

\* Mutant: the height is not advanced.
Commit_SameHeight ==
    /\ phase = "finalized"
    /\ phase' = "persist"
    /\ committed' = pending
    /\ pending' = NoState
    /\ check' = pending
    /\ UNCHANGED <<height, exec, disk, engineVars, crashes>>

Commit ==
    /\ phase = "finalized"
    /\ phase' = "persist"
    /\ committed' = pending /\ height' = height + 1
    /\ pending' = NoState
    /\ check' = pending
    /\ UNCHANGED <<exec, disk, engineVars, crashes>>

\* Mutant: the file is labelled with the next block's height.
Persist_NextHeight ==
    /\ phase = "persist"
    /\ phase' = "idle"
    /\ disk' = [height |-> height + 1, state |-> committed]
    /\ UNCHANGED <<committed, height, pending, exec, check, engineVars, crashes>>

\* persistLocked: the rename at its end is what makes the block durable.
Persist ==
    /\ phase = "persist"
    /\ phase' = "idle"
    /\ disk' = [height |-> height, state |-> committed]
    /\ UNCHANGED <<committed, height, pending, exec, check, engineVars, crashes>>

\* CometBFT has the application's Commit (or finds after a restart that the
\* application has it) and applies the saved response to its own state.
EngineApply ==
    /\ phase = "idle" /\ block # NoBlock /\ height = engine.height + 1
    /\ LET next == [k \in Keys |-> IF response.updates[k] = NoUpdate THEN engine.next[k]
                                   ELSE response.updates[k]]
       IN  engine' = [height |-> height, last |-> engine.vals, vals |-> engine.next,
                      next |-> next, ever |-> engine.ever \cup Members(next)]
    /\ block' = NoBlock /\ response' = NoResponse
    /\ UNCHANGED <<appVars, disk, crashes>>

\* The process dies at any point and New() rebuilds it from the state file.
Crash ==
    /\ crashes < MaxCrashes
    /\ crashes' = crashes + 1
    /\ phase' = IF disk.state = NoState THEN "new" ELSE "idle"
    /\ committed' = disk.state /\ height' = disk.height
    /\ pending' = NoState /\ exec' = NoExec
    /\ check' = disk.state
    /\ UNCHANGED <<disk, engineVars>>

\* Every block the bound allows has been applied.
Bounded ==
    /\ engine.height = MaxHeight /\ block = NoBlock /\ phase = "idle"
    /\ UNCHANGED vars

Next ==
    \/ InitChain
    \/ \E tx \in Txs : CheckTx(tx)
    \/ \E p \in Keys, c, m \in SUBSET Keys : DecideBlock(p, c, m)
    \/ BeginBlock
    \/ \E tx \in Txs : DeliverTx(tx)
    \/ RedeliverTx
    \/ EndFinalize
    \/ Commit
    \/ Persist
    \/ EngineApply
    \/ Crash
    \/ Bounded

Spec == Init /\ [][Next]_vars

\* CometBFT drives a decided block through the handlers without pause.
Fairness ==
    /\ WF_vars(InitChain) /\ WF_vars(BeginBlock) /\ WF_vars(RedeliverTx)
    /\ WF_vars(EndFinalize) /\ WF_vars(Commit) /\ WF_vars(Persist)
    /\ WF_vars(EngineApply)

FairSpec == Spec /\ Fairness

-----------------------------------------------------------------------------
(***************************************************************************)
(* Properties.                                                             *)
(***************************************************************************)
States == State \cup {NoState}

\* The variables hold what the fields of App and of CometBFT's state can hold.
TypeOK ==
    /\ phase \in {"new", "idle", "deliver", "finalized", "persist"}
    /\ committed \in States /\ pending \in States /\ check \in States
    /\ height \in Nat
    /\ exec \in [proposer : Accounts \cup {NoOperator}, fees : Nat, next : Nat]
    /\ disk \in [height : Nat, state : States]
    /\ engine \in [height : Nat, last : [Keys -> Nat], vals : [Keys -> Nat],
                   next : [Keys -> Nat], ever : SUBSET Keys]
    /\ block \in Block \cup {NoBlock}
    /\ response \in Response \cup {NoResponse}
    /\ crashes \in Nat

Copies == {committed, pending, check, disk.state} \ {NoState}

\* No transaction, fee split, payout or slash creates SYN: in every copy of
\* the state, all holdings, what was burned and the fees of the block being
\* executed never exceed the genesis supply.
SupplyNeverGrows ==
    /\ \A s \in Copies : Worth(s) <= Supply
    /\ pending # NoState => Worth(pending) + exec.fees <= Supply

\* A consensus key belongs to at most one registered validator, through
\* bonds, exits, deleted records and new bonds with a key that became free.
ConsensusKeysUnique == \A s \in Copies : UniqueKeys(s)

\* Whoever is in the validator set in force has a record whose stake a
\* double-sign report can still slash, and is not one that already was
\* slashed - unless the last refresh found nobody eligible and kept the set.
InForceAccountable ==
    committed # NoState /\ ~committed.kept =>
        \A k \in Members(committed.set) :
            LET a == validatorOperatorForKey(committed, k)
            IN  a # NoOperator /\ ~committed.vals[a].tombstoned

\* The incremental updates the application returns leave CometBFT with
\* exactly the set the application keeps in its state, across restarts.
EngineSetMatchesSnapshot ==
    phase = "idle" /\ height = engine.height => engine.next = committed.set

\* CometBFT can resume only from an application that has its last applied
\* block, or the one after it.
AppWithinOneBlock ==
    /\ disk.height \in {engine.height, engine.height + 1}
    /\ disk.height = engine.height + 1 => response # NoResponse

\* A block that is executed again after a crash gives the same updates and
\* the same app hash as the first time.
ReplayGivesSameResult ==
    [][response # NoResponse /\ response' # NoResponse => response' = response]_vars

\* A decided block is applied, however often the node crashes on the way.
DecidedBlockApplied == block # NoBlock ~> block = NoBlock
=============================================================================
