SPECIFICATION FairSpec
CONSTANTS
    NumAccounts = 3
    NumKeys = 2
    Treasury = 3
    MinSelfBond = 2
    UnbondingBlocks = 1
    MaxActiveValidators = 0
    EpochBlocks = 1
    SlashFractionBps = 5000
    MaxUnbondingEntries = 2
    ActivationHeight = 100
    FeeEpochBlocks = 2
    FeeFloor = 1
    FeeCap = 2
    FeeUnit = 2
    GenesisBalance <- MCGenesisBalance
    GenesisBond <- MCGenesisBond
    GenesisKey <- MCGenesisKey
    Txs <- CrashTxs
    MaxNonce = 1
    TxFee = 1
    MaxHeight = 3
    MaxBlockTxs = 1
    MaxQueued = 1
    MaxCrashes = 1
    NoState = NoState
    NoBlock = NoBlock
    NoResponse = NoResponse
INVARIANT EngineSetMatchesSnapshot
INVARIANT AppWithinOneBlock
PROPERTY ReplayGivesSameResult
PROPERTY DecidedBlockApplied
