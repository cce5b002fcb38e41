SPECIFICATION Spec
CONSTANTS
    NumAccounts = 3
    NumKeys = 2
    Treasury = 3
    MinSelfBond = 2
    UnbondingBlocks = 2
    MaxActiveValidators = 0
    EpochBlocks = 3
    SlashFractionBps = 5000
    MaxUnbondingEntries = 2
    ActivationHeight = 2
    FeeEpochBlocks = 3
    FeeFloor = 2
    FeeCap = 4
    FeeUnit = 1
    GenesisBalance <- MCGenesisBalance
    GenesisBond <- MCGenesisBond
    GenesisKey <- MCGenesisKey
    Txs <- ValidatorTxs
    MaxNonce = 2
    TxFee = 4
    MaxHeight = 5
    MaxBlockTxs = 1
    MaxQueued = 0
    MaxCrashes = 0
    NoState = NoState
    NoBlock = NoBlock
    NoResponse = NoResponse
INVARIANT SupplyNeverGrows
INVARIANT ConsensusKeysUnique
 

