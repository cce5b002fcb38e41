SPECIFICATION Spec
CONSTANTS
    NumAccounts = 4
    Treasury = 3
    Founder = 1
    PoolAddr = 4
    p1 = p1
    e1 = e1
    v1 = v1
    v2 = v2
    v3 = v3
    Proposals = {p1}
    Events = {e1}
    BridgeValidators = {v1, v2, v3}
    BridgeQuorum = 0
    RewardRate = 1
    RewardBase = 3
    QuorumBps = 500
    InnerCirclePrice = 9
    MaxUint = 1048575
    Wallets <- MCWallets
    SlowWallets <- MCSlowWallets
    GenesisBalance <- MCGenesisBalance
    Proposer = 1
    BurnPercent = 50
    Debits <- MCDebits
    MaxBlockTxs = 2
    MaxCitizenClockSkew = 1
    NoBlock = NoBlock
    NoTx = NoTx
    MaxPool = 2
    MaxSubmitted = 5
    MaxHeight = 4
    MaxTime = 2
INVARIANTS BuiltBlockValidates 
PROPERTIES  OnlySelfGrantsInflate
