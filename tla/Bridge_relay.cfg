CONSTANTS
    l1 = l1
    l2 = l2
    r1 = r1
    r2 = r2
    Locks = {l1, l2}
    Amount <- MCAmount
    ToEscrow = {l1}
    Relayers = {r1, r2}
    Scale = 2
    MinConfirmations = 1
    StartBlock = 1
    Fee = 1
    Float = 2
    MaxUnits = 2
    Scenes <- MCScenes
SPECIFICATION OperatedSpec
INVARIANTS  ProofsFinal
PROPERTIES LockMinted  ProofReleased
CHECK_DEADLOCK FALSE
