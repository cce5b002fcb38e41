SPECIFICATION Spec
CONSTANTS
    N = 3
    Deployments <- Safe
    PeerURLs <- AllPeers
    Balance = 1
    EquivocationPenalty = 4
INVARIANTS ForksOnlyAtTip LockHolds NoFalseEquivocation
