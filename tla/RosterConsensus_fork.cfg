SPECIFICATION Spec
CONSTANTS
    N = 3
    Deployments <- Rotating
    PeerURLs <- AllPeers
    Balance = 1
    EquivocationPenalty = 4
INVARIANT Agreement
