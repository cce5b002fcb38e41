SPECIFICATION FairSpec
CONSTANTS
    N = 3
    Deployments <- Retrying
    PeerURLs <- AllPeers
    Balance = 1
    EquivocationPenalty = 4
PROPERTY RetryFinalizes
