SPECIFICATION FairSpec
CONSTANTS
    N = 3
    Deployments <- Lossy
    PeerURLs <- AllPeers
    Balance = 1
    EquivocationPenalty = 4
PROPERTIES FollowersCatchUp NoWastedQuorum ImplementsLog
