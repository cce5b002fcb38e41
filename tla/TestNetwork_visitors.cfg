SPECIFICATION Spec
CONSTANTS
    a1 = a1
    a2 = a2
    c1 = c1
    c2 = c2
    Addresses = {a1, a2}
    Faucet = Faucet
    Amount = 2
    Fee = 1
    Cooldown = 2
    MinInterval = 1
    MaxWait = 1
    PoolSize = 2
    RecentKeep = 2
    MaxSkew = 1
    NoRequest = NoRequest
    NoBlock = NoBlock
    NoAnnouncement = NoAnnouncement
    Scenes <- MCScenes
INVARIANT ActivityExact
PROPERTY PaidOncePerCooldown
PROPERTY DripsArrive
PROPERTY VisitorsPaid
PROPERTY AddressNeverGoesBack
