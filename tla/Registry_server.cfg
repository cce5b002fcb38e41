SPECIFICATION Spec
CONSTANTS
    Names = {1, 2}
    Keys = {k1, k2}
    Intents = {i1, i2}
    Hashes = {h1, h2}
    Requests = {1, 2}
    None = None
    k1 = k1
    k2 = k2
    i1 = i1
    i2 = i2
    h1 = h1
    h2 = h2
    pc = pc
    addr = addr
    other = other
    Scenes <- MCScenes
    Fresh = 1
    StaleAfter = 2
    ForgetAfter = 3
    Month = 3
    FirstUptime = 3
    RepeatUptime = 2
    StuckAfter = 1
    FirstReward = 2
    MonthlyReward = 1
    MonthlyCap = 3
INVARIANTS
    UptimeEarned
    TrustedWereApproved
    PaidOnceAMonth
    PaymentBuysOnce

    
CHECK_DEADLOCK FALSE
