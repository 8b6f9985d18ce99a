SPECIFICATION ServicesSpec
CONSTANTS
    g1 = g1
    e1 = e1
    u1 = u1
    u2 = u2
    u3 = u3
    n1 = n1
    n2 = n2
    k1 = k1
    k2 = k2
    c1 = c1
    c2 = c2
    a1 = a1
    o1 = o1
    o2 = o2
    s1 = s1
    v1 = v1
    v2 = v2
    east = east
    west = west
    p1 = p1
    p2 = p2
    p3 = p3
    p4 = p4
    p5 = p5
    m1 = m1
    t1 = t1
    t2 = t2
    daily = daily
    herald = herald
    Owners = {g1, e1}
    ManagedOwners = {g1}
    Users = {u1, u2, u3}
    OwnerOf <- Holders
    Nonces = {n1, n2}
    NonceOf <- ForTheAddress
    Transfers = {o1, o2}
    Logins = {c1, c2}
    Readers = {c1}
    Retriers = {a1}
    Nobody = Nobody
    LastWallet = 2
    MaxRetries = 1
    Keys = {k1, k2}
    NoKey = NoKey
    Callers = {c1, c2, o1}
    Rotators = {a1}
    RateLimit = 1
    LastMinute = 1
    MaxResets = 1
    Subscribers = {u1, u2}
    Orders = {o1, o2}
    Settlers = {c1, c2}
    NoOrder = NoOrder
    Whole = 4
    MaxSwitches = 2
    MaxServed = 2
    Stories = {s1}
    Versions = {v1, v2}
    AllChoices = {east, west}
    ChoicesOf <- EastOrBoth
    Scanners = {c1, c2}
    Reviewers = {a1, o1}
    NoStory = NoStory
    NoVersion = NoVersion
    Articles = {p1, p2, p3, p4, p5}
    Words <- Titles
    Domain <- Publishers
    Primary = {p3}
    MaxFeed = 3
    MaxGroups = 2
    Polls = {m1}
    Trades = {t1, t2}
    NoTrade = NoTrade
    Stakes = {2}
    Returns = {4}
    Spends <- OneToken
    Buffer = 0
    MaxBalance = 4
    MaxMoving = 1
    Wallets = {u1, u2}
    Sponsored = {c1, c2}
    NoWallet = NoWallet
    Policies <- TightAndLoose
    DefaultPolicy <- Loose
    MaxUnrecorded = 1
INVARIANTS
    ServicesTypeOK
    SentOncePerAttempt
    ChallengeOpensOneSession
    RateLimited
    RotatedKeysAreDead
    ClosingToldOnce
    OneScan
    ApprovedHasItsPolls
    StoriesApart
    CorroboratedByTwo
    TreasuryCoversWhatIsOwed
    SponsoredWithinLimits
PROPERTIES
    LandedGrantBecomesSent
    SettlementToldOnce
    PriceAlertsAlternate
    ReviewIsFinal
CHECK_DEADLOCK FALSE
