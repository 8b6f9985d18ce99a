SPECIFICATION AccountsSpec
CONSTANTS
    g1 = g1
    u1 = u1
    c1 = c1
    o1 = o1
    o2 = o2
    Users = {u1}
    Owners = {g1}
    ManagedOwners = {g1}
    OwnerOf <- TheOwner
    Nonces = {}
    NonceOf <- NoChallenges
    Transfers = {o1, o2}
    Logins = {c1}
    Readers = {c1}
    Retriers = {}
    Nobody = Nobody
    LastWallet = 1
    MaxRetries = 1
PROPERTIES
    StalePendingRetried
CHECK_DEADLOCK FALSE
