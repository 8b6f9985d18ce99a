\* User claims, direct payouts, a gateway whose errors are clean.
SPECIFICATION UserSpec
CONSTANTS
    t1 = t1  t2 = t2  u1 = u1  u2 = u2  n1 = n1  n2 = n2
    h1 = h1  h2 = h2  k1 = k1  k2 = k2
    x0 = x0  x1 = x1  x2 = x2  x3 = x3  x4 = x4
    None = None
    Trades = {t1, t2}
    Users = {u1, u2}
    Notes = {n1}
    Nullifiers = {k1, k2}
    Handlers = {h1, h2}
    TxId = {x0, x1, x2, x3}
    Outcome <- WonAndCashedOut
    Owner <- TwoOwners
    Wallets = {u1, u2}
    CashoutTx <- CashoutX0
    PrivateMode <- AllDirect
    DirectFallback = FALSE
    RegistryConfigured = TRUE
    AwaitDeposits = FALSE
    DirtyErrors = FALSE
SYMMETRY Symmetry
INVARIANTS
    TypeOK
    ClaimExclusive
    PaidAtMostOnce
PROPERTIES
    KeepsPromise
CHECK_DEADLOCK FALSE
