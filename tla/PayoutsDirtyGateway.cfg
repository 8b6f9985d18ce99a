\* A gateway error that follows the broadcast.
SPECIFICATION UserSpec
CONSTANTS
    t1 = t1  t2 = t2  u1 = u1  u2 = u2  n1 = n1  n2 = n2
    h1 = h1  h2 = h2  k1 = k1  k2 = k2
    x0 = x0  x1 = x1  x2 = x2  x3 = x3  x4 = x4
    None = None
    Trades = {t1}
    Users = {u1}
    Notes = {n1}
    Nullifiers = {k1}
    Handlers = {h1}
    TxId = {x1, x2}
    Outcome <- OneWon
    Owner <- OwnerOfOne
    Wallets = {u1}
    CashoutTx <- NoCashout
    PrivateMode <- OneDirect
    DirectFallback = FALSE
    RegistryConfigured = TRUE
    AwaitDeposits = FALSE
    DirtyErrors = TRUE
SYMMETRY Symmetry
INVARIANTS
    PaidAtMostOnce
CHECK_DEADLOCK FALSE
