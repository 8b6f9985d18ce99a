\* Users and administrators together; one winner with a shielded private claim,
\* one loser of the same user.
SPECIFICATION Spec
CONSTANTS
    t1 = t1  t2 = t2  u1 = u1  u2 = u2  n1 = n1  n2 = n2
    h1 = h1  h2 = h2  k1 = k1  k2 = k2
    x0 = x0  x1 = x1  x2 = x2  x3 = x3  x4 = x4
    None = None
    Trades = {t1, t2}
    Users = {u1, u2}
    Notes = {n1}
    Nullifiers = {k1}
    Handlers = {h1, h2}
    TxId = {x1, x2, x3}
    Outcome <- WonAndLost
    Owner <- OneOwner
    Wallets = {u1, u2}
    CashoutTx <- NoCashout
    PrivateMode <- ShieldedAndDirect
    DirectFallback = TRUE
    RegistryConfigured = FALSE
    AwaitDeposits = FALSE
    DirtyErrors = FALSE
SYMMETRY Symmetry
INVARIANTS
    LosersNeverPaid
    OneLockedSection
CHECK_DEADLOCK FALSE
