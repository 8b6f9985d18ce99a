\* One administrator, two user requests, two markets, with faults.
SPECIFICATION Spec
CONSTANTS
    p1 = p1  p2 = p2  u1 = u1  e1 = e1  e2 = e2  t1 = t1  t2 = t2  t3 = t3
    r1 = r1  r2 = r2  a1 = a1  a2 = a2
    None = None
    Polls = {p1, p2}
    Users = {u1}
    Trades = {t1, t2}
    Escrows = {e1, e2}
    EscrowFrom <- OneUser
    Requests = {r1, r2}
    Admins = {a1}
    InitialShares <- EvenAndTilted
    Decisions <- ResolveCancelPublish
    Edits <- FreezeResolve
    Managed = {p1}
    SlugReuse = FALSE
    MaxPayments = 1
SYMMETRY Symmetry
INVARIANTS
    TypeOK
    EscrowBacksOneTrade
    SharesMatchOpenTrades
    SettlementComplete
    RecordedCashoutIsPaid
PROPERTIES
    KeepsPromise
CONSTRAINT SecondStaysOpen
CHECK_DEADLOCK FALSE
