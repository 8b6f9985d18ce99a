\* A settled market whose slug is used to create a market.
SPECIFICATION Spec
CONSTANTS
    p1 = p1  p2 = p2  u1 = u1  e1 = e1  e2 = e2  t1 = t1  t2 = t2  t3 = t3
    r1 = r1  r2 = r2  a1 = a1  a2 = a2
    None = None
    Polls = {p1}
    Users = {u1}
    Trades = {t1}
    Escrows = {e1}
    EscrowFrom <- OneUser
    Requests = {r1}
    Admins = {a1}
    InitialShares <- Even
    Decisions <- ResolveCancelPublish
    Edits <- FreezeResolve
    Managed = {p1}
    SlugReuse = TRUE
    MaxPayments = 1
PROPERTIES
    SettledMarketsStay
CHECK_DEADLOCK FALSE
