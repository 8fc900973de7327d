SPECIFICATION StoreSpec

CONSTANTS
    g1 = g1
    g2 = g2
    p1 = p1
    p2 = p2
    p3 = p3
    i1 = i1
    i2 = i2
    i3 = i3
    i4 = i4
    r1 = r1
    r1b = r1b
    r2 = r2
    r3 = r3
    r4 = r4
    a1 = a1
    None = None
    Grant = {g1, g2}
    Permit = {p1, p2, p3}
    Invocation = {i1, i2, i3, i4}
    Request = {r1, r1b, r2, r3, r4}
    Attempt = {a1}
    MaxAtomic = 4
    GrantOf <- MCGrantOf
    MaxTotal <- MCMaxTotal
    MaxPerCall <- MCMaxPerCall
    InvocationOf <- MCInvocationOf
    PermitOf <- MCPermitOf
    Amount <- MCAmount

INVARIANTS
    StoreTypeOK
    LedgerMatchesRows
    RowsUseThePinnedPermit
    BudgetNeverExceeded
    ReservationsCanBeReturned
    ReceiptsTellTheRow

PROPERTY DecisionsAreFinal
CHECK_DEADLOCK FALSE
