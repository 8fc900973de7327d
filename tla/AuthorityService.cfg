SPECIFICATION ServiceSpec

CONSTANTS
    g1 = g1
    p1 = p1
    i1 = i1
    i2 = i2
    r1 = r1
    r1b = r1b
    r2 = r2
    a1 = a1
    a2 = a2
    a3 = a3
    A = A
    B = B
    h1 = h1
    h2 = h2
    None = None
    Grant = {g1}
    Permit = {p1}
    Invocation = {i1, i2}
    Request = {r1, r2}
    Attempt = {a1, a2}
    MaxAtomic = 4
    GrantOf <- MCGrantOf
    MaxTotal <- MCTightTotal
    MaxPerCall <- MCMaxPerCall
    InvocationOf <- MCInvocationOf
    PermitOf <- MCPermitOf
    Amount <- MCAmount
    Process = {A}
    Handler = {h1, h2}
    ProcessOf <- OneProcess
    Validity = 1
    Margin = 1
    HistoryLimit = 2
    LookupBlocks = 1
    MaxHeight = 6
    MaxCrashes = 1
    MaxStoreErrors = 1

SYMMETRY AttemptSymmetry

INVARIANTS
    ServiceTypeOK
    PaymentsAreCovered
    ConfirmedWasSettled
    VerdictsMatchTheRow
    BlockedRowsCanBeResolved
PROPERTY PromiseKept

CHECK_DEADLOCK FALSE
