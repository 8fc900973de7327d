\* A permit is installed, replaced while a purchase waits for its quote, and expires.
CONSTANTS
    None = None
    Odd = Odd
    SupportedNetworks = {"sandbox"}
    Methods = {"POST"}
    Operations = {"summary"}
    MaxAtomicAmount = 9
    MaxAccepts = 3
    MaxRequestAge = 1
    MaxFutureSkew = 1
    s1 = s1
    r1 = r1
    r2 = r2
    r3 = r3
    Session = {s1}
    Request = {r1, r2, r3}
    Approvals <- MCApprovals
    Terms <- MCTerms
    Strays <- MCStrays
    Tasks <- MCTasks
    Quotes <- MCQuotes
    Issuer = "human"
    Agent = "agent"
    Audience = "authority-1"
    Profile = "sandbox"
    Ttl = 1
    MaxApprovals = 2
    MaxNow = 3
SPECIFICATION FlowSpec
INVARIANTS
    OnlyApprovedIsAllowed
    HonestRequestsAuthenticate
    RunsHoldVerifiedPermits
CHECK_DEADLOCK FALSE
