\* Two callers, scenarios replaced at any time, requests the check must refuse.
CONSTANTS
    None = None
    Odd = Odd
    SupportedNetworks = {"sandbox"}
    Methods = {"POST"}
    Operations = {"summary"}
    MaxAtomicAmount = 9
    MaxAccepts = 3
    MaxRequestAge = 1
    MaxFutureSkew = 1
    Payer = "wallet"
    MaxResultBytes = 1
    MaxReasonCodes = 32
    MaxResultText = 6
    AuthorizationTtl = 1
    AuthorizationSkew = 1
    c1 = c1
    c2 = c2
    Connections = {c1, c2}
    Received <- MCReceived
    Prices <- MCPrices
    Terms <- MCTerms
    ServiceKey = "service"
    AuthorityKey = "authority"
    MaxScenarios = 1
    MaxNow = 2
SPECIFICATION PaidServiceSpec
INVARIANTS
    PaidServiceTypeOK
    SettledAsAuthorized
    ReportsAreAcknowledged
PROPERTY EveryRequestEnds
CHECK_DEADLOCK FALSE
