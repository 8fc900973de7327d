\* Clocks that agree, a resource that stays, quotes and results inside the schema.
CONSTANTS
    None = None
    Odd = Odd
    SupportedNetworks = {"sandbox", "devnet"}
    Methods = {"POST"}
    Operations = {"summary"}
    MaxAtomicAmount = 9
    MaxAccepts = 3
    MaxRequestAge = 1
    MaxFutureSkew = 1
    Payer = "wallet"
    MaxResultBytes = 1
    MaxReasonCodes = 32
    MaxResultText = 6
    AuthorizationTtl = 1
    AuthorizationSkew = 1
    Permit <- MCPermit
    Asks <- MCAsks
    Skews <- NoSkew
    Answers <- MCAnswers
    OtherQuotes <- MCOtherQuotes
    Bodies <- ShortBodies
    Reports <- OneReport
    Resources <- OneResource
    Committed = {0, 2}
    Profile <- MCProfile
    ServiceTerms <- MCTerms
    Authority = "authority"
    Audience = "authority-1"
    Service = "service"
    HttpTimeout = 1
    MaxTime = 5
    MaxAttempts = 2
    MaxRetryTime = 1
SPECIFICATION TrailSpec
INVARIANTS
    TrailTypeOK
    ExportsVerify
    KeptAcknowledgementsVerify
    PaidAsSigned
    OnlineVerdictFollowsTheChain
    
    ExportsDoNotMix
PROPERTY AcceptedSoonAfterExpiry
CHECK_DEADLOCK FALSE
