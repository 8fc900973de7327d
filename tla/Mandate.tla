-------------------------------- MODULE Mandate --------------------------------
(***************************************************************************)
(* Permits and signed requests: src/packages/mandate/src.                  *)
(*                                                                         *)
(* A permit and a request are records with the fields of version 2.  Text  *)
(* that its pattern refuses is the value Odd, and an amount that is not a   *)
(* canonical integer is -1.  A signature is the pair of the key and what   *)
(* was signed, tagged with the domain, so that it verifies for that key,   *)
(* domain and contents only; a digest is the tagged value itself.          *)
(***************************************************************************)
EXTENDS Integers, Sequences, FiniteSets, Functions

CONSTANTS
    None,               \* null
    Odd,                \* text outside its pattern
    SupportedNetworks,  \* SUPPORTED_NETWORKS
    Methods,            \* OPERATION_METHODS
    Operations,         \* REPORT_OPERATIONS
    MaxAtomicAmount     \* MAX_ATOMIC_AMOUNT

ASSUME MandateAssumption ==
    /\ None # Odd
    /\ Odd \notin SupportedNetworks \cup Methods \cup Operations
    /\ MaxAtomicAmount \in Nat \ {0}

Digest(value) == <<"sha256", value>>

Sign(key, domain, value) == [key |-> key, over |-> <<domain, value>>]

\* Null in the place of a signature.
NoSignature == [key |-> None]

\* Whether `signature` is the named key's over this value in this domain.
Verifies(key, domain, value, signature) == signature = Sign(key, domain, value)

Without(record, field) == Restrict(record, DOMAIN record \ {field})

\* The fields of both; of a field of both, the value in `record`.
Joined(record, more) ==
    [field \in DOMAIN record \cup DOMAIN more |->
        IF field \in DOMAIN record THEN record[field] ELSE more[field]]

-----------------------------------------------------------------------------
(* The exact operation.                                                    *)

OperationFields == {"method", "resource", "operation", "datasetId"}

\* validateExactOperation: these four fields and no other.
ValidOperation(operation) ==
    /\ DOMAIN operation = OperationFields
    /\ operation.method \in Methods
    /\ operation.operation \in Operations
    /\ Odd \notin {operation.resource, operation.datasetId}

\* operationRequestBody: the method and the resource are not in the body.
OperationRequestBody(operation) == <<operation.operation, operation.datasetId>>

-----------------------------------------------------------------------------
(* The purchase permit.                                                    *)

PermitText == {"grantId", "issuer", "agent", "service", "capability", "mint", "recipient"}
PermitFields == PermitText \cup
    {"version", "network", "maxPerCall", "maxTotal", "issuedAt", "expiresAt",
     "subdelegation", "operation"}

\* validateSharedFields
ValidSharedFields(permit) ==
    /\ \A field \in PermitText : permit[field] # Odd
    /\ permit.network \in SupportedNetworks
    /\ permit.maxPerCall \in 1..MaxAtomicAmount
    /\ permit.maxTotal \in 1..MaxAtomicAmount
    /\ permit.maxPerCall <= permit.maxTotal
    /\ permit.issuedAt > 0
    /\ permit.expiresAt > permit.issuedAt
    /\ permit.subdelegation = FALSE

\* validateUnsignedPurchasePermitV2
ValidPermit(permit) ==
    /\ permit.version = 2
    /\ ValidSharedFields(permit)
    /\ ValidOperation(permit.operation)

\* Fields that are not a permit's are dropped, never signed and never read.
Copied(permit) ==
    [version |-> permit.version, grantId |-> permit.grantId, issuer |-> permit.issuer,
     agent |-> permit.agent, service |-> permit.service, capability |-> permit.capability,
     network |-> permit.network, mint |-> permit.mint, recipient |-> permit.recipient,
     maxPerCall |-> permit.maxPerCall, maxTotal |-> permit.maxTotal,
     issuedAt |-> permit.issuedAt, expiresAt |-> permit.expiresAt,
     subdelegation |-> permit.subdelegation, operation |-> permit.operation]

WithSignature(permit, signature) ==
    [version |-> permit.version, grantId |-> permit.grantId, issuer |-> permit.issuer,
     agent |-> permit.agent, service |-> permit.service, capability |-> permit.capability,
     network |-> permit.network, mint |-> permit.mint, recipient |-> permit.recipient,
     maxPerCall |-> permit.maxPerCall, maxTotal |-> permit.maxTotal,
     issuedAt |-> permit.issuedAt, expiresAt |-> permit.expiresAt,
     subdelegation |-> permit.subdelegation, operation |-> permit.operation,
     signature |-> signature]

\* signValidated: a permit that is not valid, or another issuer's, is not
\* signed.
SignPermit(permit, issuer) ==
    IF ValidPermit(permit) /\ permit.issuer = issuer
    THEN WithSignature(permit, Sign(issuer, "purchase-permit", Copied(permit)))
    ELSE None

\* verifyPurchasePermitV2: the key is the permit's own issuer.
VerifyPermit(permit) ==
    /\ ValidPermit(permit)
    /\ Verifies(permit.issuer, "purchase-permit", Copied(permit), permit.signature)

\* computePermitDigest: of the permit and its signature.
PermitDigest(permit) == Digest(WithSignature(permit, permit.signature))

-----------------------------------------------------------------------------
(* The signed request.                                                     *)

RequestText == {"audience", "grantId", "permitDigest", "invocationId", "service",
                "capability", "network", "mint", "recipient"}
RequestFields == RequestText \cup {"version", "amount", "issuedAt", "operation"}

\* validateAuthorizationRequestV2, with validateSharedRequestFields
ValidRequest(request) ==
    /\ DOMAIN request = RequestFields
    /\ request.version = 2
    /\ \A field \in RequestText : request[field] # Odd
    /\ request.amount >= 0
    /\ request.issuedAt > 0
    /\ ValidOperation(request.operation)

\* signAuthorizationRequest: a request that is not valid is not signed.
SignRequest(request, agent) ==
    IF ValidRequest(request) THEN Sign(agent, "authorization-request", request)
    ELSE NoSignature

\* verifyAuthorizationRequestSignature, against the permit's agent.
VerifyRequestSignature(request, signature, agent) ==
    Verifies(agent, "authorization-request", request, signature)

=============================================================================
