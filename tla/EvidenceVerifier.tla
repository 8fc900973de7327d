--------------------------- MODULE EvidenceVerifier ---------------------------
(***************************************************************************)
(* The standalone verification of a bundle: the strict schema of           *)
(* src/packages/evidence/src/parse.ts and the claims of verify.ts.  Trust  *)
(* is the verifier's own configuration: the issuer and authority keys, the *)
(* settlement profiles and, when one is pinned, the service's key.         *)
(***************************************************************************)
EXTENDS Evidence

-----------------------------------------------------------------------------
(* The schema.  Every record has exactly its fields, and text is bounded.  *)

PlainText(record, fields) == \A f \in fields : record[f] # Odd

ParsesOperation(operation) ==
    DOMAIN operation = OperationFields /\ PlainText(operation, OperationFields)

ParsesPermit(permit) ==
    /\ DOMAIN permit = PermitFields \cup {"signature"}
    /\ permit.version = 2
    /\ permit.subdelegation = FALSE
    /\ PlainText(permit, PermitText \cup {"network"})
    /\ permit.maxPerCall >= 0 /\ permit.maxTotal >= 0
    /\ permit.issuedAt >= 1 /\ permit.expiresAt >= 1
    /\ ParsesOperation(permit.operation)

ParsesAuthorizationRequest(authorizationRequest) ==
    LET request == authorizationRequest.request
    IN /\ DOMAIN authorizationRequest = {"request", "agentSignature"}
       /\ DOMAIN request = RequestFields
       /\ request.version = 2
       /\ PlainText(request, RequestText)
       /\ request.amount >= 0 /\ request.issuedAt >= 1
       /\ ParsesOperation(request.operation)

ParsesReceipt(receipt) ==
    /\ DOMAIN receipt =
         {"version", "invocationId", "grantId", "authority", "agent", "permitDigest",
          "requestFingerprint", "service", "capability", "network", "mint", "recipient",
          "amount", "decision", "reasonCodes", "paymentTransactionId", "decidedAt",
          "operation", "operationDigest", "signature"}
    /\ receipt.version = 2
    /\ PlainText(receipt, {"invocationId", "grantId", "authority", "agent", "service",
                           "capability", "network", "mint", "recipient",
                           "paymentTransactionId"})
    /\ receipt.decision \in {"ALLOW", "DENY"}
    /\ Cardinality(receipt.reasonCodes) <= MaxReasonCodes
    /\ receipt.amount >= 0 /\ receipt.decidedAt >= 1
    /\ ParsesOperation(receipt.operation)

ParsesOutboundRequest(outbound) ==
    /\ DOMAIN outbound = {"method", "url", "body", "sha256"}
    /\ outbound.method = "POST"
    /\ outbound.url # Odd

ParsesRequirement(requirement) ==
    /\ DOMAIN requirement =
         {"protocol", "x402Version", "acceptsIndex", "scheme", "network", "asset", "payTo",
          "amount", "feePayer", "maxTimeoutSeconds", "resourceUrl"}
    /\ requirement.protocol = "x402"
    /\ PlainText(requirement, {"scheme", "network", "asset", "payTo", "feePayer",
                               "maxTimeoutSeconds", "resourceUrl"})
    /\ requirement.amount >= 0

ParsesAttempt(attempt) ==
    /\ DOMAIN attempt =
         {"protocol", "scheme", "settlementProfile", "network", "payer", "payerSignature",
          "feePayer", "asset", "payTo", "amount", "blockhash", "resourceUrl",
          "requestSha256", "transaction", "preparedAt"}
    /\ attempt.protocol = "x402"
    /\ PlainText(attempt, {"scheme", "settlementProfile", "network", "payer", "feePayer",
                           "asset", "payTo", "resourceUrl"})
    /\ attempt.amount >= 0 /\ attempt.preparedAt >= 0

ParsesSettlement(settlement) ==
    /\ DOMAIN settlement = {"transactionId", "facilitatorReportedTransaction", "confirmedAt"}
    /\ PlainText(settlement, {"transactionId", "facilitatorReportedTransaction"})

ParsesResult(result) ==
    /\ DOMAIN result = {"httpStatus", "sha256", "bytes", "body"}
    /\ result.httpStatus >= 100
    /\ result.body.bytes <= MaxResultText

ParsesServiceAuthorization(authorization) ==
    /\ DOMAIN authorization =
         {"version", "authority", "invocationId", "grantId", "request", "operationDigest",
          "payment", "issuedAt", "expiresAt", "signature"}
    /\ authorization.version = 1
    /\ authorization.request.method = "POST"
    /\ PlainText(authorization.payment, {"network", "asset", "payTo"})
    /\ authorization.issuedAt >= 1 /\ authorization.expiresAt >= 1

ParsesServiceAcknowledgement(ack) ==
    /\ DOMAIN ack =
         {"version", "service", "invocationId", "authorizationDigest", "requestSha256",
          "received", "payment", "result", "fulfilledAt", "signature"}
    /\ ack.version = 1
    /\ PlainText(ack.payment, {"transaction", "asset", "payTo"})
    /\ ack.result.httpStatus >= 100
    /\ ack.fulfilledAt >= 1

V1Artifacts == {"permit", "authorizationRequest", "authorityDecision", "outboundRequest",
                "requirement", "attempt", "settlement", "result"}
V2Artifacts == V1Artifacts \cup {"serviceAuthorization", "serviceAcknowledgement"}

ArtifactsOf(version) == IF version = 2 THEN V2Artifacts ELSE V1Artifacts

ParsesManifest(manifest, version) ==
    /\ DOMAIN manifest =
         {"version", "authority", "issuedAt", "settlementProfile", "grantId", "invocationId",
          "purchaseState", "decision", "reasonCodes", "digests", "signature"}
    /\ manifest.version = version
    /\ manifest.purchaseState \in {"CONFIRMED", "DENIED", "FAILED", "RECONCILIATION_REQUIRED"}
    /\ manifest.decision \in {"ALLOW", "DENY"}
    /\ Cardinality(manifest.reasonCodes) <= MaxReasonCodes
    /\ manifest.issuedAt >= 1
    /\ DOMAIN manifest.digests = ArtifactsOf(version) \cup {"operation"}
    /\ \A f \in {"permit", "authorizationRequest", "operation"} : manifest.digests[f] # NoDigest

\* parseEvidenceBundle
Parses(bundle) ==
    /\ bundle.version \in {1, 2}
    /\ DOMAIN bundle = ArtifactsOf(bundle.version)
                         \cup {"version", "environment", "identifiers", "manifest"}
    /\ ParsesPermit(bundle.permit)
    /\ ParsesAuthorizationRequest(bundle.authorizationRequest)
    /\ bundle.authorityDecision # None => ParsesReceipt(bundle.authorityDecision)
    /\ bundle.outboundRequest # None => ParsesOutboundRequest(bundle.outboundRequest)
    /\ bundle.requirement # None => ParsesRequirement(bundle.requirement)
    /\ bundle.attempt # None => ParsesAttempt(bundle.attempt)
    /\ bundle.settlement # None => ParsesSettlement(bundle.settlement)
    /\ bundle.result # None => ParsesResult(bundle.result)
    /\ ParsesManifest(bundle.manifest, bundle.version)
    /\ bundle.version = 2 =>
          /\ bundle.serviceAuthorization # None =>
                ParsesServiceAuthorization(bundle.serviceAuthorization)
          /\ bundle.serviceAcknowledgement # None =>
                ParsesServiceAcknowledgement(bundle.serviceAcknowledgement)

-----------------------------------------------------------------------------
(* The claims.                                                             *)

Claim(id, status, required) == {[id |-> id, status |-> status, required |-> required]}

\* A required claim that is verified or invalid.
Check(id, holds) == Claim(id, IF holds THEN "VERIFIED" ELSE "INVALID", TRUE)

\* overallOf
Overall(claims) ==
    LET unmet == {c \in claims : c.required /\ c.status # "VERIFIED"}
    IN IF \E c \in claims : c.status = "INVALID" THEN "INVALID"
       ELSE IF unmet = {} THEN "VALID"
       ELSE IF \A c \in unmet : c.status = "INDETERMINATE" THEN "INDETERMINATE"
       ELSE "INVALID"

AllowStates == {"CONFIRMED", "FAILED", "RECONCILIATION_REQUIRED"}

TrustClaims(bundle, trust) ==
    LET receipt == bundle.authorityDecision
    IN Check("issuer_trusted", bundle.permit.issuer = trust.issuer) \cup
       Check("authority_trusted",
             /\ bundle.manifest.authority = trust.authority
             /\ receipt # None => receipt.authority = trust.authority)

\* Slip: the digests are signed, and never computed again.
SignatureClaims(bundle, trust) ==
    Check("manifest_signature",
          VerifiesPinned(bundle.manifest.authority, trust.authority,
                         "evidence-manifest", bundle.manifest))

IntegrityClaims(bundle, trust) ==
    Check("manifest_signature",
          VerifiesPinned(bundle.manifest.authority, trust.authority,
                         "evidence-manifest", bundle.manifest)) \cup
    Check("artifact_digests",
          EvidenceDigests(Without(bundle, "manifest")) = bundle.manifest.digests)

\* Identifiers and the shape of the state agree in every artifact.
StateClaims(bundle) ==
    LET manifest == bundle.manifest
        state == manifest.purchaseState
        receipt == bundle.authorityDecision
        request == bundle.authorizationRequest.request
        ids == bundle.identifiers
        profile == bundle.environment.settlementProfile
    IN Check("state_consistent",
         /\ {manifest.grantId, bundle.permit.grantId, request.grantId} = {ids.grantId}
         /\ {manifest.invocationId, request.invocationId} = {ids.invocationId}
         /\ manifest.settlementProfile = profile /\ bundle.permit.network = profile
         /\ (manifest.decision = "DENY") <=> (state = "DENIED")
         /\ (receipt # None) <=> (state \in {"CONFIRMED", "DENIED"})
         /\ receipt # None =>
               /\ receipt.invocationId = ids.invocationId
               /\ receipt.grantId = ids.grantId
               /\ receipt.decision = manifest.decision
               /\ receipt.reasonCodes = manifest.reasonCodes
         /\ state = "CONFIRMED" =>
               None \notin {bundle.outboundRequest, bundle.requirement, bundle.attempt,
                            bundle.settlement, bundle.result}
         /\ state # "CONFIRMED" => bundle.settlement = None /\ bundle.result = None
         /\ state = "RECONCILIATION_REQUIRED" => bundle.attempt # None
         /\ state = "DENIED" => bundle.attempt = None
         /\ bundle.version = 2 =>
               /\ bundle.serviceAcknowledgement # None => state = "CONFIRMED"
               /\ bundle.serviceAuthorization # None => bundle.attempt # None)

AuthorizationClaims(bundle, trust) ==
    LET permit == bundle.permit
        request == bundle.authorizationRequest.request
        receipt == bundle.authorityDecision
        sameTerms == {"service", "capability", "network", "mint", "recipient", "amount",
                      "permitDigest", "operation"}
    IN Check("permit_signature", VerifyPermit(permit)) \cup
       Check("agent_request_signature",
             /\ ValidRequest(request)
             /\ VerifyRequestSignature(request, bundle.authorizationRequest.agentSignature,
                                       permit.agent)) \cup
       Check("request_bound_to_permit", request.permitDigest = PermitDigest(permit)) \cup
       IF receipt = None THEN Claim("authority_decision_signature", "NOT_CHECKED", FALSE)
       ELSE Check("authority_decision_signature",
             /\ VerifiesPinned(receipt.authority, trust.authority,
                               "authorization-receipt", receipt)
             /\ \A f \in sameTerms : receipt[f] = request[f]
             /\ receipt.agent = permit.agent
             /\ receipt.operationDigest = Digest(request.operation)
             /\ bundle.manifest.purchaseState = "CONFIRMED" =>
                   /\ bundle.settlement # None
                   /\ receipt.paymentTransactionId = bundle.settlement.transactionId)

\* The static policy, evaluated again at the time the agent signed.  The
\* budget is not static.
StaticCodes(permit, request) ==
    EvaluateExactOperation(permit.operation, request.operation) \cup
    (EvaluatePurchasePermit(permit, request, 0, request.issuedAt) \ {"TOTAL_BUDGET_EXCEEDED"})
    \cup Failing([PERMIT_NOT_YET_VALID |-> request.issuedAt < permit.issuedAt])

PolicyClaimCodes ==
    [permit_time_bounds        |-> {"PERMIT_EXPIRED", "PERMIT_NOT_YET_VALID"},
     service_capability_match  |-> {"SERVICE_MISMATCH", "CAPABILITY_MISMATCH"},
     network_profile_match     |-> {"NETWORK_MISMATCH"},
     mint_match                |-> {"MINT_MISMATCH"},
     recipient_match           |-> {"RECIPIENT_MISMATCH"},
     per_call_limit            |-> {"PER_CALL_LIMIT_EXCEEDED", "INVALID_AMOUNT"},
     method_resource_match     |-> {"OPERATION_METHOD_MISMATCH", "OPERATION_RESOURCE_MISMATCH"},
     operation_matches_permit  |-> {"OPERATION_NOT_AUTHORIZED"},
     operation_arguments_match |-> {"OPERATION_ARGUMENT_NOT_AUTHORIZED"}]

\* In a denial a failed condition is evidence; what is recomputed must then
\* be among the authority's reasons.
PolicyClaims(bundle) ==
    LET manifest == bundle.manifest
        allowed == manifest.purchaseState \in AllowStates
        codes == StaticCodes(bundle.permit, bundle.authorizationRequest.request)
        failed == IF allowed THEN "INVALID" ELSE "NOT_SATISFIED"
        id == "decision_matches_static_policy"
    IN (UNION {Claim(name, IF codes \cap PolicyClaimCodes[name] = {} THEN "VERIFIED" ELSE failed,
                     allowed) : name \in DOMAIN PolicyClaimCodes}) \cup
       IF allowed THEN Check(id, codes = {})
       ELSE IF codes # {} THEN Check(id, codes \subseteq manifest.reasonCodes)
       ELSE Claim(id, "AUTHORITY_ATTESTED", FALSE)

\* The outbound request is the authorized operation's, and what was paid for.
OutboundMatches(bundle) ==
    LET outbound == bundle.outboundRequest
        operation == bundle.authorizationRequest.request.operation
    IN /\ outbound # None
       /\ outbound.method = operation.method
       /\ outbound.url.path = operation.resource
       /\ outbound.body = OperationRequestBody(operation)
       /\ PaidRequestMatches(outbound, outbound.sha256)
       /\ bundle.requirement.resourceUrl = outbound.url
       /\ bundle.attempt # None => bundle.attempt.requestSha256 = outbound.sha256

PaymentClaims(bundle, trust) ==
    LET permit == bundle.permit
        request == bundle.authorizationRequest.request
        q == bundle.requirement
        attempt == bundle.attempt
        profiles == {p \in trust.profiles : p.name = permit.network}
        attemptClaims ==
            IF attempt = None
            THEN Claim("payment_attempt_matches_requirement", "NOT_CHECKED", FALSE) \cup
                 Claim("payment_transaction", "NOT_CHECKED", FALSE)
            ELSE Check("payment_attempt_matches_requirement",
                     /\ \A f \in {"scheme", "network", "asset", "payTo", "amount",
                                  "feePayer", "resourceUrl"} : attempt[f] = q[f]
                     /\ attempt.feePayer # attempt.payer) \cup
                 Check("payment_transaction",
                     /\ ValidateExactPaymentTransaction(attempt.transaction, attempt)
                     /\ attempt.transaction.payerSignature = attempt.payerSignature
                     /\ VerifyTransactionPayerSignature(attempt.transaction, attempt.payer))
    IN IF bundle.manifest.purchaseState \notin AllowStates \/ q = None
       THEN Claim("settlement_profile_match", "NOT_CHECKED", FALSE)
       ELSE Check("settlement_profile_match", \E p \in profiles :
                /\ bundle.manifest.settlementProfile = p.name
                /\ q.protocol = p.protocol /\ q.x402Version = p.x402Version
                /\ q.scheme = p.scheme
                /\ q.network \in p.acceptedNetworks
                /\ q.asset \in p.allowedAssets
                /\ attempt # None =>
                      /\ attempt.settlementProfile = p.name
                      /\ attempt.blockhash.prefix = p.requiredBlockhashPrefix) \cup
            Check("x402_asset_matches", {q.asset, permit.mint} = {request.mint}) \cup
            Check("x402_recipient_matches", {q.payTo, permit.recipient} = {request.recipient}) \cup
            Check("x402_amount_matches",
                  q.amount = request.amount /\ q.amount <= permit.maxPerCall) \cup
            Check("outbound_request_matches_operation", OutboundMatches(bundle)) \cup
            attemptClaims

ResultClaims(bundle) ==
    LET result == bundle.result
    IN IF result = None THEN Claim("result_digest", "NOT_CHECKED", FALSE)
       ELSE Check("result_digest",
                  Digest(result.body) = result.sha256 /\ result.body.bytes = result.bytes) \cup
            Claim("result_observed_by_authority", "AUTHORITY_ATTESTED", FALSE)

BudgetClaims ==
    Claim("total_budget_decision", "AUTHORITY_ATTESTED", FALSE) \cup
    Claim("global_budget_completeness", "NOT_PROVABLE_FROM_BUNDLE", FALSE)

\* What the authority told the service: verified with the authority's key.
ServiceAuthorizationClaims(bundle, trust) ==
    LET authorization == bundle.serviceAuthorization
        request == bundle.authorizationRequest.request
        outbound == bundle.outboundRequest
    IN IF authorization = None THEN Claim("service_authorization", "NOT_CHECKED", FALSE)
       ELSE Check("service_authorization",
              /\ VerifiesPinned(authorization.authority, trust.authority,
                                "service-authorization", authorization)
              /\ authorization.invocationId = bundle.identifiers.invocationId
              /\ authorization.grantId = bundle.identifiers.grantId
              /\ outbound # None
              /\ authorization.request.url = outbound.url
              /\ authorization.request.requestSha256 = outbound.sha256
              /\ authorization.operationDigest = Digest(request.operation)
              /\ bundle.requirement # None
              /\ authorization.payment =
                    Restrict(bundle.requirement, {"network", "asset", "payTo", "amount"}))

\* serviceClaims: what the service said back needs a pinned service key, and
\* a confirmed purchase must then carry it.
ServiceClaims(bundle, trust) ==
    LET ack == bundle.serviceAcknowledgement
        request == bundle.authorizationRequest.request
    IN IF bundle.version = 1 THEN Claim("service_authorization", "NOT_CHECKED", FALSE)
       ELSE ServiceAuthorizationClaims(bundle, trust) \cup
            IF trust.service = None \/ bundle.manifest.purchaseState # "CONFIRMED"
            THEN Claim("service_acknowledgement", "NOT_CHECKED", FALSE)
            ELSE IF ack = None THEN Check("service_acknowledgement", FALSE)
            ELSE Check("service_trusted", ack.service = trust.service) \cup
                 Check("service_acknowledgement",
                    /\ VerifiesPinned(ack.service, trust.service,
                                      "service-acknowledgement", ack)
                    /\ bundle.serviceAuthorization # None
                    /\ None \notin {bundle.outboundRequest, bundle.requirement,
                                    bundle.settlement, bundle.result}
                    /\ AcknowledgementMatches(ack, bundle.identifiers.invocationId,
                           bundle.serviceAuthorization, bundle.outboundRequest.sha256,
                           request.operation, bundle.requirement,
                           bundle.settlement.transactionId, bundle.result))

\* settlementClaims.  Offline the authority's word is reported; online the
\* verifier's own RPC shows the transaction, or null when it does not answer,
\* is not the profile's, or does not have it.
SettlementClaims(bundle, mode, seen) ==
    LET state == bundle.manifest.purchaseState
        check == CheckSettledTransaction(seen, bundle.attempt)
        status == IF seen = None THEN "INDETERMINATE"
                  ELSE IF check = "settled"
                          /\ TransactionId(seen.message) = bundle.settlement.transactionId
                       THEN "VERIFIED" ELSE "INVALID"
    IN IF state # "CONFIRMED" \/ None \in {bundle.settlement, bundle.attempt}
       THEN Claim("settlement", IF state = "RECONCILIATION_REQUIRED" THEN "INDETERMINATE"
                                ELSE "NOT_CHECKED", FALSE)
       ELSE IF mode = "offline" THEN Claim("settlement", "AUTHORITY_ATTESTED", FALSE)
       ELSE Claim("settlement", status, TRUE)

\* verifyEvidenceBundle: the verdict.  A bundle outside the schema is judged
\* by nothing else.
VerifyEvidenceBundle(bundle, trust, mode, seen) ==
    IF ~Parses(bundle) THEN "INVALID"
    ELSE Overall(TrustClaims(bundle, trust) \cup IntegrityClaims(bundle, trust) \cup
                 StateClaims(bundle) \cup AuthorizationClaims(bundle, trust) \cup
                 PolicyClaims(bundle) \cup PaymentClaims(bundle, trust) \cup
                 ResultClaims(bundle) \cup BudgetClaims \cup
                 ServiceClaims(bundle, trust) \cup SettlementClaims(bundle, mode, seen))

=============================================================================
