------------------------------- MODULE Evidence -------------------------------
(***************************************************************************)
(* The portable evidence of one invocation: how the authority builds it    *)
(* (src/apps/authority/src/evidence-export.ts), its strict schema and its  *)
(* verification against pinned keys (src/packages/evidence/src).           *)
(*                                                                         *)
(* An invocation is the store's record; a bundle is a record of artifacts  *)
(* and a manifest signed over their digests.  A verification is a set of   *)
(* claims, each with its status and whether a valid bundle requires it.    *)
(***************************************************************************)
EXTENDS Payments

CONSTANTS
    MaxReasonCodes,         \* MAX_REASON_CODES of parse.ts
    MaxResultText,          \* MAX_RESULT_BASE64, in bytes of the result
    AuthorizationTtl,       \* SERVICE_AUTHORIZATION_TTL_MS
    AuthorizationSkew       \* the 30 s a service allows before issuedAt

ASSUME EvidenceAssumption ==
    {MaxReasonCodes, MaxResultText, AuthorizationTtl, AuthorizationSkew} \subseteq Nat

\* A record with its signature by the key it names.
SignedBy(key, domain, fields) ==
    Joined(fields, [signature |-> Sign(key, domain, fields)])

\* The key a message names is trusted only when it is the pinned one.
VerifiesPinned(named, pinned, domain, signed) ==
    /\ named = pinned
    /\ Verifies(pinned, domain, Without(signed, "signature"), signed.signature)

-----------------------------------------------------------------------------
(* What the authority and the service sign.                                *)

\* #signServiceAuthorization
ServiceAuthorization(authority, request, paidRequest, requirement, now) ==
    SignedBy(authority, "service-authorization",
        [version |-> 1, authority |-> authority, invocationId |-> request.invocationId,
         grantId |-> request.grantId,
         request |-> [method |-> paidRequest.method, url |-> paidRequest.url,
                      requestSha256 |-> paidRequest.sha256],
         operationDigest |-> Digest(request.operation),
         payment |-> [network |-> requirement.network, asset |-> requirement.asset,
                      payTo |-> requirement.payTo, amount |-> requirement.amount],
         issuedAt |-> now, expiresAt |-> now + AuthorizationTtl])

ServiceAuthorizationDigest(authorization) ==
    Digest(<<"service-authorization", authorization>>)

\* Slip: the authorization is good for any request while it lasts.
CheckAuthorizationOnly(received, pinnedAuthority, expectedPayment, now) ==
    LET authorization == received.authorization
    IN IF authorization = None THEN "SERVICE_AUTHORIZATION_REQUIRED"
       ELSE IF ~VerifiesPinned(authorization.authority, pinnedAuthority,
                               "service-authorization", authorization)
            THEN "SERVICE_AUTHORIZATION_INVALID"
       ELSE "ok"

\* checkServiceAuthorization, of a paid request as the service received it.
CheckServiceAuthorization(received, pinnedAuthority, expectedPayment, now) ==
    LET authorization == received.authorization
        digest == Digest([url |-> authorization.request.url, method |-> "POST",
                          body |-> received.body])
    IN IF authorization = None THEN "SERVICE_AUTHORIZATION_REQUIRED"
       ELSE IF ~VerifiesPinned(authorization.authority, pinnedAuthority,
                               "service-authorization", authorization)
            THEN "SERVICE_AUTHORIZATION_INVALID"
       ELSE IF now \notin (authorization.issuedAt - AuthorizationSkew)..authorization.expiresAt
            THEN "SERVICE_AUTHORIZATION_EXPIRED"
       ELSE IF \/ received.method # authorization.request.method
               \/ received.path # authorization.request.url.path
               \/ digest # authorization.request.requestSha256
               \/ received.invocationId # authorization.invocationId
            THEN "SERVICE_AUTHORIZATION_REQUEST_MISMATCH"
       ELSE IF \E field \in {"asset", "payTo", "amount"} :
                   authorization.payment[field] # expectedPayment[field]
            THEN "SERVICE_AUTHORIZATION_PAYMENT_MISMATCH"
       ELSE "ok"

\* The acknowledgement a service signs of what it accepted, did and sent.
ServiceAcknowledgement(service, received, terms, transaction, result, now) ==
    SignedBy(service, "service-acknowledgement",
        [version |-> 1, service |-> service,
         invocationId |-> received.invocationId,
         authorizationDigest |-> ServiceAuthorizationDigest(received.authorization),
         requestSha256 |-> Digest([url |-> received.authorization.request.url,
                                   method |-> "POST", body |-> received.body]),
         received |-> [method |-> received.method, resource |-> received.path,
                       operation |-> received.body[1], datasetId |-> received.body[2]],
         payment |-> [transaction |-> transaction, asset |-> terms.asset,
                      payTo |-> terms.payTo, amount |-> terms.amount],
         result |-> [httpStatus |-> 200, sha256 |-> result.sha256, bytes |-> result.bytes],
         fulfilledAt |-> now])

\* What an acknowledgement must say, to the authority as to the verifier.
AcknowledgementMatches(ack, id, authorization, sha256, operation, requirement, transactionId, result) ==
    /\ ack.invocationId = id
    /\ ack.authorizationDigest = ServiceAuthorizationDigest(authorization)
    /\ ack.requestSha256 = sha256
    /\ ack.received = operation
    /\ \A field \in {"asset", "payTo", "amount"} : ack.payment[field] = requirement[field]
    /\ ack.payment.transaction = transactionId
    /\ \A field \in {"httpStatus", "sha256", "bytes"} : ack.result[field] = result[field]

\* Slip: any acknowledgement signed by the service is kept.
AcceptSigned(ack, pinned, request, authorization, paidRequest, requirement, settlement, result) ==
    IF /\ ack # None /\ pinned # None
       /\ VerifiesPinned(ack.service, pinned, "service-acknowledgement", ack)
    THEN ack ELSE None

\* #acceptAcknowledgement: kept only if it verifies against the pinned key
\* and states exactly this purchase, otherwise dropped.
AcceptAcknowledgement(ack, pinned, request, authorization, paidRequest, requirement, settlement, result) ==
    IF /\ ack # None /\ pinned # None
       /\ VerifiesPinned(ack.service, pinned, "service-acknowledgement", ack)
       /\ AcknowledgementMatches(ack, request.invocationId, authorization, paidRequest.sha256,
                                 request.operation, requirement, settlement.transactionId, result)
    THEN ack ELSE None

\* The decision receipt, derived from the stored invocation alone.
DecisionReceipt(authority, row) ==
    LET request == row.request
    IN SignedBy(authority, "authorization-receipt",
        [version |-> 2, invocationId |-> row.invocationId, grantId |-> row.grantId,
         authority |-> authority, agent |-> row.agent, permitDigest |-> request.permitDigest,
         requestFingerprint |-> row.fingerprint,
         service |-> request.service, capability |-> request.capability,
         network |-> request.network, mint |-> request.mint,
         recipient |-> request.recipient, amount |-> row.amount,
         decision |-> IF row.state = "CONFIRMED" THEN "ALLOW" ELSE "DENY",
         reasonCodes |-> row.reasonCodes,
         paymentTransactionId |-> IF row.settlement = None THEN None
                                  ELSE row.settlement.transactionId,
         decidedAt |-> row.decidedAt, operation |-> request.operation,
         operationDigest |-> Digest(request.operation)])

-----------------------------------------------------------------------------
(* The export.                                                             *)

\* Null in the place of a digest.
NoDigest == <<"null">>

\* artifactDigest: every artifact under its own tag, null if absent.
ArtifactDigest(name, artifact) ==
    IF artifact = None THEN NoDigest ELSE Digest(<<name, artifact>>)

\* computeEvidenceDigests
EvidenceDigests(bundle) ==
    LET header == {"version", "environment", "identifiers", "manifest"}
    IN [name \in (DOMAIN bundle \ header) \cup {"operation"} |->
          CASE name = "permit" -> PermitDigest(bundle.permit)
            [] name = "operation" -> Digest(bundle.authorizationRequest.request.operation)
            [] OTHER -> ArtifactDigest(name, bundle[name])]

\* Why buildEvidenceBundle refuses this invocation, or "ok".
ExportProblem(row, authority) ==
    IF row.state = "RESERVED" THEN "EVIDENCE_NOT_FINAL"
    ELSE IF row.permit = None \/ row.request.version # 2 THEN "EVIDENCE_UNAVAILABLE"
    ELSE IF /\ row.state \in {"CONFIRMED", "DENIED"}
            /\ \/ row.receipt = None
               \/ row.receipt.version # 2
               \/ row.receipt.authority # authority
         THEN "EVIDENCE_UNAVAILABLE"
    ELSE IF /\ row.state = "CONFIRMED"
            /\ \/ row.result = None
               \/ row.result.body = None
               \/ row.settlement = None
         THEN "EVIDENCE_UNAVAILABLE"
    ELSE "ok"

\* The artifacts of an invocation.  The outbound request is derived again,
\* from the configured resource as it is now.
Artifacts(row, resource, version) ==
    LET paid == IF resource = None THEN None ELSE BuildPaidRequest(resource, row.request.operation)
        confirmed == row.state = "CONFIRMED"
        v1 == [version |-> 1,
               environment |-> [settlementProfile |-> row.permit.network],
               identifiers |-> [grantId |-> row.grantId, invocationId |-> row.invocationId],
               permit |-> row.permit,
               authorizationRequest |-> [request |-> row.request,
                                         agentSignature |-> row.agentSignature],
               authorityDecision |-> row.receipt,
               outboundRequest |-> IF row.requirement = None THEN None ELSE paid,
               requirement |-> row.requirement,
               attempt |-> row.attempt,
               settlement |-> IF confirmed THEN row.settlement ELSE None,
               result |-> IF confirmed THEN Without(row.result, "acknowledgement") ELSE None]
    IN IF version = 1 THEN v1
       ELSE Joined([version |-> 2,
                    serviceAuthorization |-> IF row.attempt = None THEN None
                                             ELSE row.serviceAuthorization,
                    serviceAcknowledgement |-> IF confirmed THEN row.result.acknowledgement
                                               ELSE None], v1)

\* buildEvidenceBundle, of an invocation without an ExportProblem.
BuildEvidenceBundle(row, resource, authority, version, now) ==
    LET artifacts == Artifacts(row, resource, version)
        manifest == SignedBy(authority, "evidence-manifest",
            [version |-> version, authority |-> authority, issuedAt |-> now,
             settlementProfile |-> row.permit.network,
             grantId |-> row.grantId, invocationId |-> row.invocationId,
             purchaseState |-> row.state,
             decision |-> IF row.state = "DENIED" THEN "DENY" ELSE "ALLOW",
             reasonCodes |-> row.reasonCodes,
             digests |-> EvidenceDigests(artifacts)])
    IN Joined(artifacts, [manifest |-> manifest])

=============================================================================
