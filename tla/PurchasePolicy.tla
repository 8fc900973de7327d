---------------------------- MODULE PurchasePolicy ----------------------------
(***************************************************************************)
(* What the authority decides with, as operators over records: the policy  *)
(* package (src/packages/policy/src), the challenge the provider obtains   *)
(* and normalizes (src/packages/payments/src/x402-exact-provider.ts), its  *)
(* validation (src/apps/authority/src/payment-challenge.ts), and the       *)
(* checks of AuthorityService that need no state (authorize.ts).           *)
(*                                                                         *)
(* Reason codes are sets: no check depends on their order.  An amount is a *)
(* number; text that is not a canonical integer is the number -1.          *)
(***************************************************************************)
EXTENDS Mandate

CONSTANTS
    MaxAccepts,         \* MAX_ACCEPTS
    MaxRequestAge,      \* maxRequestAgeMs
    MaxFutureSkew       \* maxFutureSkewMs

ASSUME PolicyAssumption == {MaxAccepts, MaxRequestAge, MaxFutureSkew} \subseteq Nat

\* The codes whose condition holds, of a function from codes to conditions.
Failing(condition) == {code \in DOMAIN condition : condition[code]}

-----------------------------------------------------------------------------
(* The policy package.                                                     *)

\* evaluatePurchasePermit.  An invalid amount ends the evaluation: neither
\* limit is looked at.  Every bound includes its limit.
EvaluatePurchasePermit(permit, terms, committed, now) ==
    LET amount == terms.amount
    IN Failing([PERMIT_EXPIRED      |-> now > permit.expiresAt,
                SERVICE_MISMATCH    |-> terms.service # permit.service,
                CAPABILITY_MISMATCH |-> terms.capability # permit.capability,
                NETWORK_MISMATCH    |-> terms.network # permit.network,
                MINT_MISMATCH       |-> terms.mint # permit.mint,
                RECIPIENT_MISMATCH  |-> terms.recipient # permit.recipient,
                INVALID_AMOUNT      |-> amount <= 0,
                PER_CALL_LIMIT_EXCEEDED |-> amount > 0 /\ amount > permit.maxPerCall,
                TOTAL_BUDGET_EXCEEDED   |-> amount > 0 /\ committed + amount > permit.maxTotal])

\* evaluateExactOperation: every field is the human-approved one.
EvaluateExactOperation(permitted, requested) ==
    Failing([OPERATION_METHOD_MISMATCH   |-> requested.method # permitted.method,
             OPERATION_RESOURCE_MISMATCH |-> requested.resource # permitted.resource,
             OPERATION_NOT_AUTHORIZED    |-> requested.operation # permitted.operation,
             OPERATION_ARGUMENT_NOT_AUTHORIZED |->
                 requested.datasetId # permitted.datasetId])

-----------------------------------------------------------------------------
(* The paid request and its challenge.                                     *)

\* buildPaidRequest: the registry's URL and the operation's body, or null
\* when the configured resource does not serve this method and path.
BuildPaidRequest(resource, operation) ==
    IF resource = None \/ resource.method # operation.method \/ resource.path # operation.resource
    THEN None
    ELSE LET fields == [url    |-> resource.url,
                        method |-> operation.method,
                        body   |-> OperationRequestBody(operation)]
         IN [url |-> fields.url, method |-> fields.method, body |-> fields.body,
             sha256 |-> Digest(fields)]

\* paidRequestMatches, with the digest recomputed from the fields.
PaidRequestMatches(request, expectedSha256) ==
    /\ Digest([url |-> request.url, method |-> request.method, body |-> request.body]) = request.sha256
    /\ request.sha256 = expectedSha256

Rejected(code) == [kind |-> "rejected", reasonCode |-> code]

\* normalizeChallenge: an answer to version 2 with between one and MaxAccepts
\* entries, of which the well-formed ones are kept, each with its place.
NormalizeChallenge(decoded, requestSha256) ==
    LET accepts == decoded.accepts
        wellFormed == {k \in DOMAIN accepts : accepts[k].amount >= 0}
        requirement(k) ==
            [protocol |-> "x402", x402Version |-> 2, acceptsIndex |-> k,
             scheme |-> accepts[k].scheme, network |-> accepts[k].network,
             asset |-> accepts[k].asset, payTo |-> accepts[k].payTo,
             amount |-> accepts[k].amount, feePayer |-> accepts[k].feePayer,
             maxTimeoutSeconds |-> accepts[k].maxTimeoutSeconds,
             resourceUrl |-> decoded.resourceUrl]
    IN IF decoded.x402Version # 2 THEN Rejected("UNSUPPORTED_PAYMENT_PROTOCOL")
       ELSE IF Len(accepts) \notin 1..MaxAccepts \/ wellFormed = {}
            THEN Rejected("CHALLENGE_MALFORMED")
       ELSE [kind |-> "challenge", requirements |-> {requirement(k) : k \in wellFormed},
             requestSha256 |-> requestSha256, raw |-> decoded]

\* fetchChallenge, of the service's answer to the unpaid request.  A service
\* that cannot be reached, or fails, is no decision at all.
FetchChallenge(request, answer) ==
    CASE answer.status = 0 \/ answer.status >= 500 -> [kind |-> "unavailable"]
      [] answer.status \in 300..399 -> Rejected("CHALLENGE_REDIRECT")
      [] answer.status # 402 /\ answer.status \in (1..299) \cup (400..499) ->
             Rejected("CHALLENGE_NOT_PAYMENT_REQUIRED")
      [] answer.status = 402 /\ answer.decoded = None -> Rejected("CHALLENGE_MALFORMED")
      [] OTHER -> NormalizeChallenge(answer.decoded,
                                     Digest([url |-> request.url, method |-> request.method,
                                             body |-> request.body]))

First(requirements) ==
    CHOOSE q \in requirements : \A o \in requirements : q.acceptsIndex <= o.acceptsIndex

\* Slip: the terms of the challenge are not compared with the signed request.
SelectLoosely(challenge, profile, paidRequest, request, payer) ==
    IF challenge.kind = "rejected"
    THEN [requirement |-> None, codes |-> {challenge.reasonCode}]
    ELSE [requirement |-> First(challenge.requirements), codes |-> {}]

\* selectAndValidateChallenge: the first requirement of the profile's scheme
\* on an accepted network, and what is wrong with it.
SelectAndValidateChallenge(challenge, profile, paidRequest, request, payer) ==
    IF challenge.kind = "rejected"
    THEN [requirement |-> None, codes |-> {challenge.reasonCode}]
    ELSE LET sameScheme == {q \in challenge.requirements : q.scheme = profile.scheme}
             candidates == {q \in sameScheme : q.network \in profile.acceptedNetworks}
             q == First(candidates)
         IN IF candidates = {}
            THEN [requirement |-> None,
                  codes |-> {IF sameScheme # {} THEN "CHALLENGE_NETWORK_MISMATCH"
                                                ELSE "UNSUPPORTED_PAYMENT_SCHEME"}]
            ELSE [requirement |-> q, codes |-> Failing(
                    [UNSUPPORTED_PAYMENT_PROTOCOL |->
                         q.protocol # profile.protocol \/ q.x402Version # profile.x402Version,
                     ASSET_NOT_ALLOWED |-> q.asset \notin profile.allowedAssets,
                     CHALLENGE_RESOURCE_MISMATCH |->
                         \/ q.resourceUrl # paidRequest.url
                         \/ challenge.requestSha256 # paidRequest.sha256,
                     CHALLENGE_FEE_PAYER_INVALID |-> q.feePayer \in {None, payer},
                     CHALLENGE_REQUEST_MISMATCH |->
                         \/ q.asset # request.mint
                         \/ q.payTo # request.recipient
                         \/ q.amount # request.amount])]

-----------------------------------------------------------------------------
(* AuthorityService.                                                       *)

\* #authenticate: the checks that fail; the first of them is the refusal.
\* Nothing is read or written but the clock.
Authenticate(input, issuer, profiles, audience, now) ==
    LET permit == input.permit
        request == input.request
    IN Failing(
        [AGENT_SIGNATURE_MISSING |-> input.signature = NoSignature,
         PERMIT_INVALID |-> ~VerifyPermit(permit),
         ISSUER_NOT_ENTITLED |-> permit.issuer # issuer \/ permit.network \notin profiles,
         AGENT_SIGNATURE_INVALID |->
             ~VerifyRequestSignature(request, input.signature, permit.agent),
         REQUEST_AUDIENCE_MISMATCH |-> request.audience # audience,
         REQUEST_GRANT_MISMATCH |-> request.grantId # permit.grantId,
         REQUEST_PERMIT_DIGEST_MISMATCH |-> request.permitDigest # PermitDigest(permit),
         REQUEST_TIMESTAMP_OUT_OF_RANGE |->
             request.issuedAt \notin (now - MaxRequestAge)..(now + MaxFutureSkew)])

\* computeRequestFingerprint: everything signed but the time and audience.
Fingerprint(permit, request) ==
    Digest([f \in DOMAIN request \ {"issuedAt", "audience"} |->
              IF f = "operation" THEN Digest(request.operation) ELSE request[f]])

\* The policy for a request, on the terms of the request or of the challenge.
Policy(permit, request, values, committed, decidedAt) ==
    EvaluateExactOperation(permit.operation, request.operation) \cup
    EvaluatePurchasePermit(permit,
        [service |-> request.service, capability |-> request.capability,
         network |-> request.network, mint |-> values.mint,
         recipient |-> values.recipient, amount |-> values.amount],
        committed, decidedAt)

\* Whether the request itself is permitted, the shared budget aside: only
\* then is the service contacted.
RequestAllowed(permit, request, decidedAt) ==
    Policy(permit, request, request, 0, decidedAt) = {}

\* The evaluator reserve calls: the signed request and the real challenge
\* must both be permitted.
Evaluate(permit, request, requirement, challengeCodes, committed, decidedAt) ==
    LET codes == Policy(permit, request, request, committed, decidedAt) \cup challengeCodes
    IN IF requirement # None
       THEN codes \cup Policy(permit, request,
                             [mint |-> requirement.asset, recipient |-> requirement.payTo,
                              amount |-> requirement.amount], committed, decidedAt)
       ELSE IF codes = {} THEN {"CHALLENGE_MALFORMED"} ELSE codes

=============================================================================
