----------------------------- MODULE PurchaseLemmas -----------------------------
(***************************************************************************)
(* What the operators of one purchase return: the decision's codes, the    *)
(* challenge that is selected, the attempt that is prepared, and what the  *)
(* authority signs and exports.  The proofs about PermitFlow, PaidService  *)
(* and EvidenceTrail use them.                                             *)
(***************************************************************************)
EXTENDS EvidenceVerifier, TLAPS, FiniteSetTheorems

-----------------------------------------------------------------------------
(* Null.                                                                   *)

\* Neither the absent value nor one outside the bounds is a record: in the code a
\* null, or text that is too long, is no object.
NullsAreNoRecords == \A x \in {None, Odd} : x # [field \in DOMAIN x |-> x[field]]

\* So a record is neither.
LEMMA RecordIsNoNull ==
    ASSUME NullsAreNoRecords, NEW record, record = [field \in DOMAIN record |-> record[field]]
    PROVE  record # None /\ record # Odd
BY DEF NullsAreNoRecords

-----------------------------------------------------------------------------
(* The decision.                                                           *)

\* If nothing fails, no condition holds.
LEMMA NothingFails ==
    ASSUME NEW condition, Failing(condition) = {}, NEW code \in DOMAIN condition
    PROVE  ~condition[code]
BY DEF Failing

\* What an authenticated request has passed (#authenticate).
LEMMA AuthenticatedRequest ==
    ASSUME NEW input, NEW issuer, NEW profiles, NEW audience, NEW at,
           Authenticate(input, issuer, profiles, audience, at) = {}
    PROVE  /\ VerifyPermit(input.permit)
           /\ input.permit.issuer = issuer /\ input.permit.network \in profiles
           /\ input.signature # NoSignature
           /\ VerifyRequestSignature(input.request, input.signature, input.permit.agent)
           /\ input.request.grantId = input.permit.grantId
           /\ input.request.permitDigest = PermitDigest(input.permit)
<1> DEFINE permit == input.permit
           signed == input.request
           Missing == input.signature = NoSignature
           Invalid == ~VerifyPermit(permit)
           NotEntitled == permit.issuer # issuer \/ permit.network \notin profiles
           Forged == ~VerifyRequestSignature(signed, input.signature, permit.agent)
           Elsewhere == signed.grantId # permit.grantId
           Unbound == signed.permitDigest # PermitDigest(permit)
           condition ==
             [AGENT_SIGNATURE_MISSING |-> Missing,
              PERMIT_INVALID |-> Invalid,
              ISSUER_NOT_ENTITLED |-> NotEntitled,
              AGENT_SIGNATURE_INVALID |-> Forged,
              REQUEST_AUDIENCE_MISMATCH |-> signed.audience # audience,
              REQUEST_GRANT_MISMATCH |-> Elsewhere,
              REQUEST_PERMIT_DIGEST_MISMATCH |-> Unbound,
              REQUEST_TIMESTAMP_OUT_OF_RANGE |->
                  signed.issuedAt \notin (at - MaxRequestAge)..(at + MaxFutureSkew)]
<1>1. Failing(condition) = {}
  BY DEF Authenticate
<1>2. {"AGENT_SIGNATURE_MISSING", "PERMIT_INVALID", "ISSUER_NOT_ENTITLED",
       "AGENT_SIGNATURE_INVALID", "REQUEST_GRANT_MISMATCH",
       "REQUEST_PERMIT_DIGEST_MISMATCH"} \subseteq DOMAIN condition
  OBVIOUS
<1> HIDE DEF Missing, Invalid, NotEntitled, Forged, Elsewhere, Unbound
<1>3. /\ condition["AGENT_SIGNATURE_MISSING"] <=> Missing
      /\ condition["PERMIT_INVALID"] <=> Invalid
  OBVIOUS
<1>4. /\ condition["ISSUER_NOT_ENTITLED"] <=> NotEntitled
      /\ condition["AGENT_SIGNATURE_INVALID"] <=> Forged
  OBVIOUS
<1>5. /\ condition["REQUEST_GRANT_MISMATCH"] <=> Elsewhere
      /\ condition["REQUEST_PERMIT_DIGEST_MISMATCH"] <=> Unbound
  OBVIOUS
<1> HIDE DEF condition
<1>6. ~Missing /\ ~Invalid /\ ~NotEntitled /\ ~Forged /\ ~Elsewhere /\ ~Unbound
  BY <1>1, <1>2, <1>3, <1>4, <1>5, NothingFails
<1> QED BY <1>6 DEF Missing, Invalid, NotEntitled, Forged, Elsewhere, Unbound

\* An operation without a failing check is the permitted one
\* (evaluateExactOperation).
LEMMA ExactOperation ==
    ASSUME NEW permitted, NEW requested, EvaluateExactOperation(permitted, requested) = {}
    PROVE  /\ requested.method = permitted.method
           /\ requested.resource = permitted.resource
           /\ requested.operation = permitted.operation
           /\ requested.datasetId = permitted.datasetId
<1> DEFINE condition ==
             [OPERATION_METHOD_MISMATCH   |-> requested.method # permitted.method,
              OPERATION_RESOURCE_MISMATCH |-> requested.resource # permitted.resource,
              OPERATION_NOT_AUTHORIZED    |-> requested.operation # permitted.operation,
              OPERATION_ARGUMENT_NOT_AUTHORIZED |-> requested.datasetId # permitted.datasetId]
<1>1. Failing(condition) = {}
  BY DEF EvaluateExactOperation
<1>2. {"OPERATION_METHOD_MISMATCH", "OPERATION_RESOURCE_MISMATCH", "OPERATION_NOT_AUTHORIZED",
       "OPERATION_ARGUMENT_NOT_AUTHORIZED"} \subseteq DOMAIN condition
  OBVIOUS
<1>3. condition["OPERATION_METHOD_MISMATCH"] <=> requested.method # permitted.method
  OBVIOUS
<1>4. condition["OPERATION_RESOURCE_MISMATCH"] <=> requested.resource # permitted.resource
  OBVIOUS
<1>5. condition["OPERATION_NOT_AUTHORIZED"] <=> requested.operation # permitted.operation
  OBVIOUS
<1>6. condition["OPERATION_ARGUMENT_NOT_AUTHORIZED"] <=> requested.datasetId # permitted.datasetId
  OBVIOUS
<1> HIDE DEF condition
<1> QED BY <1>1, <1>2, <1>3, <1>4, <1>5, <1>6, NothingFails

\* Terms without a failing check are the permit's (evaluatePurchasePermit).
LEMMA PermittedTerms ==
    ASSUME NEW permit, NEW terms, NEW committed, NEW at,
           EvaluatePurchasePermit(permit, terms, committed, at) = {}
    PROVE  /\ ~(at > permit.expiresAt)
           /\ terms.mint = permit.mint
           /\ terms.recipient = permit.recipient
           /\ ~(terms.amount <= 0)
           /\ ~(terms.amount > 0 /\ terms.amount > permit.maxPerCall)
<1> DEFINE amount == terms.amount
           Expired == at > permit.expiresAt
           Nothing == amount <= 0
           TooMuch == amount > 0 /\ amount > permit.maxPerCall
           Spent == amount > 0 /\ committed + amount > permit.maxTotal
           condition ==
             [PERMIT_EXPIRED      |-> Expired,
              SERVICE_MISMATCH    |-> terms.service # permit.service,
              CAPABILITY_MISMATCH |-> terms.capability # permit.capability,
              NETWORK_MISMATCH    |-> terms.network # permit.network,
              MINT_MISMATCH       |-> terms.mint # permit.mint,
              RECIPIENT_MISMATCH  |-> terms.recipient # permit.recipient,
              INVALID_AMOUNT      |-> Nothing,
              PER_CALL_LIMIT_EXCEEDED |-> TooMuch,
              TOTAL_BUDGET_EXCEEDED   |-> Spent]
<1>1. Failing(condition) = {}
  BY DEF EvaluatePurchasePermit
<1>2. {"PERMIT_EXPIRED", "MINT_MISMATCH", "RECIPIENT_MISMATCH", "INVALID_AMOUNT",
       "PER_CALL_LIMIT_EXCEEDED"} \subseteq DOMAIN condition
  OBVIOUS
<1> HIDE DEF Expired, Nothing, TooMuch, Spent
<1>3. condition["PERMIT_EXPIRED"] <=> Expired
  OBVIOUS
<1>4. condition["MINT_MISMATCH"] <=> terms.mint # permit.mint
  OBVIOUS
<1>5. condition["RECIPIENT_MISMATCH"] <=> terms.recipient # permit.recipient
  OBVIOUS
<1>6. condition["INVALID_AMOUNT"] <=> Nothing
  OBVIOUS
<1>7. condition["PER_CALL_LIMIT_EXCEEDED"] <=> TooMuch
  OBVIOUS
<1> HIDE DEF condition
<1>8. /\ ~Expired /\ ~Nothing /\ ~TooMuch
      /\ terms.mint = permit.mint /\ terms.recipient = permit.recipient
  BY <1>1, <1>2, <1>3, <1>4, <1>5, <1>6, <1>7, NothingFails
<1> QED BY <1>8 DEF Expired, Nothing, TooMuch

\* A policy without a code: the operation and the terms are the permit's.
LEMMA AllowedByPolicy ==
    ASSUME NEW permit, NEW request, NEW values, NEW committed, NEW at,
           Policy(permit, request, values, committed, at) = {}
    PROVE  /\ request.operation.method = permit.operation.method
           /\ request.operation.resource = permit.operation.resource
           /\ OperationRequestBody(request.operation) = OperationRequestBody(permit.operation)
           /\ ~(at > permit.expiresAt)
           /\ values.mint = permit.mint /\ values.recipient = permit.recipient
           /\ ~(values.amount <= 0)
           /\ ~(values.amount > 0 /\ values.amount > permit.maxPerCall)
<1> DEFINE terms == [service |-> request.service, capability |-> request.capability,
                     network |-> request.network, mint |-> values.mint,
                     recipient |-> values.recipient, amount |-> values.amount]
<1>1. /\ EvaluateExactOperation(permit.operation, request.operation) = {}
      /\ EvaluatePurchasePermit(permit, terms, committed, at) = {}
  BY DEF Policy
<1>2. /\ ~(at > permit.expiresAt)
      /\ terms.mint = permit.mint /\ terms.recipient = permit.recipient
      /\ ~(terms.amount <= 0)
      /\ ~(terms.amount > 0 /\ terms.amount > permit.maxPerCall)
  BY <1>1, PermittedTerms
<1>3. /\ request.operation.method = permit.operation.method
      /\ request.operation.resource = permit.operation.resource
      /\ OperationRequestBody(request.operation) = OperationRequestBody(permit.operation)
  BY <1>1, ExactOperation DEF OperationRequestBody
<1> QED BY <1>2, <1>3

\* reserve's evaluator allows only with a requirement, on both sets of terms.
LEMMA AllowedPurchase ==
    ASSUME NEW permit, NEW request, NEW requirement, NEW codes, NEW committed, NEW at,
           Evaluate(permit, request, requirement, codes, committed, at) = {}
    PROVE  /\ requirement # None /\ codes = {}
           /\ Policy(permit, request, request, committed, at) = {}
           /\ Policy(permit, request, [mint |-> requirement.asset,
                                       recipient |-> requirement.payTo,
                                       amount |-> requirement.amount], committed, at) = {}
BY DEF Evaluate

\* The terms that are selected without a code are those of the signed request
\* (selectAndValidateChallenge).
LEMMA SelectedTerms ==
    ASSUME NEW challenge, NEW profile, NEW paid, NEW request, NEW payer, NEW selection,
           selection = SelectAndValidateChallenge(challenge, profile, paid, request, payer),
           selection.codes = {}
    PROVE  /\ selection.requirement.asset = request.mint
           /\ selection.requirement.payTo = request.recipient
           /\ selection.requirement.amount = request.amount
<1> DEFINE sameScheme == {q \in challenge.requirements : q.scheme = profile.scheme}
           candidates == {q \in sameScheme : q.network \in profile.acceptedNetworks}
           q == First(candidates)
           Protocol == q.protocol # profile.protocol \/ q.x402Version # profile.x402Version
           Asset == q.asset \notin profile.allowedAssets
           Resource == \/ q.resourceUrl # paid.url
                       \/ challenge.requestSha256 # paid.sha256
           FeePayer == q.feePayer \in {None, payer}
           Terms == \/ q.asset # request.mint
                    \/ q.payTo # request.recipient
                    \/ q.amount # request.amount
           condition == [UNSUPPORTED_PAYMENT_PROTOCOL |-> Protocol,
                         ASSET_NOT_ALLOWED |-> Asset,
                         CHALLENGE_RESOURCE_MISMATCH |-> Resource,
                         CHALLENGE_FEE_PAYER_INVALID |-> FeePayer,
                         CHALLENGE_REQUEST_MISMATCH |-> Terms]
<1> HIDE DEF sameScheme, candidates
<1>1. CASE challenge.kind = "rejected"
  BY <1>1 DEF SelectAndValidateChallenge
<1>2. CASE challenge.kind # "rejected" /\ candidates = {}
  BY <1>2 DEF SelectAndValidateChallenge, sameScheme, candidates
<1>3. CASE challenge.kind # "rejected" /\ candidates # {}
  <2>1. selection = [requirement |-> q, codes |-> Failing(condition)]
    BY <1>3 DEF SelectAndValidateChallenge, sameScheme, candidates
  <2> HIDE DEF q, Protocol, Asset, Resource, FeePayer, Terms
  <2>2. /\ "CHALLENGE_REQUEST_MISMATCH" \in DOMAIN condition
        /\ condition["CHALLENGE_REQUEST_MISMATCH"] <=> Terms
    OBVIOUS
  <2> HIDE DEF condition
  <2>3. selection.requirement = q /\ Failing(condition) = {}
    BY <2>1
  <2>4. ~Terms
    BY <2>2, <2>3, NothingFails
  <2> QED BY <2>3, <2>4 DEF Terms
<1> QED BY <1>1, <1>2, <1>3

-----------------------------------------------------------------------------
(* The reasons of a decision.                                              *)

\* A set of places has a first one.
LEMMA SmallestPlace ==
    ASSUME NEW places \in SUBSET Nat, places # {}
    PROVE  \E n \in places : \A k \in places : n <= k
<1> DEFINE below == {0..n : n \in places}
           R == StrictSubsetOrdering(Nat)
<1>1. below \subseteq FiniteSubsetsOf(Nat) /\ below # {}
  <2>1. \A n \in Nat : IsFiniteSet(0..n) /\ 0..n \subseteq Nat
    BY FS_Interval
  <2> QED BY <2>1 DEF FiniteSubsetsOf
<1>2. IsWellFoundedOn(R, FiniteSubsetsOf(Nat))
  BY FS_StrictSubsetOrderingWellFounded
<1>3. \E x \in below : \A y \in below : <<y, x>> \notin R
  <2> HIDE DEF below, R
  <2> QED BY <1>1, <1>2, WFMin
<1>4. PICK n \in places : \A k \in places : <<0..k, 0..n>> \notin R
  BY <1>3
<1>5. \A low, high \in SUBSET Nat : low \subseteq high /\ low # high => <<low, high>> \in R
  BY DEF StrictSubsetOrdering
<1> HIDE DEF R
<1>6. ASSUME NEW k \in places, k < n PROVE <<0..k, 0..n>> \in R
  <2>1. k \in Nat /\ n \in Nat
    OBVIOUS
  <2>2. n \in 0..n /\ n \notin 0..k /\ 0..k \subseteq 0..n /\ 0..n \subseteq Nat
    BY <1>6, <2>1
  <2> QED BY <1>5, <2>2
<1>7. \A k \in places : ~(k < n)
  BY <1>4, <1>6
<1>8. \A k, m \in Nat : ~(k < m) => m <= k
  OBVIOUS
<1> QED BY <1>7, <1>8

\* The first requirement in the order of the answer (find).
LEMMA FirstIsOne ==
    ASSUME NEW requirements, requirements # {},
           \A q \in requirements : q.acceptsIndex \in Nat
    PROVE  First(requirements) \in requirements
<1> DEFINE places == {q.acceptsIndex : q \in requirements}
<1>1. places \in SUBSET Nat /\ places # {}
  OBVIOUS
<1>2. \E n \in places : \A k \in places : n <= k
  <2> HIDE DEF places
  <2> QED BY <1>1, SmallestPlace
<1>3. \E q \in requirements : \A o \in requirements : q.acceptsIndex <= o.acceptsIndex
  BY <1>2
<1> QED BY <1>3 DEF First

\* Every reason a decision can have.
PermitCodes == {"PERMIT_EXPIRED", "SERVICE_MISMATCH", "CAPABILITY_MISMATCH", "NETWORK_MISMATCH",
                "MINT_MISMATCH", "RECIPIENT_MISMATCH", "INVALID_AMOUNT",
                "PER_CALL_LIMIT_EXCEEDED", "TOTAL_BUDGET_EXCEEDED"}
\* evaluateExactOperation
OperationCodes == {"OPERATION_METHOD_MISMATCH", "OPERATION_RESOURCE_MISMATCH",
                   "OPERATION_NOT_AUTHORIZED", "OPERATION_ARGUMENT_NOT_AUTHORIZED"}
\* fetchChallenge and normalizeChallenge
AnswerCodes == {"CHALLENGE_REDIRECT", "CHALLENGE_NOT_PAYMENT_REQUIRED", "CHALLENGE_MALFORMED",
                "UNSUPPORTED_PAYMENT_PROTOCOL"}
\* selectAndValidateChallenge
TermCodes == {"UNSUPPORTED_PAYMENT_PROTOCOL", "ASSET_NOT_ALLOWED", "CHALLENGE_RESOURCE_MISMATCH",
              "CHALLENGE_FEE_PAYER_INVALID", "CHALLENGE_REQUEST_MISMATCH",
              "CHALLENGE_NETWORK_MISMATCH", "UNSUPPORTED_PAYMENT_SCHEME"}
\* #authorizeLocked, before the service is asked
ServiceCodes == {"SETTLEMENT_PROFILE_UNAVAILABLE", "PAID_SERVICE_NOT_CONFIGURED"}
\* All of them.
ReasonCodes == PermitCodes \cup OperationCodes \cup AnswerCodes \cup TermCodes \cup ServiceCodes

\* What a permit can be violated by.
LEMMA PermitCodesOnly ==
    ASSUME NEW permit, NEW terms, NEW committed, NEW at
    PROVE  EvaluatePurchasePermit(permit, terms, committed, at) \subseteq PermitCodes
BY DEF EvaluatePurchasePermit, Failing, PermitCodes

\* What an operation can be refused for.
LEMMA OperationCodesOnly ==
    ASSUME NEW permitted, NEW requested
    PROVE  EvaluateExactOperation(permitted, requested) \subseteq OperationCodes
BY DEF EvaluateExactOperation, Failing, OperationCodes

\* What the policy can answer.
LEMMA PolicyCodesOnly ==
    ASSUME NEW permit, NEW request, NEW values, NEW committed, NEW at
    PROVE  Policy(permit, request, values, committed, at) \subseteq PermitCodes \cup OperationCodes
BY PermitCodesOnly, OperationCodesOnly DEF Policy

\* The reasons of a decision, which include what the signed request lacks.
LEMMA DecisionCodes ==
    ASSUME NEW permit, NEW request, NEW requirement, NEW codes \in SUBSET ReasonCodes,
           NEW committed, NEW at, NEW decision,
           decision = Evaluate(permit, request, requirement, codes, committed, at)
    PROVE  /\ decision \subseteq ReasonCodes
           /\ Policy(permit, request, request, committed, at) \subseteq decision
<1> DEFINE values == [mint |-> requirement.asset, recipient |-> requirement.payTo,
                      amount |-> requirement.amount]
           asked == Policy(permit, request, request, committed, at)
           quoted == Policy(permit, request, values, committed, at)
<1>1. asked \subseteq ReasonCodes /\ quoted \subseteq ReasonCodes
  <2> HIDE DEF values
  <2> QED BY PolicyCodesOnly DEF ReasonCodes
<1>2. "CHALLENGE_MALFORMED" \in ReasonCodes
  BY DEF ReasonCodes, AnswerCodes
<1>3. decision = IF requirement # None THEN (asked \cup codes) \cup quoted
                 ELSE IF asked \cup codes = {} THEN {"CHALLENGE_MALFORMED"} ELSE asked \cup codes
  BY DEF Evaluate
<1> HIDE DEF asked, quoted
<1>4. decision \subseteq ReasonCodes /\ asked \subseteq decision
  BY <1>1, <1>2, <1>3
<1> QED BY <1>4 DEF asked

\* A set of five is finite; the sets of codes are unions of such sets.
LEMMA FewAreFinite ==
    ASSUME NEW a, NEW b, NEW c, NEW d, NEW e
    PROVE  IsFiniteSet({a, b, c, d, e})
<1>1. IsFiniteSet({a} \cup {b})
  BY FS_Singleton, FS_AddElement
<1>2. IsFiniteSet(({a} \cup {b}) \cup {c})
  BY <1>1, FS_AddElement
<1>3. IsFiniteSet((({a} \cup {b}) \cup {c}) \cup {d})
  BY <1>2, FS_AddElement
<1>4. IsFiniteSet(((({a} \cup {b}) \cup {c}) \cup {d}) \cup {e})
  BY <1>3, FS_AddElement
<1>5. {a, b, c, d, e} = ((({a} \cup {b}) \cup {c}) \cup {d}) \cup {e}
  OBVIOUS
<1> QED BY <1>4, <1>5

\* There are finitely many reasons.
LEMMA ReasonCodesAreFinite == IsFiniteSet(ReasonCodes)
<1> DEFINE A == {"PERMIT_EXPIRED", "SERVICE_MISMATCH", "CAPABILITY_MISMATCH",
                 "NETWORK_MISMATCH", "MINT_MISMATCH"}
           B == {"RECIPIENT_MISMATCH", "INVALID_AMOUNT", "PER_CALL_LIMIT_EXCEEDED",
                 "TOTAL_BUDGET_EXCEEDED", "TOTAL_BUDGET_EXCEEDED"}
           C == {"OPERATION_METHOD_MISMATCH", "OPERATION_RESOURCE_MISMATCH",
                 "OPERATION_NOT_AUTHORIZED", "OPERATION_ARGUMENT_NOT_AUTHORIZED",
                 "SETTLEMENT_PROFILE_UNAVAILABLE"}
           D == {"CHALLENGE_REDIRECT", "CHALLENGE_NOT_PAYMENT_REQUIRED",
                 "CHALLENGE_MALFORMED", "UNSUPPORTED_PAYMENT_PROTOCOL", "ASSET_NOT_ALLOWED"}
           E == {"CHALLENGE_RESOURCE_MISMATCH", "CHALLENGE_FEE_PAYER_INVALID",
                 "CHALLENGE_REQUEST_MISMATCH", "CHALLENGE_NETWORK_MISMATCH",
                 "UNSUPPORTED_PAYMENT_SCHEME"}
           F == {"PAID_SERVICE_NOT_CONFIGURED"}
<1>1. /\ IsFiniteSet(A) /\ IsFiniteSet(B) /\ IsFiniteSet(C) /\ IsFiniteSet(D)
      /\ IsFiniteSet(E) /\ IsFiniteSet(F)
  BY FewAreFinite, FS_Singleton
<1>2. ReasonCodes = (A \cup B) \cup (C \cup D) \cup (E \cup F)
  BY DEF ReasonCodes, PermitCodes, OperationCodes, AnswerCodes, TermCodes, ServiceCodes
<1> HIDE DEF A, B, C, D, E, F
<1>3. /\ IsFiniteSet(A \cup B) /\ IsFiniteSet(C \cup D) /\ IsFiniteSet(E \cup F)
  BY <1>1, FS_Union
<1>4. IsFiniteSet((A \cup B) \cup (C \cup D))
  BY <1>3, FS_Union
<1> QED BY <1>2, <1>3, <1>4, FS_Union

\* A decision's reasons fit in the receipt and the manifest (MAX_REASON_CODES).
LEMMA ReasonsFit ==
    ASSUME NEW codes \in SUBSET ReasonCodes, Cardinality(ReasonCodes) <= MaxReasonCodes
    PROVE  Cardinality(codes) <= MaxReasonCodes
<1>1. /\ IsFiniteSet(codes) /\ Cardinality(codes) <= Cardinality(ReasonCodes)
  BY ReasonCodesAreFinite, FS_Subset
<1>2. Cardinality(codes) \in Nat /\ Cardinality(ReasonCodes) \in Nat
  BY <1>1, ReasonCodesAreFinite, FS_CardinalityType
<1> QED BY <1>1, <1>2, EvidenceAssumption

\* What the request lacks when it is judged again at the time it was signed,
\* it lacked when it was decided on.
LEMMA StaticCodesWereFound ==
    ASSUME NEW permit, NEW request, NEW committed, NEW at \in Int,
           request.issuedAt \in Int, permit.issuedAt \in Int, permit.expiresAt \in Int,
           permit.issuedAt <= request.issuedAt, request.issuedAt <= at
    PROVE  StaticCodes(permit, request) \subseteq Policy(permit, request, request, committed, at)
<1> DEFINE terms == [service |-> request.service, capability |-> request.capability,
                     network |-> request.network, mint |-> request.mint,
                     recipient |-> request.recipient, amount |-> request.amount]
           asked(t, spent, late) ==
              [PERMIT_EXPIRED      |-> late,
               SERVICE_MISMATCH    |-> t.service # permit.service,
               CAPABILITY_MISMATCH |-> t.capability # permit.capability,
               NETWORK_MISMATCH    |-> t.network # permit.network,
               MINT_MISMATCH       |-> t.mint # permit.mint,
               RECIPIENT_MISMATCH  |-> t.recipient # permit.recipient,
               INVALID_AMOUNT      |-> t.amount <= 0,
               PER_CALL_LIMIT_EXCEEDED |-> t.amount > 0 /\ t.amount > permit.maxPerCall,
               TOTAL_BUDGET_EXCEEDED   |-> t.amount > 0 /\ spent + t.amount > permit.maxTotal]
           exact == EvaluateExactOperation(permit.operation, request.operation)
           signed == request.issuedAt
           Late == at > permit.expiresAt
           WasLate == signed > permit.expiresAt
           Early == signed < permit.issuedAt
           early == [PERMIT_NOT_YET_VALID |-> Early]
<1>1. /\ EvaluatePurchasePermit(permit, request, 0, signed) =
            Failing(asked(request, 0, WasLate))
      /\ EvaluatePurchasePermit(permit, terms, committed, at) =
            Failing(asked(terms, committed, Late))
  BY DEF EvaluatePurchasePermit
<1>2. /\ terms.service = request.service /\ terms.capability = request.capability
      /\ terms.network = request.network /\ terms.mint = request.mint
      /\ terms.recipient = request.recipient /\ terms.amount = request.amount
  OBVIOUS
<1>3. Failing(early) = {}
  <2>1. ~Early
    OBVIOUS
  <2> HIDE DEF Early
  <2>2. DOMAIN early = {"PERMIT_NOT_YET_VALID"} /\ (early["PERMIT_NOT_YET_VALID"] <=> Early)
    OBVIOUS
  <2> HIDE DEF early
  <2> QED BY <2>1, <2>2 DEF Failing
<1>4. StaticCodes(permit, request) =
         exact \cup (Failing(asked(request, 0, WasLate)) \ {"TOTAL_BUDGET_EXCEEDED"})
               \cup Failing(early)
  BY <1>1 DEF StaticCodes
<1>5. Policy(permit, request, request, committed, at) = 
         exact \cup Failing(asked(terms, committed, Late))
  BY <1>1 DEF Policy
<1>6. Failing(asked(request, 0, WasLate)) \ {"TOTAL_BUDGET_EXCEEDED"} \subseteq
         Failing(asked(terms, committed, Late))
  <2>1. WasLate => Late
    OBVIOUS
  <2> HIDE DEF terms, Late, WasLate
  <2> QED BY <1>2, <2>1 DEF Failing
<1> HIDE DEF asked, Late, WasLate, exact, early, terms
<1> QED BY <1>3, <1>4, <1>5, <1>6

-----------------------------------------------------------------------------
(* The challenge: what is selected from the answer of the service.         *)

\* What the schema of an answer guarantees of its payment terms
\* (parsePaymentRequired).
AnswerIsPlain(answer) ==
    /\ answer.status \in Nat
    /\ answer.decoded # None =>
          /\ answer.decoded.resourceUrl # Odd
          /\ DOMAIN answer.decoded.accepts \subseteq Nat
          /\ \A k \in DOMAIN answer.decoded.accepts :
                PlainText(answer.decoded.accepts[k],
                          {"scheme", "network", "asset", "payTo", "feePayer", "maxTimeoutSeconds"})

\* A challenge is a refusal or requirements of the strict schema, each with
\* its place in the answer.
ChallengeIsPlain(challenge) ==
    /\ challenge.kind = "rejected" => challenge.reasonCode \in AnswerCodes
    /\ challenge.kind \notin {"rejected", "unavailable"} =>
          \A q \in challenge.requirements : ParsesRequirement(q) /\ q.acceptsIndex \in Nat

\* A refusal names one of the reasons of an answer.
LEMMA RejectedChallenge ==
    ASSUME NEW code \in AnswerCodes
    PROVE  ChallengeIsPlain(Rejected(code))
BY DEF Rejected, ChallengeIsPlain

\* The requirements of a decoded answer, each with its place (normalizeChallenge).
LEMMA NormalizedChallenge ==
    ASSUME NEW answer, AnswerIsPlain(answer), answer.decoded # None, NEW sha256
    PROVE  ChallengeIsPlain(NormalizeChallenge(answer.decoded, sha256))
<1> DEFINE decoded == answer.decoded
           accepts == decoded.accepts
           wellFormed == {k \in DOMAIN accepts : accepts[k].amount >= 0}
           requirement(k) ==
               [protocol |-> "x402", x402Version |-> 2, acceptsIndex |-> k,
                scheme |-> accepts[k].scheme, network |-> accepts[k].network,
                asset |-> accepts[k].asset, payTo |-> accepts[k].payTo,
                amount |-> accepts[k].amount, feePayer |-> accepts[k].feePayer,
                maxTimeoutSeconds |-> accepts[k].maxTimeoutSeconds,
                resourceUrl |-> decoded.resourceUrl]
           all == {requirement(k) : k \in wellFormed}
           challenge == [kind |-> "challenge", requirements |-> all,
                         requestSha256 |-> sha256, raw |-> decoded]
<1>1. ASSUME NEW k \in wellFormed
      PROVE  ParsesRequirement(requirement(k)) /\ requirement(k).acceptsIndex \in Nat
  <2>1. /\ decoded.resourceUrl # Odd /\ k \in Nat /\ accepts[k].amount >= 0
        /\ PlainText(accepts[k],
                     {"scheme", "network", "asset", "payTo", "feePayer", "maxTimeoutSeconds"})
    BY DEF AnswerIsPlain
  <2> DEFINE q == requirement(k)
  <2>2. /\ DOMAIN q =
             {"protocol", "x402Version", "acceptsIndex", "scheme", "network", "asset", "payTo",
              "amount", "feePayer", "maxTimeoutSeconds", "resourceUrl"}
        /\ q.protocol = "x402" /\ q.acceptsIndex = k /\ q.amount = accepts[k].amount
    OBVIOUS
  <2>3. /\ q.scheme = accepts[k].scheme /\ q.network = accepts[k].network
        /\ q.asset = accepts[k].asset /\ q.payTo = accepts[k].payTo
        /\ q.feePayer = accepts[k].feePayer
        /\ q.maxTimeoutSeconds = accepts[k].maxTimeoutSeconds
        /\ q.resourceUrl = decoded.resourceUrl
    OBVIOUS
  <2> HIDE DEF q, decoded, accepts
  <2>4. ParsesRequirement(q)
    BY <2>1, <2>2, <2>3 DEF ParsesRequirement, PlainText
  <2> QED BY <2>1, <2>2, <2>4 DEF q
<1>2. ChallengeIsPlain(challenge)
  <2>1. challenge.kind = "challenge" /\ challenge.requirements = all
    OBVIOUS
  <2> HIDE DEF challenge
  <2> QED BY <1>1, <2>1 DEF ChallengeIsPlain
<1>3. \/ \E code \in AnswerCodes : NormalizeChallenge(decoded, sha256) = Rejected(code)
      \/ NormalizeChallenge(decoded, sha256) = challenge
  BY DEF NormalizeChallenge, AnswerCodes
<1> HIDE DEF challenge
<1> QED BY <1>2, <1>3, RejectedChallenge

\* What fetchChallenge makes of any answer of the service.
LEMMA FetchedChallenge ==
    ASSUME NEW request, NEW answer, AnswerIsPlain(answer)
    PROVE  ChallengeIsPlain(FetchChallenge(request, answer))
<1> DEFINE sha256 == Digest([url |-> request.url, method |-> request.method,
                             body |-> request.body])
           challenge == FetchChallenge(request, answer)
<1>1. \/ challenge = [kind |-> "unavailable"]
      \/ \E code \in AnswerCodes : challenge = Rejected(code)
      \/ answer.decoded # None /\ challenge = NormalizeChallenge(answer.decoded, sha256)
  <2> HIDE DEF sha256
  <2> QED BY SMTT(30) DEF FetchChallenge, sha256, AnswerCodes, AnswerIsPlain
<1>2. ChallengeIsPlain([kind |-> "unavailable"])
  BY DEF ChallengeIsPlain
<1> HIDE DEF challenge, sha256
<1>3. ChallengeIsPlain(challenge)
  BY <1>1, <1>2, RejectedChallenge, NormalizedChallenge
<1> QED BY <1>3 DEF challenge

\* The terms of a quote that is selected without an objection: the profile's,
\* and those of the signed request.
Agrees(q, profile, paid, request, payer) ==
    /\ q.protocol = profile.protocol /\ q.x402Version = profile.x402Version
    /\ q.scheme = profile.scheme
    /\ q.network \in profile.acceptedNetworks /\ q.asset \in profile.allowedAssets
    /\ q.resourceUrl = paid.url
    /\ q.feePayer \notin {None, payer}
    /\ q.asset = request.mint /\ q.payTo = request.recipient /\ q.amount = request.amount

\* What is selected comes from the answer, and what is wrong with it is said
\* (selectAndValidateChallenge).
LEMMA Selection ==
    ASSUME NEW challenge, NEW profile, NEW paid, NEW request, NEW payer, NEW selection,
           challenge.kind # "unavailable", ChallengeIsPlain(challenge),
           selection = SelectAndValidateChallenge(challenge, profile, paid, request, payer)
    PROVE  /\ selection.codes \subseteq ReasonCodes
           /\ selection.requirement # None => ParsesRequirement(selection.requirement)
           /\ selection.codes = {} => Agrees(selection.requirement, profile, paid, request, payer)
<1> DEFINE sameScheme == {q \in challenge.requirements : q.scheme = profile.scheme}
           candidates == {q \in sameScheme : q.network \in profile.acceptedNetworks}
           q == First(candidates)
           Protocol == q.protocol # profile.protocol \/ q.x402Version # profile.x402Version
           Asset == q.asset \notin profile.allowedAssets
           Resource == \/ q.resourceUrl # paid.url
                       \/ challenge.requestSha256 # paid.sha256
           FeePayer == q.feePayer \in {None, payer}
           Terms == \/ q.asset # request.mint
                    \/ q.payTo # request.recipient
                    \/ q.amount # request.amount
           condition == [UNSUPPORTED_PAYMENT_PROTOCOL |-> Protocol,
                         ASSET_NOT_ALLOWED |-> Asset,
                         CHALLENGE_RESOURCE_MISMATCH |-> Resource,
                         CHALLENGE_FEE_PAYER_INVALID |-> FeePayer,
                         CHALLENGE_REQUEST_MISMATCH |-> Terms]
<1>1. CASE challenge.kind = "rejected"
  <2>1. selection = [requirement |-> None, codes |-> {challenge.reasonCode}]
    BY <1>1 DEF SelectAndValidateChallenge
  <2>2. challenge.reasonCode \in AnswerCodes
    BY <1>1 DEF ChallengeIsPlain
  <2> QED BY <2>1, <2>2 DEF ReasonCodes
<1>2. CASE challenge.kind # "rejected" /\ candidates = {}
  <2> DEFINE code == IF sameScheme # {} THEN "CHALLENGE_NETWORK_MISMATCH"
                     ELSE "UNSUPPORTED_PAYMENT_SCHEME"
  <2>1. selection = [requirement |-> None, codes |-> {code}]
    BY <1>2 DEF SelectAndValidateChallenge
  <2>2. code \in ReasonCodes
    BY DEF ReasonCodes, TermCodes
  <2> HIDE DEF code
  <2> QED BY <2>1, <2>2
<1>3. CASE challenge.kind # "rejected" /\ candidates # {}
  <2>1. q \in candidates
    <3>1. \A o \in candidates : o.acceptsIndex \in Nat
      BY <1>3 DEF ChallengeIsPlain
    <3> HIDE DEF candidates
    <3> QED BY <1>3, <3>1, FirstIsOne
  <2>2. /\ ParsesRequirement(q) /\ q.scheme = profile.scheme
        /\ q.network \in profile.acceptedNetworks
    BY <1>3, <2>1 DEF ChallengeIsPlain
  <2> HIDE DEF sameScheme, candidates
  <2>3. selection = [requirement |-> q, codes |-> Failing(condition)]
    BY <1>3 DEF SelectAndValidateChallenge, sameScheme, candidates
  <2> HIDE DEF q, Protocol, Asset, Resource, FeePayer, Terms
  <2>4. DOMAIN condition = {"UNSUPPORTED_PAYMENT_PROTOCOL", "ASSET_NOT_ALLOWED",
                            "CHALLENGE_RESOURCE_MISMATCH", "CHALLENGE_FEE_PAYER_INVALID",
                            "CHALLENGE_REQUEST_MISMATCH"}
    OBVIOUS
  <2>5. /\ condition["UNSUPPORTED_PAYMENT_PROTOCOL"] <=> Protocol
        /\ condition["ASSET_NOT_ALLOWED"] <=> Asset
    OBVIOUS
  <2>6. /\ condition["CHALLENGE_RESOURCE_MISMATCH"] <=> Resource
        /\ condition["CHALLENGE_FEE_PAYER_INVALID"] <=> FeePayer
        /\ condition["CHALLENGE_REQUEST_MISMATCH"] <=> Terms
    OBVIOUS
  <2> HIDE DEF condition
  <2>7. selection.requirement = q /\ selection.codes = Failing(condition)
    BY <2>3
  <2>8. Failing(condition) \subseteq ReasonCodes
    BY <2>4 DEF Failing, ReasonCodes, TermCodes
  <2>9. ASSUME Failing(condition) = {} PROVE Agrees(q, profile, paid, request, payer)
    <3>1. ~Protocol /\ ~Asset /\ ~Resource /\ ~FeePayer /\ ~Terms
      BY <2>4, <2>5, <2>6, <2>9, NothingFails
    <3> QED BY <2>2, <3>1 DEF Protocol, Asset, Resource, FeePayer, Terms, Agrees
  <2> QED BY <2>2, <2>7, <2>8, <2>9
<1> QED BY <1>1, <1>2, <1>3

-----------------------------------------------------------------------------
(* The payment.                                                            *)

\* An attempt that is prepared is of this transaction, whose only token
\* instruction is the transfer the requirement asks for (execute).
LEMMA PreparedAttempt ==
    ASSUME NEW profile, NEW request, NEW challenge, NEW requirement, NEW payload,
           NEW blockhash, NEW at, NEW attempt,
           attempt = PrepareAttempt(profile, request, challenge, requirement, payload,
                                    blockhash, at),
           attempt # None
    PROVE  /\ attempt.transaction = payload
           /\ attempt.payerSignature = payload.payerSignature
           /\ \E program \in TokenPrograms :
                 {i \in payload.message.instructions : i.program \in TokenPrograms} =
                    {Transfer(requirement.asset, requirement.amount, Payer,
                              requirement.payTo, program)}
<1> DEFINE expected == [payer |-> Payer, feePayer |-> requirement.feePayer,
                        asset |-> requirement.asset, payTo |-> requirement.payTo,
                        amount |-> requirement.amount, blockhash |-> blockhash]
<1>1. /\ ValidateExactPaymentTransaction(payload, expected)
      /\ attempt.transaction = payload
      /\ attempt.payerSignature = payload.payerSignature
  BY DEF PrepareAttempt
<1>2. \E program \in TokenPrograms :
         {i \in payload.message.instructions : i.program \in TokenPrograms} =
            {Transfer(expected.asset, expected.amount, expected.payer,
                      expected.payTo, program)}
  BY <1>1 DEF ValidateExactPaymentTransaction
<1> QED BY <1>1, <1>2

\* An attempt at a requirement: its terms, the profile's, the paid request's,
\* and a transaction the payer signed that pays exactly this.
AttemptMatches(attempt, q, profile, paid) ==
    /\ ParsesAttempt(attempt)
    /\ \A f \in {"scheme", "network", "asset", "payTo", "amount", "feePayer"} :
          attempt[f] = q[f]
    /\ attempt.resourceUrl = paid.url /\ attempt.requestSha256 = paid.sha256
    /\ attempt.settlementProfile = profile.name /\ attempt.payer = Payer
    /\ attempt.feePayer # Payer
    /\ attempt.blockhash.prefix = profile.requiredBlockhashPrefix
    /\ ValidateExactPaymentTransaction(attempt.transaction, attempt)
    /\ attempt.transaction.payerSignature = attempt.payerSignature
    /\ VerifyTransactionPayerSignature(attempt.transaction, Payer)

\* What the client builds, the payer has signed (createPaymentPayload).
LEMMA PayloadIsSigned ==
    ASSUME NEW quote, NEW blockhash, NEW nonce, NEW payload,
           payload = CreatePaymentPayload(quote, Payer, blockhash, nonce), payload # None
    PROVE  VerifyTransactionPayerSignature(payload, Payer)
<1> DEFINE instructions == {[program |-> "memo", nonce |-> nonce],
                            Transfer(quote.asset, quote.amount, Payer, quote.payTo, "token")}
           message == [version |-> 0, lookups |-> {}, lifetime |-> blockhash,
                       accounts |-> <<quote.feePayer, Payer>>, numSigners |-> 2,
                       instructions |-> instructions]
<1>1. payload = Signed(message)
  BY DEF CreatePaymentPayload
<1> HIDE DEF instructions
<1>2. message.accounts[2] = Payer
  OBVIOUS
<1> HIDE DEF message
<1> QED BY <1>1, <1>2 DEF Signed, VerifyTransactionPayerSignature, Verifies

\* An attempt that is prepared matches the requirement it was prepared for
\* (execute, up to transmission), whatever the client was asked to pay.
LEMMA AttemptOfRequirement ==
    ASSUME NEW profile, NEW paid, NEW challenge, NEW q, NEW quote, NEW nonce, NEW payload,
           NEW blockhash, NEW at, NEW attempt,
           payload = CreatePaymentPayload(quote, Payer, blockhash, nonce),
           attempt = PrepareAttempt(profile, paid, challenge, q, payload, blockhash, at),
           attempt # None,
           ParsesRequirement(q), at >= 0,
           Odd \notin {profile.name, Payer, paid.url}
    PROVE  AttemptMatches(attempt, q, profile, paid)
<1> DEFINE expected == [payer |-> Payer, feePayer |-> q.feePayer, asset |-> q.asset,
                        payTo |-> q.payTo, amount |-> q.amount, blockhash |-> blockhash]
           made == [protocol |-> "x402", scheme |-> q.scheme,
                    settlementProfile |-> profile.name, network |-> q.network,
                    payer |-> Payer, payerSignature |-> payload.payerSignature,
                    feePayer |-> q.feePayer, asset |-> q.asset,
                    payTo |-> q.payTo, amount |-> q.amount,
                    blockhash |-> blockhash, resourceUrl |-> paid.url,
                    requestSha256 |-> paid.sha256, transaction |-> payload,
                    preparedAt |-> at]
<1>1. /\ q.feePayer \notin {None, Payer} /\ blockhash.prefix = profile.requiredBlockhashPrefix
      /\ ValidateExactPaymentTransaction(payload, expected)
      /\ attempt = made
  BY DEF PrepareAttempt
<1>2. /\ expected.payer = Payer /\ expected.feePayer = q.feePayer /\ expected.asset = q.asset
      /\ expected.payTo = q.payTo /\ expected.amount = q.amount
      /\ expected.blockhash = blockhash
  OBVIOUS
<1>3. /\ DOMAIN made =
           {"protocol", "scheme", "settlementProfile", "network", "payer", "payerSignature",
            "feePayer", "asset", "payTo", "amount", "blockhash", "resourceUrl",
            "requestSha256", "transaction", "preparedAt"}
      /\ made.protocol = "x402" /\ made.settlementProfile = profile.name
      /\ made.payer = Payer /\ made.resourceUrl = paid.url
  OBVIOUS
<1>4. /\ made.scheme = q.scheme /\ made.network = q.network /\ made.feePayer = q.feePayer
      /\ made.asset = q.asset /\ made.payTo = q.payTo /\ made.amount = q.amount
  OBVIOUS
<1>5. /\ made.blockhash = blockhash /\ made.requestSha256 = paid.sha256
      /\ made.transaction = payload /\ made.payerSignature = payload.payerSignature
      /\ made.preparedAt = at
  OBVIOUS
<1> HIDE DEF expected, made
<1>6. /\ q.amount >= 0
      /\ PlainText(q, {"scheme", "network", "asset", "payTo", "feePayer"})
  BY DEF ParsesRequirement, PlainText
<1>7. ParsesAttempt(attempt)
  BY <1>1, <1>3, <1>4, <1>5, <1>6 DEF ParsesAttempt, PlainText
<1>8. ValidateExactPaymentTransaction(payload, attempt)
  BY <1>1, <1>2, <1>3, <1>4, <1>5 DEF ValidateExactPaymentTransaction
<1>9. VerifyTransactionPayerSignature(payload, Payer)
  <2>1. payload # None
    BY <1>1 DEF ValidateExactPaymentTransaction
  <2> QED BY <2>1, PayloadIsSigned
<1> QED BY <1>1, <1>3, <1>4, <1>5, <1>7, <1>8, <1>9 DEF AttemptMatches

\* What the lookup says of an attempt is about a transaction with its
\* signature, and whether that transaction failed (checkSettledTransaction).
LEMMA SettlementVerdict ==
    ASSUME NEW seen, NEW attempt, NEW verdict,
           verdict = CheckSettledTransaction(seen, attempt),
           verdict \in {"settled", "failed_onchain"}
    PROVE  /\ seen.payerSignature = attempt.payerSignature
           /\ verdict = "failed_onchain" => seen.err
           /\ verdict = "settled" => ~seen.err
BY DEF CheckSettledTransaction

-----------------------------------------------------------------------------
(* What is signed.                                                         *)

\* A signed record is the fields that were signed and their signature.
LEMMA SignedByOpens ==
    ASSUME NEW key, NEW domain, NEW F, NEW fields, fields = [f \in F |-> fields[f]],
           "signature" \notin F
    PROVE  /\ Without(SignedBy(key, domain, fields), "signature") = fields
           /\ SignedBy(key, domain, fields).signature = Sign(key, domain, fields)
           /\ \A f \in F : SignedBy(key, domain, fields)[f] = fields[f]
<1> DEFINE signed == SignedBy(key, domain, fields)
<1>1. DOMAIN fields = F
  OBVIOUS
<1>2. signed = [f \in F \cup {"signature"} |->
                  IF f \in F THEN fields[f] ELSE Sign(key, domain, fields)]
  BY <1>1 DEF SignedBy, Joined
<1> HIDE DEF signed
<1>3. (DOMAIN signed) \ {"signature"} = F
  BY <1>2
<1>4. Without(signed, "signature") = [f \in F |-> signed[f]]
  BY <1>3 DEF Without, Restrict
<1>5. \A f \in F : signed[f] = fields[f]
  BY <1>2
<1>6. signed.signature = Sign(key, domain, fields)
  BY <1>2
<1> QED BY <1>4, <1>5, <1>6 DEF signed

\* What the authority tells the service, field by field.
IsAuthorization(authorization, authority, request, paid, q, at) ==
    /\ authorization = [f \in DOMAIN authorization |-> authorization[f]]
    /\ DOMAIN authorization =
         {"version", "authority", "invocationId", "grantId", "request", "operationDigest",
          "payment", "issuedAt", "expiresAt", "signature"}
    /\ authorization.version = 1
    /\ VerifiesPinned(authorization.authority, authority, "service-authorization", authorization)
    /\ authorization.invocationId = request.invocationId
    /\ authorization.grantId = request.grantId
    /\ authorization.request =
          [method |-> paid.method, url |-> paid.url, requestSha256 |-> paid.sha256]
    /\ authorization.operationDigest = Digest(request.operation)
    /\ authorization.payment =
          [network |-> q.network, asset |-> q.asset, payTo |-> q.payTo, amount |-> q.amount]
    /\ authorization.issuedAt = at /\ authorization.expiresAt = at + AuthorizationTtl

\* An authorization states what it was signed for (#signServiceAuthorization).
LEMMA AuthorizationOpens ==
    ASSUME NEW authority, NEW request, NEW paid, NEW q, NEW at, NEW authorization,
           authorization = ServiceAuthorization(authority, request, paid, q, at)
    PROVE  IsAuthorization(authorization, authority, request, paid, q, at)
<1> DEFINE what == [method |-> paid.method, url |-> paid.url, requestSha256 |-> paid.sha256]
           payment == [network |-> q.network, asset |-> q.asset,
                       payTo |-> q.payTo, amount |-> q.amount]
           until == at + AuthorizationTtl
           digest == Digest(request.operation)
           fields == [version |-> 1, authority |-> authority,
                      invocationId |-> request.invocationId, grantId |-> request.grantId,
                      request |-> what, operationDigest |-> digest,
                      payment |-> payment, issuedAt |-> at, expiresAt |-> until]
           F == {"version", "authority", "invocationId", "grantId", "request",
                 "operationDigest", "payment", "issuedAt", "expiresAt"}
<1>1. authorization = SignedBy(authority, "service-authorization", fields)
  BY DEF ServiceAuthorization
<1> HIDE DEF what, payment, until, digest
<1>2. fields = [f \in F |-> fields[f]] /\ "signature" \notin F
  OBVIOUS
<1>3. /\ fields.version = 1 /\ fields.authority = authority
      /\ fields.invocationId = request.invocationId /\ fields.grantId = request.grantId
      /\ fields.request = what
  OBVIOUS
<1>4. /\ fields.operationDigest = digest /\ fields.payment = payment
      /\ fields.issuedAt = at /\ fields.expiresAt = until
  OBVIOUS
<1> HIDE DEF fields
<1>5. /\ Without(authorization, "signature") = fields
      /\ authorization.signature = Sign(authority, "service-authorization", fields)
      /\ \A f \in F : authorization[f] = fields[f]
      /\ DOMAIN authorization = F \cup {"signature"}
      /\ authorization = [f \in DOMAIN authorization |-> authorization[f]]
  <2> HIDE DEF F
  <2>1. /\ DOMAIN authorization = F \cup {"signature"}
        /\ authorization = [f \in DOMAIN authorization |-> authorization[f]]
    BY <1>1, <1>2 DEF SignedBy, Joined
  <2> QED BY ONLY <1>1, <1>2, <2>1, SignedByOpens
<1>6. /\ authorization.authority = authority
      /\ VerifiesPinned(authorization.authority, authority, "service-authorization",
                        authorization)
  BY <1>3, <1>5 DEF VerifiesPinned, Verifies
<1> QED BY <1>3, <1>4, <1>5, <1>6 DEF IsAuthorization, what, payment, until, digest

\* The decision receipt, field by field.
IsReceipt(receipt, authority, row) ==
    /\ DOMAIN receipt =
         {"version", "invocationId", "grantId", "authority", "agent", "permitDigest",
          "requestFingerprint", "service", "capability", "network", "mint", "recipient",
          "amount", "decision", "reasonCodes", "paymentTransactionId", "decidedAt",
          "operation", "operationDigest", "signature"}
    /\ VerifiesPinned(receipt.authority, authority, "authorization-receipt", receipt)
    /\ receipt.version = 2 /\ receipt.authority = authority
    /\ receipt.invocationId = row.invocationId /\ receipt.grantId = row.grantId
    /\ receipt.agent = row.agent /\ receipt.amount = row.amount
    /\ \A f \in {"permitDigest", "service", "capability", "network", "mint", "recipient",
                 "operation"} : receipt[f] = row.request[f]
    /\ receipt.decision = IF row.state = "CONFIRMED" THEN "ALLOW" ELSE "DENY"
    /\ receipt.reasonCodes = row.reasonCodes
    /\ receipt.paymentTransactionId =
          IF row.settlement = None THEN None ELSE row.settlement.transactionId
    /\ receipt.decidedAt = row.decidedAt
    /\ receipt.operationDigest = Digest(row.request.operation)

\* A receipt states the stored decision (decision receipts are derived from it).
LEMMA ReceiptOpens ==
    ASSUME NEW authority, NEW row, NEW receipt, receipt = DecisionReceipt(authority, row)
    PROVE  IsReceipt(receipt, authority, row)
<1> DEFINE request == row.request
           decision == IF row.state = "CONFIRMED" THEN "ALLOW" ELSE "DENY"
           paid == IF row.settlement = None THEN None ELSE row.settlement.transactionId
           digest == Digest(request.operation)
           fields ==
             [version |-> 2, invocationId |-> row.invocationId, grantId |-> row.grantId,
              authority |-> authority, agent |-> row.agent,
              permitDigest |-> request.permitDigest,
              requestFingerprint |-> row.fingerprint,
              service |-> request.service, capability |-> request.capability,
              network |-> request.network, mint |-> request.mint,
              recipient |-> request.recipient, amount |-> row.amount,
              decision |-> decision, reasonCodes |-> row.reasonCodes,
              paymentTransactionId |-> paid, decidedAt |-> row.decidedAt,
              operation |-> request.operation, operationDigest |-> digest]
           F == {"version", "invocationId", "grantId", "authority", "agent", "permitDigest",
                 "requestFingerprint", "service", "capability", "network", "mint", "recipient",
                 "amount", "decision", "reasonCodes", "paymentTransactionId", "decidedAt",
                 "operation", "operationDigest"}
<1>1. receipt = SignedBy(authority, "authorization-receipt", fields)
  BY DEF DecisionReceipt
<1> HIDE DEF decision, paid, digest
<1>2. fields = [f \in F |-> fields[f]] /\ "signature" \notin F
  OBVIOUS
<1>3. /\ fields.version = 2 /\ fields.authority = authority
      /\ fields.invocationId = row.invocationId /\ fields.grantId = row.grantId
      /\ fields.agent = row.agent /\ fields.amount = row.amount
  OBVIOUS
<1>4. /\ fields.permitDigest = request.permitDigest
      /\ fields.service = request.service /\ fields.capability = request.capability
      /\ fields.network = request.network /\ fields.mint = request.mint
      /\ fields.recipient = request.recipient /\ fields.operation = request.operation
  OBVIOUS
<1>5. /\ fields.decision = decision /\ fields.reasonCodes = row.reasonCodes
      /\ fields.paymentTransactionId = paid /\ fields.decidedAt = row.decidedAt
      /\ fields.operationDigest = digest
  OBVIOUS
<1> HIDE DEF fields
<1>6. /\ Without(receipt, "signature") = fields
      /\ receipt.signature = Sign(authority, "authorization-receipt", fields)
      /\ \A f \in F : receipt[f] = fields[f]
      /\ DOMAIN receipt = F \cup {"signature"}
  <2> HIDE DEF F
  <2>1. DOMAIN receipt = F \cup {"signature"}
    BY <1>1, <1>2 DEF SignedBy, Joined
  <2> QED BY ONLY <1>1, <1>2, <2>1, SignedByOpens
<1>7. /\ receipt.authority = authority
      /\ VerifiesPinned(receipt.authority, authority, "authorization-receipt", receipt)
  BY <1>3, <1>6 DEF VerifiesPinned, Verifies
<1>8. /\ receipt.version = 2
      /\ receipt.invocationId = row.invocationId /\ receipt.grantId = row.grantId
      /\ receipt.agent = row.agent /\ receipt.amount = row.amount
  BY <1>3, <1>6
<1>9. \A f \in {"permitDigest", "service", "capability", "network", "mint", "recipient",
                "operation"} : receipt[f] = row.request[f]
  BY <1>4, <1>6
<1>10. /\ receipt.decision = decision /\ receipt.reasonCodes = row.reasonCodes
       /\ receipt.paymentTransactionId = paid /\ receipt.decidedAt = row.decidedAt
       /\ receipt.operationDigest = digest
  BY <1>5, <1>6
<1> QED BY <1>6, <1>7, <1>8, <1>9, <1>10 DEF IsReceipt, decision, paid, digest

\* An acknowledgement in the schema of the parser, its quoted terms aside.
AcknowledgementIsPlain(ack) ==
    /\ DOMAIN ack =
         {"version", "service", "invocationId", "authorizationDigest", "requestSha256",
          "received", "payment", "result", "fulfilledAt", "signature"}
    /\ ack.version = 1 /\ ack.fulfilledAt >= 1

\* Whatever a service acknowledges, it has the fields of the schema.
LEMMA AcknowledgementOpens ==
    ASSUME NEW service, NEW received, NEW terms, NEW transaction, NEW result, NEW at, at >= 1
    PROVE  AcknowledgementIsPlain(
               ServiceAcknowledgement(service, received, terms, transaction, result, at))
<1> DEFINE digest == ServiceAuthorizationDigest(received.authorization)
           sha256 == Digest([url |-> received.authorization.request.url,
                             method |-> "POST", body |-> received.body])
           did == [method |-> received.method, resource |-> received.path,
                   operation |-> received.body[1], datasetId |-> received.body[2]]
           payment == [transaction |-> transaction, asset |-> terms.asset,
                       payTo |-> terms.payTo, amount |-> terms.amount]
           sent == [httpStatus |-> 200, sha256 |-> result.sha256, bytes |-> result.bytes]
           fields == [version |-> 1, service |-> service, invocationId |-> received.invocationId,
                      authorizationDigest |-> digest, requestSha256 |-> sha256,
                      received |-> did, payment |-> payment, result |-> sent,
                      fulfilledAt |-> at]
           F == {"version", "service", "invocationId", "authorizationDigest", "requestSha256",
                 "received", "payment", "result", "fulfilledAt"}
           ack == SignedBy(service, "service-acknowledgement", fields)
<1>1. ServiceAcknowledgement(service, received, terms, transaction, result, at) = ack
  BY DEF ServiceAcknowledgement
<1> HIDE DEF digest, sha256, did, payment, sent
<1>2. /\ fields = [f \in F |-> fields[f]] /\ "signature" \notin F
      /\ {"version", "fulfilledAt"} \subseteq F
      /\ fields.version = 1 /\ fields.fulfilledAt = at
  OBVIOUS
<1> HIDE DEF fields
<1>3. \A f \in F : ack[f] = fields[f]
  <2> HIDE DEF F
  <2> QED BY ONLY <1>2, SignedByOpens
<1>4. DOMAIN ack = F \cup {"signature"}
  BY <1>2 DEF SignedBy, Joined
<1> HIDE DEF ack
<1>5. ack.version = 1 /\ ack.fulfilledAt = at
  BY <1>2, <1>3
<1> QED BY <1>1, <1>4, <1>5 DEF AcknowledgementIsPlain

\* What a request has that checkServiceAuthorization lets through.
AuthorizedBy(received, key) ==
    LET authorization == received.authorization
    IN /\ authorization # None
       /\ VerifiesPinned(authorization.authority, key,
                         "service-authorization", authorization)
       /\ authorization.invocationId = received.invocationId
       /\ authorization.request.method = received.method
       /\ authorization.request.requestSha256 =
             Digest([url |-> authorization.request.url, method |-> "POST",
                     body |-> received.body])

AuthorizedFor(received, terms) ==
    \A field \in {"asset", "payTo", "amount"} :
        received.authorization.payment[field] = terms[field]

\* What checkServiceAuthorization lets through: signed by the authority, for these
\* terms, at this time.
LEMMA CheckedAuthorization ==
    ASSUME NEW received, NEW key, NEW terms, NEW at,
           CheckServiceAuthorization(received, key, terms, at) = "ok"
    PROVE  /\ AuthorizedBy(received, key) /\ AuthorizedFor(received, terms)
           /\ at \in (received.authorization.issuedAt - AuthorizationSkew)
                     ..received.authorization.expiresAt
<1> DEFINE authorization == received.authorization
           Verified == VerifiesPinned(authorization.authority, key,
                                      "service-authorization", authorization)
           digest == Digest([url |-> authorization.request.url, method |-> "POST",
                             body |-> received.body])
           Late == at \notin (authorization.issuedAt - AuthorizationSkew)..authorization.expiresAt
<1> HIDE DEF Verified, digest, Late
<1>1. /\ authorization # None /\ Verified /\ ~Late
      /\ received.method = authorization.request.method
      /\ digest = authorization.request.requestSha256
      /\ received.invocationId = authorization.invocationId
      /\ \A field \in {"asset", "payTo", "amount"} :
            authorization.payment[field] = terms[field]
  BY DEF CheckServiceAuthorization, Verified, digest, Late
<1> QED BY <1>1 DEF Verified, digest, Late, AuthorizedBy, AuthorizedFor

\* How long the authorization of a paid request lasts.
LEMMA AuthorizationLasts ==
    ASSUME NEW authority, NEW request, NEW paid, NEW requirement, NEW at
    PROVE  ServiceAuthorization(authority, request, paid, requirement, at).expiresAt =
               at + AuthorizationTtl
<1> DEFINE what == [method |-> paid.method, url |-> paid.url, requestSha256 |-> paid.sha256]
           payment == [network |-> requirement.network, asset |-> requirement.asset,
                       payTo |-> requirement.payTo, amount |-> requirement.amount]
           until == at + AuthorizationTtl
           fields == [version |-> 1, authority |-> authority,
                      invocationId |-> request.invocationId, grantId |-> request.grantId,
                      request |-> what, operationDigest |-> Digest(request.operation),
                      payment |-> payment, issuedAt |-> at, expiresAt |-> until]
           F == {"version", "authority", "invocationId", "grantId", "request",
                 "operationDigest", "payment", "issuedAt", "expiresAt"}
<1>1. ServiceAuthorization(authority, request, paid, requirement, at) =
          SignedBy(authority, "service-authorization", fields)
  BY DEF ServiceAuthorization
<1> HIDE DEF what, payment, until
<1>2. fields = [f \in F |-> fields[f]] /\ "signature" \notin F /\ "expiresAt" \in F
  OBVIOUS
<1>3. fields.expiresAt = until
  OBVIOUS
<1> HIDE DEF fields, F
<1>4. SignedBy(authority, "service-authorization", fields).expiresAt = fields.expiresAt
  BY ONLY <1>2, SignedByOpens
<1> QED BY <1>1, <1>3, <1>4 DEF until

\* Two requests with one fingerprint differ in their time and audience only.
LEMMA SameFingerprint ==
    ASSUME NEW permit, NEW one, NEW other,
           DOMAIN one = RequestFields, DOMAIN other = RequestFields,
           Fingerprint(permit, one) = Fingerprint(permit, other)
    PROVE  \A f \in RequestFields \ {"issuedAt", "audience"} : one[f] = other[f]
<1> DEFINE F == RequestFields \ {"issuedAt", "audience"}
           covered(request) ==
               [f \in F |-> IF f = "operation" THEN Digest(request.operation) ELSE request[f]]
<1>1. Digest(covered(one)) = Digest(covered(other))
  BY DEF Fingerprint
<1>2. covered(one) = covered(other)
  <2> HIDE DEF covered
  <2> QED BY <1>1 DEF Digest
<1>3. \A f \in F : covered(one)[f] = covered(other)[f]
  BY <1>2
<1>4. ASSUME NEW f \in F, f # "operation" PROVE one[f] = other[f]
  BY <1>3, <1>4
<1>5. one.operation = other.operation
  <2>1. "operation" \in F
    BY DEF RequestFields
  <2>2. Digest(one.operation) = Digest(other.operation)
    BY <1>3, <2>1
  <2> QED BY <2>2 DEF Digest
<1> QED BY <1>4, <1>5

-----------------------------------------------------------------------------
(* The export.                                                             *)

\* What the digests of a bundle say of one artifact (computeEvidenceDigests).
LEMMA DigestOfArtifact ==
    ASSUME NEW artifacts,
           NEW name \in DOMAIN artifacts \ {"version", "environment", "identifiers", "manifest"},
           name \notin {"permit", "operation"}
    PROVE  EvidenceDigests(artifacts)[name] = ArtifactDigest(name, artifacts[name])
BY DEF EvidenceDigests

\* An artifact and its digest determine each other (SHA-256 over its name and
\* contents).
LEMMA DigestNamesArtifact ==
    ASSUME NEW name, NEW one, NEW other, ArtifactDigest(name, one) = ArtifactDigest(name, other)
    PROVE  one = other
BY DEF ArtifactDigest, Digest, NoDigest

\* What the artifacts of an invocation are (buildEvidenceBundle); version 2
\* extends version 1.
HasArtifacts(artifacts, row, resource, version) ==
    /\ DOMAIN artifacts =
          ArtifactsOf(version) \cup {"version", "environment", "identifiers"}
    /\ artifacts = [field \in DOMAIN artifacts |-> artifacts[field]]
    /\ artifacts.version = version
    /\ artifacts.environment = [settlementProfile |-> row.permit.network]
    /\ artifacts.identifiers = [grantId |-> row.grantId, invocationId |-> row.invocationId]
    /\ artifacts.permit = row.permit
    /\ artifacts.authorizationRequest =
          [request |-> row.request, agentSignature |-> row.agentSignature]
    /\ artifacts.authorityDecision = row.receipt
    /\ artifacts.outboundRequest =
          IF row.requirement = None \/ resource = None THEN None
          ELSE BuildPaidRequest(resource, row.request.operation)
    /\ artifacts.requirement = row.requirement
    /\ artifacts.attempt = row.attempt
    /\ artifacts.settlement =
          IF row.state = "CONFIRMED" THEN row.settlement ELSE None
    /\ artifacts.result =
          IF row.state = "CONFIRMED" THEN Without(row.result, "acknowledgement") ELSE None
    /\ version = 2 =>
          /\ artifacts.serviceAuthorization =
                IF row.attempt = None THEN None ELSE row.serviceAuthorization
          /\ artifacts.serviceAcknowledgement =
                IF row.state = "CONFIRMED" THEN row.result.acknowledgement ELSE None

\* The artifacts of a stored purchase, of either version (Artifacts).
LEMMA AllArtifactsOfRow ==
    ASSUME NEW row, NEW resource, NEW version \in {1, 2}, NEW artifacts,
           artifacts = Artifacts(row, resource, version)
    PROVE  HasArtifacts(artifacts, row, resource, version)
<1> DEFINE paid == IF resource = None THEN None
                   ELSE BuildPaidRequest(resource, row.request.operation)
           confirmed == row.state = "CONFIRMED"
           environment == [settlementProfile |-> row.permit.network]
           identifiers == [grantId |-> row.grantId, invocationId |-> row.invocationId]
           signed == [request |-> row.request, agentSignature |-> row.agentSignature]
           outbound == IF row.requirement = None THEN None ELSE paid
           settlement == IF confirmed THEN row.settlement ELSE None
           result == IF confirmed THEN Without(row.result, "acknowledgement") ELSE None
           v1 == [version |-> 1, environment |-> environment, identifiers |-> identifiers,
                  permit |-> row.permit, authorizationRequest |-> signed,
                  authorityDecision |-> row.receipt, outboundRequest |-> outbound,
                  requirement |-> row.requirement, attempt |-> row.attempt,
                  settlement |-> settlement, result |-> result]
           authorization == IF row.attempt = None THEN None ELSE row.serviceAuthorization
           ack == IF confirmed THEN row.result.acknowledgement ELSE None
           v2 == [version |-> 2, serviceAuthorization |-> authorization,
                  serviceAcknowledgement |-> ack]
<1>1. artifacts = IF version = 1 THEN v1 ELSE Joined(v2, v1)
  BY DEF Artifacts
<1> HIDE DEF paid, environment, identifiers, signed, outbound, settlement, result,
             authorization, ack
<1>2. /\ DOMAIN v1 = {"version", "environment", "identifiers", "permit",
                      "authorizationRequest", "authorityDecision", "outboundRequest",
                      "requirement", "attempt", "settlement", "result"}
      /\ v1 = [field \in DOMAIN v1 |-> v1[field]]
      /\ DOMAIN v2 = {"version", "serviceAuthorization", "serviceAcknowledgement"}
  OBVIOUS
<1>3. /\ v1.version = 1 /\ v1.environment = environment /\ v1.identifiers = identifiers
      /\ v1.permit = row.permit /\ v1.authorizationRequest = signed
  OBVIOUS
<1>4. /\ v1.authorityDecision = row.receipt /\ v1.outboundRequest = outbound
      /\ v1.requirement = row.requirement /\ v1.attempt = row.attempt
  OBVIOUS
<1>5. v1.settlement = settlement /\ v1.result = result
  OBVIOUS
<1>6. /\ v2.version = 2 /\ v2.serviceAuthorization = authorization
      /\ v2.serviceAcknowledgement = ack
  OBVIOUS
<1> HIDE DEF v1, v2
<1> DEFINE Known == {"environment", "identifiers", "permit", "authorizationRequest",
                     "authorityDecision", "outboundRequest", "requirement", "attempt",
                     "settlement", "result"}
<1>7. /\ DOMAIN artifacts = ArtifactsOf(version) \cup {"version", "environment", "identifiers"}
      /\ artifacts = [field \in DOMAIN artifacts |-> artifacts[field]]
      /\ artifacts.version = version
      /\ \A field \in Known : artifacts[field] = v1[field]
      /\ version = 2 => /\ artifacts.serviceAuthorization = v2.serviceAuthorization
                        /\ artifacts.serviceAcknowledgement = v2.serviceAcknowledgement
  <2>1. CASE version = 1
    BY <1>1, <1>2, <1>3, <2>1 DEF ArtifactsOf, V1Artifacts
  <2>2. CASE version = 2
    <3>1. artifacts = [field \in DOMAIN v2 \cup DOMAIN v1 |->
                          IF field \in DOMAIN v2 THEN v2[field] ELSE v1[field]]
      BY <1>1, <2>2 DEF Joined
    <3> QED BY <1>2, <1>6, <2>2, <3>1 DEF ArtifactsOf, V1Artifacts, V2Artifacts
  <2> QED BY <2>1, <2>2
<1> QED BY <1>3, <1>4, <1>5, <1>6, <1>7
        DEF HasArtifacts, paid, environment, identifiers, signed, outbound, settlement, result,
            authorization, ack, confirmed

\* A bundle is the invocation's artifacts and a manifest, signed by the
\* authority, that states their digests (buildEvidenceBundle).
IsBundleOf(bundle, row, resource, authority, version, at) ==
    /\ DOMAIN bundle =
          ArtifactsOf(version) \cup {"version", "environment", "identifiers", "manifest"}
    /\ Without(bundle, "manifest") = Artifacts(row, resource, version)
    /\ \A field \in ArtifactsOf(version) \cup {"version", "environment", "identifiers"} :
          bundle[field] = Artifacts(row, resource, version)[field]
    /\ DOMAIN bundle.manifest =
         {"version", "authority", "issuedAt", "settlementProfile", "grantId",
          "invocationId", "purchaseState", "decision", "reasonCodes", "digests", "signature"}
    /\ VerifiesPinned(bundle.manifest.authority, authority, "evidence-manifest",
                      bundle.manifest)
    /\ bundle.manifest.version = version /\ bundle.manifest.authority = authority
    /\ bundle.manifest.issuedAt = at
    /\ bundle.manifest.settlementProfile = row.permit.network
    /\ bundle.manifest.grantId = row.grantId
    /\ bundle.manifest.invocationId = row.invocationId
    /\ bundle.manifest.purchaseState = row.state
    /\ bundle.manifest.decision = IF row.state = "DENIED" THEN "DENY" ELSE "ALLOW"
    /\ bundle.manifest.reasonCodes = row.reasonCodes
    /\ bundle.manifest.digests = EvidenceDigests(Artifacts(row, resource, version))

\* A bundle is made of these pieces (buildEvidenceBundle).
LEMMA BundleOpens ==
    ASSUME NEW row, NEW resource, NEW authority, NEW version \in {1, 2}, NEW at, NEW bundle,
           bundle = BuildEvidenceBundle(row, resource, authority, version, at)
    PROVE  IsBundleOf(bundle, row, resource, authority, version, at)
<1> DEFINE artifacts == Artifacts(row, resource, version)
           digests == EvidenceDigests(artifacts)
           decision == IF row.state = "DENIED" THEN "DENY" ELSE "ALLOW"
           fields == [version |-> version, authority |-> authority, issuedAt |-> at,
                      settlementProfile |-> row.permit.network,
                      grantId |-> row.grantId, invocationId |-> row.invocationId,
                      purchaseState |-> row.state, decision |-> decision,
                      reasonCodes |-> row.reasonCodes, digests |-> digests]
           F == {"version", "authority", "issuedAt", "settlementProfile", "grantId",
                 "invocationId", "purchaseState", "decision", "reasonCodes", "digests"}
           manifest == SignedBy(authority, "evidence-manifest", fields)
<1>1. bundle = Joined(artifacts, [manifest |-> manifest])
  BY DEF BuildEvidenceBundle
<1>2. /\ DOMAIN artifacts =
            ArtifactsOf(version) \cup {"version", "environment", "identifiers"}
      /\ artifacts = [field \in DOMAIN artifacts |-> artifacts[field]]
  <2>1. artifacts = Artifacts(row, resource, version)
    OBVIOUS
  <2> HIDE DEF artifacts
  <2>2. HasArtifacts(artifacts, row, resource, version)
    BY <2>1, AllArtifactsOfRow
  <2> QED BY ONLY <2>2 DEF HasArtifacts
<1> HIDE DEF artifacts, digests, decision
<1>3. fields = [f \in F |-> fields[f]] /\ "signature" \notin F
  OBVIOUS
<1>4. /\ fields.version = version /\ fields.authority = authority /\ fields.issuedAt = at
      /\ fields.settlementProfile = row.permit.network
      /\ fields.grantId = row.grantId /\ fields.invocationId = row.invocationId
  OBVIOUS
<1>5. /\ fields.purchaseState = row.state /\ fields.decision = decision
      /\ fields.reasonCodes = row.reasonCodes /\ fields.digests = digests
  OBVIOUS
<1> HIDE DEF fields
<1>6. /\ Without(manifest, "signature") = fields
      /\ manifest.signature = Sign(authority, "evidence-manifest", fields)
      /\ \A f \in F : manifest[f] = fields[f]
      /\ DOMAIN manifest = F \cup {"signature"}
  <2> HIDE DEF F
  <2>1. DOMAIN manifest = F \cup {"signature"}
    BY <1>3 DEF SignedBy, Joined
  <2> QED BY ONLY <1>3, <2>1, SignedByOpens
<1> HIDE DEF manifest
<1>7. /\ manifest.authority = authority
      /\ VerifiesPinned(manifest.authority, authority, "evidence-manifest", manifest)
  BY <1>4, <1>6 DEF VerifiesPinned, Verifies
<1>8. bundle = [field \in DOMAIN artifacts \cup {"manifest"} |->
                   IF field \in DOMAIN artifacts THEN artifacts[field] ELSE manifest]
  BY <1>1 DEF Joined
<1>9. "manifest" \notin DOMAIN artifacts
  BY <1>2 DEF ArtifactsOf, V1Artifacts, V2Artifacts
<1>10. /\ bundle.manifest = manifest
       /\ DOMAIN bundle = DOMAIN artifacts \cup {"manifest"}
       /\ \A field \in DOMAIN artifacts : bundle[field] = artifacts[field]
  BY <1>8, <1>9
<1>11. Without(bundle, "manifest") = artifacts
  <2>1. (DOMAIN bundle) \ {"manifest"} = DOMAIN artifacts
    BY <1>9, <1>10
  <2>2. Without(bundle, "manifest") = [field \in DOMAIN artifacts |-> bundle[field]]
    BY <2>1 DEF Without, Restrict
  <2> QED BY <1>2, <1>10, <2>2
<1>12. /\ manifest.version = version /\ manifest.issuedAt = at
       /\ manifest.settlementProfile = row.permit.network
       /\ manifest.grantId = row.grantId /\ manifest.invocationId = row.invocationId
       /\ manifest.purchaseState = row.state /\ manifest.decision = decision
       /\ manifest.reasonCodes = row.reasonCodes /\ manifest.digests = digests
  BY <1>4, <1>5, <1>6
<1> QED BY <1>2, <1>6, <1>7, <1>10, <1>11, <1>12 DEF IsBundleOf, artifacts, digests, decision

\* A bundle is the invocation's artifacts and a manifest that states their
\* digests (buildEvidenceBundle).
LEMMA BundleOfRow ==
    ASSUME NEW row, NEW resource, NEW authority, NEW version \in {1, 2}, NEW at, NEW bundle,
           bundle = BuildEvidenceBundle(row, resource, authority, version, at)
    PROVE  /\ bundle.version = version
           /\ ArtifactsOf(version) \subseteq DOMAIN bundle
           /\ \A name \in ArtifactsOf(version) \ {"permit"} :
                 bundle.manifest.digests[name] = ArtifactDigest(name, bundle[name])
           /\ bundle.manifest.purchaseState = row.state
           /\ bundle.permit = row.permit
           /\ bundle.authorityDecision = row.receipt
           /\ bundle.attempt = row.attempt
           /\ bundle.settlement = IF row.state = "CONFIRMED" THEN row.settlement ELSE None
<1> DEFINE artifacts == Artifacts(row, resource, version)
<1>1. IsBundleOf(bundle, row, resource, authority, version, at)
  BY BundleOpens
<1>2. HasArtifacts(artifacts, row, resource, version)
  BY AllArtifactsOfRow
<1> HIDE DEF artifacts
<1>3. /\ DOMAIN artifacts =
            ArtifactsOf(version) \cup {"version", "environment", "identifiers"}
      /\ artifacts.version = version /\ artifacts.permit = row.permit
      /\ artifacts.authorityDecision = row.receipt /\ artifacts.attempt = row.attempt
      /\ artifacts.settlement = IF row.state = "CONFIRMED" THEN row.settlement ELSE None
  BY <1>2 DEF HasArtifacts
<1>4. /\ \A field \in ArtifactsOf(version) \cup {"version", "environment", "identifiers"} :
            bundle[field] = artifacts[field]
      /\ ArtifactsOf(version) \subseteq DOMAIN bundle
      /\ bundle.manifest.purchaseState = row.state
      /\ bundle.manifest.digests = EvidenceDigests(artifacts)
  BY <1>1 DEF IsBundleOf, artifacts
<1>5. /\ {"permit", "authorityDecision", "attempt", "settlement"} \subseteq ArtifactsOf(version)
      /\ {"version", "environment", "identifiers", "manifest", "operation"}
           \cap ArtifactsOf(version) = {}
  BY DEF ArtifactsOf, V1Artifacts, V2Artifacts
<1>6. \A name \in ArtifactsOf(version) \ {"permit"} :
         EvidenceDigests(artifacts)[name] = ArtifactDigest(name, artifacts[name])
  BY <1>3, <1>5, DigestOfArtifact
<1> QED BY <1>3, <1>4, <1>5, <1>6

-----------------------------------------------------------------------------
(* The verdict.                                                            *)

\* Claims none of which is invalid, and of which every required one is
\* verified.
Pass(claims) == \A c \in claims : c.status # "INVALID" /\ (c.required => c.status = "VERIFIED")

\* The verdict is VALID for exactly those (overallOf).
LEMMA ValidVerdict ==
    ASSUME NEW claims
    PROVE  Overall(claims) = "VALID" <=> Pass(claims)
<1> DEFINE unmet == {c \in claims : c.required /\ c.status # "VERIFIED"}
           Invalid == \E c \in claims : c.status = "INVALID"
           Open == \A c \in unmet : c.status = "INDETERMINATE"
<1>1. Pass(claims) <=> ~Invalid /\ unmet = {}
  BY DEF Pass
<1>2. Overall(claims) = IF Invalid THEN "INVALID" ELSE IF unmet = {} THEN "VALID"
                        ELSE IF Open THEN "INDETERMINATE" ELSE "INVALID"
  BY DEF Overall
<1> HIDE DEF Invalid, unmet, Open
<1> QED BY <1>1, <1>2

\* A required check that holds passes.
LEMMA CheckPasses ==
    ASSUME NEW id, NEW holds, holds
    PROVE  Pass(Check(id, holds))
BY DEF Pass, Check, Claim

\* A claim that is not required passes unless it is invalid.
LEMMA OptionalPasses ==
    ASSUME NEW id, NEW status, status # "INVALID"
    PROVE  Pass(Claim(id, status, FALSE))
BY DEF Pass, Claim

\* A required claim passes only if it is verified.
LEMMA RequiredPasses ==
    ASSUME NEW id, NEW status
    PROVE  Pass(Claim(id, status, TRUE)) <=> status = "VERIFIED"
BY DEF Pass, Claim

\* Claims pass together if each of them does.
LEMMA UnionPasses ==
    ASSUME NEW one, NEW other
    PROVE  Pass(one \cup other) <=> Pass(one) /\ Pass(other)
BY DEF Pass

\* A claim that waits for the chain leaves the verdict open.
LEMMA OpenVerdict ==
    ASSUME NEW claims, NEW id, Pass(claims)
    PROVE  Overall(claims \cup Claim(id, "INDETERMINATE", TRUE)) = "INDETERMINATE"
<1> DEFINE all == claims \cup Claim(id, "INDETERMINATE", TRUE)
           unmet == {c \in all : c.required /\ c.status # "VERIFIED"}
           Invalid == \E c \in all : c.status = "INVALID"
           Open == \A c \in unmet : c.status = "INDETERMINATE"
<1> DEFINE waiting == [id |-> id, status |-> "INDETERMINATE", required |-> TRUE]
<1>1. all = claims \cup {waiting}
  BY DEF Claim
<1>2. waiting.status = "INDETERMINATE" /\ waiting.required
  OBVIOUS
<1>3. ~Invalid /\ waiting \in unmet /\ Open
  <2> HIDE DEF waiting, all
  <2> QED BY <1>1, <1>2 DEF Pass
<1>4. Overall(all) = IF Invalid THEN "INVALID" ELSE IF unmet = {} THEN "VALID"
                     ELSE IF Open THEN "INDETERMINATE" ELSE "INVALID"
  BY DEF Overall
<1> HIDE DEF Invalid, unmet, Open
<1> QED BY <1>3, <1>4

\* One claim that is invalid makes the verdict invalid (overallOf).
LEMMA InvalidClaim ==
    ASSUME NEW claims, NEW id, Check(id, FALSE) \subseteq claims
    PROVE  Overall(claims) = "INVALID"
BY DEF Check, Claim, Overall

\* No bundle verifies whose artifacts have not the digests of its manifest.
LEMMA WrongDigestIsInvalid ==
    ASSUME NEW bundle, NEW trust, NEW mode, NEW seen,
           EvidenceDigests(Without(bundle, "manifest")) # bundle.manifest.digests
    PROVE  VerifyEvidenceBundle(bundle, trust, mode, seen) = "INVALID"
<1> DEFINE claims == TrustClaims(bundle, trust) \cup IntegrityClaims(bundle, trust) \cup
                     StateClaims(bundle) \cup AuthorizationClaims(bundle, trust) \cup
                     PolicyClaims(bundle) \cup PaymentClaims(bundle, trust) \cup
                     ResultClaims(bundle) \cup BudgetClaims \cup
                     ServiceClaims(bundle, trust) \cup SettlementClaims(bundle, mode, seen)
<1>1. Check("artifact_digests", FALSE) \subseteq IntegrityClaims(bundle, trust)
  BY DEF IntegrityClaims, Check
<1>2. Overall(claims) = "INVALID"
  BY <1>1, InvalidClaim
<1> HIDE DEF claims
<1>3. VerifyEvidenceBundle(bundle, trust, mode, seen) =
         IF ~Parses(bundle) THEN "INVALID" ELSE Overall(claims)
  BY DEF VerifyEvidenceBundle, claims
<1> QED BY <1>2, <1>3

=============================================================================
