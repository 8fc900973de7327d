----------------------------- MODULE EvidenceTrail -----------------------------
(***************************************************************************)
(* One purchase from the signed request to the exported evidence: the      *)
(* authority's handling of one invocation (src/apps/authority/src/         *)
(* authorize.ts) with what it decides, signs, sends and records, the paid  *)
(* service that checks the authorization before its gate settles, the      *)
(* chain, and restarts.  AuthorityStore and AuthorityService model several *)
(* invocations and processes at once and abstract these contents.          *)
(*                                                                         *)
(* Time is the authority's clock.  A call is what one request does between *)
(* two awaits; the store's writes are single steps.                        *)
(***************************************************************************)
EXTENDS EvidenceVerifier

CONSTANTS
    Permit,         \* the signed permit of the grant
    Asks,           \* unsigned requests of the agent, but for issuedAt
    Skews,          \* issuedAt of a request, relative to its arrival
    Answers,        \* answers of the service to the unpaid request
    OtherQuotes,    \* what the x402 client may be asked to pay by mistake
    Bodies,         \* results of the service
    Reports,        \* transactions the facilitator reports
    Resources,      \* the registry's resource, as it may be configured
    Committed,      \* what the grant has committed to other invocations
    Profile,        \* the settlement profile
    ServiceTerms,   \* what the service charges
    Authority, Audience, Service,
    HttpTimeout,    \* httpTimeoutMs
    MaxTime, MaxAttempts,   \* bounds of the model
    MaxRetryTime            \* bound of the clock once a payment is retried

ASSUME TrailAssumption ==
    /\ VerifyPermit(Permit)
    /\ HttpTimeout \in Nat /\ MaxAttempts \in Nat
    /\ MaxTime \in Nat \ {0} /\ MaxRetryTime \in 0..MaxTime
    /\ Permit.expiresAt \in Int /\ \A ask \in Asks : ask.amount \in Int
    /\ Skews \subseteq Int /\ Committed \subseteq Nat
    /\ Payer \notin {None, Odd}

VARIABLES
    now,        \* the clock
    resource,   \* the configured paid resource
    row,        \* the stored invocation, or NoRow
    call,       \* the call in progress
    wire,       \* paid requests on their way to the service
    submitted,  \* transactions the facilitator has, not landed
    chain,      \* transactions that landed, failed, or can no longer land
    held,       \* a bundle somebody exported and kept, or null
    attempts    \* payment attempts made

trailVars == <<now, resource, row, call, wire, submitted, chain, held, attempts>>

Idle == [pc |-> "idle"]

\* No stored invocation.
NoRow == [state |-> "none"]

Trust(service) == [issuer |-> Permit.issuer, authority |-> Authority,
                   profiles |-> {Profile}, service |-> service]

TrailInit ==
    /\ now = 1
    /\ resource \in Resources
    /\ row = NoRow
    /\ call = Idle
    /\ wire = {} /\ submitted = {} /\ chain = {}
    /\ held = None
    /\ attempts = 0

-----------------------------------------------------------------------------
(* The decision.                                                           *)

Input(ask, skew) ==
    LET request == [f \in RequestFields |-> IF f = "issuedAt" THEN now + skew ELSE ask[f]]
    IN [permit |-> Permit, request |-> request,
        signature |-> SignRequest(request, Permit.agent)]

\* Authenticated, and the invocation is new or may be tried again.
MayProcess(input) ==
    /\ call = Idle
    /\ Authenticate(input, Permit.issuer, {Profile.name}, Audience, now) = {}
    /\ row # NoRow => /\ row.state = "FAILED"
                      /\ row.fingerprint = Fingerprint(input.permit, input.request)

\* Why the service is not contacted for a request that is itself permitted.
Unavailable(request) ==
    IF Permit.network # Profile.name THEN {"SETTLEMENT_PROFILE_UNAVAILABLE"}
    ELSE IF BuildPaidRequest(resource, request.operation) = None
         THEN {"PAID_SERVICE_NOT_CONFIGURED"} ELSE {}

\* The row reserve writes: a retry keeps nothing of the failed attempt.
Decided(input, state, codes, requirement, decidedAt) ==
    [invocationId |-> input.request.invocationId, grantId |-> input.permit.grantId,
     state |-> state, fingerprint |-> Fingerprint(input.permit, input.request),
     agent |-> input.permit.agent, request |-> input.request, permit |-> input.permit,
     agentSignature |-> input.signature, amount |-> input.request.amount,
     decidedAt |-> decidedAt, reasonCodes |-> codes, requirement |-> requirement,
     attempt |-> None, serviceAuthorization |-> None, settlement |-> None,
     result |-> None, receipt |-> None]

\* Denied without contacting the service.
DenyAtOnce(ask, skew, committed) ==
    LET input == Input(ask, skew)
        codes == IF RequestAllowed(input.permit, input.request, now)
                 THEN Unavailable(input.request) ELSE {}
    IN /\ MayProcess(input)
       /\ RequestAllowed(input.permit, input.request, now) => codes # {}
       /\ row' = Decided(input, "DENIED",
                         Evaluate(input.permit, input.request, None, codes, committed, now),
                         None, now)
       /\ call' = [pc |-> "receipt"]
       /\ UNCHANGED <<now, resource, wire, submitted, chain, held, attempts>>

\* The request is permitted: the service is asked for its terms.
Begin(ask, skew) ==
    LET input == Input(ask, skew)
    IN /\ MayProcess(input)
       /\ RequestAllowed(input.permit, input.request, now)
       /\ Unavailable(input.request) = {}
       /\ call' = [pc |-> "challenge", input |-> input, decidedAt |-> now, since |-> now]
       /\ UNCHANGED <<now, resource, row, wire, submitted, chain, held, attempts>>

\* Its answer, the decision, and the authorization for the service.
Answered(answer, committed) ==
    LET input == call.input
        request == input.request
        paid == BuildPaidRequest(resource, request.operation)
        challenge == FetchChallenge(paid, answer)
        selection == SelectAndValidateChallenge(challenge, Profile, paid, request, Payer)
        codes == Evaluate(input.permit, request, selection.requirement, selection.codes,
                          committed, call.decidedAt)
        decision(state) == Decided(input, state, codes, selection.requirement, call.decidedAt)
    IN /\ call.pc = "challenge"
       /\ \/ /\ challenge.kind = "unavailable"
             /\ call' = Idle /\ row' = row
          \/ /\ challenge.kind # "unavailable" /\ codes # {}
             /\ row' = decision("DENIED")
             /\ call' = [pc |-> "receipt"]
          \/ /\ challenge.kind # "unavailable" /\ codes = {}
             /\ row' = decision("RESERVED")
             /\ call' = [pc |-> "reserved", paid |-> paid, challenge |-> challenge,
                         authorization |-> ServiceAuthorization(Authority, request, paid,
                                                selection.requirement, now)]
       /\ UNCHANGED <<now, resource, wire, submitted, chain, held, attempts>>

-----------------------------------------------------------------------------
(* The payment.                                                            *)

\* Slip: the attempt is not recorded before the credential leaves.
PrepareUnrecorded(quote, blockhash) ==
    LET payload == CreatePaymentPayload(quote, Payer, blockhash, attempts + 1)
        attempt == PrepareAttempt(Profile, call.paid, call.challenge, row.requirement,
                                  payload, blockhash, now)
    IN /\ call.pc = "reserved"
       /\ attempts < MaxAttempts
       /\ attempts = 0 \/ now <= MaxRetryTime
       /\ attempt # None
       /\ call' = [pc |-> "recorded"]
       /\ attempts' = attempts + 1
       /\ UNCHANGED <<now, resource, row, wire, submitted, chain, held>>

\* execute up to transmission: the client is asked to pay for a quote, the
\* transaction it built is checked, and the attempt is recorded.
Prepare(quote, blockhash) ==
    LET payload == CreatePaymentPayload(quote, Payer, blockhash, attempts + 1)
        attempt == PrepareAttempt(Profile, call.paid, call.challenge, row.requirement,
                                  payload, blockhash, now)
    IN /\ call.pc = "reserved"
       /\ attempts < MaxAttempts
       /\ attempts = 0 \/ now <= MaxRetryTime
       /\ attempt # None
       /\ row' = [row EXCEPT !.attempt = attempt,
                             !.serviceAuthorization = call.authorization]
       /\ call' = [pc |-> "recorded"]
       /\ attempts' = attempts + 1
       /\ UNCHANGED <<now, resource, wire, submitted, chain, held>>

\* Anything that fails before transmission: the reservation is released.
NotSubmitted ==
    /\ call.pc = "reserved"
    /\ row' = [row EXCEPT !.state = "FAILED"]
    /\ call' = Idle
    /\ UNCHANGED <<now, resource, wire, submitted, chain, held, attempts>>

\* The release itself fails: nothing holds the reservation any more, and only
\* a restart finds it.
ReleaseFails ==
    /\ call.pc = "reserved"
    /\ call' = Idle
    /\ UNCHANGED <<now, resource, row, wire, submitted, chain, held, attempts>>

\* The paid request leaves, with the authorization and the credential.
Transmit ==
    LET paid == BuildPaidRequest(resource, row.request.operation)
    IN /\ call.pc = "recorded"
       /\ wire' = wire \cup
             {[method |-> paid.method, path |-> paid.url.path, body |-> paid.body,
               invocationId |-> row.invocationId, authorization |-> row.serviceAuthorization,
               transaction |-> row.attempt.transaction]}
       /\ call' = [pc |-> "sent", reply |-> None]
       /\ UNCHANGED <<now, resource, row, submitted, chain, held, attempts>>

OnChain(transaction, err) ==
    [message |-> transaction.message, payerSignature |-> transaction.payerSignature, err |-> err]

Final(payerSignature) == \E t \in chain : t.payerSignature = payerSignature

\* The service has the paid request: it refuses it, or has the transfer
\* submitted, does its work, acknowledges it and answers, if the caller is
\* still there.  Its answer proves nothing, neither that the transfer landed
\* nor that it did what it acknowledges.
Serve(received, outcome, body, report, acknowledged) ==
    LET transaction == received.transaction
        ack == IF acknowledged = None THEN None
               ELSE ServiceAcknowledgement(Service, received, ServiceTerms,
                                           TransactionId(transaction.message),
                                           SummarizeResult(200, acknowledged), now)
        waiting == call.pc = "sent" /\ call.reply = None
                   /\ row.attempt.payerSignature = transaction.payerSignature
    IN /\ wire' = wire \ {received}
       /\ IF \/ CheckServiceAuthorization(received, Authority, ServiceTerms, now) # "ok"
             \/ Final(transaction.payerSignature)
          THEN UNCHANGED <<submitted, chain, call>>
          ELSE /\ submitted' = submitted \cup
                      (IF outcome = "pending" THEN {transaction} ELSE {})
               /\ chain' = chain \cup
                      (IF outcome = "pending" THEN {}
                       ELSE {OnChain(transaction, outcome = "failed")})
               /\ call' = IF waiting
                          THEN [call EXCEPT !.reply = [body |-> body, report |-> report,
                                                       ack |-> ack]]
                          ELSE call
       /\ UNCHANGED <<now, resource, row, held, attempts>>

\* What the lookup reports of the settled transaction it found.
Settlement(t, report) ==
    [transactionId |-> TransactionId(t.message), facilitatorReportedTransaction |-> report,
     confirmedAt |-> now]

\* The answer arrived and the pinned RPC shows the transfer: the result and
\* the acknowledgement, if it is good, are recorded with the settlement.
Paid(t) ==
    LET reply == call.reply
        result == SummarizeResult(200, reply.body)
        settlement == Settlement(t, reply.report)
        ack == AcceptAcknowledgement(reply.ack, Trust(Service).service, row.request,
                                     row.serviceAuthorization,
                                     BuildPaidRequest(resource, row.request.operation),
                                     row.requirement, settlement, result)
    IN /\ call.pc = "sent"
       /\ reply # None
       /\ reply.body.bytes <= 4 * MaxResultBytes
       /\ CheckSettledTransaction(t, row.attempt) = "settled"
       /\ row' = [row EXCEPT !.state = "CONFIRMED", !.settlement = settlement,
                   !.result = Joined(result, [acknowledgement |-> ack])]
       /\ call' = [pc |-> "receipt"]
       /\ UNCHANGED <<now, resource, wire, submitted, chain, held, attempts>>

\* No usable answer, no confirmation in time, or the settlement could not be
\* recorded: the outcome is unknown.
OutcomeUnknown ==
    /\ call.pc = "sent"
    /\ row' = [row EXCEPT !.state = "RECONCILIATION_REQUIRED"]
    /\ call' = Idle
    /\ UNCHANGED <<now, resource, wire, submitted, chain, held, attempts>>

\* #ensureReceipt, by the call or by a later replay.
SignReceipt ==
    /\ row # NoRow
    /\ \/ call.pc = "receipt"
       \/ call = Idle /\ row.state \in {"DENIED", "CONFIRMED"} /\ row.receipt = None
    /\ row' = [row EXCEPT !.receipt = IF @ = None THEN DecisionReceipt(Authority, row) ELSE @]
    /\ call' = Idle
    /\ UNCHANGED <<now, resource, wire, submitted, chain, held, attempts>>

-----------------------------------------------------------------------------
(* Restarts, reconciliation, the chain and time.                           *)

\* The process dies and starts again, perhaps with another resource URL:
\* what it left reserved is released, or blocked if an attempt is recorded.
Restart(configured) ==
    /\ call # Idle \/ configured # resource \/ row.state = "RESERVED"
    /\ resource' = configured
    /\ call' = Idle
    /\ row' = IF row.state # "RESERVED" THEN row
              ELSE [row EXCEPT !.state = IF row.attempt = None THEN "FAILED"
                                         ELSE "RECONCILIATION_REQUIRED"]
    /\ UNCHANGED <<now, wire, submitted, chain, held, attempts>>

Blocked == call = Idle /\ row.state = "RECONCILIATION_REQUIRED"

\* What a reconciliation does with the verdict of the lookup.
Resolve(verdict, t) ==
    \/ /\ verdict = "settled"
       /\ row' = [row EXCEPT !.state = "CONFIRMED", !.settlement = Settlement(t, None)]
       /\ call' = [pc |-> "receipt"]
    \/ /\ verdict = "failed_onchain"
       /\ row' = [row EXCEPT !.state = "FAILED"]
       /\ call' = Idle

\* Slip: a transfer that is not on the chain yet is taken for failed.
ReconcileEarly ==
    /\ Blocked
    /\ \/ \E t \in chain : Resolve(CheckSettledTransaction(t, row.attempt), t)
       \/ chain = {} /\ Resolve("failed_onchain", None)
    /\ UNCHANGED <<now, resource, wire, submitted, chain, held, attempts>>

\* reconcile: resolved by the transfer, or by the certainty that there is
\* none.  The result of a purchase confirmed here is not known.
Reconcile ==
    /\ Blocked
    /\ \E t \in chain : Resolve(CheckSettledTransaction(t, row.attempt), t)
    /\ UNCHANGED <<now, resource, wire, submitted, chain, held, attempts>>

\* A submitted transaction lands, or fails on the chain.
Land(transaction, err) ==
    /\ submitted' = submitted \ {transaction}
    /\ chain' = IF Final(transaction.payerSignature) THEN chain
                ELSE chain \cup {OnChain(transaction, err)}
    /\ UNCHANGED <<now, resource, row, call, wire, held, attempts>>

\* The blockhash of an attempt that did not land expires: it never will, and
\* the lookup says so.
Expire ==
    /\ Blocked
    /\ ~Final(row.attempt.payerSignature)
    /\ chain' = chain \cup {OnChain(row.attempt.transaction, TRUE)}
    /\ UNCHANGED <<now, resource, row, call, wire, submitted, held, attempts>>

\* A paid request is lost on its way.
Lose(received) ==
    /\ wire' = wire \ {received}
    /\ UNCHANGED <<now, resource, row, call, submitted, chain, held, attempts>>

\* Bound of the model.
MayTick == now < IF attempts > 1 THEN MaxRetryTime ELSE MaxTime

\* Slip: nothing ends the wait for the challenge.
TickAnyway ==
    /\ MayTick
    /\ now' = now + 1
    /\ UNCHANGED <<resource, row, call, wire, submitted, chain, held, attempts>>

\* Time passes; the wait for the challenge ends at its timeout.
Tick ==
    /\ MayTick
    /\ call.pc = "challenge" => now < call.since + HttpTimeout
    /\ now' = now + 1
    /\ UNCHANGED <<resource, row, call, wire, submitted, chain, held, attempts>>

-----------------------------------------------------------------------------
(* The evidence.                                                           *)

Exportable == row # NoRow /\ ExportProblem(row, Authority) = "ok"

Bundle(version) == BuildEvidenceBundle(row, resource, Authority, version, now)

\* exportEvidence, by somebody who keeps the bundle.
Export(version) ==
    /\ held = None
    /\ Exportable
    /\ held' = Bundle(version)
    /\ UNCHANGED <<now, resource, row, call, wire, submitted, chain, attempts>>

TrailNext ==
    \/ /\ call = Idle
       /\ \E ask \in Asks, skew \in Skews :
            \/ Begin(ask, skew)
            \/ \E committed \in Committed : DenyAtOnce(ask, skew, committed)
    \/ /\ call.pc = "challenge"
       /\ \E answer \in Answers, committed \in Committed : Answered(answer, committed)
    \/ /\ call.pc = "reserved"
       /\ \E quote \in {row.requirement} \cup OtherQuotes,
            prefix \in {Profile.requiredBlockhashPrefix, "another"} :
            Prepare(quote, [prefix |-> prefix])
    \/ NotSubmitted \/ ReleaseFails \/ Transmit
    \/ \E received \in wire :
          \/ Lose(received)
          \/ \E outcome \in {"settled", "failed", "pending"}, body \in Bodies,
               report \in Reports, acknowledged \in Bodies \cup {None} :
               Serve(received, outcome, body, report, acknowledged)
    \/ \E t \in chain : call.pc = "sent" /\ Paid(t)
    \/ OutcomeUnknown \/ SignReceipt
    \/ \E configured \in {resource} \cup Resources : Restart(configured)
    \/ Reconcile \/ Expire
    \/ \E transaction \in submitted, err \in BOOLEAN : Land(transaction, err)
    \/ Tick
    \/ \E version \in {1, 2} : Export(version)

TrailSpec == TrailInit /\ [][TrailNext]_trailVars

-----------------------------------------------------------------------------
(* Properties.                                                             *)

States == {"RESERVED", "CONFIRMED", "DENIED", "FAILED", "RECONCILIATION_REQUIRED"}

\* The variables have the shapes the handlers rely on: a call before its
\* attempt holds a reservation, and a blocked row has an attempt.
TrailTypeOK ==
    /\ now \in 1..MaxTime /\ attempts \in 0..MaxAttempts
    /\ resource \in Resources
    /\ call.pc \in {"idle", "challenge", "reserved", "recorded", "sent", "receipt"}
    /\ row = NoRow \/ row.state \in States
    /\ call.pc \in {"reserved", "recorded", "sent"} => row.state = "RESERVED"
    /\ call.pc \in {"recorded", "sent"} \/ row.state = "RECONCILIATION_REQUIRED" =>
          row.attempt # None

\* What verifyEvidenceBundle is for: whatever the authority exports, of any
\* outcome and in either version, verifies offline against its keys.
ExportsVerify ==
    Exportable => \A version \in {1, 2} :
        VerifyEvidenceBundle(Bundle(version), Trust(None), "offline", None) = "VALID"

\* Online, a confirmed purchase verifies on the transaction that paid it and
\* on no other, least of all an earlier attempt that failed, and nothing is
\* concluded while the transaction is not visible (settlementClaims, against
\* the lookup that confirmed the payment).
OnlineVerdictFollowsTheChain ==
    Exportable /\ row.state = "CONFIRMED" =>
        LET verdict(seen) == VerifyEvidenceBundle(Bundle(2), Trust(None), "online", seen)
            paidBy == {t \in chain : t.payerSignature = row.attempt.payerSignature /\ ~t.err}
        IN /\ verdict(None) = "INDETERMINATE"
           /\ {t \in chain : verdict(t) = "VALID"} = paidBy
           /\ paidBy # {}

\* The authority keeps an acknowledgement exactly when a verifier that pins
\* the service's key accepts the bundle: the two checks, written twice, agree.
KeptAcknowledgementsVerify ==
    Exportable /\ row.state = "CONFIRMED" =>
        VerifyEvidenceBundle(Bundle(2), Trust(Service), "offline", None) =
            IF row.result.acknowledgement # None THEN "VALID" ELSE "INVALID"

\* Evidence that was true stays true: an exported confirmation or denial is
\* never taken back, and the attempt of an exported failure never settles.
ExportedEvidenceStaysTrue ==
    held # None =>
        CASE held.manifest.purchaseState \in {"CONFIRMED", "DENIED"} ->
                /\ row.state = held.manifest.purchaseState
                /\ row.receipt = held.authorityDecision
                /\ row.settlement = held.settlement
          [] held.manifest.purchaseState = "FAILED" ->
                held.attempt # None =>
                    ~\E t \in chain : CheckSettledTransaction(t, held.attempt) = "settled"
          [] OTHER -> TRUE

\* Two exports of one invocation cannot be recombined: an artifact of one in
\* the other, where they differ, does not verify.
ExportsDoNotMix ==
    held # None /\ Exportable =>
        LET current == Bundle(held.version)
        IN \A artifact \in ArtifactsOf(held.version) :
             held[artifact] # current[artifact] =>
                VerifyEvidenceBundle([held EXCEPT ![artifact] = current[artifact]],
                                     Trust(None), "offline", None) # "VALID"

PaysAsSigned(message, request) ==
    \A i \in message.instructions : i.program \in TokenPrograms =>
        i = Transfer(Permit.mint, request.amount, Payer, Permit.recipient, i.program)

\* Whatever terms the service quotes and whatever transaction the client
\* builds, a credential that leaves pays the human's recipient in the human's
\* asset exactly what the agent signed, for the human's operation.
PaidAsSigned ==
    /\ \A received \in wire :
          /\ PaysAsSigned(received.transaction.message, row.request)
          /\ received.body = OperationRequestBody(Permit.operation)
    /\ \A t \in submitted \cup chain :
          /\ PaysAsSigned(t.message, row.request)
          /\ row.request.amount \in 1..Permit.maxPerCall

\* The permit's expiry is judged when the request arrives, but the payment is
\* made later, after answers that may be slow.  Both timeouts together bound
\* how late: an integrated service accepts no credential beyond them.
AcceptedSoonAfterExpiry ==
    [][(submitted' \cup chain') # (submitted \cup chain) /\ wire' # wire =>
         now <= Permit.expiresAt + HttpTimeout + AuthorizationTtl]_trailVars

\* A confirmed purchase, once it has its receipt, can be exported
\* (docs/evidence-and-verification.md:184: its bundle contains everything).
ConfirmedIsExportable ==
    row.state = "CONFIRMED" /\ row.receipt # None => Exportable

\* An allowed purchase violates no static constraint when they are evaluated
\* again from its evidence (docs/evidence-and-verification.md:104).
AllowedIsWithinStaticPolicy ==
    row.state \in AllowStates => StaticCodes(row.permit, row.request) = {}

\* The outbound request of a bundle is the request that was paid for, as the
\* authority built it (evidence-export.ts:91).
OutboundIsWhatWasSent ==
    Exportable /\ row.attempt # None =>
        /\ Bundle(2).outboundRequest # None
        /\ Bundle(2).outboundRequest.sha256 = row.attempt.requestSha256

=============================================================================
