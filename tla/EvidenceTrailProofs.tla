--------------------------- MODULE EvidenceTrailProofs ---------------------------
(***************************************************************************)
(* One purchase and its evidence, for any permit, requests, answers of the *)
(* service, quotes, resources, clocks that differ and number of attempts:  *)
(* what leaves pays what was signed, a late payment is bounded, what was   *)
(* exported stays true, and, within the verifier's bounds, whatever is     *)
(* exported verifies: offline, against the service's key, on the chain.    *)
(***************************************************************************)
EXTENDS EvidenceTrail, PurchaseLemmas

-----------------------------------------------------------------------------
(* The inductive invariant.  That a credential pays what was signed needs  *)
(* the row and the call that led to it; that a failed attempt never settles *)
(* needs that a signature is final on the chain once.                       *)

\* What a stored row that was not denied asks for: the human's terms and
\* operation, an amount within the human's limit, and a requirement to match.
AsPermitted(request) ==
    /\ request.amount \in 1..Permit.maxPerCall
    /\ OperationRequestBody(request.operation) = OperationRequestBody(Permit.operation)

AskedAsPermitted(requirement, request) ==
    /\ requirement.asset = Permit.mint
    /\ requirement.payTo = Permit.recipient
    /\ requirement.amount = request.amount

RowFields == {"invocationId", "grantId", "state", "fingerprint", "agent", "request", "permit",
              "agentSignature", "amount", "decidedAt", "reasonCodes", "requirement", "attempt",
              "serviceAuthorization", "settlement", "result", "receipt"}

\* A transaction with this attempt's signature failed for good.
FailedForGood(attempt) ==
    \E t \in chain : t.payerSignature = attempt.payerSignature /\ t.err

RowIsConsistent ==
    \/ row = NoRow
    \/ /\ DOMAIN row = RowFields
       /\ row.state \in States
       /\ DOMAIN row.request = RequestFields
       /\ row.fingerprint = Fingerprint(Permit, row.request)
       /\ row.state # "DENIED" => /\ AsPermitted(row.request)
                                  /\ AskedAsPermitted(row.requirement, row.request)
       /\ row.state # "CONFIRMED" => row.settlement = None
       /\ row.state = "RECONCILIATION_REQUIRED" => row.attempt # None
       /\ row.attempt # None =>
             /\ PaysAsSigned(row.attempt.transaction.message, row.request)
             /\ row.attempt.payerSignature = row.attempt.transaction.payerSignature
       /\ row.state = "FAILED" /\ row.attempt # None => FailedForGood(row.attempt)

\* The authorization lasts no longer than the permit and the two timeouts.
LastsAtMost(authorization) ==
    /\ authorization.expiresAt \in Int
    /\ authorization.expiresAt <= Permit.expiresAt + HttpTimeout + AuthorizationTtl

CanBePaid(request) == BuildPaidRequest(resource, request.operation) # None

\* What the call in progress knows at each of its awaits.
CallIsConsistent ==
    /\ call.pc \in {"idle", "challenge", "reserved", "recorded", "sent", "receipt"}
    /\ call.pc = "challenge" =>
          /\ call.input.permit = Permit
          /\ DOMAIN call.input.request = RequestFields
          /\ AsPermitted(call.input.request)
          /\ CanBePaid(call.input.request)
          /\ call.since \in Int /\ call.since <= Permit.expiresAt
          /\ now <= call.since + HttpTimeout
          /\ row # NoRow => /\ row.state = "FAILED"
                            /\ row.fingerprint = Fingerprint(Permit, call.input.request)
    /\ call.pc \in {"reserved", "recorded", "sent"} => row.state = "RESERVED"
    /\ call.pc = "reserved" => row.attempt = None /\ LastsAtMost(call.authorization)
    /\ call.pc \in {"reserved", "recorded"} => CanBePaid(row.request)
    /\ call.pc \in {"recorded", "sent"} => row.attempt # None
    /\ call.pc = "recorded" => LastsAtMost(row.serviceAuthorization)
    /\ call.pc = "sent" => DOMAIN call = {"pc", "reply"}

\* What left, wherever it is.
PaymentsAreConsistent ==
    /\ \A received \in wire :
          /\ PaysAsSigned(received.transaction.message, row.request)
          /\ received.body = OperationRequestBody(Permit.operation)
          /\ LastsAtMost(received.authorization)
    /\ \A t \in submitted \cup chain : PaysAsSigned(t.message, row.request)
    /\ wire \cup submitted \cup chain # {} =>
          row # NoRow /\ row.request.amount \in 1..Permit.maxPerCall
    /\ \A t, u \in chain : t.payerSignature = u.payerSignature => t = u

\* What an exported bundle said.
HeldIsTrue ==
    held # None =>
        LET state == held.manifest.purchaseState
        IN /\ state \in {"CONFIRMED", "DENIED"} =>
                 /\ row.state = state
                 /\ row.receipt = held.authorityDecision /\ row.receipt # None
                 /\ row.settlement = held.settlement
           /\ state = "FAILED" /\ held.attempt # None => FailedForGood(held.attempt)

ClockIsBounded ==
    now \in 1..MaxTime /\ attempts \in 0..MaxAttempts /\ resource \in Resources

TrailInv ==
    /\ ClockIsBounded
    /\ RowIsConsistent
    /\ CallIsConsistent
    /\ PaymentsAreConsistent
    /\ HeldIsTrue

-----------------------------------------------------------------------------
(* The pieces a step is made of.                                           *)

\* The permit's limit and expiry, and the timeouts, are numbers.
LEMMA PermitIsTyped ==
    /\ Permit.maxPerCall \in Nat /\ Permit.expiresAt \in Int
    /\ HttpTimeout \in Nat /\ AuthorizationTtl \in Nat
BY TrailAssumption, EvidenceAssumption, MandateAssumption
   DEF VerifyPermit, ValidPermit, ValidSharedFields

\* What the agent sends: the permit and a request of all its fields.
LEMMA InputFields ==
    ASSUME NEW ask \in Asks, NEW skew, NEW input, input = Input(ask, skew)
    PROVE  /\ input.permit = Permit
           /\ DOMAIN input.request = RequestFields
           /\ input.request.amount \in Int
<1>1. "amount" \in RequestFields
  BY DEF RequestFields
<1>2. ask.amount \in Int
  BY TrailAssumption
<1> DEFINE request == [f \in RequestFields |-> IF f = "issuedAt" THEN now + skew ELSE ask[f]]
<1>3. input.permit = Permit /\ input.request = request
  <2> HIDE DEF request
  <2> QED BY DEF Input, request
<1> QED BY <1>1, <1>2, <1>3

\* A request that is permitted asks for no more than the permit.
LEMMA PermittedRequest ==
    ASSUME NEW request, NEW values, NEW committed, NEW at \in Int,
           request.amount \in Int, values.amount = request.amount,
           Policy(Permit, request, values, committed, at) = {}
    PROVE  /\ AsPermitted(request) /\ at <= Permit.expiresAt
           /\ values.mint = Permit.mint /\ values.recipient = Permit.recipient
BY AllowedByPolicy, PermitIsTyped DEF AsPermitted

\* A row as the decision stores it.
LEMMA DecidedFields ==
    ASSUME NEW input, NEW state \in States, NEW codes, NEW requirement, NEW at, NEW decided,
           decided = Decided(input, state, codes, requirement, at)
    PROVE  /\ decided # NoRow /\ DOMAIN decided = RowFields
           /\ decided.state = state /\ decided.request = input.request
           /\ decided.permit = input.permit
           /\ decided.fingerprint = Fingerprint(input.permit, input.request)
           /\ decided.requirement = requirement
           /\ decided.attempt = None /\ decided.settlement = None
<1> DEFINE fingerprint == Fingerprint(input.permit, input.request)
<1> HIDE DEF fingerprint
<1>1. /\ DOMAIN decided = RowFields
      /\ decided.state = state /\ decided.request = input.request
      /\ decided.permit = input.permit
      /\ decided.fingerprint = fingerprint
      /\ decided.requirement = requirement
      /\ decided.attempt = None /\ decided.settlement = None
  BY DEF Decided, RowFields, fingerprint
<1>2. decided # NoRow
  BY <1>1 DEF NoRow, States
<1> QED BY <1>1, <1>2 DEF fingerprint

\* A decision is never taken back, nor its receipt.
FinalKept ==
    row.state \in {"CONFIRMED", "DENIED"} =>
        /\ row'.state = row.state /\ row'.settlement = row.settlement
        /\ row.receipt # None => row'.receipt = row.receipt

\* What was exported stays true while the chain only grows.
LEMMA HeldKept ==
    ASSUME HeldIsTrue, FinalKept, chain \subseteq chain', held' = held
    PROVE  HeldIsTrue'
BY DEF HeldIsTrue, FinalKept, FailedForGood

\* A row that is left alone stays consistent while the chain only grows.
LEMMA RowKept ==
    ASSUME RowIsConsistent, chain \subseteq chain', row' = row
    PROVE  RowIsConsistent' /\ FinalKept
BY DEF RowIsConsistent, FinalKept, FailedForGood

\* Losing a request on the wire disturbs no payment.
LEMMA PaymentsKept ==
    ASSUME PaymentsAreConsistent, wire' \subseteq wire, UNCHANGED <<submitted, chain>>,
           row # NoRow => row' # NoRow /\ row'.request = row.request
    PROVE  PaymentsAreConsistent'
<1>1. CASE row = NoRow
  BY <1>1 DEF PaymentsAreConsistent
<1>2. CASE row # NoRow
  BY <1>2 DEF PaymentsAreConsistent, LastsAtMost
<1> QED BY <1>1, <1>2

\* A decision replaces nothing but a failed attempt at the same purchase.
LEMMA DecisionKeeps ==
    ASSUME TrailInv, NEW input, NEW state \in {"DENIED", "RESERVED"}, NEW codes,
           NEW requirement, NEW at,
           row' = Decided(input, state, codes, requirement, at),
           UNCHANGED <<wire, submitted, chain, held>>,
           input.permit = Permit, DOMAIN input.request = RequestFields,
           row # NoRow => /\ row.state = "FAILED"
                          /\ row.fingerprint = Fingerprint(Permit, input.request),
           state = "RESERVED" => /\ AsPermitted(input.request)
                                 /\ AskedAsPermitted(requirement, input.request)
    PROVE  /\ RowIsConsistent' /\ PaymentsAreConsistent' /\ HeldIsTrue'
           /\ row'.state = state /\ row'.attempt = None /\ row'.request = input.request
<1>1. /\ row' # NoRow /\ DOMAIN row' = RowFields
      /\ row'.state = state /\ row'.request = input.request
      /\ row'.fingerprint = Fingerprint(Permit, input.request)
      /\ row'.requirement = requirement
      /\ row'.attempt = None /\ row'.settlement = None
  BY DecidedFields DEF States
<1>2. RowIsConsistent'
  BY <1>1 DEF RowIsConsistent, States
<1>3. HeldIsTrue'
  <2>1. FinalKept
    BY DEF FinalKept, NoRow
  <2> QED BY <2>1, HeldKept DEF TrailInv
<1>4. ASSUME row # NoRow PROVE row'.request.amount = row.request.amount
  <2>1. DOMAIN row.request = RequestFields
        /\ Fingerprint(Permit, row.request) = Fingerprint(Permit, input.request)
    BY <1>4 DEF TrailInv, RowIsConsistent
  <2>2. "amount" \in RequestFields \ {"issuedAt", "audience"}
    BY DEF RequestFields
  <2> QED BY <1>1, <2>1, <2>2, SameFingerprint
<1>5. PaymentsAreConsistent'
  <2>1. CASE row = NoRow
    BY <2>1 DEF TrailInv, PaymentsAreConsistent
  <2>2. CASE row # NoRow
    <3>1. \A message : PaysAsSigned(message, row'.request) <=> PaysAsSigned(message, row.request)
      BY <1>4, <2>2 DEF PaysAsSigned
    <3> QED BY <1>1, <1>4, <2>2, <3>1 DEF TrailInv, PaymentsAreConsistent, LastsAtMost
  <2> QED BY <2>1, <2>2
<1> QED BY <1>1, <1>2, <1>3, <1>5

\* A step that leaves the row, and what was paid, alone.
LEMMA CallAlone ==
    ASSUME TrailInv, UNCHANGED <<row, wire, submitted, chain, held>>
    PROVE  RowIsConsistent' /\ PaymentsAreConsistent' /\ HeldIsTrue'
BY RowKept, PaymentsKept, HeldKept DEF TrailInv

\* A step that only changes the state of a row that is not final, on what it
\* knows of the chain.
LEMMA StateKeeps ==
    ASSUME TrailInv, NEW state \in {"FAILED", "RECONCILIATION_REQUIRED", "CONFIRMED"},
           row.state \in {"RESERVED", "RECONCILIATION_REQUIRED"},
           DOMAIN row' = RowFields,
           row'.state = state, row'.request = row.request, row'.requirement = row.requirement,
           row'.fingerprint = row.fingerprint, row'.attempt = row.attempt,
           state # "CONFIRMED" => row'.settlement = row.settlement,
           state = "RECONCILIATION_REQUIRED" => row.attempt # None,
           state = "FAILED" /\ row.attempt # None => FailedForGood(row.attempt),
           UNCHANGED <<wire, submitted, chain, held>>
    PROVE  RowIsConsistent' /\ PaymentsAreConsistent' /\ HeldIsTrue'
<1>1. row # NoRow /\ row' # NoRow
  BY DEF NoRow
<1>2. RowIsConsistent'
  BY <1>1 DEF TrailInv, RowIsConsistent, States, FailedForGood
<1>3. PaymentsAreConsistent'
  BY <1>1, PaymentsKept DEF TrailInv
<1>4. HeldIsTrue'
  <2>1. FinalKept
    BY DEF FinalKept
  <2> QED BY <2>1, HeldKept DEF TrailInv
<1> QED BY <1>2, <1>3, <1>4

-----------------------------------------------------------------------------
(* The decision.                                                           *)

\* A request that has to ask the service.
LEMMA BeginKeeps ==
    ASSUME TrailInv, NEW ask \in Asks, NEW skew, Begin(ask, skew)
    PROVE  TrailInv'
<1> DEFINE input == Input(ask, skew)
           request == input.request
<1>1. /\ MayProcess(input) /\ RequestAllowed(input.permit, request, now)
      /\ Unavailable(request) = {}
      /\ call' = [pc |-> "challenge", input |-> input, decidedAt |-> now, since |-> now]
      /\ UNCHANGED <<now, resource, row, wire, submitted, chain, held, attempts>>
  BY DEF Begin
<1>2. input.permit = Permit /\ DOMAIN request = RequestFields /\ request.amount \in Int
  BY InputFields
<1> HIDE DEF input
<1>3. now \in Int
  BY TrailAssumption DEF TrailInv, ClockIsBounded
<1>4. AsPermitted(request) /\ now <= Permit.expiresAt
  BY <1>1, <1>2, <1>3, PermittedRequest DEF RequestAllowed
<1>5. CanBePaid(request)
  BY <1>1 DEF Unavailable, CanBePaid
<1>6. row # NoRow => /\ row.state = "FAILED"
                     /\ row.fingerprint = Fingerprint(Permit, request)
  BY <1>1, <1>2 DEF MayProcess
<1>7. CallIsConsistent'
  <2>1. call'.pc = "challenge" /\ call'.input = input /\ call'.since = now
    BY <1>1
  <2>2. CanBePaid(call.input.request)'
    BY <1>1, <1>5, <2>1 DEF CanBePaid
  <2>3. /\ now' = now /\ row' = row /\ HttpTimeout \in Nat
        /\ now <= now + HttpTimeout
    BY <1>1, <1>3, PermitIsTyped
  <2> QED BY <1>2, <1>3, <1>4, <1>6, <2>1, <2>2, <2>3 DEF CallIsConsistent
<1> QED BY <1>1, <1>7, CallAlone DEF TrailInv, ClockIsBounded

\* A request that is denied before.
LEMMA DenyAtOnceKeeps ==
    ASSUME TrailInv, NEW ask \in Asks, NEW skew, NEW committed,
           DenyAtOnce(ask, skew, committed)
    PROVE  TrailInv'
<1> DEFINE input == Input(ask, skew)
           unavailable == IF RequestAllowed(input.permit, input.request, now)
                          THEN Unavailable(input.request) ELSE {}
           codes == Evaluate(input.permit, input.request, None, unavailable, committed, now)
<1>1. /\ MayProcess(input)
      /\ row' = Decided(input, "DENIED", codes, None, now)
      /\ call' = [pc |-> "receipt"]
      /\ UNCHANGED <<now, resource, wire, submitted, chain, held, attempts>>
  BY DEF DenyAtOnce
<1>2. input.permit = Permit /\ DOMAIN input.request = RequestFields
  BY InputFields
<1> HIDE DEF input, unavailable, codes
<1>3. row # NoRow => /\ row.state = "FAILED"
                     /\ row.fingerprint = Fingerprint(Permit, input.request)
  BY <1>1, <1>2 DEF MayProcess
<1>4. RowIsConsistent' /\ PaymentsAreConsistent' /\ HeldIsTrue'
  BY <1>1, <1>2, <1>3, DecisionKeeps
<1>5. CallIsConsistent'
  <2>1. call'.pc = "receipt"
    BY <1>1
  <2> QED BY <2>1 DEF CallIsConsistent
<1> QED BY <1>1, <1>4, <1>5 DEF TrailInv, ClockIsBounded

\* The decision, on the service's answer.
LEMMA AnsweredKeeps ==
    ASSUME TrailInv, NEW answer, NEW committed, Answered(answer, committed)
    PROVE  TrailInv'
<1> DEFINE input == call.input
           request == input.request
           paid == BuildPaidRequest(resource, request.operation)
           challenge == FetchChallenge(paid, answer)
           selection == SelectAndValidateChallenge(challenge, Profile, paid, request, Payer)
           requirement == selection.requirement
           codes == Evaluate(input.permit, request, requirement, selection.codes,
                             committed, call.decidedAt)
           authorization == ServiceAuthorization(Authority, request, paid, requirement, now)
           Decision(state) == row' = Decided(input, state, codes, requirement, call.decidedAt)
<1>1. /\ call.pc = "challenge"
      /\ \/ call' = Idle /\ row' = row
         \/ Decision("DENIED") /\ call' = [pc |-> "receipt"]
         \/ /\ codes = {} /\ Decision("RESERVED")
            /\ call' = [pc |-> "reserved", paid |-> paid, challenge |-> challenge,
                        authorization |-> authorization]
      /\ UNCHANGED <<now, resource, wire, submitted, chain, held, attempts>>
  BY DEF Answered
<1>2. /\ input.permit = Permit /\ DOMAIN request = RequestFields /\ AsPermitted(request)
      /\ CanBePaid(request)
      /\ call.since \in Int /\ call.since <= Permit.expiresAt /\ now <= call.since + HttpTimeout
      /\ row # NoRow => /\ row.state = "FAILED"
                        /\ row.fingerprint = Fingerprint(Permit, request)
  BY <1>1 DEF TrailInv, CallIsConsistent
<1>3. ClockIsBounded'
  BY <1>1 DEF TrailInv, ClockIsBounded
<1>4. CASE call' = Idle /\ row' = row
  <2>1. RowIsConsistent' /\ PaymentsAreConsistent' /\ HeldIsTrue'
    BY <1>1, <1>4, CallAlone
  <2>2. call'.pc = "idle"
    BY <1>4 DEF Idle
  <2> QED BY <1>3, <2>1, <2>2 DEF TrailInv, CallIsConsistent
<1>5. CASE Decision("DENIED") /\ call' = [pc |-> "receipt"]
  <2> HIDE DEF codes, requirement
  <2>1. RowIsConsistent' /\ PaymentsAreConsistent' /\ HeldIsTrue'
    BY <1>1, <1>2, <1>5, DecisionKeeps
  <2>2. call'.pc = "receipt"
    BY <1>5
  <2> QED BY <1>3, <2>1, <2>2 DEF TrailInv, CallIsConsistent
<1>6. CASE /\ codes = {} /\ Decision("RESERVED")
           /\ call' = [pc |-> "reserved", paid |-> paid, challenge |-> challenge,
                       authorization |-> authorization]
  <2>1. AskedAsPermitted(requirement, request)
    <3> DEFINE values == [mint |-> requirement.asset, recipient |-> requirement.payTo,
                          amount |-> requirement.amount]
    <3> HIDE DEF paid, challenge, requirement, selection
    <3>1. Evaluate(Permit, request, requirement, selection.codes, committed,
                   call.decidedAt) = {}
      BY <1>2, <1>6
    <3>2. /\ selection.codes = {}
          /\ Policy(Permit, request, values, committed, call.decidedAt) = {}
      BY ONLY <3>1, AllowedPurchase, SMTT(30)
    <3>3. requirement.amount = request.amount
      BY <3>2, SelectedTerms DEF selection, requirement
    <3>4. values.mint = Permit.mint /\ values.recipient = Permit.recipient
      BY <3>2, AllowedByPolicy
    <3> QED BY <3>3, <3>4 DEF AskedAsPermitted
  <2>2. LastsAtMost(authorization)
    <3>1. authorization.expiresAt = now + AuthorizationTtl
      BY AuthorizationLasts
    <3>2. now \in Int
      BY TrailAssumption DEF TrailInv, ClockIsBounded
    <3> HIDE DEF authorization
    <3> QED BY <1>2, <3>1, <3>2, PermitIsTyped DEF LastsAtMost
  <2> HIDE DEF codes, requirement, authorization, paid, challenge
  <2>3. /\ RowIsConsistent' /\ PaymentsAreConsistent' /\ HeldIsTrue'
        /\ row'.state = "RESERVED" /\ row'.attempt = None /\ row'.request = request
    BY <1>1, <1>2, <1>6, <2>1, DecisionKeeps
  <2>4. call'.pc = "reserved" /\ call'.authorization = authorization
    BY <1>6
  <2>5. CanBePaid(row.request)'
    BY <1>1, <1>2, <2>3 DEF CanBePaid
  <2>6. LastsAtMost(call.authorization)'
    BY <2>2, <2>4 DEF LastsAtMost
  <2>7. CallIsConsistent'
    BY <2>3, <2>4, <2>5, <2>6 DEF CallIsConsistent
  <2> QED BY <1>3, <2>3, <2>7 DEF TrailInv
<1> QED BY <1>1, <1>4, <1>5, <1>6

-----------------------------------------------------------------------------
(* The payment.                                                            *)

\* Only the selected requirement's transfer is ever recorded.
LEMMA PrepareKeeps ==
    ASSUME TrailInv, NEW quote, NEW blockhash, Prepare(quote, blockhash)
    PROVE  TrailInv'
<1> DEFINE payload == CreatePaymentPayload(quote, Payer, blockhash, attempts + 1)
           attempt == PrepareAttempt(Profile, call.paid, call.challenge, row.requirement,
                                     payload, blockhash, now)
<1>1. /\ call.pc = "reserved" /\ attempts < MaxAttempts /\ attempt # None
      /\ row' = [row EXCEPT !.attempt = attempt, !.serviceAuthorization = call.authorization]
      /\ call' = [pc |-> "recorded"]
      /\ attempts' = attempts + 1
      /\ UNCHANGED <<now, resource, wire, submitted, chain, held>>
  BY DEF Prepare
<1>2. /\ row.state = "RESERVED" /\ row # NoRow
      /\ LastsAtMost(call.authorization) /\ CanBePaid(row.request)
  BY <1>1 DEF TrailInv, CallIsConsistent, NoRow
<1>3. /\ DOMAIN row = RowFields
      /\ AskedAsPermitted(row.requirement, row.request)
  BY <1>2 DEF TrailInv, RowIsConsistent
<1>4. /\ PaysAsSigned(attempt.transaction.message, row.request)
      /\ attempt.payerSignature = attempt.transaction.payerSignature
  <2> HIDE DEF payload
  <2>1. /\ attempt.transaction = payload
        /\ attempt.payerSignature = payload.payerSignature
        /\ \E program \in TokenPrograms :
              {i \in payload.message.instructions : i.program \in TokenPrograms} =
                 {Transfer(row.requirement.asset, row.requirement.amount, Payer,
                           row.requirement.payTo, program)}
    BY <1>1, PreparedAttempt
  <2>2. PICK program \in TokenPrograms :
           {i \in payload.message.instructions : i.program \in TokenPrograms} =
              {Transfer(Permit.mint, row.request.amount, Payer, Permit.recipient, program)}
    BY <1>3, <2>1 DEF AskedAsPermitted
  <2>3. \A mint, amount, from, to :
           Transfer(mint, amount, from, to, program).program = program
    BY DEF Transfer
  <2> QED BY <2>1, <2>2, <2>3 DEF PaysAsSigned
<1> HIDE DEF attempt
<1>5. /\ row' # NoRow /\ DOMAIN row' = RowFields
      /\ row'.attempt = attempt /\ row'.serviceAuthorization = call.authorization
      /\ \A f \in RowFields \ {"attempt", "serviceAuthorization"} : row'[f] = row[f]
  BY <1>1, <1>2, <1>3 DEF RowFields, NoRow
<1>6. /\ row'.state = row.state /\ row'.request = row.request
      /\ row'.requirement = row.requirement /\ row'.fingerprint = row.fingerprint
      /\ row'.settlement = row.settlement
  BY <1>5 DEF RowFields
<1>7. RowIsConsistent'
  BY <1>2, <1>4, <1>5, <1>6 DEF TrailInv, RowIsConsistent
<1>8. PaymentsAreConsistent'
  BY <1>1, <1>5, <1>6, PaymentsKept DEF TrailInv
<1>9. HeldIsTrue'
  <2>1. FinalKept
    BY <1>2 DEF FinalKept
  <2> QED BY <1>1, <2>1, HeldKept DEF TrailInv
<1>10. CallIsConsistent'
  <2>1. call'.pc = "recorded"
    BY <1>1
  <2>2. CanBePaid(row.request)' /\ LastsAtMost(row.serviceAuthorization)'
    BY <1>1, <1>2, <1>5, <1>6 DEF CanBePaid, LastsAtMost
  <2> QED BY <1>1, <1>2, <1>5, <1>6, <2>1, <2>2 DEF CallIsConsistent
<1>11. ClockIsBounded'
  BY <1>1, TrailAssumption DEF TrailInv, ClockIsBounded
<1> QED BY <1>7, <1>8, <1>9, <1>10, <1>11 DEF TrailInv

\* A payment that was not transmitted is released.
LEMMA NotSubmittedKeeps ==
    ASSUME TrailInv, NotSubmitted PROVE TrailInv'
<1>1. /\ call.pc = "reserved" /\ row' = [row EXCEPT !.state = "FAILED"] /\ call'.pc = "idle"
      /\ UNCHANGED <<now, resource, wire, submitted, chain, held, attempts>>
  BY DEF NotSubmitted, Idle
<1>2. row.state = "RESERVED" /\ row.attempt = None /\ row # NoRow /\ DOMAIN row = RowFields
  BY <1>1 DEF TrailInv, CallIsConsistent, RowIsConsistent, NoRow
<1>3. RowIsConsistent' /\ PaymentsAreConsistent' /\ HeldIsTrue'
  BY <1>1, <1>2, StateKeeps DEF RowFields
<1> QED BY <1>1, <1>3 DEF TrailInv, CallIsConsistent, ClockIsBounded

\* The release itself fails: the row stays reserved.
LEMMA ReleaseFailsKeeps ==
    ASSUME TrailInv, ReleaseFails PROVE TrailInv'
<1>1. call'.pc = "idle"
      /\ UNCHANGED <<now, resource, row, wire, submitted, chain, held, attempts>>
  BY DEF ReleaseFails, Idle
<1> QED BY <1>1, CallAlone DEF TrailInv, CallIsConsistent, ClockIsBounded

\* What leaves is the recorded attempt with its authorization, and the body
\* of the operation the human permitted.
LEMMA TransmitKeeps ==
    ASSUME TrailInv, Transmit PROVE TrailInv'
<1> DEFINE paid == BuildPaidRequest(resource, row.request.operation)
           sent == [method |-> paid.method, path |-> paid.url.path, body |-> paid.body,
                    invocationId |-> row.invocationId,
                    authorization |-> row.serviceAuthorization,
                    transaction |-> row.attempt.transaction]
<1>1. /\ call.pc = "recorded" /\ wire' = wire \cup {sent}
      /\ call' = [pc |-> "sent", reply |-> None]
      /\ UNCHANGED <<now, resource, row, submitted, chain, held, attempts>>
  BY DEF Transmit
<1>2. /\ row.state = "RESERVED" /\ row # NoRow /\ row.attempt # None
      /\ paid # None /\ LastsAtMost(row.serviceAuthorization)
  BY <1>1 DEF TrailInv, CallIsConsistent, CanBePaid, NoRow
<1>3. /\ AsPermitted(row.request)
      /\ PaysAsSigned(row.attempt.transaction.message, row.request)
  BY <1>2 DEF TrailInv, RowIsConsistent
<1>4. paid.body = OperationRequestBody(Permit.operation)
  <2>1. paid.body = OperationRequestBody(row.request.operation)
    BY <1>2 DEF BuildPaidRequest
  <2> QED BY <1>3, <2>1 DEF AsPermitted
<1> HIDE DEF paid
<1>5. /\ sent.transaction = row.attempt.transaction /\ sent.body = paid.body
      /\ sent.authorization = row.serviceAuthorization
  OBVIOUS
<1> HIDE DEF sent
<1>6. PaymentsAreConsistent'
  <2>1. /\ PaysAsSigned(sent.transaction.message, row.request)
        /\ sent.body = OperationRequestBody(Permit.operation)
        /\ LastsAtMost(sent.authorization)
    BY <1>2, <1>3, <1>4, <1>5
  <2> QED BY <1>1, <1>2, <1>3, <2>1
          DEF TrailInv, PaymentsAreConsistent, LastsAtMost, AsPermitted
<1>7. CallIsConsistent'
  <2>1. call'.pc = "sent" /\ DOMAIN call' = {"pc", "reply"}
    BY <1>1
  <2> QED BY <1>1, <1>2, <2>1 DEF CallIsConsistent
<1>8. RowIsConsistent' /\ HeldIsTrue'
  BY <1>1, RowKept, HeldKept DEF TrailInv
<1> QED BY <1>1, <1>6, <1>7, <1>8 DEF TrailInv, ClockIsBounded

\* What the service does with a paid request it takes or drops.  A signature
\* gets to the chain once.
LEMMA PaymentMoves ==
    ASSUME TrailInv, NEW T, NEW C,
           wire' \subseteq wire, submitted' \subseteq submitted \cup T, chain' = chain \cup C,
           \A t \in T \cup C : PaysAsSigned(t.message, row.request),
           T \cup C # {} => row # NoRow /\ row.request.amount \in 1..Permit.maxPerCall,
           \A t \in C : ~Final(t.payerSignature),
           \A t, u \in C : t = u,
           UNCHANGED <<row, held>>
    PROVE  RowIsConsistent' /\ PaymentsAreConsistent' /\ HeldIsTrue'
<1>1. RowIsConsistent' /\ HeldIsTrue'
  BY RowKept, HeldKept DEF TrailInv
<1>2. \A t, u \in chain' : t.payerSignature = u.payerSignature => t = u
  BY DEF TrailInv, PaymentsAreConsistent, Final
<1>3. wire' \cup submitted' \cup chain' # {} =>
          row # NoRow /\ row.request.amount \in 1..Permit.maxPerCall
  <2>1. CASE T \cup C # {}
    BY <2>1
  <2>2. CASE T \cup C = {}
    <3>1. wire' \cup submitted' \cup chain' \subseteq wire \cup submitted \cup chain
      BY <2>2
    <3> QED BY <3>1 DEF TrailInv, PaymentsAreConsistent
  <2> QED BY <2>1, <2>2
<1>4. \A t \in submitted' \cup chain' : PaysAsSigned(t.message, row.request)
  BY DEF TrailInv, PaymentsAreConsistent
<1>5. PaymentsAreConsistent'
  BY <1>2, <1>3, <1>4 DEF TrailInv, PaymentsAreConsistent, LastsAtMost
<1> QED BY <1>1, <1>5

\* A request on the wire is lost.
LEMMA LoseKeeps ==
    ASSUME TrailInv, NEW received \in wire, Lose(received) PROVE TrailInv'
<1>1. wire' \subseteq wire
      /\ UNCHANGED <<now, resource, row, call, submitted, chain, held, attempts>>
  BY DEF Lose
<1>2. RowIsConsistent' /\ PaymentsAreConsistent' /\ HeldIsTrue'
  BY <1>1, RowKept, PaymentsKept, HeldKept DEF TrailInv
<1> QED BY <1>1, <1>2 DEF TrailInv, CallIsConsistent, ClockIsBounded, CanBePaid, LastsAtMost

\* The service answers a paid request, and submits its transaction.
LEMMA ServeKeeps ==
    ASSUME TrailInv, NEW received \in wire, NEW outcome \in {"settled", "failed", "pending"},
           NEW body, NEW report, NEW acknowledged,
           Serve(received, outcome, body, report, acknowledged)
    PROVE  TrailInv'
<1> DEFINE transaction == received.transaction
           T == IF outcome = "pending" THEN {transaction} ELSE {}
           C == IF outcome = "pending" THEN {} ELSE {OnChain(transaction, outcome = "failed")}
           Refused == CheckServiceAuthorization(received, Authority, ServiceTerms, now) # "ok"
<1>1. /\ wire' = wire \ {received}
      /\ UNCHANGED <<now, resource, row, held, attempts>>
      /\ \/ UNCHANGED <<submitted, chain, call>>
         \/ /\ ~Final(transaction.payerSignature)
            /\ submitted' = submitted \cup T /\ chain' = chain \cup C
            /\ \/ call' = call
               \/ call.pc = "sent" /\ \E reply : call' = [call EXCEPT !.reply = reply]
  <2>1. /\ wire' = wire \ {received}
        /\ UNCHANGED <<now, resource, row, held, attempts>>
    BY DEF Serve
  <2>2. CASE Refused \/ Final(transaction.payerSignature)
    <3>1. UNCHANGED <<submitted, chain, call>>
      BY <2>2 DEF Serve
    <3> QED BY <2>1, <3>1
  <2>3. CASE ~(Refused \/ Final(transaction.payerSignature))
    <3> DEFINE ack == IF acknowledged = None THEN None
                      ELSE ServiceAcknowledgement(Service, received, ServiceTerms,
                                                  TransactionId(transaction.message),
                                                  SummarizeResult(200, acknowledged), now)
               waiting == call.pc = "sent" /\ call.reply = None
                          /\ row.attempt.payerSignature = transaction.payerSignature
               reply == [body |-> body, report |-> report, ack |-> ack]
    <3>1. /\ submitted' = submitted \cup T /\ chain' = chain \cup C
          /\ call' = IF waiting THEN [call EXCEPT !.reply = reply] ELSE call
      BY <2>3 DEF Serve
    <3> HIDE DEF reply, T, C
    <3>2. \/ call' = call
          \/ call.pc = "sent" /\ \E v : call' = [call EXCEPT !.reply = v]
      BY <3>1
    <3> QED BY <2>1, <2>3, <3>1, <3>2
  <2> QED BY <2>2, <2>3
<1>2. /\ PaysAsSigned(transaction.message, row.request)
      /\ row # NoRow /\ row.request.amount \in 1..Permit.maxPerCall
  BY DEF TrailInv, PaymentsAreConsistent
<1>3. RowIsConsistent' /\ PaymentsAreConsistent' /\ HeldIsTrue'
  <2>1. CASE UNCHANGED <<submitted, chain, call>>
    BY <1>1, <2>1, RowKept, PaymentsKept, HeldKept DEF TrailInv
  <2>2. CASE /\ ~Final(transaction.payerSignature)
             /\ submitted' = submitted \cup T /\ chain' = chain \cup C
    <3>1. \A t \in T \cup C : PaysAsSigned(t.message, row.request)
      BY <1>2 DEF OnChain
    <3>2. (\A t \in C : ~Final(t.payerSignature)) /\ (\A t, u \in C : t = u)
      BY <2>2 DEF OnChain
    <3> HIDE DEF T, C
    <3> QED BY <1>1, <1>2, <2>2, <3>1, <3>2, PaymentMoves
  <2> QED BY <1>1, <2>1, <2>2
<1>4. CallIsConsistent'
  <2>1. CASE call' = call
    BY <1>1, <2>1 DEF TrailInv, CallIsConsistent, CanBePaid, LastsAtMost
  <2>2. CASE call.pc = "sent" /\ \E reply : call' = [call EXCEPT !.reply = reply]
    <3>1. PICK reply : call' = [call EXCEPT !.reply = reply]
      BY <2>2
    <3>2. DOMAIN call = {"pc", "reply"} /\ row.state = "RESERVED" /\ row.attempt # None
      BY <2>2 DEF TrailInv, CallIsConsistent
    <3>3. call'.pc = "sent" /\ DOMAIN call' = {"pc", "reply"}
      BY <2>2, <3>1, <3>2
    <3> QED BY <1>1, <3>2, <3>3 DEF CallIsConsistent
  <2> QED BY <1>1, <2>1, <2>2
<1> QED BY <1>1, <1>3, <1>4 DEF TrailInv, ClockIsBounded

\* The lookup finds the payment settled.
LEMMA PaidKeeps ==
    ASSUME TrailInv, NEW t \in chain, Paid(t) PROVE TrailInv'
<1>1. \E settlement, result :
         row' = [row EXCEPT !.state = "CONFIRMED", !.settlement = settlement, !.result = result]
  BY DEF Paid
<1>2. PICK settlement, result :
         row' = [row EXCEPT !.state = "CONFIRMED", !.settlement = settlement, !.result = result]
  BY <1>1
<1>3. /\ call.pc = "sent" /\ call'.pc = "receipt"
      /\ UNCHANGED <<now, resource, wire, submitted, chain, held, attempts>>
  BY DEF Paid
<1>4. row.state = "RESERVED" /\ row # NoRow /\ DOMAIN row = RowFields
  BY <1>3 DEF TrailInv, CallIsConsistent, RowIsConsistent, NoRow
<1>5. RowIsConsistent' /\ PaymentsAreConsistent' /\ HeldIsTrue'
  BY <1>2, <1>3, <1>4, StateKeeps DEF RowFields
<1> QED BY <1>3, <1>5 DEF TrailInv, CallIsConsistent, ClockIsBounded

\* The lookup does not tell.
LEMMA OutcomeUnknownKeeps ==
    ASSUME TrailInv, OutcomeUnknown PROVE TrailInv'
<1>1. /\ call.pc = "sent" /\ row' = [row EXCEPT !.state = "RECONCILIATION_REQUIRED"]
      /\ call'.pc = "idle"
      /\ UNCHANGED <<now, resource, wire, submitted, chain, held, attempts>>
  BY DEF OutcomeUnknown, Idle
<1>2. row.state = "RESERVED" /\ row.attempt # None /\ row # NoRow /\ DOMAIN row = RowFields
  BY <1>1 DEF TrailInv, CallIsConsistent, RowIsConsistent, NoRow
<1>3. RowIsConsistent' /\ PaymentsAreConsistent' /\ HeldIsTrue'
  BY <1>1, <1>2, StateKeeps DEF RowFields
<1> QED BY <1>1, <1>3 DEF TrailInv, CallIsConsistent, ClockIsBounded

\* The receipt of a final purchase is signed and stored.
LEMMA SignReceiptKeeps ==
    ASSUME TrailInv, SignReceipt PROVE TrailInv'
<1> DEFINE receipt == IF row.receipt = None THEN DecisionReceipt(Authority, row) ELSE row.receipt
<1>1. /\ row # NoRow /\ call'.pc = "idle"
      /\ row' = [row EXCEPT !.receipt = receipt]
      /\ UNCHANGED <<now, resource, wire, submitted, chain, held, attempts>>
  BY DEF SignReceipt, Idle
<1>2. row.receipt # None => receipt = row.receipt
  OBVIOUS
<1> HIDE DEF receipt
<1>3. DOMAIN row = RowFields
  BY <1>1 DEF TrailInv, RowIsConsistent
<1>4. /\ DOMAIN row' = RowFields /\ row'.receipt = receipt
      /\ \A f \in RowFields \ {"receipt"} : row'[f] = row[f]
  BY <1>1, <1>3 DEF RowFields
<1>5. /\ row'.state = row.state /\ row'.request = row.request
      /\ row'.requirement = row.requirement /\ row'.fingerprint = row.fingerprint
      /\ row'.settlement = row.settlement /\ row'.attempt = row.attempt
  BY <1>4 DEF RowFields
<1>6. row.state \in States /\ row' # NoRow
  BY <1>1, <1>5 DEF TrailInv, RowIsConsistent, States, NoRow
<1>7. RowIsConsistent'
  BY <1>1, <1>4, <1>5, <1>6 DEF TrailInv, RowIsConsistent, FailedForGood
<1>8. PaymentsAreConsistent'
  BY <1>1, <1>5, <1>6, PaymentsKept DEF TrailInv
<1>9. HeldIsTrue'
  <2>1. FinalKept
    BY <1>2, <1>4, <1>5 DEF FinalKept
  <2> QED BY <1>1, <2>1, HeldKept DEF TrailInv
<1> QED BY <1>1, <1>7, <1>8, <1>9 DEF TrailInv, CallIsConsistent, ClockIsBounded

-----------------------------------------------------------------------------
(* Restarts, reconciliation, the chain, time and the export.               *)

\* A restart: what was attempted is blocked, what was not is released.
LEMMA RestartKeeps ==
    ASSUME TrailInv, NEW configured \in {resource} \cup Resources, Restart(configured)
    PROVE  TrailInv'
<1> DEFINE state == IF row.attempt = None THEN "FAILED" ELSE "RECONCILIATION_REQUIRED"
<1>1. /\ resource' = configured /\ call'.pc = "idle"
      /\ row' = IF row.state # "RESERVED" THEN row ELSE [row EXCEPT !.state = state]
      /\ UNCHANGED <<now, wire, submitted, chain, held, attempts>>
  BY DEF Restart, Idle
<1>2. RowIsConsistent' /\ PaymentsAreConsistent' /\ HeldIsTrue'
  <2>1. CASE row.state # "RESERVED"
    BY <1>1, <2>1, CallAlone
  <2>2. CASE row.state = "RESERVED"
    <3>1. row # NoRow /\ DOMAIN row = RowFields
      BY <2>2 DEF TrailInv, RowIsConsistent, NoRow
    <3>2. /\ state \in {"FAILED", "RECONCILIATION_REQUIRED"}
          /\ state = "RECONCILIATION_REQUIRED" => row.attempt # None
          /\ state = "FAILED" => row.attempt = None
      OBVIOUS
    <3> HIDE DEF state
    <3>3. row' = [row EXCEPT !.state = state]
      BY <1>1, <2>2
    <3> QED BY <1>1, <2>2, <3>1, <3>2, <3>3, StateKeeps DEF RowFields
  <2> QED BY <2>1, <2>2
<1> QED BY <1>1, <1>2 DEF TrailInv, CallIsConsistent, ClockIsBounded

\* Only a transfer that failed on the chain fails the invocation.
LEMMA ReconcileKeeps ==
    ASSUME TrailInv, Reconcile PROVE TrailInv'
<1>1. /\ call.pc = "idle" /\ row.state = "RECONCILIATION_REQUIRED"
      /\ UNCHANGED <<now, resource, wire, submitted, chain, held, attempts>>
  BY DEF Reconcile, Blocked, Idle
<1>2. row # NoRow /\ DOMAIN row = RowFields
  BY <1>1 DEF TrailInv, RowIsConsistent, NoRow
<1>3. PICK t \in chain : Resolve(CheckSettledTransaction(t, row.attempt), t)
  BY DEF Reconcile
<1> DEFINE verdict == CheckSettledTransaction(t, row.attempt)
           settlement == Settlement(t, None)
<1>4. CASE /\ row' = [row EXCEPT !.state = "CONFIRMED", !.settlement = settlement]
           /\ call' = [pc |-> "receipt"]
  <2> HIDE DEF settlement
  <2>1. RowIsConsistent' /\ PaymentsAreConsistent' /\ HeldIsTrue'
    BY <1>1, <1>2, <1>4, StateKeeps DEF RowFields
  <2>2. call'.pc = "receipt"
    BY <1>4
  <2> QED BY <1>1, <2>1, <2>2 DEF TrailInv, CallIsConsistent, ClockIsBounded
<1>5. CASE /\ verdict = "failed_onchain"
           /\ row' = [row EXCEPT !.state = "FAILED"]
           /\ call' = Idle
  <2>1. FailedForGood(row.attempt)
    BY <1>5, SettlementVerdict DEF FailedForGood
  <2> HIDE DEF verdict
  <2>2. RowIsConsistent' /\ PaymentsAreConsistent' /\ HeldIsTrue'
    BY <1>1, <1>2, <1>5, <2>1, StateKeeps DEF RowFields
  <2>3. call'.pc = "idle"
    BY <1>5 DEF Idle
  <2> QED BY <1>1, <2>2, <2>3 DEF TrailInv, CallIsConsistent, ClockIsBounded
<1> QED BY <1>3, <1>4, <1>5 DEF Resolve

\* The chain takes a submitted transaction, for good.
LEMMA LandKeeps ==
    ASSUME TrailInv, NEW transaction \in submitted, NEW err \in BOOLEAN, Land(transaction, err)
    PROVE  TrailInv'
<1> DEFINE landed == OnChain(transaction, err)
           C == IF Final(transaction.payerSignature) THEN {} ELSE {landed}
<1>1. /\ submitted' \subseteq submitted
      /\ chain' = IF Final(transaction.payerSignature) THEN chain ELSE chain \cup {landed}
      /\ UNCHANGED <<now, resource, row, call, wire, held, attempts>>
  BY DEF Land
<1>2. /\ PaysAsSigned(transaction.message, row.request)
      /\ row # NoRow /\ row.request.amount \in 1..Permit.maxPerCall
  BY DEF TrailInv, PaymentsAreConsistent
<1>3. landed.message = transaction.message /\ landed.payerSignature = transaction.payerSignature
  BY DEF OnChain
<1> HIDE DEF landed
<1>4. /\ chain' = chain \cup C
      /\ \A t \in C : PaysAsSigned(t.message, row.request)
      /\ \A t \in C : ~Final(t.payerSignature)
      /\ \A t, u \in C : t = u
  BY <1>1, <1>2, <1>3
<1> HIDE DEF C
<1>5. RowIsConsistent' /\ PaymentsAreConsistent' /\ HeldIsTrue'
  BY <1>1, <1>2, <1>4, PaymentMoves
<1> QED BY <1>1, <1>5 DEF TrailInv, CallIsConsistent, ClockIsBounded, CanBePaid, LastsAtMost

\* A blockhash expires: the blocked transaction cannot land any more.
LEMMA ExpireKeeps ==
    ASSUME TrailInv, Expire PROVE TrailInv'
<1> DEFINE expired == OnChain(row.attempt.transaction, TRUE)
<1>1. /\ row.state = "RECONCILIATION_REQUIRED" /\ ~Final(row.attempt.payerSignature)
      /\ chain' = chain \cup {expired}
      /\ UNCHANGED <<now, resource, row, call, wire, submitted, held, attempts>>
  BY DEF Expire, Blocked
<1>2. /\ row # NoRow
      /\ row.attempt.payerSignature = row.attempt.transaction.payerSignature
      /\ PaysAsSigned(row.attempt.transaction.message, row.request)
      /\ row.request.amount \in 1..Permit.maxPerCall
  BY <1>1 DEF TrailInv, RowIsConsistent, AsPermitted, NoRow
<1>3. /\ expired.message = row.attempt.transaction.message
      /\ expired.payerSignature = row.attempt.transaction.payerSignature
  BY DEF OnChain
<1> HIDE DEF expired
<1> DEFINE C == {expired}
<1>4. /\ chain' = chain \cup C
      /\ \A t \in C : PaysAsSigned(t.message, row.request)
      /\ \A t \in C : ~Final(t.payerSignature)
      /\ \A t, u \in C : t = u
  BY <1>1, <1>2, <1>3
<1> HIDE DEF C
<1>5. RowIsConsistent' /\ PaymentsAreConsistent' /\ HeldIsTrue'
  BY <1>1, <1>2, <1>4, PaymentMoves
<1> QED BY <1>1, <1>5 DEF TrailInv, CallIsConsistent, ClockIsBounded, CanBePaid, LastsAtMost

\* Time passes, no further than a timeout lets it.
LEMMA TickKeeps ==
    ASSUME TrailInv, Tick PROVE TrailInv'
<1>1. /\ now < (IF attempts > 1 THEN MaxRetryTime ELSE MaxTime) /\ now' = now + 1
      /\ call.pc = "challenge" => now < call.since + HttpTimeout
      /\ UNCHANGED <<resource, row, call, wire, submitted, chain, held, attempts>>
  BY DEF Tick, MayTick
<1>2. RowIsConsistent' /\ PaymentsAreConsistent' /\ HeldIsTrue'
  BY <1>1, CallAlone
<1>3. ClockIsBounded'
  BY <1>1, TrailAssumption DEF TrailInv, ClockIsBounded
<1>4. CallIsConsistent'
  <2>1. now \in Int /\ HttpTimeout \in Int
    BY TrailAssumption DEF TrailInv, ClockIsBounded
  <2>2. call.pc = "challenge" => now' <= call.since + HttpTimeout
    BY <1>1, <2>1 DEF TrailInv, CallIsConsistent
  <2> QED BY <1>1, <2>2 DEF TrailInv, CallIsConsistent, CanBePaid, LastsAtMost
<1> QED BY <1>2, <1>3, <1>4 DEF TrailInv

\* A bundle says what the row says; only a final row has a receipt.
LEMMA ExportKeeps ==
    ASSUME TrailInv, NEW version \in {1, 2}, Export(version)
    PROVE  TrailInv'
<1>1. /\ Exportable /\ held' = BuildEvidenceBundle(row, resource, Authority, version, now)
      /\ UNCHANGED <<now, resource, row, call, wire, submitted, chain, attempts>>
  BY DEF Export, Bundle
<1>2. /\ held'.manifest.purchaseState = row.state
      /\ held'.authorityDecision = row.receipt
      /\ held'.attempt = row.attempt
      /\ held'.settlement = IF row.state = "CONFIRMED" THEN row.settlement ELSE None
  BY <1>1, BundleOfRow, SMTT(30)
<1>3. row # NoRow /\ (row.state \in {"CONFIRMED", "DENIED"} => row.receipt # None)
  BY <1>1 DEF Exportable, ExportProblem
<1>4. HeldIsTrue'
  <2>1. row.state # "CONFIRMED" => row.settlement = None
    BY <1>3 DEF TrailInv, RowIsConsistent
  <2>2. row.state = "FAILED" /\ row.attempt # None => FailedForGood(row.attempt)
    BY <1>3 DEF TrailInv, RowIsConsistent
  <2> QED BY <1>1, <1>2, <1>3, <2>1, <2>2 DEF HeldIsTrue, FailedForGood
<1>5. RowIsConsistent' /\ PaymentsAreConsistent'
  BY <1>1, RowKept, PaymentsKept DEF TrailInv
<1> QED BY <1>1, <1>4, <1>5 DEF TrailInv, CallIsConsistent, ClockIsBounded, CanBePaid, LastsAtMost

-----------------------------------------------------------------------------
(* The theorems.                                                           *)

\* Nothing was asked, sent or exported.
LEMMA TrailInvInit == TrailInit => TrailInv
<1> SUFFICES ASSUME TrailInit PROVE TrailInv
  OBVIOUS
<1>1. ClockIsBounded
  BY TrailAssumption DEF TrailInit, ClockIsBounded
<1>2. call.pc = "idle" /\ row = NoRow
  BY DEF TrailInit, Idle
<1> QED BY <1>1, <1>2 DEF TrailInit, TrailInv, RowIsConsistent, CallIsConsistent,
                          PaymentsAreConsistent, HeldIsTrue

\* Every step keeps the invariant.
LEMMA TrailInvStep == TrailInv /\ [TrailNext]_trailVars => TrailInv'
<1> SUFFICES ASSUME TrailInv, [TrailNext]_trailVars PROVE TrailInv'
  OBVIOUS
<1>1. ASSUME NEW ask \in Asks, NEW skew \in Skews, Begin(ask, skew) PROVE TrailInv'
  BY ONLY TrailInv, <1>1, BeginKeeps
<1>2. ASSUME NEW ask \in Asks, NEW skew \in Skews, NEW committed \in Committed,
             DenyAtOnce(ask, skew, committed)
      PROVE  TrailInv'
  BY ONLY TrailInv, <1>2, DenyAtOnceKeeps
<1>3. ASSUME NEW answer \in Answers, NEW committed \in Committed, Answered(answer, committed)
      PROVE  TrailInv'
  BY ONLY TrailInv, <1>3, AnsweredKeeps
<1>4. ASSUME NEW quote, NEW blockhash, Prepare(quote, blockhash) PROVE TrailInv'
  BY ONLY TrailInv, <1>4, PrepareKeeps
<1>5. CASE NotSubmitted \/ ReleaseFails \/ Transmit
  BY <1>5, NotSubmittedKeeps, ReleaseFailsKeeps, TransmitKeeps
<1>6. ASSUME NEW received \in wire, Lose(received) PROVE TrailInv'
  BY ONLY TrailInv, <1>6, LoseKeeps
<1>7. ASSUME NEW received \in wire, NEW outcome \in {"settled", "failed", "pending"},
             NEW body, NEW report, NEW acknowledged,
             Serve(received, outcome, body, report, acknowledged)
      PROVE  TrailInv'
  BY ONLY TrailInv, <1>7, ServeKeeps
<1>8. ASSUME NEW t \in chain, Paid(t) PROVE TrailInv'
  BY ONLY TrailInv, <1>8, PaidKeeps
<1>9. CASE OutcomeUnknown \/ SignReceipt
  BY <1>9, OutcomeUnknownKeeps, SignReceiptKeeps
<1>10. ASSUME NEW configured \in {resource} \cup Resources, Restart(configured)
       PROVE  TrailInv'
  BY ONLY TrailInv, <1>10, RestartKeeps
<1>11. CASE Reconcile \/ Expire \/ Tick
  BY <1>11, ReconcileKeeps, ExpireKeeps, TickKeeps
<1>12. ASSUME NEW transaction \in submitted, NEW err \in BOOLEAN, Land(transaction, err)
       PROVE  TrailInv'
  BY ONLY TrailInv, <1>12, LandKeeps
<1>13. ASSUME NEW version \in {1, 2}, Export(version) PROVE TrailInv'
  BY ONLY TrailInv, <1>13, ExportKeeps
<1>14. CASE UNCHANGED trailVars
  <2>1. UNCHANGED <<now, resource, row, call, wire, submitted, chain, held, attempts>>
    BY <1>14 DEF trailVars
  <2> QED BY <2>1, CallAlone DEF TrailInv, CallIsConsistent, ClockIsBounded, CanBePaid,
                                 LastsAtMost
<1> QED BY <1>1, <1>2, <1>3, <1>4, <1>5, <1>6, <1>7, <1>8, <1>9, <1>10, <1>11, <1>12, <1>13,
           <1>14 DEF TrailNext

\* So it holds in every reachable state.
LEMMA TrailInvAlways == TrailSpec => []TrailInv
BY TrailInvInit, TrailInvStep, PTL DEF TrailSpec

\* The variables have the shapes the handlers rely on: a call before its
\* answer holds a reservation, and a blocked invocation has an attempt.
THEOREM TrailTypeCorrect == TrailSpec => []TrailTypeOK
<1>1. TrailInv => TrailTypeOK
  <2> SUFFICES ASSUME TrailInv PROVE TrailTypeOK
    OBVIOUS
  <2>1. row = NoRow => row.state # "RECONCILIATION_REQUIRED"
    BY DEF NoRow
  <2> QED BY <2>1 DEF TrailInv, ClockIsBounded, RowIsConsistent, CallIsConsistent, TrailTypeOK
<1> QED BY <1>1, TrailInvAlways, PTL

\* Whatever the service quotes and the client builds, a credential that leaves
\* pays the human's recipient what the agent signed, for the human's operation
\* (execute checks the transaction before it transmits it).
THEOREM PaymentsAsSigned == TrailSpec => []PaidAsSigned
<1>1. TrailInv => PaidAsSigned
  BY DEF TrailInv, PaymentsAreConsistent, PaidAsSigned
<1> QED BY <1>1, TrailInvAlways, PTL

\* What was exported is never taken back, and the attempt of an exported
\* failure never settles (reconcile fails only what cannot land).
THEOREM ExportsStayTrue == TrailSpec => []ExportedEvidenceStaysTrue
<1>1. TrailInv => ExportedEvidenceStaysTrue
  <2> SUFFICES ASSUME TrailInv, held # None PROVE ExportedEvidenceStaysTrue
    BY DEF ExportedEvidenceStaysTrue
  <2> DEFINE state == held.manifest.purchaseState
  <2>1. /\ state \in {"CONFIRMED", "DENIED"} =>
              /\ row.state = state
              /\ row.receipt = held.authorityDecision
              /\ row.settlement = held.settlement
        /\ state = "FAILED" /\ held.attempt # None => FailedForGood(held.attempt)
    BY DEF TrailInv, HeldIsTrue
  <2>2. ASSUME FailedForGood(held.attempt), NEW t \in chain,
               CheckSettledTransaction(t, held.attempt) = "settled"
        PROVE  FALSE
    <3>1. t.payerSignature = held.attempt.payerSignature /\ ~t.err
      BY <2>2, SettlementVerdict
    <3>2. PICK u \in chain : u.payerSignature = held.attempt.payerSignature /\ u.err
      BY <2>2 DEF FailedForGood
    <3> QED BY <3>1, <3>2 DEF TrailInv, PaymentsAreConsistent
  <2> HIDE DEF state
  <2> QED BY <2>1, <2>2 DEF ExportedEvidenceStaysTrue, state
<1> QED BY <1>1, TrailInvAlways, PTL

-----------------------------------------------------------------------------
(* Exports do not mix.  A bundle somebody kept needs to be one that was    *)
(* exported: its manifest has the digests of its artifacts.                *)

RowIsUnderThePermit == row # NoRow => row.permit = Permit

HeldWasExported ==
    held # None =>
        /\ held.version \in {1, 2}
        /\ held.permit = Permit
        /\ ArtifactsOf(held.version) \subseteq DOMAIN held
        /\ \A name \in ArtifactsOf(held.version) \ {"permit"} :
              held.manifest.digests[name] = ArtifactDigest(name, held[name])

ExportInv == RowIsUnderThePermit /\ HeldWasExported

\* The bundle exported in a step is the row's, and so under the permit.
LEMMA ExportIsAnExport ==
    ASSUME ExportInv, NEW version \in {1, 2}, Export(version)
    PROVE  ExportInv'
<1>1. /\ row # NoRow /\ row' = row
      /\ held' = BuildEvidenceBundle(row, resource, Authority, version, now)
  BY DEF Export, Exportable, Bundle
<1>2. row.permit = Permit
  BY <1>1 DEF ExportInv, RowIsUnderThePermit
<1>3. /\ held'.version = version /\ held'.permit = row.permit
      /\ ArtifactsOf(version) \subseteq DOMAIN held'
      /\ \A name \in ArtifactsOf(version) \ {"permit"} :
            held'.manifest.digests[name] = ArtifactDigest(name, held'[name])
  BY <1>1, BundleOfRow, SMTT(30)
<1>4. HeldWasExported'
  BY <1>2, <1>3 DEF HeldWasExported
<1> QED BY <1>1, <1>2, <1>4 DEF ExportInv, RowIsUnderThePermit

\* A decision is recorded with the permit it was made under.
LEMMA DecidedUnderThePermit ==
    ASSUME NEW input, NEW state \in States, NEW codes, NEW requirement, NEW at,
           row' = Decided(input, state, codes, requirement, at), input.permit = Permit
    PROVE  row'.permit = Permit
BY DecidedFields

\* Every step keeps what is known of the bundles that were kept.
LEMMA ExportInvStep == TrailInv /\ ExportInv /\ [TrailNext]_trailVars => ExportInv'
<1> SUFFICES ASSUME TrailInv, ExportInv, [TrailNext]_trailVars PROVE ExportInv'
  OBVIOUS
<1>1. ASSUME RowIsUnderThePermit', held' = held PROVE ExportInv'
  BY <1>1 DEF ExportInv, HeldWasExported
<1>2. ASSUME UNCHANGED <<row, held>> PROVE ExportInv'
  BY <1>1, <1>2 DEF ExportInv, RowIsUnderThePermit
<1>3. row # NoRow => "permit" \in DOMAIN row /\ row.permit = Permit
  BY DEF TrailInv, RowIsConsistent, RowFields, ExportInv, RowIsUnderThePermit
<1>4. ASSUME NEW ask \in Asks, NEW skew, NEW committed, DenyAtOnce(ask, skew, committed)
      PROVE  ExportInv'
  <2> DEFINE input == Input(ask, skew)
             unavailable == IF RequestAllowed(input.permit, input.request, now)
                            THEN Unavailable(input.request) ELSE {}
             codes == Evaluate(input.permit, input.request, None, unavailable, committed, now)
  <2>1. row' = Decided(input, "DENIED", codes, None, now) /\ held' = held
    BY <1>4 DEF DenyAtOnce
  <2>2. input.permit = Permit
    BY InputFields
  <2> HIDE DEF input, codes
  <2> QED BY <1>1, <2>1, <2>2, DecidedUnderThePermit DEF RowIsUnderThePermit, States
<1>5. ASSUME NEW answer, NEW committed, Answered(answer, committed) PROVE ExportInv'
  <2> DEFINE input == call.input
             request == input.request
             paid == BuildPaidRequest(resource, request.operation)
             challenge == FetchChallenge(paid, answer)
             selection == SelectAndValidateChallenge(challenge, Profile, paid, request, Payer)
             requirement == selection.requirement
             codes == Evaluate(input.permit, request, requirement, selection.codes,
                               committed, call.decidedAt)
             Decision(state) == row' = Decided(input, state, codes, requirement, call.decidedAt)
  <2>1. /\ call.pc = "challenge" /\ held' = held
        /\ row' = row \/ Decision("DENIED") \/ Decision("RESERVED")
    BY <1>5 DEF Answered
  <2>2. input.permit = Permit
    BY <2>1 DEF TrailInv, CallIsConsistent
  <2> HIDE DEF input, codes, requirement
  <2>3. row' = row \/ row'.permit = Permit
    BY <2>1, <2>2, DecidedUnderThePermit DEF States
  <2> QED BY <1>1, <2>1, <2>3 DEF ExportInv, RowIsUnderThePermit
<1>6. ASSUME NEW quote, NEW blockhash, Prepare(quote, blockhash) PROVE ExportInv'
  <2> DEFINE payload == CreatePaymentPayload(quote, Payer, blockhash, attempts + 1)
             attempt == PrepareAttempt(Profile, call.paid, call.challenge, row.requirement,
                                       payload, blockhash, now)
  <2>1. /\ row' = [row EXCEPT !.attempt = attempt, !.serviceAuthorization = call.authorization]
        /\ row # NoRow /\ held' = held
    BY <1>6 DEF Prepare, TrailInv, CallIsConsistent, NoRow
  <2> HIDE DEF attempt
  <2> QED BY <1>1, <1>3, <2>1 DEF RowIsUnderThePermit
<1>7. CASE NotSubmitted \/ ReleaseFails \/ Transmit \/ OutcomeUnknown
  <2>1. /\ held' = held
        /\ row' = row \/ \E state : row # NoRow /\ row' = [row EXCEPT !.state = state]
    BY <1>7 DEF NotSubmitted, ReleaseFails, Transmit, OutcomeUnknown, TrailInv,
                CallIsConsistent, NoRow
  <2> QED BY <1>1, <1>2, <1>3, <2>1 DEF RowIsUnderThePermit
<1>8. ASSUME NEW t, Paid(t) PROVE ExportInv'
  <2>1. \E settlement, result : row' = [row EXCEPT !.state = "CONFIRMED",
                                            !.settlement = settlement, !.result = result]
    BY <1>8 DEF Paid
  <2>2. row # NoRow /\ held' = held
    BY <1>8 DEF Paid, TrailInv, CallIsConsistent, NoRow
  <2> QED BY <1>1, <1>3, <2>1, <2>2 DEF RowIsUnderThePermit
<1>9. CASE SignReceipt
  <2>1. row # NoRow /\ held' = held /\ \E receipt : row' = [row EXCEPT !.receipt = receipt]
    BY <1>9 DEF SignReceipt
  <2> QED BY <1>1, <1>3, <2>1 DEF RowIsUnderThePermit
<1>10. ASSUME NEW configured, Restart(configured) PROVE ExportInv'
  <2>1. /\ held' = held
        /\ row' = row \/ \E state : row # NoRow /\ row' = [row EXCEPT !.state = state]
    BY <1>10 DEF Restart, NoRow
  <2> QED BY <1>1, <1>2, <1>3, <2>1 DEF RowIsUnderThePermit
<1>11. CASE Reconcile
  <2>1. \A verdict, t : Resolve(verdict, t) =>
           \/ \E settlement :
                 row' = [row EXCEPT !.state = "CONFIRMED", !.settlement = settlement]
           \/ row' = [row EXCEPT !.state = "FAILED"]
    BY DEF Resolve
  <2>2. row # NoRow /\ held' = held
    BY <1>11 DEF Reconcile, Blocked, NoRow
  <2>3. \E verdict, t : Resolve(verdict, t)
    BY <1>11 DEF Reconcile
  <2> QED BY <1>1, <1>3, <2>1, <2>2, <2>3 DEF RowIsUnderThePermit
<1>12. ASSUME NEW version \in {1, 2}, Export(version) PROVE ExportInv'
  BY <1>12, ExportIsAnExport
<1>13. CASE UNCHANGED <<row, held>>
  BY <1>2, <1>13
<1> QED BY <1>4, <1>5, <1>6, <1>7, <1>8, <1>9, <1>10, <1>11, <1>12, <1>13
        DEF TrailNext, Begin, Lose, Serve, Expire, Land, Tick, trailVars

\* Two exports of one invocation cannot be recombined: where they differ, the
\* manifest of one has not the digest of the other's artifact
\* (verifyEvidenceBundle computes every digest again).
THEOREM ExportsStayApart == TrailSpec => []ExportsDoNotMix
<1>1. ASSUME ExportInv, held # None, Exportable, NEW artifact \in ArtifactsOf(held.version),
             held[artifact] # Bundle(held.version)[artifact]
      PROVE  VerifyEvidenceBundle([held EXCEPT ![artifact] = Bundle(held.version)[artifact]],
                                  Trust(None), "offline", None) # "VALID"
  <2> DEFINE current == Bundle(held.version)
             mixed == [held EXCEPT ![artifact] = current[artifact]]
  <2>1. /\ held.version \in {1, 2} /\ held.permit = Permit
        /\ ArtifactsOf(held.version) \subseteq DOMAIN held
        /\ \A name \in ArtifactsOf(held.version) \ {"permit"} :
              held.manifest.digests[name] = ArtifactDigest(name, held[name])
    BY <1>1 DEF ExportInv, HeldWasExported
  <2>2. row.permit = Permit
    BY <1>1 DEF ExportInv, RowIsUnderThePermit, Exportable
  <2>3. current.permit = Permit
    BY <2>1, <2>2, BundleOfRow, SMTT(30) DEF Bundle
  <2> HIDE DEF current
  <2>4. artifact # "permit"
    BY <1>1, <2>1, <2>3 DEF current
  <2>5. artifact \notin {"version", "environment", "identifiers", "manifest", "operation"}
    BY <1>1 DEF ArtifactsOf, V1Artifacts, V2Artifacts
  <2>6. /\ mixed[artifact] = current[artifact] /\ mixed.manifest = held.manifest
        /\ DOMAIN mixed = DOMAIN held
    BY <2>1, <2>5
  <2> HIDE DEF mixed
  <2> DEFINE rest == Without(mixed, "manifest")
  <2>7. artifact \in DOMAIN rest /\ rest[artifact] = current[artifact]
    BY <2>1, <2>5, <2>6 DEF Without, Restrict
  <2> HIDE DEF rest
  <2>8. EvidenceDigests(rest)[artifact] = ArtifactDigest(artifact, current[artifact])
    BY <2>4, <2>5, <2>7, DigestOfArtifact
  <2>9. EvidenceDigests(rest) # mixed.manifest.digests
    <3>1. mixed.manifest.digests[artifact] = ArtifactDigest(artifact, held[artifact])
      BY <2>1, <2>4, <2>6
    <3>2. ArtifactDigest(artifact, held[artifact]) # ArtifactDigest(artifact, current[artifact])
      BY <1>1, DigestNamesArtifact DEF current
    <3> QED BY <2>8, <3>1, <3>2
  <2>10. VerifyEvidenceBundle(mixed, Trust(None), "offline", None) # "VALID"
    BY <2>9, WrongDigestIsInvalid DEF rest
  <2> QED BY <2>10 DEF mixed, current
<1>2. ExportInv => ExportsDoNotMix
  BY <1>1 DEF ExportsDoNotMix
<1>3. TrailInit => ExportInv
  BY DEF TrailInit, ExportInv, RowIsUnderThePermit, HeldWasExported
<1> QED BY <1>2, <1>3, ExportInvStep, TrailInvAlways, PTL DEF TrailSpec

\* An integrated service accepts no credential later after the permit's expiry
\* than the wait for its terms and the authorization last together.
THEOREM LateAcceptanceIsBounded == TrailSpec => AcceptedSoonAfterExpiry
<1> DEFINE Accepted == (submitted' \cup chain') # (submitted \cup chain) /\ wire' # wire
           Bound == now <= Permit.expiresAt + HttpTimeout + AuthorizationTtl
<1>1. ASSUME TrailInv, NEW received \in wire,
             CheckServiceAuthorization(received, Authority, ServiceTerms, now) = "ok"
      PROVE  Bound
  <2>1. now \in (received.authorization.issuedAt - AuthorizationSkew)
                   ..received.authorization.expiresAt
    BY <1>1, CheckedAuthorization
  <2>2. LastsAtMost(received.authorization)
    BY <1>1 DEF TrailInv, PaymentsAreConsistent
  <2>3. now \in Int
    BY <1>1, TrailAssumption DEF TrailInv, ClockIsBounded
  <2> QED BY <2>1, <2>2, <2>3, PermitIsTyped DEF LastsAtMost
<1>2. TrailInv /\ [TrailNext]_trailVars => (Accepted => Bound)
  <2> SUFFICES ASSUME TrailInv, [TrailNext]_trailVars, Accepted PROVE Bound
    OBVIOUS
  <2>1. ASSUME NEW received \in wire, NEW outcome, NEW body, NEW report, NEW acknowledged,
               Serve(received, outcome, body, report, acknowledged)
        PROVE  Bound
    <3>1. CheckServiceAuthorization(received, Authority, ServiceTerms, now) = "ok"
      BY <2>1 DEF Serve
    <3> QED BY <1>1, <3>1
  <2> QED BY <2>1
          DEF TrailNext, Begin, DenyAtOnce, Answered, Prepare, NotSubmitted, ReleaseFails,
              Transmit, Lose, Paid, OutcomeUnknown, SignReceipt, Restart, Reconcile, Expire,
              Land, Tick, Export, trailVars
<1> QED BY <1>2, TrailInvAlways, PTL DEF TrailSpec, AcceptedSoonAfterExpiry

-----------------------------------------------------------------------------
(* The evidence of a purchase: what is assumed, and the invariant.         *)

\* What the verdicts need of the constants, each part because an honest export would
\* otherwise fail a bound or a clock of the verifier (MCEvidence evaluates them).
WithinBounds ==
    \* The permit is the copy that its verification returns, of exactly its fields
    \* (crypto.ts), and was signed before the clock started.
    /\ DOMAIN Permit = PermitFields \cup {"signature"}
    /\ Permit.issuedAt \in Int /\ Permit.issuedAt <= 1
    \* The agent's clock is not ahead of the authority's: verify.ts evaluates the
    \* permit again at the time of the signature, the authority at arrival.
    /\ \A skew \in Skews : skew <= 0
    \* parse.ts knows no method but POST.
    /\ Methods \subseteq {"POST"}
    \* The paid resource is not configured differently after a restart: the
    \* export derives the outbound request again.
    /\ \A r, s \in Resources : r = s
    /\ \A r \in Resources : r # None => r.url # Odd /\ r.url.path = r.path
    \* Text is within the bounds of parse.ts: the authority takes what its schema
    \* of a payment answer and the facilitator's report allow.
    /\ Odd \notin Reports \cup {Authority}
    /\ \A answer \in Answers : AnswerIsPlain(answer)
    \* A result that is kept fits (16 KiB against 96 KiB of base64), and so do
    \* all the reasons together.
    /\ \A body \in Bodies : body.bytes \in Nat
    /\ MaxResultBytes <= MaxResultText
    /\ Cardinality(ReasonCodes) <= MaxReasonCodes

\* ... and that null is no object.
WithinTheSchema == WithinBounds /\ NullsAreNoRecords

\* The times a decision can be made at.
Times == 1..MaxTime

\* The request that is paid for, as the authority builds it.
PaidRequest(request) == BuildPaidRequest(resource, request.operation)

\* What an authenticated request is, and that it arrived when it was signed.
AuthenticatedAt(request, signature, at) ==
    /\ ValidRequest(request)
    /\ request.grantId = Permit.grantId
    /\ request.permitDigest = PermitDigest(Permit)
    /\ VerifyRequestSignature(request, signature, Permit.agent)
    /\ Permit.network = Profile.name
    /\ at \in Times /\ request.issuedAt \in 1..at

\* The decision on the stored purchase: of an authenticated request, with every
\* reason its static evaluation finds again, and without one only if the terms
\* agree with the profile and the request.
DecisionIsSound ==
    /\ row.permit = Permit /\ row.agent = Permit.agent
    /\ row.invocationId = row.request.invocationId /\ row.grantId = row.request.grantId
    /\ row.amount = row.request.amount
    /\ AuthenticatedAt(row.request, row.agentSignature, row.decidedAt)
    /\ row.reasonCodes \subseteq ReasonCodes
    /\ StaticCodes(Permit, row.request) \subseteq row.reasonCodes
    /\ row.requirement # None => ParsesRequirement(row.requirement)
    /\ row.state # "DENIED" =>
          /\ row.reasonCodes = {} /\ row.requirement # None
          /\ PaidRequest(row.request) # None
          /\ Agrees(row.requirement, Profile, PaidRequest(row.request), row.request, Payer)

\* What the authority tells the service about this purchase.
AuthorizesPayment(authorization) ==
    \E at \in Times : authorization =
        ServiceAuthorization(Authority, row.request, PaidRequest(row.request), row.requirement, at)

\* An attempt is of the requirement, and goes with an authorization for it.
AttemptIsSound ==
    row.attempt # None =>
       /\ row.state # "DENIED"
       /\ AttemptMatches(row.attempt, row.requirement, Profile, PaidRequest(row.request))
       /\ AuthorizesPayment(row.serviceAuthorization)

\* The settlement on record is of this transaction, which paid.
SettledBy(t) ==
    /\ CheckSettledTransaction(t, row.attempt) = "settled"
    /\ \E report \in Reports \cup {None}, at \in Times :
          row.settlement = [transactionId |-> TransactionId(t.message),
                            facilitatorReportedTransaction |-> report, confirmedAt |-> at]

\* The result of this body, with an acknowledgement the authority accepted.
ResultIs(body) ==
    LET result == SummarizeResult(200, body)
        ack == row.result.acknowledgement
    IN /\ row.result = Joined(result, [acknowledgement |-> ack])
       /\ ack # None =>
             /\ AcknowledgementIsPlain(ack)
             /\ VerifiesPinned(ack.service, Service, "service-acknowledgement", ack)
             /\ AcknowledgementMatches(ack, row.request.invocationId, row.serviceAuthorization,
                    PaidRequest(row.request).sha256, row.request.operation, row.requirement,
                    row.settlement.transactionId, result)

\* A final purchase: its receipt restates it, its settlement is on the chain, its
\* result is one the service sent.
OutcomeIsSound ==
    /\ row.receipt # None => /\ row.state \in {"CONFIRMED", "DENIED"}
                             /\ row.receipt = DecisionReceipt(Authority, row)
    /\ row.state = "CONFIRMED" => row.attempt # None /\ \E t \in chain : SettledBy(t)
    /\ row.result # None => row.state = "CONFIRMED" /\ \E body \in Bodies : ResultIs(body)

\* All that a stored purchase is.
RowIsSound == row # NoRow => DecisionIsSound /\ AttemptIsSound /\ OutcomeIsSound

\* What the call in progress knows that the row does not yet.
CallIsSound ==
    /\ call.pc = "challenge" =>
          AuthenticatedAt(call.input.request, call.input.signature, call.decidedAt)
    /\ call.pc = "reserved" =>
          call.paid = PaidRequest(row.request) /\ AuthorizesPayment(call.authorization)
    /\ call.pc = "sent" /\ call.reply # None =>
          /\ call.reply.body \in Bodies /\ call.reply.report \in Reports
          /\ call.reply.ack # None => AcknowledgementIsPlain(call.reply.ack)
    /\ call.pc = "receipt" => row # NoRow /\ row.state \in {"CONFIRMED", "DENIED"}

\* The invariant behind the verdicts.
SoundInv == RowIsSound /\ CallIsSound

\* With one resource configured, a restart changes nothing about it.
LEMMA ResourceStays ==
    ASSUME WithinTheSchema, TrailInv, TrailInv'
    PROVE  resource' = resource
BY DEF WithinTheSchema, WithinBounds, TrailInv, ClockIsBounded

\* A row that is left alone stays sound while the chain grows.
LEMMA SoundRowStays ==
    ASSUME WithinTheSchema, TrailInv, TrailInv', RowIsSound,
           row' = row, chain \subseteq chain'
    PROVE  RowIsSound'
<1>1. resource' = resource
  BY ResourceStays
<1>2. ASSUME DecisionIsSound PROVE DecisionIsSound'
  BY <1>1, <1>2 DEF DecisionIsSound, PaidRequest
<1>3. ASSUME AttemptIsSound PROVE AttemptIsSound'
  BY <1>1, <1>3 DEF AttemptIsSound, AuthorizesPayment, PaidRequest
<1>4. ASSUME OutcomeIsSound PROVE OutcomeIsSound'
  <2>1. ASSUME NEW t \in chain, SettledBy(t) PROVE \E u \in chain' : SettledBy(u)'
    BY <2>1 DEF SettledBy
  <2>2. ASSUME NEW body \in Bodies, ResultIs(body) PROVE ResultIs(body)'
    BY <1>1, <2>2 DEF ResultIs, PaidRequest
  <2> QED BY <1>4, <2>1, <2>2 DEF OutcomeIsSound
<1> QED BY <1>2, <1>3, <1>4 DEF RowIsSound

\* What of the row the decision is.
DecisionFields == {"invocationId", "grantId", "agent", "request", "permit", "agentSignature",
                   "amount", "decidedAt", "reasonCodes", "requirement"}

\* The decision itself is never changed, whatever becomes of the purchase.
LEMMA SoundDecisionStays ==
    ASSUME WithinTheSchema, TrailInv, TrailInv', DecisionIsSound,
           \A f \in DecisionFields : row'[f] = row[f],
           row'.state = "DENIED" <=> row.state = "DENIED"
    PROVE  DecisionIsSound'
<1>1. resource' = resource
  BY ResourceStays
<1>2. /\ row'.invocationId = row.invocationId /\ row'.grantId = row.grantId
      /\ row'.agent = row.agent /\ row'.request = row.request /\ row'.permit = row.permit
      /\ row'.agentSignature = row.agentSignature /\ row'.amount = row.amount
      /\ row'.decidedAt = row.decidedAt /\ row'.reasonCodes = row.reasonCodes
      /\ row'.requirement = row.requirement
  BY DEF DecisionFields
<1> QED BY <1>1, <1>2 DEF DecisionIsSound, PaidRequest

\* So does an attempt, once it is recorded.
LEMMA SoundAttemptStays ==
    ASSUME WithinTheSchema, TrailInv, TrailInv', AttemptIsSound,
           row'.request = row.request, row'.requirement = row.requirement,
           row'.attempt = row.attempt, row'.serviceAuthorization = row.serviceAuthorization,
           row'.state = "DENIED" => row.state = "DENIED"
    PROVE  AttemptIsSound'
<1>1. resource' = resource
  BY ResourceStays
<1> QED BY <1>1 DEF AttemptIsSound, AuthorizesPayment, PaidRequest

-----------------------------------------------------------------------------
(* What each step does to it.                                              *)

\* A decided row field by field.
LEMMA DecidedTerms ==
    ASSUME NEW input, NEW state, NEW codes, NEW requirement, NEW at, NEW decided,
           decided = Decided(input, state, codes, requirement, at)
    PROVE  /\ decided.state = state /\ decided.permit = input.permit
           /\ decided.request = input.request
           /\ decided.invocationId = input.request.invocationId
           /\ decided.grantId = input.permit.grantId /\ decided.agent = input.permit.agent
           /\ decided.agentSignature = input.signature
           /\ decided.amount = input.request.amount
           /\ decided.decidedAt = at /\ decided.reasonCodes = codes
           /\ decided.requirement = requirement
           /\ decided.attempt = None /\ decided.result = None /\ decided.receipt = None
<1> DEFINE fingerprint == Fingerprint(input.permit, input.request)
<1> HIDE DEF fingerprint
<1>1. /\ decided.state = state /\ decided.permit = input.permit
      /\ decided.request = input.request
      /\ decided.invocationId = input.request.invocationId
      /\ decided.grantId = input.permit.grantId
  BY DEF Decided, fingerprint
<1>2. /\ decided.agent = input.permit.agent
      /\ decided.agentSignature = input.signature
      /\ decided.amount = input.request.amount
      /\ decided.decidedAt = at /\ decided.reasonCodes = codes
  BY DEF Decided, fingerprint
<1>3. /\ decided.requirement = requirement
      /\ decided.attempt = None /\ decided.result = None /\ decided.receipt = None
  BY DEF Decided, fingerprint
<1> QED BY <1>1, <1>2, <1>3

\* What is decided on an authenticated request is sound, whether it is denied
\* or its terms are agreed.
LEMMA SoundDecision ==
    ASSUME WithinTheSchema, TrailInv, TrailInv', NEW input, NEW state \in {"DENIED", "RESERVED"},
           NEW codes \in SUBSET ReasonCodes, NEW requirement, NEW at,
           row' = Decided(input, state, codes, requirement, at),
           input.permit = Permit, AuthenticatedAt(input.request, input.signature, at),
           StaticCodes(Permit, input.request) \subseteq codes,
           requirement # None => ParsesRequirement(requirement),
           state = "RESERVED" =>
              /\ codes = {} /\ requirement # None /\ PaidRequest(input.request) # None
              /\ Agrees(requirement, Profile, PaidRequest(input.request), input.request, Payer)
    PROVE  RowIsSound'
<1>1. resource' = resource
  BY ResourceStays
<1> DEFINE decided == Decided(input, state, codes, requirement, at)
<1>2. row' = decided
  OBVIOUS
<1> HIDE DEF decided
<1>3. /\ row'.state = state /\ row'.permit = Permit
      /\ row'.request = input.request
      /\ row'.invocationId = input.request.invocationId
      /\ row'.grantId = Permit.grantId /\ row'.agent = Permit.agent
      /\ row'.agentSignature = input.signature
      /\ row'.amount = input.request.amount
      /\ row'.decidedAt = at /\ row'.reasonCodes = codes
      /\ row'.requirement = requirement
      /\ row'.attempt = None /\ row'.result = None /\ row'.receipt = None
  BY <1>2, DecidedTerms DEF decided
<1>4. input.request.grantId = Permit.grantId
  BY DEF AuthenticatedAt
<1>5. DecisionIsSound'
  BY <1>1, <1>3, <1>4 DEF DecisionIsSound, PaidRequest
<1>6. AttemptIsSound' /\ OutcomeIsSound'
  BY <1>3 DEF AttemptIsSound, OutcomeIsSound
<1> QED BY <1>5, <1>6 DEF RowIsSound

\* A request that arrives when it was signed and is authenticated.
LEMMA ArrivesAuthenticated ==
    ASSUME WithinTheSchema, TrailInv, NEW ask \in Asks, NEW skew \in Skews,
           NEW input, input = Input(ask, skew), MayProcess(input)
    PROVE  /\ input.permit = Permit
           /\ AuthenticatedAt(input.request, input.signature, now)
           /\ \A committed : StaticCodes(Permit, input.request) \subseteq
                 Policy(Permit, input.request, input.request, committed, now)
<1> DEFINE request == [f \in RequestFields |-> IF f = "issuedAt" THEN now + skew ELSE ask[f]]
<1>1. /\ input.permit = Permit /\ input.request = request
      /\ input.signature = SignRequest(request, Permit.agent)
  <2> HIDE DEF request
  <2> QED BY DEF Input, request
<1>2. /\ request.issuedAt \in Int /\ request.issuedAt <= now
      /\ now \in Times /\ now \in Int /\ now >= 1
  <2>1. now \in 1..MaxTime /\ skew \in Int /\ skew <= 0 /\ MaxTime \in Nat
    BY TrailAssumption DEF TrailInv, ClockIsBounded, WithinTheSchema, WithinBounds
  <2>2. "issuedAt" \in RequestFields
    BY DEF RequestFields
  <2> QED BY <2>1, <2>2 DEF Times
<1> HIDE DEF request
<1>3. Authenticate(input, Permit.issuer, {Profile.name}, Audience, now) = {}
  BY DEF MayProcess
<1>4. /\ Permit.network = Profile.name
      /\ input.signature # NoSignature
      /\ VerifyRequestSignature(request, input.signature, Permit.agent)
      /\ request.grantId = Permit.grantId
      /\ request.permitDigest = PermitDigest(Permit)
  BY <1>1, <1>3, AuthenticatedRequest
<1>5. ValidRequest(request)
  BY <1>1, <1>4 DEF SignRequest
<1>6. /\ request.issuedAt > 0 /\ Permit.issuedAt <= request.issuedAt
      /\ Permit.issuedAt \in Int /\ Permit.expiresAt \in Int
  BY <1>2, <1>5, TrailAssumption DEF WithinTheSchema, WithinBounds, ValidRequest
<1> QED BY <1>1, <1>2, <1>4, <1>5, <1>6, StaticCodesWereFound DEF AuthenticatedAt

\* The request waits for the terms of the service.
LEMMA BeginIsSound ==
    ASSUME WithinTheSchema, TrailInv, TrailInv', SoundInv,
           NEW ask \in Asks, NEW skew \in Skews, Begin(ask, skew)
    PROVE  SoundInv'
<1> DEFINE input == Input(ask, skew)
<1>1. /\ MayProcess(input)
      /\ call' = [pc |-> "challenge", input |-> input, decidedAt |-> now, since |-> now]
      /\ row' = row /\ chain' = chain
  BY DEF Begin
<1> HIDE DEF input
<1>2. AuthenticatedAt(input.request, input.signature, now)
  BY <1>1, ArrivesAuthenticated DEF input
<1>3. call'.pc = "challenge" /\ call'.input = input /\ call'.decidedAt = now
  BY <1>1
<1>4. CallIsSound'
  BY <1>2, <1>3 DEF CallIsSound
<1>5. RowIsSound'
  BY <1>1, SoundRowStays DEF SoundInv
<1> QED BY <1>4, <1>5 DEF SoundInv

\* A denial without asking the service.
LEMMA DenyAtOnceIsSound ==
    ASSUME WithinTheSchema, TrailInv, TrailInv', SoundInv,
           NEW ask \in Asks, NEW skew \in Skews, NEW committed, DenyAtOnce(ask, skew, committed)
    PROVE  SoundInv'
<1> DEFINE input == Input(ask, skew)
           unavailable == IF RequestAllowed(input.permit, input.request, now)
                          THEN Unavailable(input.request) ELSE {}
           codes == Evaluate(input.permit, input.request, None, unavailable, committed, now)
<1>1. /\ MayProcess(input)
      /\ row' = Decided(input, "DENIED", codes, None, now)
      /\ call' = [pc |-> "receipt"]
  BY DEF DenyAtOnce
<1>2. unavailable \subseteq ReasonCodes
  BY DEF Unavailable, ReasonCodes, ServiceCodes
<1> HIDE DEF input, unavailable
<1>3. /\ input.permit = Permit
      /\ AuthenticatedAt(input.request, input.signature, now)
      /\ StaticCodes(Permit, input.request) \subseteq
            Policy(Permit, input.request, input.request, committed, now)
  BY <1>1, ArrivesAuthenticated DEF input
<1>4. /\ codes \subseteq ReasonCodes
      /\ Policy(Permit, input.request, input.request, committed, now) \subseteq codes
  <2>1. codes = Evaluate(Permit, input.request, None, unavailable, committed, now)
    BY <1>3
  <2> HIDE DEF codes
  <2> QED BY <1>2, <2>1, DecisionCodes
<1> HIDE DEF codes
<1>5. RowIsSound'
  BY <1>1, <1>3, <1>4, SoundDecision
<1>6. row' # NoRow /\ row'.state = "DENIED"
  BY <1>1, DecidedTerms DEF NoRow
<1>7. CallIsSound'
  <2>1. call'.pc = "receipt"
    BY <1>1
  <2> QED BY <1>6, <2>1 DEF CallIsSound
<1> QED BY <1>5, <1>7 DEF SoundInv

\* The decision on the answer: a denial, or a reservation with its authorization.
LEMMA AnsweredIsSound ==
    ASSUME WithinTheSchema, TrailInv, TrailInv', SoundInv,
           NEW answer \in Answers, NEW committed, Answered(answer, committed)
    PROVE  SoundInv'
<1> DEFINE input == call.input
           request == input.request
           paid == BuildPaidRequest(resource, request.operation)
           challenge == FetchChallenge(paid, answer)
           selection == SelectAndValidateChallenge(challenge, Profile, paid, request, Payer)
           requirement == selection.requirement
           at == call.decidedAt
           codes == Evaluate(input.permit, request, requirement, selection.codes,
                             committed, at)
           authorization == ServiceAuthorization(Authority, request, paid, requirement, now)
           Decision(state) == row' = Decided(input, state, codes, requirement, at)
<1>1. /\ call.pc = "challenge" /\ resource' = resource /\ chain' = chain
      /\ \/ call' = Idle /\ row' = row
         \/ challenge.kind # "unavailable" /\ Decision("DENIED") /\ call' = [pc |-> "receipt"]
         \/ /\ challenge.kind # "unavailable" /\ codes = {} /\ Decision("RESERVED")
            /\ call' = [pc |-> "reserved", paid |-> paid, challenge |-> challenge,
                        authorization |-> authorization]
  BY DEF Answered
<1>2. /\ input.permit = Permit /\ paid # None /\ paid = PaidRequest(request)
      /\ AuthenticatedAt(request, input.signature, at)
  BY <1>1 DEF TrailInv, CallIsConsistent, CanBePaid, SoundInv, CallIsSound, PaidRequest
<1>3. StaticCodes(Permit, request) \subseteq Policy(Permit, request, request, committed, at)
  <2>1. /\ at \in Int /\ request.issuedAt \in Int /\ request.issuedAt <= at
        /\ Permit.issuedAt \in Int /\ Permit.expiresAt \in Int
        /\ Permit.issuedAt <= request.issuedAt
    BY <1>2, TrailAssumption DEF AuthenticatedAt, Times, WithinTheSchema, WithinBounds
  <2> HIDE DEF input, at
  <2> QED BY <2>1, StaticCodesWereFound
<1>4. ChallengeIsPlain(challenge)
  <2> HIDE DEF paid
  <2> QED BY FetchedChallenge DEF WithinTheSchema, WithinBounds
<1>5. ASSUME challenge.kind # "unavailable"
      PROVE  /\ requirement # None => ParsesRequirement(requirement)
             /\ codes \subseteq ReasonCodes /\ StaticCodes(Permit, request) \subseteq codes
             /\ codes = {} => /\ requirement # None
                              /\ Agrees(requirement, Profile, paid, request, Payer)
  <2> HIDE DEF paid, challenge
  <2>1. /\ selection.codes \subseteq ReasonCodes
        /\ requirement # None => ParsesRequirement(requirement)
        /\ selection.codes = {} => Agrees(requirement, Profile, paid, request, Payer)
    BY <1>4, <1>5, Selection
  <2> DEFINE objections == selection.codes
  <2> HIDE DEF selection, requirement, objections
  <2>2. codes = Evaluate(Permit, request, requirement, objections, committed, at)
    BY <1>2 DEF objections
  <2> HIDE DEF codes
  <2>3. objections \subseteq ReasonCodes
    BY <2>1 DEF objections
  <2>4. /\ codes \subseteq ReasonCodes
        /\ Policy(Permit, request, request, committed, at) \subseteq codes
    BY <2>2, <2>3, DecisionCodes
  <2>5. codes = {} => requirement # None /\ objections = {}
    BY <2>2 DEF Evaluate
  <2> QED BY <1>3, <2>1, <2>4, <2>5 DEF objections
<1>6. CASE call' = Idle /\ row' = row
  <2>1. RowIsSound'
    BY <1>1, <1>6, SoundRowStays DEF SoundInv
  <2>2. call'.pc = "idle"
    BY <1>6 DEF Idle
  <2> QED BY <2>1, <2>2 DEF SoundInv, CallIsSound
<1>7. CASE challenge.kind # "unavailable" /\ Decision("DENIED") /\ call' = [pc |-> "receipt"]
  <2> HIDE DEF codes, requirement, input, at, challenge
  <2>1. RowIsSound'
    BY <1>2, <1>5, <1>7, SoundDecision
  <2>2. row' # NoRow /\ row'.state = "DENIED" /\ call'.pc = "receipt"
    BY <1>7, DecidedTerms DEF NoRow
  <2> QED BY <2>1, <2>2 DEF SoundInv, CallIsSound
<1>8. CASE /\ challenge.kind # "unavailable" /\ codes = {} /\ Decision("RESERVED")
           /\ call' = [pc |-> "reserved", paid |-> paid, challenge |-> challenge,
                       authorization |-> authorization]
  <2> HIDE DEF codes, requirement, input, at, challenge, paid, authorization
  <2>1. RowIsSound'
    BY <1>2, <1>5, <1>8, SoundDecision
  <2>2. /\ row'.request = request /\ row'.requirement = requirement
        /\ call'.pc = "reserved" /\ call'.paid = paid /\ call'.authorization = authorization
    BY <1>8, DecidedFields DEF States
  <2>3. now \in Times
    BY DEF TrailInv, ClockIsBounded, Times
  <2>4. (call.paid = PaidRequest(row.request) /\ AuthorizesPayment(call.authorization))'
    BY <1>1, <1>2, <2>2, <2>3 DEF PaidRequest, AuthorizesPayment, authorization
  <2> QED BY <2>1, <2>2, <2>4 DEF SoundInv, CallIsSound
<1> QED BY <1>1, <1>6, <1>7, <1>8

\* A call that is left alone stays sound.
LEMMA SoundCallStays ==
    ASSUME WithinTheSchema, TrailInv, TrailInv', CallIsSound, call' = call, row' = row
    PROVE  CallIsSound'
<1>1. resource' = resource
  BY ResourceStays
<1> QED BY <1>1 DEF CallIsSound, PaidRequest, AuthorizesPayment

\* An idle call claims nothing.
LEMMA NothingInProgress ==
    ASSUME call'.pc = "idle"
    PROVE  CallIsSound'
BY DEF CallIsSound

\* A purchase that stays open, or fails, has no receipt, settlement or result.
LEMMA SoundStateChange ==
    ASSUME WithinTheSchema, TrailInv, TrailInv', SoundInv,
           row.state \in {"RESERVED", "RECONCILIATION_REQUIRED"},
           NEW state \in {"FAILED", "RECONCILIATION_REQUIRED"},
           row' = [row EXCEPT !.state = state]
    PROVE  RowIsSound'
<1>1. row # NoRow /\ DOMAIN row = RowFields
  BY DEF TrailInv, RowIsConsistent, NoRow
<1>2. row'.state = state /\ \A f \in RowFields \ {"state"} : row'[f] = row[f]
  BY <1>1 DEF RowFields
<1>3. \A f \in DecisionFields : row'[f] = row[f]
  BY <1>2 DEF DecisionFields, RowFields
<1>4. /\ row'.request = row.request /\ row'.requirement = row.requirement
      /\ row'.attempt = row.attempt /\ row'.serviceAuthorization = row.serviceAuthorization
      /\ row'.receipt = row.receipt /\ row'.result = row.result
  BY <1>2 DEF RowFields
<1>5. DecisionIsSound /\ AttemptIsSound /\ OutcomeIsSound
  BY <1>1 DEF SoundInv, RowIsSound
<1>6. DecisionIsSound'
  BY <1>2, <1>3, <1>5, SoundDecisionStays
<1>7. AttemptIsSound'
  BY <1>2, <1>4, <1>5, SoundAttemptStays
<1>8. OutcomeIsSound'
  BY <1>2, <1>4, <1>5 DEF OutcomeIsSound
<1> QED BY <1>6, <1>7, <1>8 DEF RowIsSound

\* The attempt is at the agreed terms, under the authorization given for them.
LEMMA PrepareIsSound ==
    ASSUME WithinTheSchema, TrailInv, TrailInv', SoundInv,
           NEW quote, NEW blockhash, Prepare(quote, blockhash)
    PROVE  SoundInv'
<1> DEFINE payload == CreatePaymentPayload(quote, Payer, blockhash, attempts + 1)
           attempt == PrepareAttempt(Profile, call.paid, call.challenge, row.requirement,
                                     payload, blockhash, now)
<1>1. /\ call.pc = "reserved" /\ attempt # None
      /\ row' = [row EXCEPT !.attempt = attempt, !.serviceAuthorization = call.authorization]
      /\ call' = [pc |-> "recorded"]
  BY DEF Prepare
<1>2. row.state = "RESERVED" /\ row # NoRow /\ DOMAIN row = RowFields
  BY <1>1 DEF TrailInv, CallIsConsistent, RowIsConsistent, NoRow
<1>3. /\ DecisionIsSound /\ OutcomeIsSound
      /\ call.paid = PaidRequest(row.request) /\ AuthorizesPayment(call.authorization)
  BY <1>1, <1>2 DEF SoundInv, RowIsSound, CallIsSound
<1>4. AttemptMatches(attempt, row.requirement, Profile, PaidRequest(row.request))
  <2>1. ParsesRequirement(row.requirement) /\ now >= 0
    BY <1>2, <1>3, TrailAssumption DEF DecisionIsSound, TrailInv, ClockIsBounded
  <2>2. Payer # Odd
    BY TrailAssumption
  <2>3. Profile.name # Odd
    BY <1>3, TrailAssumption, MandateAssumption
       DEF DecisionIsSound, AuthenticatedAt, VerifyPermit, ValidPermit, ValidSharedFields
  <2>4. call.paid.url # Odd
    <3>1. call.paid # None /\ call.paid = BuildPaidRequest(resource, row.request.operation)
      BY <1>2, <1>3 DEF DecisionIsSound, PaidRequest
    <3>2. resource # None /\ call.paid.url = resource.url
      BY <3>1 DEF BuildPaidRequest
    <3> QED BY <3>2 DEF WithinTheSchema, WithinBounds, TrailInv, ClockIsBounded
  <2>5. Odd \notin {Profile.name, Payer, call.paid.url}
    BY <2>2, <2>3, <2>4
  <2> HIDE DEF payload, attempt
  <2>6. AttemptMatches(attempt, row.requirement, Profile, call.paid)
    BY <1>1, <2>1, <2>5, AttemptOfRequirement DEF payload, attempt
  <2> QED BY <1>3, <2>6
<1> HIDE DEF attempt
<1>5. /\ row'.attempt = attempt /\ row'.serviceAuthorization = call.authorization
      /\ \A f \in RowFields \ {"attempt", "serviceAuthorization"} : row'[f] = row[f]
  BY <1>1, <1>2 DEF RowFields
<1>6. \A f \in DecisionFields : row'[f] = row[f]
  BY <1>5 DEF DecisionFields, RowFields
<1>7. /\ row'.state = row.state /\ row'.request = row.request
      /\ row'.requirement = row.requirement
      /\ row'.receipt = row.receipt /\ row'.result = row.result
  BY <1>5 DEF RowFields
<1>8. DecisionIsSound'
  BY <1>3, <1>6, <1>7, SoundDecisionStays
<1>9. AttemptIsSound'
  <2>1. resource' = resource
    BY ResourceStays
  <2> QED BY <1>2, <1>3, <1>4, <1>5, <1>7, <2>1
          DEF AttemptIsSound, AuthorizesPayment, PaidRequest
<1>10. OutcomeIsSound'
  BY <1>2, <1>3, <1>7 DEF OutcomeIsSound
<1>11. CallIsSound'
  <2>1. call'.pc = "recorded"
    BY <1>1
  <2> QED BY <2>1 DEF CallIsSound
<1> QED BY <1>8, <1>9, <1>10, <1>11 DEF SoundInv, RowIsSound

\* A release, and an unknown outcome.
LEMMA LeftOpenIsSound ==
    ASSUME WithinTheSchema, TrailInv, TrailInv', SoundInv,
           NotSubmitted \/ ReleaseFails \/ OutcomeUnknown
    PROVE  SoundInv'
<1>1. call'.pc = "idle" /\ chain' = chain
  BY DEF NotSubmitted, ReleaseFails, OutcomeUnknown, Idle
<1>2. \/ row' = row
      \/ /\ row.state = "RESERVED"
         /\ \E state \in {"FAILED", "RECONCILIATION_REQUIRED"} : row' = [row EXCEPT !.state = state]
  BY DEF NotSubmitted, ReleaseFails, OutcomeUnknown, TrailInv, CallIsConsistent
<1>3. RowIsSound'
  BY <1>1, <1>2, SoundRowStays, SoundStateChange DEF SoundInv
<1> QED BY <1>1, <1>3, NothingInProgress DEF SoundInv

\* What a restart releases or blocks has no outcome yet.
LEMMA RestartIsSound ==
    ASSUME WithinTheSchema, TrailInv, TrailInv', SoundInv, NEW configured, Restart(configured)
    PROVE  SoundInv'
<1>1. call'.pc = "idle" /\ chain' = chain
  BY DEF Restart, Idle
<1>2. \/ row' = row
      \/ /\ row.state = "RESERVED"
         /\ \E state \in {"FAILED", "RECONCILIATION_REQUIRED"} : row' = [row EXCEPT !.state = state]
  BY DEF Restart
<1>3. RowIsSound'
  BY <1>1, <1>2, SoundRowStays, SoundStateChange DEF SoundInv
<1> QED BY <1>1, <1>3, NothingInProgress DEF SoundInv

\* Nothing is known yet of what was sent.
LEMMA TransmitIsSound ==
    ASSUME WithinTheSchema, TrailInv, TrailInv', SoundInv, Transmit
    PROVE  SoundInv'
<1>1. call' = [pc |-> "sent", reply |-> None] /\ row' = row /\ chain' = chain
  BY DEF Transmit
<1>2. call'.pc = "sent" /\ call'.reply = None
  BY <1>1
<1>3. CallIsSound'
  BY <1>2 DEF CallIsSound
<1> QED BY <1>1, <1>3, SoundRowStays DEF SoundInv

\* An acknowledgement the service signed is inside the schema.
LEMMA ServeIsSound ==
    ASSUME WithinTheSchema, TrailInv, TrailInv', SoundInv, NEW received, NEW outcome,
           NEW body \in Bodies, NEW report \in Reports, NEW acknowledged,
           Serve(received, outcome, body, report, acknowledged)
    PROVE  SoundInv'
<1> DEFINE ack == IF acknowledged = None THEN None
                  ELSE ServiceAcknowledgement(Service, received, ServiceTerms,
                                              TransactionId(received.transaction.message),
                                              SummarizeResult(200, acknowledged), now)
           reply == [body |-> body, report |-> report, ack |-> ack]
<1>1. /\ row' = row /\ chain \subseteq chain'
      /\ call' = call \/ (call.pc = "sent" /\ call' = [call EXCEPT !.reply = reply])
  <2> HIDE DEF reply
  <2> QED BY DEF Serve, reply
<1>2. ack # None => AcknowledgementIsPlain(ack)
  <2>1. now >= 1
    BY TrailAssumption DEF TrailInv, ClockIsBounded
  <2> QED BY <2>1, AcknowledgementOpens
<1>3. CASE call.pc = "sent" /\ call' = [call EXCEPT !.reply = reply]
  <2>1. DOMAIN call = {"pc", "reply"}
    BY <1>3 DEF TrailInv, CallIsConsistent
  <2>2. call'.pc = "sent" /\ call'.reply = reply
    BY <1>3, <2>1
  <2> HIDE DEF ack
  <2>3. reply.body = body /\ reply.report = report /\ reply.ack = ack
    OBVIOUS
  <2> HIDE DEF reply
  <2>4. CallIsSound'
    BY <1>2, <2>2, <2>3 DEF CallIsSound
  <2> QED BY <1>1, <2>4, SoundRowStays DEF SoundInv
<1>4. CASE call' = call
  BY <1>1, <1>4, SoundRowStays, SoundCallStays DEF SoundInv
<1> QED BY <1>1, <1>3, <1>4

\* Adding the acknowledgement to a result keeps the result, and can be undone.
LEMMA AcknowledgedResult ==
    ASSUME NEW body, NEW ack, NEW result, NEW joined,
           result = SummarizeResult(200, body),
           joined = Joined(result, [acknowledgement |-> ack])
    PROVE  /\ joined.acknowledgement = ack
           /\ Without(joined, "acknowledgement") = result
           /\ DOMAIN result = {"httpStatus", "sha256", "bytes", "body"}
           /\ result.httpStatus = 200 /\ result.sha256 = Digest(body)
           /\ result.bytes = body.bytes
           /\ result.body = IF body.bytes > MaxResultBytes THEN None ELSE body
           /\ joined.body = result.body
<1> DEFINE kept == IF body.bytes > MaxResultBytes THEN None ELSE body
           more == [acknowledgement |-> ack]
           sha256 == Digest(body)
<1> HIDE DEF kept, sha256
<1>1. /\ DOMAIN result = {"httpStatus", "sha256", "bytes", "body"}
      /\ result.httpStatus = 200 /\ result.sha256 = sha256
      /\ result.bytes = body.bytes /\ result.body = kept
      /\ result = [f \in DOMAIN result |-> result[f]]
  BY DEF SummarizeResult, kept, sha256
<1>2. DOMAIN more = {"acknowledgement"} /\ more.acknowledgement = ack
  OBVIOUS
<1>3. joined = [f \in DOMAIN result \cup DOMAIN more |->
                   IF f \in DOMAIN result THEN result[f] ELSE more[f]]
  BY DEF Joined
<1> HIDE DEF more
<1>4. /\ DOMAIN joined = DOMAIN result \cup {"acknowledgement"}
      /\ \A f \in DOMAIN result : joined[f] = result[f]
      /\ joined.acknowledgement = ack
  BY <1>1, <1>2, <1>3
<1>5. Without(joined, "acknowledgement") = result
  <2>1. (DOMAIN joined) \ {"acknowledgement"} = DOMAIN result
    BY <1>1, <1>4
  <2>2. Without(joined, "acknowledgement") = [f \in DOMAIN result |-> joined[f]]
    BY <2>1 DEF Without, Restrict
  <2> QED BY <1>1, <1>4, <2>2
<1> QED BY <1>1, <1>4, <1>5 DEF kept, sha256

\* A settlement names the transaction it was found in.
LEMMA SettlementFields ==
    ASSUME NEW t, NEW report
    PROVE  Settlement(t, report).transactionId = TransactionId(t.message)
BY DEF Settlement

\* A purchase is confirmed by a transfer on the chain, with whatever result.
LEMMA SoundConfirmation ==
    ASSUME WithinTheSchema, TrailInv, TrailInv', SoundInv, NEW t \in chain, chain' = chain,
           row.state \in {"RESERVED", "RECONCILIATION_REQUIRED"}, row.attempt # None,
           NEW report \in Reports \cup {None}, NEW result,
           CheckSettledTransaction(t, row.attempt) = "settled",
           row' = [row EXCEPT !.state = "CONFIRMED", !.settlement = Settlement(t, report),
                              !.result = result],
           result # None => (\E body \in Bodies : ResultIs(body))'
    PROVE  RowIsSound'
<1> DEFINE settlement == Settlement(t, report)
<1>1. row # NoRow /\ DOMAIN row = RowFields
  BY DEF TrailInv, RowIsConsistent, NoRow
<1>2. settlement = [transactionId |-> TransactionId(t.message),
                    facilitatorReportedTransaction |-> report, confirmedAt |-> now]
  BY DEF Settlement
<1> HIDE DEF settlement
<1>3. /\ row'.state = "CONFIRMED" /\ row'.settlement = settlement /\ row'.result = result
      /\ \A f \in RowFields \ {"state", "settlement", "result"} : row'[f] = row[f]
  BY <1>1 DEF RowFields, settlement
<1>4. \A f \in DecisionFields : row'[f] = row[f]
  BY <1>3 DEF DecisionFields, RowFields
<1>5. /\ row'.request = row.request /\ row'.requirement = row.requirement
      /\ row'.attempt = row.attempt /\ row'.serviceAuthorization = row.serviceAuthorization
      /\ row'.receipt = row.receipt
  BY <1>3 DEF RowFields
<1>6. DecisionIsSound /\ AttemptIsSound /\ OutcomeIsSound
  BY <1>1 DEF SoundInv, RowIsSound
<1>7. DecisionIsSound'
  BY <1>3, <1>4, <1>6, SoundDecisionStays
<1>8. AttemptIsSound'
  BY <1>3, <1>5, <1>6, SoundAttemptStays
<1>9. OutcomeIsSound'
  <2>1. now \in Times
    BY DEF TrailInv, ClockIsBounded, Times
  <2>2. SettledBy(t)'
    BY <1>2, <1>3, <1>5, <2>1 DEF SettledBy
  <2>3. row'.receipt = None
    BY <1>5, <1>6 DEF OutcomeIsSound
  <2>4. row'.result # None => (\E body \in Bodies : ResultIs(body))'
    BY <1>3
  <2> QED BY <1>3, <1>5, <2>2, <2>3, <2>4 DEF OutcomeIsSound
<1> QED BY <1>7, <1>8, <1>9 DEF RowIsSound

\* The acknowledgement that is kept is one of this very purchase.
LEMMA PaidIsSound ==
    ASSUME WithinTheSchema, TrailInv, TrailInv', SoundInv, NEW t \in chain, Paid(t)
    PROVE  SoundInv'
<1> DEFINE reply == call.reply
           summary == SummarizeResult(200, reply.body)
           settlement == Settlement(t, reply.report)
           paid == BuildPaidRequest(resource, row.request.operation)
           ack == AcceptAcknowledgement(reply.ack, Trust(Service).service, row.request,
                                        row.serviceAuthorization, paid, row.requirement,
                                        settlement, summary)
           result == Joined(summary, [acknowledgement |-> ack])
<1>1. /\ call.pc = "sent" /\ reply # None
      /\ CheckSettledTransaction(t, row.attempt) = "settled"
      /\ row' = [row EXCEPT !.state = "CONFIRMED", !.settlement = settlement,
                            !.result = result]
      /\ call' = [pc |-> "receipt"] /\ chain' = chain
  BY DEF Paid
<1>2. /\ row.state = "RESERVED" /\ row.attempt # None /\ row # NoRow /\ DOMAIN row = RowFields
  BY <1>1 DEF TrailInv, CallIsConsistent, RowIsConsistent, NoRow
<1>3. /\ reply.body \in Bodies /\ reply.report \in Reports
      /\ reply.ack # None => AcknowledgementIsPlain(reply.ack)
  BY <1>1 DEF SoundInv, CallIsSound
<1>4. ack # None =>
         /\ AcknowledgementIsPlain(ack)
         /\ VerifiesPinned(ack.service, Service, "service-acknowledgement", ack)
         /\ AcknowledgementMatches(ack, row.request.invocationId, row.serviceAuthorization,
                paid.sha256, row.request.operation, row.requirement,
                TransactionId(t.message), summary)
  <2>1. Trust(Service).service = Service
    BY DEF Trust
  <2>2. settlement.transactionId = TransactionId(t.message)
    BY SettlementFields
  <2> HIDE DEF reply, summary, settlement, paid
  <2> QED BY <1>3, <2>1, <2>2 DEF AcceptAcknowledgement
<1>5. result.acknowledgement = ack
  <2> HIDE DEF ack, reply
  <2> QED BY AcknowledgedResult
<1>6. /\ row'.request = row.request /\ row'.requirement = row.requirement
      /\ row'.serviceAuthorization = row.serviceAuthorization
      /\ row'.settlement.transactionId = TransactionId(t.message)
      /\ row'.result = result /\ row'.state = "CONFIRMED"
  <2>1. settlement.transactionId = TransactionId(t.message)
    BY SettlementFields
  <2> HIDE DEF result, settlement
  <2> QED BY <1>1, <1>2, <2>1 DEF RowFields
<1> HIDE DEF ack
<1>7. PICK content \in Bodies : content = reply.body
  BY <1>3
<1>8. ResultIs(content)'
  <2>1. resource' = resource
    BY ResourceStays
  <2>2. /\ row'.result = Joined(SummarizeResult(200, content),
                                [acknowledgement |-> row'.result.acknowledgement])
        /\ row'.result.acknowledgement = ack
    BY <1>5, <1>6, <1>7
  <2>3. paid.sha256 = PaidRequest(row.request)'.sha256
    BY <1>6, <2>1 DEF PaidRequest
  <2>4. summary = SummarizeResult(200, content)
    BY <1>7
  <2> HIDE DEF paid, summary, result, reply
  <2> QED BY <1>4, <1>6, <2>2, <2>3, <2>4 DEF ResultIs
<1> HIDE DEF result
<1>9. (\E body \in Bodies : ResultIs(body))'
  BY <1>8
<1>10. RowIsSound'
  <2> DEFINE report == reply.report
  <2>1. report \in Reports \cup {None} /\ settlement = Settlement(t, report)
    BY <1>3
  <2> HIDE DEF report, settlement
  <2> QED BY <1>1, <1>2, <1>9, <2>1, SoundConfirmation
<1>11. CallIsSound'
  <2>1. call'.pc = "receipt" /\ row' # NoRow
    BY <1>1, <1>6 DEF NoRow
  <2> QED BY <1>6, <2>1 DEF CallIsSound
<1> QED BY <1>10, <1>11 DEF SoundInv

\* A purchase confirmed by reconciliation has its settlement and no result.
LEMMA ReconcileIsSound ==
    ASSUME WithinTheSchema, TrailInv, TrailInv', SoundInv, Reconcile
    PROVE  SoundInv'
<1>1. /\ call.pc = "idle" /\ row.state = "RECONCILIATION_REQUIRED" /\ chain' = chain
  BY DEF Reconcile, Blocked, Idle
<1>2. /\ row # NoRow /\ DOMAIN row = RowFields /\ row.attempt # None
  BY <1>1 DEF TrailInv, RowIsConsistent, NoRow
<1>3. PICK t \in chain : Resolve(CheckSettledTransaction(t, row.attempt), t)
  BY DEF Reconcile
<1> DEFINE verdict == CheckSettledTransaction(t, row.attempt)
           settlement == Settlement(t, None)
<1>4. CASE /\ verdict = "settled"
           /\ row' = [row EXCEPT !.state = "CONFIRMED", !.settlement = settlement]
           /\ call' = [pc |-> "receipt"]
  <2> HIDE DEF settlement
  <2>1. row.result = None
    BY <1>1, <1>2 DEF SoundInv, RowIsSound, OutcomeIsSound
  <2> DEFINE result == None
  <2>2. row' = [row EXCEPT !.state = "CONFIRMED", !.settlement = settlement, !.result = result]
    BY <1>2, <1>4, <2>1 DEF RowFields
  <2>3. result # None => (\E body \in Bodies : ResultIs(body))'
    OBVIOUS
  <2> DEFINE report == None
  <2>4. report \in Reports \cup {None}
    OBVIOUS
  <2>5. row' = [row EXCEPT !.state = "CONFIRMED", !.settlement = Settlement(t, report),
                           !.result = result]
    BY <2>2 DEF settlement
  <2> HIDE DEF result, report
  <2>6. RowIsSound'
    <3>1. /\ CheckSettledTransaction(t, row.attempt) = "settled" /\ chain' = chain
          /\ row.state \in {"RESERVED", "RECONCILIATION_REQUIRED"} /\ row.attempt # None
      BY <1>1, <1>2, <1>4
    <3> HIDE DEF verdict
    <3> QED BY <2>3, <2>4, <2>5, <3>1, SoundConfirmation
  <2>7. row'.state = "CONFIRMED" /\ call'.pc = "receipt"
    BY <1>2, <1>4 DEF RowFields
  <2>8. CallIsSound'
    BY <2>7 DEF CallIsSound, NoRow
  <2> QED BY <2>6, <2>8 DEF SoundInv
<1>5. CASE /\ verdict = "failed_onchain"
           /\ row' = [row EXCEPT !.state = "FAILED"]
           /\ call' = Idle
  <2>1. call'.pc = "idle"
    BY <1>5 DEF Idle
  <2>2. RowIsSound'
    BY <1>1, <1>5, SoundStateChange
  <2> QED BY <2>1, <2>2, NothingInProgress DEF SoundInv
<1> QED BY <1>3, <1>4, <1>5 DEF Resolve

\* The receipt does not depend on the receipt.
LEMMA SameReceipt ==
    ASSUME NEW authority, NEW one, NEW other,
           \A f \in RowFields \ {"receipt"} : other[f] = one[f]
    PROVE  DecisionReceipt(authority, other) = DecisionReceipt(authority, one)
<1>1. /\ other.invocationId = one.invocationId /\ other.grantId = one.grantId
      /\ other.agent = one.agent /\ other.fingerprint = one.fingerprint
      /\ other.request = one.request /\ other.amount = one.amount
      /\ other.state = one.state /\ other.reasonCodes = one.reasonCodes
      /\ other.settlement = one.settlement /\ other.decidedAt = one.decidedAt
  BY DEF RowFields
<1> QED BY <1>1, Zenon DEF DecisionReceipt

\* Only a final purchase gets a receipt, and it is of what is stored.
LEMMA SignReceiptIsSound ==
    ASSUME WithinTheSchema, TrailInv, TrailInv', SoundInv, SignReceipt
    PROVE  SoundInv'
<1> DEFINE receipt == IF row.receipt = None THEN DecisionReceipt(Authority, row) ELSE row.receipt
<1>1. /\ row # NoRow /\ call'.pc = "idle" /\ chain' = chain
      /\ row' = [row EXCEPT !.receipt = receipt]
      /\ call.pc = "receipt" \/ row.state \in {"DENIED", "CONFIRMED"}
  BY DEF SignReceipt, Idle
<1>2. DOMAIN row = RowFields
  BY <1>1 DEF TrailInv, RowIsConsistent
<1>3. /\ DecisionIsSound /\ AttemptIsSound /\ OutcomeIsSound
      /\ row.state \in {"DENIED", "CONFIRMED"}
  BY <1>1 DEF SoundInv, RowIsSound, CallIsSound
<1>4. receipt = DecisionReceipt(Authority, row)
  BY <1>3 DEF OutcomeIsSound
<1> HIDE DEF receipt
<1>5. row'.receipt = receipt /\ \A f \in RowFields \ {"receipt"} : row'[f] = row[f]
  BY <1>1, <1>2 DEF RowFields
<1>6. \A f \in DecisionFields : row'[f] = row[f]
  BY <1>5 DEF DecisionFields, RowFields
<1>7. /\ row'.state = row.state /\ row'.request = row.request
      /\ row'.requirement = row.requirement /\ row'.attempt = row.attempt
      /\ row'.serviceAuthorization = row.serviceAuthorization
      /\ row'.settlement = row.settlement /\ row'.result = row.result
  BY <1>5 DEF RowFields
<1>8. DecisionIsSound'
  BY <1>3, <1>6, <1>7, SoundDecisionStays
<1>9. AttemptIsSound'
  BY <1>3, <1>7, SoundAttemptStays
<1>10. OutcomeIsSound'
  <2>1. row'.receipt = DecisionReceipt(Authority, row')
    BY <1>4, <1>5, SameReceipt
  <2>2. ASSUME NEW t, SettledBy(t) PROVE SettledBy(t)'
    BY <1>7, <2>2 DEF SettledBy
  <2>3. ASSUME NEW body, ResultIs(body) PROVE ResultIs(body)'
    <3>1. resource' = resource
      BY ResourceStays
    <3> QED BY <1>7, <2>3, <3>1 DEF ResultIs, PaidRequest
  <2> QED BY <1>1, <1>3, <1>7, <2>1, <2>2, <2>3 DEF OutcomeIsSound
<1> QED BY <1>1, <1>8, <1>9, <1>10, NothingInProgress DEF SoundInv, RowIsSound

\* A step that leaves the call and the row alone.
LEMMA ElsewhereIsSound ==
    ASSUME WithinTheSchema, TrailInv, TrailInv', SoundInv,
           call' = call, row' = row, chain \subseteq chain'
    PROVE  SoundInv'
BY SoundRowStays, SoundCallStays DEF SoundInv

\* No purchase, no call.
LEMMA SoundInvInit == TrailInit => SoundInv
BY DEF TrailInit, SoundInv, RowIsSound, CallIsSound, Idle

\* Every step keeps it.
LEMMA SoundInvStep ==
    ASSUME WithinTheSchema
    PROVE  TrailInv /\ TrailInv' /\ SoundInv /\ [TrailNext]_trailVars => SoundInv'
<1> SUFFICES ASSUME TrailInv, TrailInv', SoundInv, [TrailNext]_trailVars PROVE SoundInv'
  OBVIOUS
<1>1. ASSUME NEW ask \in Asks, NEW skew \in Skews, Begin(ask, skew) PROVE SoundInv'
  BY ONLY WithinTheSchema, TrailInv, TrailInv', SoundInv, <1>1, BeginIsSound
<1>2. ASSUME NEW ask \in Asks, NEW skew \in Skews, NEW committed,
             DenyAtOnce(ask, skew, committed)
      PROVE  SoundInv'
  BY ONLY WithinTheSchema, TrailInv, TrailInv', SoundInv, <1>2, DenyAtOnceIsSound
<1>3. ASSUME NEW answer \in Answers, NEW committed, Answered(answer, committed) PROVE SoundInv'
  BY ONLY WithinTheSchema, TrailInv, TrailInv', SoundInv, <1>3, AnsweredIsSound
<1>4. ASSUME NEW quote, NEW blockhash, Prepare(quote, blockhash) PROVE SoundInv'
  BY ONLY WithinTheSchema, TrailInv, TrailInv', SoundInv, <1>4, PrepareIsSound
<1>5. CASE NotSubmitted \/ ReleaseFails \/ OutcomeUnknown
  BY <1>5, LeftOpenIsSound
<1>6. CASE Transmit
  BY <1>6, TransmitIsSound
<1>7. ASSUME NEW received, NEW outcome, NEW body \in Bodies, NEW report \in Reports,
             NEW acknowledged, Serve(received, outcome, body, report, acknowledged)
      PROVE  SoundInv'
  BY ONLY WithinTheSchema, TrailInv, TrailInv', SoundInv, <1>7, ServeIsSound
<1>8. ASSUME NEW t \in chain, Paid(t) PROVE SoundInv'
  BY ONLY WithinTheSchema, TrailInv, TrailInv', SoundInv, <1>8, PaidIsSound
<1>9. CASE SignReceipt
  BY <1>9, SignReceiptIsSound
<1>10. ASSUME NEW configured, Restart(configured) PROVE SoundInv'
  BY ONLY WithinTheSchema, TrailInv, TrailInv', SoundInv, <1>10, RestartIsSound
<1>11. CASE Reconcile
  BY <1>11, ReconcileIsSound
<1>12. ASSUME call' = call, row' = row, chain \subseteq chain' PROVE SoundInv'
  BY <1>12, ElsewhereIsSound
<1> QED BY <1>1, <1>2, <1>3, <1>4, <1>5, <1>6, <1>7, <1>8, <1>9, <1>10, <1>11, <1>12
        DEF TrailNext, Lose, Expire, Land, Tick, Export, trailVars

\* Within the schema, a stored purchase is what was signed, decided, sent and
\* seen, at every step (handleAuthorization to reconcile).
LEMMA SoundInvAlways ==
    ASSUME WithinTheSchema
    PROVE  TrailSpec => []SoundInv
<1>1. TrailInv /\ TrailInv' /\ SoundInv /\ [TrailNext]_trailVars => SoundInv'
  BY SoundInvStep
<1> QED BY <1>1, SoundInvInit, TrailInvAlways, PTL DEF TrailSpec

-----------------------------------------------------------------------------
(* An exported bundle is within the schema.                                *)

\* What an exported bundle is of the stored purchase.
IsExport(bundle, version) ==
    /\ DOMAIN bundle =
          ArtifactsOf(version) \cup {"version", "environment", "identifiers", "manifest"}
    /\ EvidenceDigests(Without(bundle, "manifest")) = bundle.manifest.digests
    /\ bundle.version = version
    /\ bundle.environment.settlementProfile = row.permit.network
    /\ bundle.identifiers.grantId = row.grantId
    /\ bundle.identifiers.invocationId = row.invocationId
    /\ bundle.permit = row.permit
    /\ DOMAIN bundle.authorizationRequest = {"request", "agentSignature"}
    /\ bundle.authorizationRequest.request = row.request
    /\ bundle.authorizationRequest.agentSignature = row.agentSignature
    /\ bundle.authorityDecision = row.receipt
    /\ bundle.outboundRequest = IF row.requirement = None THEN None ELSE PaidRequest(row.request)
    /\ bundle.requirement = row.requirement
    /\ bundle.attempt = row.attempt
    /\ bundle.settlement = IF row.state = "CONFIRMED" THEN row.settlement ELSE None
    /\ bundle.result =
          IF row.state = "CONFIRMED" THEN Without(row.result, "acknowledgement") ELSE None
    /\ version = 2 =>
          /\ bundle.serviceAuthorization =
                IF row.attempt = None THEN None ELSE row.serviceAuthorization
          /\ bundle.serviceAcknowledgement =
                IF row.state = "CONFIRMED" THEN row.result.acknowledgement ELSE None

\* What the manifest of an export states.
ManifestStates(manifest, version) ==
    /\ DOMAIN manifest =
         {"version", "authority", "issuedAt", "settlementProfile", "grantId",
          "invocationId", "purchaseState", "decision", "reasonCodes", "digests", "signature"}
    /\ VerifiesPinned(manifest.authority, Authority, "evidence-manifest", manifest)
    /\ manifest.version = version /\ manifest.authority = Authority
    /\ manifest.issuedAt = now
    /\ manifest.settlementProfile = row.permit.network
    /\ manifest.grantId = row.grantId /\ manifest.invocationId = row.invocationId
    /\ manifest.purchaseState = row.state
    /\ manifest.decision = IF row.state = "DENIED" THEN "DENY" ELSE "ALLOW"
    /\ manifest.reasonCodes = row.reasonCodes
    /\ DOMAIN manifest.digests = ArtifactsOf(version) \cup {"operation"}
    /\ \A name \in {"permit", "authorizationRequest", "operation"} :
          manifest.digests[name] # NoDigest

\* The digests of the artifacts that every purchase has.
LEMMA DigestsOfExport ==
    ASSUME NullsAreNoRecords, NEW artifacts, NEW version \in {1, 2},
           DOMAIN artifacts = ArtifactsOf(version) \cup {"version", "environment", "identifiers"},
           artifacts.authorizationRequest # None
    PROVE  /\ DOMAIN EvidenceDigests(artifacts) = ArtifactsOf(version) \cup {"operation"}
           /\ \A name \in {"permit", "authorizationRequest", "operation"} :
                 EvidenceDigests(artifacts)[name] # NoDigest
<1>1. {"version", "environment", "identifiers", "manifest"} \cap ArtifactsOf(version) = {}
      /\ {"permit", "authorizationRequest"} \subseteq ArtifactsOf(version)
  BY DEF ArtifactsOf, V1Artifacts, V2Artifacts
<1>2. \A v : Digest(v) # NoDigest
  BY DEF Digest, NoDigest
<1>3. DOMAIN EvidenceDigests(artifacts) = ArtifactsOf(version) \cup {"operation"}
  BY <1>1 DEF EvidenceDigests
<1>4. EvidenceDigests(artifacts)["permit"] = PermitDigest(artifacts.permit)
  BY <1>1 DEF EvidenceDigests
<1>5. EvidenceDigests(artifacts)["operation"] =
         Digest(artifacts.authorizationRequest.request.operation)
  BY <1>1 DEF EvidenceDigests
<1>6. EvidenceDigests(artifacts)["authorizationRequest"] # NoDigest
  <2>1. EvidenceDigests(artifacts)["authorizationRequest"] =
           ArtifactDigest("authorizationRequest", artifacts["authorizationRequest"])
    BY <1>1, DigestOfArtifact
  <2> QED BY <1>2, <2>1 DEF ArtifactDigest
<1>7. PermitDigest(artifacts.permit) # NoDigest
  BY <1>2 DEF PermitDigest
<1> QED BY <1>2, <1>3, <1>4, <1>5, <1>6, <1>7

\* An exported bundle is of the stored purchase.
LEMMA ExportedBundle ==
    ASSUME NullsAreNoRecords, NEW version \in {1, 2}, NEW bundle, bundle = Bundle(version)
    PROVE  IsExport(bundle, version) /\ ManifestStates(bundle.manifest, version)
<1> DEFINE artifacts == Artifacts(row, resource, version)
<1>1. IsBundleOf(bundle, row, resource, Authority, version, now)
  BY BundleOpens DEF Bundle
<1>2. HasArtifacts(artifacts, row, resource, version)
  BY AllArtifactsOfRow
<1> HIDE DEF artifacts
<1>3. /\ DOMAIN bundle =
            ArtifactsOf(version) \cup {"version", "environment", "identifiers", "manifest"}
      /\ Without(bundle, "manifest") = artifacts
      /\ \A field \in ArtifactsOf(version) \cup {"version", "environment", "identifiers"} :
            bundle[field] = artifacts[field]
      /\ bundle.manifest.digests = EvidenceDigests(artifacts)
  BY ONLY <1>1 DEF IsBundleOf, artifacts
<1>4. /\ {"permit", "authorizationRequest", "authorityDecision", "outboundRequest",
          "requirement", "attempt", "settlement", "result"} \subseteq ArtifactsOf(version)
      /\ version = 2 =>
            {"serviceAuthorization", "serviceAcknowledgement"} \subseteq ArtifactsOf(version)
  BY DEF ArtifactsOf, V1Artifacts, V2Artifacts
<1>5. /\ bundle.version = version
      /\ bundle.environment = [settlementProfile |-> row.permit.network]
      /\ bundle.identifiers = [grantId |-> row.grantId, invocationId |-> row.invocationId]
      /\ bundle.permit = row.permit
      /\ bundle.authorizationRequest =
            [request |-> row.request, agentSignature |-> row.agentSignature]
      /\ bundle.authorityDecision = row.receipt
  BY <1>2, <1>3, <1>4 DEF HasArtifacts
<1>6. /\ bundle.outboundRequest = IF row.requirement = None \/ resource = None THEN None
                                  ELSE BuildPaidRequest(resource, row.request.operation)
      /\ bundle.requirement = row.requirement /\ bundle.attempt = row.attempt
      /\ bundle.settlement = IF row.state = "CONFIRMED" THEN row.settlement ELSE None
      /\ bundle.result =
            IF row.state = "CONFIRMED" THEN Without(row.result, "acknowledgement") ELSE None
  BY <1>2, <1>3, <1>4 DEF HasArtifacts
<1>7. version = 2 =>
         /\ bundle.serviceAuthorization =
               IF row.attempt = None THEN None ELSE row.serviceAuthorization
         /\ bundle.serviceAcknowledgement =
               IF row.state = "CONFIRMED" THEN row.result.acknowledgement ELSE None
  BY <1>2, <1>3, <1>4 DEF HasArtifacts
<1>8. resource = None => BuildPaidRequest(resource, row.request.operation) = None
  BY DEF BuildPaidRequest
<1>9. IsExport(bundle, version)
  <2>1. bundle.outboundRequest = IF row.requirement = None THEN None ELSE PaidRequest(row.request)
    BY <1>6, <1>8 DEF PaidRequest
  <2>2. EvidenceDigests(Without(bundle, "manifest")) = bundle.manifest.digests
    BY <1>3
  <2> QED BY <1>3, <1>5, <1>6, <1>7, <2>1, <2>2 DEF IsExport
<1>10. /\ DOMAIN bundle.manifest.digests = ArtifactsOf(version) \cup {"operation"}
       /\ \A name \in {"permit", "authorizationRequest", "operation"} :
             bundle.manifest.digests[name] # NoDigest
  <2> DEFINE signed == [request |-> row.request, agentSignature |-> row.agentSignature]
  <2>1. signed = [f \in DOMAIN signed |-> signed[f]]
    OBVIOUS
  <2> HIDE DEF signed
  <2>2. signed # None
    BY <2>1, RecordIsNoNull
  <2>3. artifacts.authorizationRequest = signed /\ artifacts.authorizationRequest # None
    BY <1>3, <1>4, <1>5, <2>2 DEF signed
  <2>4. DOMAIN artifacts = ArtifactsOf(version) \cup {"version", "environment", "identifiers"}
    BY <1>2 DEF HasArtifacts
  <2> QED BY <1>3, <2>3, <2>4, DigestsOfExport
<1>11. ManifestStates(bundle.manifest, version)
  BY ONLY <1>1, <1>10 DEF IsBundleOf, ManifestStates
<1> QED BY <1>9, <1>11

\* Why a purchase can be exported.
LEMMA ExportableRow ==
    ASSUME Exportable
    PROVE  /\ row # NoRow /\ row.state # "RESERVED"
           /\ row.state \in {"CONFIRMED", "DENIED"} => row.receipt # None
           /\ row.state = "CONFIRMED" =>
                 row.result # None /\ row.result.body # None /\ row.settlement # None
<1>1. row # NoRow /\ ExportProblem(row, Authority) = "ok"
  BY DEF Exportable
<1> QED BY <1>1 DEF ExportProblem

\* The request that is paid for, as it is built from the configured resource.
LEMMA BuiltRequest ==
    ASSUME NEW configured, NEW operation, NEW paid,
           paid = BuildPaidRequest(configured, operation), paid # None
    PROVE  /\ DOMAIN paid = {"method", "url", "body", "sha256"}
           /\ configured # None /\ configured.path = operation.resource
           /\ paid.url = configured.url /\ paid.method = operation.method
           /\ paid.body = OperationRequestBody(operation)
           /\ PaidRequestMatches(paid, paid.sha256)
<1> DEFINE body == OperationRequestBody(operation)
           fields == [url |-> configured.url, method |-> operation.method, body |-> body]
           sha256 == Digest(fields)
           made == [url |-> fields.url, method |-> fields.method, body |-> fields.body,
                    sha256 |-> sha256]
<1>1. /\ configured # None /\ configured.path = operation.resource /\ paid = made
  BY DEF BuildPaidRequest
<1> HIDE DEF body
<1>2. /\ fields.url = configured.url /\ fields.method = operation.method /\ fields.body = body
  OBVIOUS
<1>3. sha256 = Digest([url |-> configured.url, method |-> operation.method, body |-> body])
  OBVIOUS
<1> HIDE DEF fields, sha256
<1>4. /\ DOMAIN paid = {"method", "url", "body", "sha256"}
      /\ paid.url = configured.url /\ paid.method = operation.method
      /\ paid.body = body /\ paid.sha256 = sha256
  BY <1>1, <1>2
<1>5. PaidRequestMatches(paid, paid.sha256)
  BY <1>3, <1>4 DEF PaidRequestMatches
<1> QED BY <1>1, <1>4, <1>5 DEF body

\* A valid operation is within the schema.
LEMMA OperationParses ==
    ASSUME NEW operation, ValidOperation(operation)
    PROVE  ParsesOperation(operation) /\ operation.method \in Methods
BY MandateAssumption DEF ValidOperation, ParsesOperation, PlainText, OperationFields

\* So is the permit.
LEMMA PermitParses ==
    ASSUME WithinTheSchema
    PROVE  /\ ParsesPermit(Permit)
           /\ \A f \in PermitText \cup {"network"} : Permit[f] # Odd
<1>1. ValidPermit(Permit) /\ Permit.expiresAt \in Int /\ Permit.issuedAt \in Int
  BY TrailAssumption DEF VerifyPermit, WithinTheSchema, WithinBounds
<1>2. \A f \in PermitText \cup {"network"} : Permit[f] # Odd
  BY <1>1, MandateAssumption DEF ValidPermit, ValidSharedFields
<1>3. ParsesOperation(Permit.operation)
  BY <1>1, OperationParses DEF ValidPermit
<1>4. /\ Permit.maxPerCall >= 0 /\ Permit.maxTotal >= 0
      /\ Permit.issuedAt >= 1 /\ Permit.expiresAt >= 1
      /\ Permit.version = 2 /\ Permit.subdelegation = FALSE
  BY <1>1, MandateAssumption DEF ValidPermit, ValidSharedFields
<1> QED BY <1>2, <1>3, <1>4 DEF ParsesPermit, PlainText, WithinTheSchema, WithinBounds

\* So is an authenticated request with its signature.
LEMMA RequestParses ==
    ASSUME NEW request, NEW signature, NEW at, AuthenticatedAt(request, signature, at),
           NEW signed, DOMAIN signed = {"request", "agentSignature"}, signed.request = request
    PROVE  /\ ParsesAuthorizationRequest(signed)
           /\ \A f \in RequestText : request[f] # Odd
           /\ request.amount >= 0 /\ at \in Int /\ at >= 1
           /\ ParsesOperation(request.operation) /\ request.operation.method \in Methods
<1>1. ValidRequest(request) /\ request.issuedAt >= 1 /\ at \in Int /\ at >= 1
  BY TrailAssumption DEF AuthenticatedAt, Times
<1>2. ParsesOperation(request.operation) /\ request.operation.method \in Methods
  BY <1>1, OperationParses DEF ValidRequest
<1>3. \A f \in RequestText : request[f] # Odd
  BY <1>1 DEF ValidRequest
<1>4. request.amount >= 0 /\ DOMAIN request = RequestFields /\ request.version = 2
  BY <1>1 DEF ValidRequest
<1> QED BY <1>1, <1>2, <1>3, <1>4 DEF ParsesAuthorizationRequest, PlainText

\* A signature is a record.
LEMMA SignatureIsNoNull ==
    ASSUME NullsAreNoRecords, NEW key, NEW domain, NEW value
    PROVE  Sign(key, domain, value) # None /\ Sign(key, domain, value) # Odd
<1> DEFINE over == <<domain, value>>
           signature == [key |-> key, over |-> over]
<1>1. Sign(key, domain, value) = signature
  BY DEF Sign
<1> HIDE DEF over
<1>2. signature = [f \in DOMAIN signature |-> signature[f]]
  OBVIOUS
<1> HIDE DEF signature
<1> QED BY <1>1, <1>2, RecordIsNoNull

\* A receipt of a sound decision is within the schema.
LEMMA ReceiptParses ==
    ASSUME WithinTheSchema, NEW receipt, IsReceipt(receipt, Authority, row), DecisionIsSound,
           row.settlement # None => row.settlement.transactionId # Odd
    PROVE  ParsesReceipt(receipt)
<1> DEFINE Texts == {"service", "capability", "network", "mint", "recipient"}
<1>1. /\ AuthenticatedAt(row.request, row.agentSignature, row.decidedAt)
      /\ row.agent = Permit.agent /\ row.amount = row.request.amount
      /\ row.invocationId = row.request.invocationId /\ row.grantId = row.request.grantId
      /\ row.reasonCodes \subseteq ReasonCodes
  BY DEF DecisionIsSound
<1> DEFINE signed == [request |-> row.request, agentSignature |-> None]
<1>2. DOMAIN signed = {"request", "agentSignature"} /\ signed.request = row.request
  OBVIOUS
<1> HIDE DEF signed
<1>3. /\ \A f \in RequestText : row.request[f] # Odd
      /\ row.request.amount >= 0 /\ row.decidedAt >= 1
      /\ ParsesOperation(row.request.operation)
  BY <1>1, <1>2, RequestParses
<1>4. row.agent # Odd
  BY <1>1, PermitParses DEF PermitText
<1>5. Cardinality(row.reasonCodes) <= MaxReasonCodes
  BY <1>1, ReasonsFit DEF WithinTheSchema, WithinBounds
<1>6. /\ row.invocationId # Odd /\ row.grantId # Odd
      /\ \A f \in Texts : row.request[f] # Odd
  BY <1>1, <1>3 DEF RequestText
<1>7. None # Odd /\ Authority # Odd
  BY MandateAssumption DEF WithinTheSchema, WithinBounds
<1>8. /\ DOMAIN receipt =
           {"version", "invocationId", "grantId", "authority", "agent", "permitDigest",
            "requestFingerprint", "service", "capability", "network", "mint", "recipient",
            "amount", "decision", "reasonCodes", "paymentTransactionId", "decidedAt",
            "operation", "operationDigest", "signature"}
      /\ receipt.version = 2 /\ receipt.authority = Authority
      /\ receipt.invocationId = row.invocationId /\ receipt.grantId = row.grantId
      /\ receipt.agent = row.agent /\ receipt.amount = row.amount
      /\ \A f \in Texts : receipt[f] = row.request[f]
      /\ receipt.operation = row.request.operation
      /\ receipt.decision \in {"ALLOW", "DENY"}
      /\ receipt.reasonCodes = row.reasonCodes
      /\ receipt.paymentTransactionId # Odd
      /\ receipt.decidedAt = row.decidedAt
  BY <1>7 DEF IsReceipt
<1>9. PlainText(receipt, {"invocationId", "grantId", "authority", "agent", "service",
                          "capability", "network", "mint", "recipient",
                          "paymentTransactionId"})
  BY <1>4, <1>6, <1>7, <1>8 DEF PlainText
<1> QED BY <1>1, <1>3, <1>5, <1>8, <1>9 DEF ParsesReceipt

\* So is the manifest: its reasons are no more than the schema takes.
LEMMA ManifestParses ==
    ASSUME WithinTheSchema, TrailInv, NEW version \in {1, 2}, NEW manifest,
           ManifestStates(manifest, version), DecisionIsSound,
           row.state \in {"CONFIRMED", "DENIED", "FAILED", "RECONCILIATION_REQUIRED"}
    PROVE  ParsesManifest(manifest, version)
<1>1. Cardinality(row.reasonCodes) <= MaxReasonCodes
  BY ReasonsFit DEF WithinTheSchema, WithinBounds, DecisionIsSound
<1>2. now >= 1
  BY TrailAssumption DEF TrailInv, ClockIsBounded
<1> QED BY <1>1, <1>2 DEF ManifestStates, ParsesManifest

\* So is the outbound request.
LEMMA OutboundParses ==
    ASSUME WithinTheSchema, resource \in Resources, NEW paid, paid # None,
           paid = PaidRequest(row.request), row.request.operation.method \in Methods
    PROVE  ParsesOutboundRequest(paid) /\ paid.method = "POST"
<1>1. /\ DOMAIN paid = {"method", "url", "body", "sha256"}
      /\ resource # None /\ paid.url = resource.url
      /\ paid.method = row.request.operation.method
  BY BuiltRequest DEF PaidRequest
<1> QED BY <1>1 DEF ParsesOutboundRequest, WithinTheSchema, WithinBounds

\* So is the settlement, whatever the facilitator reported.
LEMMA SettlementParses ==
    ASSUME WithinTheSchema, NEW t, SettledBy(t)
    PROVE  /\ ParsesSettlement(row.settlement) /\ row.settlement # None
           /\ row.settlement.transactionId = TransactionId(t.message)
           /\ row.settlement.transactionId # Odd
<1>1. PICK report \in Reports \cup {None}, at \in Times :
         row.settlement = [transactionId |-> TransactionId(t.message),
                           facilitatorReportedTransaction |-> report, confirmedAt |-> at]
  BY DEF SettledBy
<1> DEFINE id == TransactionId(t.message)
           settlement == [transactionId |-> id, facilitatorReportedTransaction |-> report,
                          confirmedAt |-> at]
<1>2. id # Odd /\ report # Odd
  BY SignatureIsNoNull, MandateAssumption DEF TransactionId, WithinTheSchema, WithinBounds
<1> HIDE DEF id
<1>3. /\ DOMAIN settlement = {"transactionId", "facilitatorReportedTransaction", "confirmedAt"}
      /\ settlement.transactionId = id /\ settlement.facilitatorReportedTransaction = report
      /\ settlement = [f \in DOMAIN settlement |-> settlement[f]]
  OBVIOUS
<1>4. row.settlement = settlement
  BY <1>1 DEF id
<1> HIDE DEF settlement
<1>5. settlement # None
  BY <1>3, RecordIsNoNull DEF WithinTheSchema, WithinBounds
<1> QED BY <1>2, <1>3, <1>4, <1>5 DEF ParsesSettlement, PlainText, id

\* The result of a purchase, as it is in the bundle.
ResultExports(body) ==
    LET result == Without(row.result, "acknowledgement")
    IN /\ result = SummarizeResult(200, body) /\ result # None
       /\ ParsesResult(result)
       /\ result.sha256 = Digest(result.body) /\ result.body.bytes = result.bytes

\* So is the result: what is kept of it is no longer than the schema takes.
LEMMA ResultParses ==
    ASSUME WithinTheSchema, NEW body \in Bodies, ResultIs(body), row.result.body # None
    PROVE  ResultExports(body)
<1> DEFINE result == SummarizeResult(200, body)
           ack == row.result.acknowledgement
           joined == row.result
<1>1. joined = Joined(result, [acknowledgement |-> ack])
  BY DEF ResultIs
<1> HIDE DEF joined, ack
<1>2. /\ Without(joined, "acknowledgement") = result
      /\ DOMAIN result = {"httpStatus", "sha256", "bytes", "body"}
      /\ result.httpStatus = 200 /\ result.sha256 = Digest(body)
      /\ result.bytes = body.bytes
      /\ result.body = IF body.bytes > MaxResultBytes THEN None ELSE body
      /\ joined.body = result.body
  BY <1>1, AcknowledgedResult
<1>3. result # None
  <2>1. result = [f \in DOMAIN result |-> result[f]]
    BY DEF SummarizeResult
  <2> HIDE DEF result
  <2> QED BY <2>1, RecordIsNoNull DEF WithinTheSchema, WithinBounds
<1> HIDE DEF result
<1>4. result.body = body /\ ~(body.bytes > MaxResultBytes)
  BY <1>2 DEF joined
<1>5. body.bytes <= MaxResultText
  BY <1>4, PaymentsAssumption, EvidenceAssumption DEF WithinTheSchema, WithinBounds
<1> QED BY <1>2, <1>3, <1>4, <1>5 DEF ResultExports, ParsesResult, joined, result

\* What the authorization of a recorded attempt says.
AuthorizationExports(authorization) ==
    LET paid == PaidRequest(row.request)
        q == row.requirement
    IN /\ authorization # None /\ ParsesServiceAuthorization(authorization)
       /\ VerifiesPinned(authorization.authority, Authority, "service-authorization",
                         authorization)
       /\ authorization.invocationId = row.request.invocationId
       /\ authorization.grantId = row.request.grantId
       /\ authorization.request.url = paid.url
       /\ authorization.request.requestSha256 = paid.sha256
       /\ authorization.operationDigest = Digest(row.request.operation)
       /\ authorization.payment = Restrict(q, {"network", "asset", "payTo", "amount"})

\* An authorization of this payment is within the schema and says all the verifier
\* compares.
LEMMA AuthorizationParses ==
    ASSUME WithinTheSchema, NEW authorization, AuthorizesPayment(authorization),
           ParsesRequirement(row.requirement), PaidRequest(row.request).method = "POST"
    PROVE  AuthorizationExports(authorization)
<1> DEFINE paid == PaidRequest(row.request)
           q == row.requirement
           what == [method |-> paid.method, url |-> paid.url, requestSha256 |-> paid.sha256]
           payment == [network |-> q.network, asset |-> q.asset, payTo |-> q.payTo,
                       amount |-> q.amount]
           Terms == {"network", "asset", "payTo", "amount"}
<1>1. PICK at \in Times :
         authorization = ServiceAuthorization(Authority, row.request, paid, q, at)
  BY DEF AuthorizesPayment
<1> HIDE DEF paid
<1>2. IsAuthorization(authorization, Authority, row.request, paid, q, at)
  BY <1>1, AuthorizationOpens
<1>3. /\ what.method = "POST" /\ what.url = paid.url /\ what.requestSha256 = paid.sha256
  BY DEF paid
<1>4. /\ payment.network = q.network /\ payment.asset = q.asset /\ payment.payTo = q.payTo
      /\ payment = [f \in Terms |-> q[f]]
  OBVIOUS
<1>5. payment = Restrict(q, Terms)
  BY <1>4 DEF Restrict
<1> HIDE DEF what, payment, Terms
<1>6. /\ authorization = [f \in DOMAIN authorization |-> authorization[f]]
      /\ authorization.request = what /\ authorization.payment = payment
      /\ authorization.version = 1
      /\ authorization.issuedAt = at /\ authorization.expiresAt = at + AuthorizationTtl
      /\ DOMAIN authorization =
           {"version", "authority", "invocationId", "grantId", "request", "operationDigest",
            "payment", "issuedAt", "expiresAt", "signature"}
  BY <1>2 DEF IsAuthorization, what, payment
<1>7. authorization # None
  BY <1>6, RecordIsNoNull DEF WithinTheSchema, WithinBounds
<1>8. at >= 1 /\ at + AuthorizationTtl >= 1
  BY TrailAssumption, PermitIsTyped DEF Times
<1>9. q.network # Odd /\ q.asset # Odd /\ q.payTo # Odd
  BY DEF ParsesRequirement, PlainText
<1>10. ParsesServiceAuthorization(authorization)
  BY <1>3, <1>4, <1>6, <1>8, <1>9 DEF ParsesServiceAuthorization, PlainText
<1>11. /\ VerifiesPinned(authorization.authority, Authority, "service-authorization",
                         authorization)
       /\ authorization.invocationId = row.request.invocationId
       /\ authorization.grantId = row.request.grantId
       /\ authorization.operationDigest = Digest(row.request.operation)
  BY <1>2 DEF IsAuthorization
<1> QED BY <1>3, <1>5, <1>6, <1>7, <1>10, <1>11 DEF AuthorizationExports, paid, Terms

\* An acknowledgement that was kept is inside the schema: its terms are those
\* of the requirement and the settlement.
LEMMA AcknowledgementParses ==
    ASSUME WithinTheSchema, NEW body \in Bodies, ResultIs(body), NEW ack,
           ack = row.result.acknowledgement, ack # None,
           ParsesRequirement(row.requirement), row.settlement.transactionId # Odd
    PROVE  /\ ParsesServiceAcknowledgement(ack)
           /\ VerifiesPinned(ack.service, Service, "service-acknowledgement", ack)
           /\ AcknowledgementMatches(ack, row.request.invocationId, row.serviceAuthorization,
                  PaidRequest(row.request).sha256, row.request.operation, row.requirement,
                  row.settlement.transactionId, SummarizeResult(200, body))
<1>1. /\ AcknowledgementIsPlain(ack)
      /\ VerifiesPinned(ack.service, Service, "service-acknowledgement", ack)
      /\ AcknowledgementMatches(ack, row.request.invocationId, row.serviceAuthorization,
             PaidRequest(row.request).sha256, row.request.operation, row.requirement,
             row.settlement.transactionId, SummarizeResult(200, body))
  BY DEF ResultIs
<1>2. /\ ack.payment.transaction = row.settlement.transactionId
      /\ ack.payment.asset = row.requirement.asset /\ ack.payment.payTo = row.requirement.payTo
      /\ ack.result.httpStatus = SummarizeResult(200, body).httpStatus
  BY <1>1 DEF AcknowledgementMatches
<1>3. SummarizeResult(200, body).httpStatus = 200
  BY DEF SummarizeResult
<1>4. row.requirement.asset # Odd /\ row.requirement.payTo # Odd
  BY DEF ParsesRequirement, PlainText
<1>5. ParsesServiceAcknowledgement(ack)
  BY <1>1, <1>2, <1>3, <1>4 DEF ParsesServiceAcknowledgement, AcknowledgementIsPlain, PlainText
<1> QED BY <1>1, <1>5

\* What is known of every purchase that can be exported.
Exported ==
    /\ row # NoRow /\ DecisionIsSound /\ AttemptIsSound
    /\ row.state \in {"CONFIRMED", "DENIED", "FAILED", "RECONCILIATION_REQUIRED"}
    /\ row.receipt # None <=> row.state \in {"CONFIRMED", "DENIED"}
    /\ row.receipt # None => IsReceipt(row.receipt, Authority, row)
    /\ row.state \in {"CONFIRMED", "RECONCILIATION_REQUIRED"} => row.attempt # None
    /\ row.state # "CONFIRMED" => row.settlement = None
    /\ row.state = "CONFIRMED" =>
          /\ row.settlement # None /\ \E t \in chain : SettledBy(t)
          /\ \E body \in Bodies : ResultIs(body) /\ ResultExports(body)
    /\ row.state # "DENIED" => /\ AsPermitted(row.request)
                               /\ AskedAsPermitted(row.requirement, row.request)

\* What is exported is sound.
LEMMA ExportedRow ==
    ASSUME WithinTheSchema, TrailInv, SoundInv, Exportable
    PROVE  Exported
<1>1. /\ row # NoRow /\ row.state # "RESERVED"
      /\ row.state \in {"CONFIRMED", "DENIED"} => row.receipt # None
      /\ row.state = "CONFIRMED" =>
            row.result # None /\ row.result.body # None /\ row.settlement # None
  BY ExportableRow
<1>2. DecisionIsSound /\ AttemptIsSound /\ OutcomeIsSound
  BY <1>1 DEF SoundInv, RowIsSound
<1>3. /\ row.state \in States
      /\ row.state # "DENIED" => AsPermitted(row.request)
                                 /\ AskedAsPermitted(row.requirement, row.request)
      /\ row.state # "CONFIRMED" => row.settlement = None
      /\ row.state = "RECONCILIATION_REQUIRED" => row.attempt # None
  BY <1>1 DEF TrailInv, RowIsConsistent
<1>4. /\ row.receipt # None => row.state \in {"CONFIRMED", "DENIED"}
                               /\ row.receipt = DecisionReceipt(Authority, row)
      /\ row.state = "CONFIRMED" => row.attempt # None /\ \E t \in chain : SettledBy(t)
      /\ row.result # None => row.state = "CONFIRMED" /\ \E body \in Bodies : ResultIs(body)
  BY <1>2 DEF OutcomeIsSound
<1>5. row.receipt # None => IsReceipt(row.receipt, Authority, row)
  BY <1>4, ReceiptOpens
<1>6. row.state = "CONFIRMED" => \E body \in Bodies : ResultIs(body) /\ ResultExports(body)
  BY <1>1, <1>4, ResultParses
<1>7. row.state \in {"CONFIRMED", "DENIED", "FAILED", "RECONCILIATION_REQUIRED"}
  BY <1>1, <1>3 DEF States
<1> QED BY <1>1, <1>2, <1>3, <1>4, <1>5, <1>6, <1>7 DEF Exported

\* The terms that were paid, or would have been.
LEMMA ExportedTerms ==
    ASSUME WithinTheSchema, TrailInv, Exported
    PROVE  /\ row.permit = Permit /\ row.invocationId = row.request.invocationId
           /\ row.grantId = row.request.grantId /\ row.request.grantId = Permit.grantId
           /\ ParsesPermit(Permit)
           /\ row.request.operation.method \in Methods
           /\ row.requirement # None => ParsesRequirement(row.requirement)
           /\ row.attempt # None =>
                 /\ row.state # "DENIED"
                 /\ AttemptMatches(row.attempt, row.requirement, Profile,
                                   PaidRequest(row.request))
                 /\ AuthorizationExports(row.serviceAuthorization)
           /\ row.state # "DENIED" =>
                 /\ row.requirement # None /\ PaidRequest(row.request) # None
                 /\ Agrees(row.requirement, Profile, PaidRequest(row.request), row.request, Payer)
<1>1. /\ row.permit = Permit /\ row.invocationId = row.request.invocationId
      /\ row.grantId = row.request.grantId
      /\ AuthenticatedAt(row.request, row.agentSignature, row.decidedAt)
      /\ row.requirement # None => ParsesRequirement(row.requirement)
      /\ row.state # "DENIED" =>
            /\ row.requirement # None /\ PaidRequest(row.request) # None
            /\ Agrees(row.requirement, Profile, PaidRequest(row.request), row.request, Payer)
  BY DEF Exported, DecisionIsSound
<1>2. ValidRequest(row.request) /\ row.request.grantId = Permit.grantId
  BY <1>1 DEF AuthenticatedAt
<1>3. row.request.operation.method \in Methods
  BY <1>2, OperationParses DEF ValidRequest
<1>4. resource \in Resources
  BY DEF TrailInv, ClockIsBounded
<1>5. row.attempt # None =>
         /\ row.state # "DENIED"
         /\ AttemptMatches(row.attempt, row.requirement, Profile, PaidRequest(row.request))
         /\ AuthorizesPayment(row.serviceAuthorization)
  BY DEF Exported, AttemptIsSound
<1>6. row.state # "DENIED" => PaidRequest(row.request).method = "POST"
  BY <1>1, <1>3, <1>4, OutboundParses
<1>7. row.attempt # None => AuthorizationExports(row.serviceAuthorization)
  BY <1>1, <1>5, <1>6, AuthorizationParses
<1> QED BY <1>1, <1>2, <1>3, <1>5, <1>7, PermitParses

\* Every artifact of an exported bundle is within the schema.
LEMMA ExportParses ==
    ASSUME WithinTheSchema, TrailInv, Exported, NEW version \in {1, 2}, NEW bundle,
           IsExport(bundle, version), ManifestStates(bundle.manifest, version)
    PROVE  Parses(bundle)
<1>1. /\ row.permit = Permit /\ ParsesPermit(Permit)
      /\ row.request.operation.method \in Methods
      /\ row.requirement # None => ParsesRequirement(row.requirement)
      /\ row.attempt # None =>
            /\ AttemptMatches(row.attempt, row.requirement, Profile, PaidRequest(row.request))
            /\ AuthorizationExports(row.serviceAuthorization)
  BY ExportedTerms
<1>2. /\ DecisionIsSound
      /\ row.state \in {"CONFIRMED", "DENIED", "FAILED", "RECONCILIATION_REQUIRED"}
      /\ row.receipt # None => IsReceipt(row.receipt, Authority, row)
      /\ row.state # "CONFIRMED" => row.settlement = None
      /\ row.state = "CONFIRMED" => \E t \in chain : SettledBy(t)
      /\ row.state = "CONFIRMED" => \E body \in Bodies : ResultIs(body) /\ ResultExports(body)
      /\ row.state = "CONFIRMED" => row.attempt # None
  BY DEF Exported
<1>3. row.state = "CONFIRMED" =>
         ParsesSettlement(row.settlement) /\ row.settlement.transactionId # Odd
  BY <1>2, SettlementParses
<1>4. row.receipt # None => ParsesReceipt(row.receipt)
  BY <1>2, <1>3, ReceiptParses
<1>5. ParsesAuthorizationRequest(bundle.authorizationRequest)
  <2>1. AuthenticatedAt(row.request, row.agentSignature, row.decidedAt)
    BY <1>2 DEF DecisionIsSound
  <2>2. /\ DOMAIN bundle.authorizationRequest = {"request", "agentSignature"}
        /\ bundle.authorizationRequest.request = row.request
    BY DEF IsExport
  <2> QED BY <2>1, <2>2, RequestParses
<1>6. ParsesManifest(bundle.manifest, version)
  BY <1>2, ManifestParses
<1>7. bundle.outboundRequest # None => ParsesOutboundRequest(bundle.outboundRequest)
  <2>1. bundle.outboundRequest # None => bundle.outboundRequest = PaidRequest(row.request)
    BY DEF IsExport
  <2>2. resource \in Resources
    BY DEF TrailInv, ClockIsBounded
  <2> QED BY <1>1, <2>1, <2>2, OutboundParses
<1>8. bundle.result # None => ParsesResult(bundle.result)
  BY <1>2 DEF IsExport, ResultExports
<1>9. bundle.attempt # None => ParsesAttempt(bundle.attempt)
  BY <1>1 DEF IsExport, AttemptMatches
<1>10. version = 2 =>
          /\ bundle.serviceAuthorization # None =>
                ParsesServiceAuthorization(bundle.serviceAuthorization)
          /\ bundle.serviceAcknowledgement # None =>
                ParsesServiceAcknowledgement(bundle.serviceAcknowledgement)
  <2>1. version = 2 =>
           /\ bundle.serviceAuthorization # None =>
                 row.attempt # None /\ bundle.serviceAuthorization = row.serviceAuthorization
           /\ bundle.serviceAcknowledgement # None =>
                 /\ row.state = "CONFIRMED"
                 /\ bundle.serviceAcknowledgement = row.result.acknowledgement
    BY DEF IsExport
  <2>2. row.attempt # None => ParsesServiceAuthorization(row.serviceAuthorization)
    BY <1>1 DEF AuthorizationExports
  <2>3. ASSUME row.state = "CONFIRMED", row.result.acknowledgement # None
        PROVE  ParsesServiceAcknowledgement(row.result.acknowledgement)
    <3>1. PICK body \in Bodies : ResultIs(body)
      BY <1>2, <2>3
    <3>2. row.state # "DENIED"
      BY <2>3
    <3>3. ParsesRequirement(row.requirement)
      BY <1>1, <3>2, ExportedTerms
    <3> QED BY <1>3, <2>3, <3>1, <3>3, AcknowledgementParses
  <2> QED BY <2>1, <2>2, <2>3
<1>11. /\ bundle.version = version /\ bundle.permit = row.permit
       /\ bundle.authorityDecision = row.receipt
       /\ bundle.requirement = row.requirement
       /\ bundle.settlement # None =>
             row.state = "CONFIRMED" /\ bundle.settlement = row.settlement
       /\ DOMAIN bundle =
             ArtifactsOf(version) \cup {"version", "environment", "identifiers", "manifest"}
  BY DEF IsExport
<1> QED BY <1>1, <1>3, <1>4, <1>5, <1>6, <1>7, <1>8, <1>9, <1>10, <1>11 DEF Parses

-----------------------------------------------------------------------------
(* Its claims.                                                             *)

\* Whose keys sign an export, and that nothing in it was changed since.
LEMMA TrustOfExport ==
    ASSUME WithinTheSchema, TrailInv, Exported, NEW version \in {1, 2}, NEW bundle,
           IsExport(bundle, version), ManifestStates(bundle.manifest, version),
           NEW trust, trust.issuer = Permit.issuer, trust.authority = Authority
    PROVE  Pass(TrustClaims(bundle, trust)) /\ Pass(IntegrityClaims(bundle, trust))
<1>1. /\ bundle.permit = Permit /\ bundle.authorityDecision = row.receipt
      /\ EvidenceDigests(Without(bundle, "manifest")) = bundle.manifest.digests
  BY ExportedTerms DEF IsExport
<1>2. /\ bundle.manifest.authority = Authority
      /\ VerifiesPinned(bundle.manifest.authority, Authority, "evidence-manifest",
                        bundle.manifest)
  BY DEF ManifestStates
<1>3. row.receipt # None => row.receipt.authority = Authority
  BY DEF Exported, IsReceipt
<1>4. Pass(TrustClaims(bundle, trust))
  <2> DEFINE Known == /\ bundle.manifest.authority = trust.authority
                      /\ bundle.authorityDecision # None =>
                            bundle.authorityDecision.authority = trust.authority
             Issued == bundle.permit.issuer = trust.issuer
  <2>1. Known /\ Issued
    BY <1>1, <1>2, <1>3
  <2>2. TrustClaims(bundle, trust) =
           Check("issuer_trusted", Issued) \cup Check("authority_trusted", Known)
    BY DEF TrustClaims
  <2> HIDE DEF Known, Issued
  <2> QED BY <2>1, <2>2, CheckPasses, UnionPasses
<1>5. Pass(IntegrityClaims(bundle, trust))
  <2> DEFINE Attested == VerifiesPinned(bundle.manifest.authority, trust.authority,
                                      "evidence-manifest", bundle.manifest)
             Whole == EvidenceDigests(Without(bundle, "manifest")) = bundle.manifest.digests
  <2>1. Attested /\ Whole
    BY <1>1, <1>2
  <2>2. IntegrityClaims(bundle, trust) =
           Check("manifest_signature", Attested) \cup Check("artifact_digests", Whole)
    BY DEF IntegrityClaims
  <2> HIDE DEF Attested, Whole
  <2> QED BY <2>1, <2>2, CheckPasses, UnionPasses
<1> QED BY <1>4, <1>5

\* Identifiers and the shape of the state agree.
LEMMA StateOfExport ==
    ASSUME WithinTheSchema, TrailInv, Exported, NEW version \in {1, 2}, NEW bundle,
           IsExport(bundle, version), ManifestStates(bundle.manifest, version)
    PROVE  Pass(StateClaims(bundle))
<1> DEFINE manifest == bundle.manifest
           state == manifest.purchaseState
           receipt == bundle.authorityDecision
           request == bundle.authorizationRequest.request
           ids == bundle.identifiers
           profile == bundle.environment.settlementProfile
           Identified ==
              /\ {manifest.grantId, bundle.permit.grantId, request.grantId} = {ids.grantId}
              /\ {manifest.invocationId, request.invocationId} = {ids.invocationId}
              /\ manifest.settlementProfile = profile /\ bundle.permit.network = profile
           Decided1 ==
              /\ (manifest.decision = "DENY") <=> (state = "DENIED")
              /\ (receipt # None) <=> (state \in {"CONFIRMED", "DENIED"})
              /\ receipt # None =>
                    /\ receipt.invocationId = ids.invocationId
                    /\ receipt.grantId = ids.grantId
                    /\ receipt.decision = manifest.decision
                    /\ receipt.reasonCodes = manifest.reasonCodes
           Shaped ==
              /\ state = "CONFIRMED" =>
                    None \notin {bundle.outboundRequest, bundle.requirement, bundle.attempt,
                                 bundle.settlement, bundle.result}
              /\ state # "CONFIRMED" => bundle.settlement = None /\ bundle.result = None
              /\ state = "RECONCILIATION_REQUIRED" => bundle.attempt # None
              /\ state = "DENIED" => bundle.attempt = None
           Told == bundle.version = 2 =>
                      /\ bundle.serviceAcknowledgement # None => state = "CONFIRMED"
                      /\ bundle.serviceAuthorization # None => bundle.attempt # None
<1>1. /\ row.permit = Permit /\ row.invocationId = row.request.invocationId
      /\ row.grantId = row.request.grantId /\ row.request.grantId = Permit.grantId
      /\ row.attempt # None => row.state # "DENIED"
      /\ row.state # "DENIED" => row.requirement # None /\ PaidRequest(row.request) # None
  BY ExportedTerms
<1>2. /\ manifest.settlementProfile = row.permit.network
      /\ manifest.grantId = row.grantId /\ manifest.invocationId = row.invocationId
      /\ state = row.state
      /\ manifest.decision = IF row.state = "DENIED" THEN "DENY" ELSE "ALLOW"
      /\ manifest.reasonCodes = row.reasonCodes
  BY DEF ManifestStates
<1>3. /\ profile = row.permit.network
      /\ ids.grantId = row.grantId /\ ids.invocationId = row.invocationId
      /\ bundle.permit = row.permit /\ request = row.request
  BY DEF IsExport
<1>4. /\ receipt = row.receipt
      /\ bundle.outboundRequest =
            IF row.requirement = None THEN None ELSE PaidRequest(row.request)
      /\ bundle.requirement = row.requirement /\ bundle.attempt = row.attempt
      /\ bundle.settlement = IF row.state = "CONFIRMED" THEN row.settlement ELSE None
      /\ bundle.result =
            IF row.state = "CONFIRMED" THEN Without(row.result, "acknowledgement") ELSE None
  BY DEF IsExport
<1>5. /\ bundle.version = version
      /\ version = 2 =>
            /\ bundle.serviceAuthorization =
                  IF row.attempt = None THEN None ELSE row.serviceAuthorization
            /\ bundle.serviceAcknowledgement =
                  IF row.state = "CONFIRMED" THEN row.result.acknowledgement ELSE None
  BY DEF IsExport
<1>6. /\ row.receipt # None <=> row.state \in {"CONFIRMED", "DENIED"}
      /\ row.receipt # None => IsReceipt(row.receipt, Authority, row)
      /\ row.state \in {"CONFIRMED", "RECONCILIATION_REQUIRED"} => row.attempt # None
      /\ row.state = "CONFIRMED" => row.settlement # None
  BY DEF Exported
<1>7. row.state = "CONFIRMED" => Without(row.result, "acknowledgement") # None
  BY DEF Exported, ResultExports
<1>8. row.receipt # None =>
         /\ row.receipt.invocationId = row.invocationId /\ row.receipt.grantId = row.grantId
         /\ row.receipt.decision = IF row.state = "CONFIRMED" THEN "ALLOW" ELSE "DENY"
         /\ row.receipt.reasonCodes = row.reasonCodes
  BY <1>6 DEF IsReceipt
<1>9. StateClaims(bundle) =
         Check("state_consistent", Identified /\ Decided1 /\ Shaped /\ Told)
  BY DEF StateClaims
<1>10. Identified
  BY <1>1, <1>2, <1>3
<1>11. Decided1
  BY <1>2, <1>3, <1>4, <1>6, <1>8
<1>12. Shaped
  BY <1>1, <1>2, <1>4, <1>6, <1>7
<1>13. Told
  BY <1>2, <1>4, <1>5
<1> HIDE DEF Identified, Decided1, Shaped, Told
<1> QED BY <1>9, <1>10, <1>11, <1>12, <1>13, CheckPasses

\* The human's permit, the agent's request and the authority's decision.
LEMMA AuthorizationOfExport ==
    ASSUME WithinTheSchema, TrailInv, Exported, NEW version \in {1, 2}, NEW bundle,
           IsExport(bundle, version), ManifestStates(bundle.manifest, version),
           NEW trust, trust.authority = Authority
    PROVE  Pass(AuthorizationClaims(bundle, trust))
<1> DEFINE permit == bundle.permit
           request == bundle.authorizationRequest.request
           receipt == bundle.authorityDecision
           Terms == {"service", "capability", "network", "mint", "recipient", "amount",
                     "permitDigest", "operation"}
           Asked == /\ ValidRequest(request)
                    /\ VerifyRequestSignature(request,
                          bundle.authorizationRequest.agentSignature, permit.agent)
           Bound == request.permitDigest = PermitDigest(permit)
           Recorded == bundle.manifest.purchaseState = "CONFIRMED" =>
                          /\ bundle.settlement # None
                          /\ receipt.paymentTransactionId = bundle.settlement.transactionId
           Stated == /\ VerifiesPinned(receipt.authority, trust.authority,
                                       "authorization-receipt", receipt)
                     /\ \A f \in Terms : receipt[f] = request[f]
                     /\ receipt.agent = permit.agent
                     /\ receipt.operationDigest = Digest(request.operation)
                     /\ Recorded
           Decision == IF receipt = None
                       THEN Claim("authority_decision_signature", "NOT_CHECKED", FALSE)
                       ELSE Check("authority_decision_signature", Stated)
<1>1. /\ permit = Permit /\ request = row.request /\ receipt = row.receipt
      /\ bundle.authorizationRequest.agentSignature = row.agentSignature
      /\ bundle.settlement = IF row.state = "CONFIRMED" THEN row.settlement ELSE None
  BY ExportedTerms DEF IsExport
<1>2. bundle.manifest.purchaseState = row.state
  BY DEF ManifestStates
<1>3. /\ AuthenticatedAt(row.request, row.agentSignature, row.decidedAt)
      /\ row.agent = Permit.agent /\ row.amount = row.request.amount
  BY DEF Exported, DecisionIsSound
<1>4. Asked /\ Bound
  BY <1>1, <1>3 DEF AuthenticatedAt
<1>5. VerifyPermit(permit)
  BY <1>1, TrailAssumption
<1>6. receipt # None => Stated
  <2> SUFFICES ASSUME receipt # None PROVE Stated
    OBVIOUS
  <2>1. IsReceipt(receipt, Authority, row)
    BY <1>1 DEF Exported
  <2>2. /\ VerifiesPinned(receipt.authority, Authority, "authorization-receipt", receipt)
        /\ receipt.agent = row.agent /\ receipt.amount = row.amount
        /\ \A f \in {"permitDigest", "service", "capability", "network", "mint", "recipient",
                     "operation"} : receipt[f] = row.request[f]
        /\ receipt.operationDigest = Digest(row.request.operation)
        /\ receipt.paymentTransactionId =
              IF row.settlement = None THEN None ELSE row.settlement.transactionId
    BY <2>1 DEF IsReceipt
  <2>3. row.state = "CONFIRMED" => row.settlement # None
    BY DEF Exported
  <2>4. \A f \in Terms : receipt[f] = request[f]
    BY <1>1, <1>3, <2>2
  <2>5. Recorded
    BY <1>1, <1>2, <2>2, <2>3
  <2> HIDE DEF Recorded, Terms
  <2> QED BY <1>1, <1>3, <2>2, <2>4, <2>5
<1>7. AuthorizationClaims(bundle, trust) =
         Check("permit_signature", VerifyPermit(permit)) \cup
         Check("agent_request_signature", Asked) \cup
         Check("request_bound_to_permit", Bound) \cup Decision
  BY DEF AuthorizationClaims
<1> DEFINE Human == VerifyPermit(permit)
<1>8. Human
  BY <1>5
<1> HIDE DEF Asked, Bound, Stated
<1>9. Pass(Decision)
  BY <1>6, CheckPasses, OptionalPasses
<1>10. AuthorizationClaims(bundle, trust) =
         Check("permit_signature", Human) \cup
         Check("agent_request_signature", Asked) \cup
         Check("request_bound_to_permit", Bound) \cup Decision
  BY <1>7
<1> HIDE DEF Decision, Human
<1>11. /\ Pass(Check("permit_signature", Human))
       /\ Pass(Check("agent_request_signature", Asked))
       /\ Pass(Check("request_bound_to_permit", Bound))
  BY <1>4, <1>8, CheckPasses
<1> QED BY <1>9, <1>10, <1>11, UnionPasses

\* The static policy, evaluated again: an allowed purchase violates nothing,
\* and of a denied one the authority said what is found again.
LEMMA PolicyOfExport ==
    ASSUME WithinTheSchema, TrailInv, Exported, NEW version \in {1, 2}, NEW bundle,
           IsExport(bundle, version), ManifestStates(bundle.manifest, version)
    PROVE  Pass(PolicyClaims(bundle))
<1> DEFINE codes == StaticCodes(bundle.permit, bundle.authorizationRequest.request)
           allowed == bundle.manifest.purchaseState \in AllowStates
           failed == IF allowed THEN "INVALID" ELSE "NOT_SATISFIED"
           id == "decision_matches_static_policy"
           status(name) == IF codes \cap PolicyClaimCodes[name] = {} THEN "VERIFIED" ELSE failed
           Each == UNION {Claim(name, status(name), allowed) : name \in DOMAIN PolicyClaimCodes}
           Whole == IF allowed THEN Check(id, codes = {})
                    ELSE IF codes # {} THEN Check(id, codes \subseteq bundle.manifest.reasonCodes)
                    ELSE Claim(id, "AUTHORITY_ATTESTED", FALSE)
<1>1. /\ bundle.permit = Permit /\ bundle.authorizationRequest.request = row.request
      /\ bundle.manifest.reasonCodes = row.reasonCodes
      /\ bundle.manifest.purchaseState = row.state
  BY ExportedTerms DEF IsExport, ManifestStates
<1>2. /\ StaticCodes(Permit, row.request) \subseteq row.reasonCodes
      /\ row.state # "DENIED" => row.reasonCodes = {}
  BY DEF Exported, DecisionIsSound
<1>3. allowed => codes = {}
  BY <1>1, <1>2 DEF AllowStates
<1>4. codes \subseteq bundle.manifest.reasonCodes
  BY <1>1, <1>2
<1>5. PolicyClaims(bundle) = Each \cup Whole
  BY DEF PolicyClaims
<1> HIDE DEF codes, allowed
<1>6. Pass(Each)
  <2>1. ASSUME NEW name PROVE Pass(Claim(name, status(name), allowed))
    <3>1. CASE allowed
      BY <1>3, <3>1 DEF Pass, Claim
    <3>2. CASE ~allowed
      BY <3>2 DEF Pass, Claim
    <3> QED BY <3>1, <3>2
  <2> QED BY <2>1 DEF Pass
<1>7. Pass(Whole)
  <2> DEFINE Clean == codes = {}
             Said == codes \subseteq bundle.manifest.reasonCodes
  <2>1. /\ allowed => Clean
        /\ Said
        /\ Whole = IF allowed THEN Check(id, Clean)
                   ELSE IF ~Clean THEN Check(id, Said)
                   ELSE Claim(id, "AUTHORITY_ATTESTED", FALSE)
    BY <1>3, <1>4
  <2> HIDE DEF Clean, Said, Whole
  <2> QED BY <2>1, CheckPasses, OptionalPasses
<1> HIDE DEF Each, Whole
<1> QED BY <1>5, <1>6, <1>7, UnionPasses

\* The outbound request is the authorized operation's, and the one paid for.
LEMMA OutboundOfExport ==
    ASSUME WithinTheSchema, TrailInv, Exported, NEW version \in {1, 2}, NEW bundle,
           IsExport(bundle, version), row.state # "DENIED"
    PROVE  OutboundMatches(bundle)
<1> DEFINE paid == PaidRequest(row.request)
<1>1. /\ paid # None /\ row.requirement # None
      /\ Agrees(row.requirement, Profile, paid, row.request, Payer)
      /\ row.attempt # None => AttemptMatches(row.attempt, row.requirement, Profile, paid)
  BY ExportedTerms
<1>2. /\ bundle.outboundRequest = paid /\ bundle.requirement = row.requirement
      /\ bundle.attempt = row.attempt
      /\ bundle.authorizationRequest.request = row.request
  BY <1>1 DEF IsExport
<1>3. /\ resource # None /\ resource.path = row.request.operation.resource
      /\ paid.url = resource.url /\ paid.method = row.request.operation.method
      /\ paid.body = OperationRequestBody(row.request.operation)
      /\ PaidRequestMatches(paid, paid.sha256)
  BY <1>1, BuiltRequest DEF PaidRequest
<1>4. resource.url.path = resource.path
  BY <1>3 DEF WithinTheSchema, WithinBounds, TrailInv, ClockIsBounded
<1>5. /\ row.requirement.resourceUrl = paid.url
      /\ row.attempt # None => row.attempt.requestSha256 = paid.sha256
  BY <1>1 DEF Agrees, AttemptMatches
<1> HIDE DEF paid
<1> QED BY <1>1, <1>2, <1>3, <1>4, <1>5 DEF OutboundMatches

\* The payment: the profile's, of the terms the agent signed.
LEMMA PaymentOfExport ==
    ASSUME WithinTheSchema, TrailInv, Exported, NEW version \in {1, 2}, NEW bundle,
           IsExport(bundle, version), ManifestStates(bundle.manifest, version),
           NEW trust, trust.profiles = {Profile}
    PROVE  Pass(PaymentClaims(bundle, trust))
<1> DEFINE permit == bundle.permit
           request == bundle.authorizationRequest.request
           q == bundle.requirement
           attempt == bundle.attempt
           profiles == {p \in trust.profiles : p.name = permit.network}
           Prepared == /\ \A f \in {"scheme", "network", "asset", "payTo", "amount",
                                    "feePayer", "resourceUrl"} : attempt[f] = q[f]
                       /\ attempt.feePayer # attempt.payer
           Transfers == /\ ValidateExactPaymentTransaction(attempt.transaction, attempt)
                        /\ attempt.transaction.payerSignature = attempt.payerSignature
                        /\ VerifyTransactionPayerSignature(attempt.transaction, attempt.payer)
           Attempted == IF attempt = None
                        THEN Claim("payment_attempt_matches_requirement", "NOT_CHECKED", FALSE) \cup
                             Claim("payment_transaction", "NOT_CHECKED", FALSE)
                        ELSE Check("payment_attempt_matches_requirement", Prepared) \cup
                             Check("payment_transaction", Transfers)
           InProfile == \E p \in profiles :
                /\ bundle.manifest.settlementProfile = p.name
                /\ q.protocol = p.protocol /\ q.x402Version = p.x402Version
                /\ q.scheme = p.scheme
                /\ q.network \in p.acceptedNetworks
                /\ q.asset \in p.allowedAssets
                /\ attempt # None =>
                      /\ attempt.settlementProfile = p.name
                      /\ attempt.blockhash.prefix = p.requiredBlockhashPrefix
           Asset == {q.asset, permit.mint} = {request.mint}
           Recipient == {q.payTo, permit.recipient} = {request.recipient}
           Amount == q.amount = request.amount /\ q.amount <= permit.maxPerCall
           Outbound == OutboundMatches(bundle)
           Unpaid == bundle.manifest.purchaseState \notin AllowStates \/ q = None
<1>1. PaymentClaims(bundle, trust) =
         IF Unpaid THEN Claim("settlement_profile_match", "NOT_CHECKED", FALSE)
         ELSE Check("settlement_profile_match", InProfile) \cup
              Check("x402_asset_matches", Asset) \cup
              Check("x402_recipient_matches", Recipient) \cup
              Check("x402_amount_matches", Amount) \cup
              Check("outbound_request_matches_operation", Outbound) \cup Attempted
  BY DEF PaymentClaims
<1>2. /\ permit = Permit /\ request = row.request /\ q = row.requirement
      /\ attempt = row.attempt
      /\ bundle.manifest.purchaseState = row.state
      /\ bundle.manifest.settlementProfile = Permit.network
  BY ExportedTerms DEF IsExport, ManifestStates
<1>3. ~Unpaid => row.state # "DENIED"
  BY <1>2 DEF AllowStates
<1>4. Permit.network = Profile.name
  BY DEF Exported, DecisionIsSound, AuthenticatedAt
<1>5. ASSUME ~Unpaid
      PROVE  /\ InProfile /\ Asset /\ Recipient /\ Amount /\ Outbound
             /\ attempt # None => Prepared /\ Transfers
  <2>1. /\ Agrees(q, Profile, PaidRequest(row.request), request, Payer)
        /\ attempt # None => AttemptMatches(attempt, q, Profile, PaidRequest(row.request))
    BY <1>2, <1>3, <1>5, ExportedTerms
  <2>2. /\ request.amount <= Permit.maxPerCall
        /\ q.asset = Permit.mint /\ q.payTo = Permit.recipient
    BY <1>2, <1>3, <1>5 DEF Exported, AsPermitted, AskedAsPermitted
  <2>3. Asset /\ Recipient /\ Amount
    BY <1>2, <2>1, <2>2 DEF Agrees
  <2>4. Outbound
    BY <1>3, <1>5, OutboundOfExport
  <2>5. InProfile
    BY <1>2, <1>4, <2>1 DEF Agrees, AttemptMatches
  <2>6. ASSUME attempt # None PROVE Prepared /\ Transfers
    BY <1>2, <2>1, <2>6 DEF Agrees, AttemptMatches
  <2> HIDE DEF InProfile, Asset, Recipient, Amount, Outbound, Prepared, Transfers
  <2> QED BY <2>3, <2>4, <2>5, <2>6
<1> HIDE DEF InProfile, Asset, Recipient, Amount, Outbound, Prepared, Transfers, Unpaid
<1>6. CASE Unpaid
  BY <1>1, <1>6, OptionalPasses
<1>7. CASE ~Unpaid
  <2>1. /\ Pass(Check("settlement_profile_match", InProfile))
        /\ Pass(Check("x402_asset_matches", Asset))
        /\ Pass(Check("x402_recipient_matches", Recipient))
        /\ Pass(Check("x402_amount_matches", Amount))
        /\ Pass(Check("outbound_request_matches_operation", Outbound))
    BY <1>5, <1>7, CheckPasses
  <2>2. Pass(Attempted)
    BY <1>5, <1>7, CheckPasses, OptionalPasses, UnionPasses
  <2> HIDE DEF Attempted
  <2> DEFINE Terms == Check("settlement_profile_match", InProfile) \cup
                      Check("x402_asset_matches", Asset) \cup
                      Check("x402_recipient_matches", Recipient)
             Rest == Check("x402_amount_matches", Amount) \cup
                     Check("outbound_request_matches_operation", Outbound) \cup Attempted
  <2>3. Pass(Terms)
    BY <2>1, UnionPasses
  <2>4. Pass(Rest)
    BY <2>1, <2>2, UnionPasses
  <2>5. PaymentClaims(bundle, trust) = Terms \cup Rest
    BY <1>1, <1>7
  <2> HIDE DEF Terms, Rest
  <2> QED BY <2>3, <2>4, <2>5, UnionPasses
<1> QED BY <1>6, <1>7

\* The result's digest is of the result that is exported.
LEMMA ResultOfExport ==
    ASSUME WithinTheSchema, TrailInv, Exported, NEW version \in {1, 2}, NEW bundle,
           IsExport(bundle, version)
    PROVE  Pass(ResultClaims(bundle)) /\ Pass(BudgetClaims)
<1> DEFINE result == bundle.result
           Whole == Digest(result.body) = result.sha256 /\ result.body.bytes = result.bytes
<1>1. result # None => Whole
  BY DEF Exported, IsExport, ResultExports
<1>2. ResultClaims(bundle) =
         IF result = None THEN Claim("result_digest", "NOT_CHECKED", FALSE)
         ELSE Check("result_digest", Whole) \cup
              Claim("result_observed_by_authority", "AUTHORITY_ATTESTED", FALSE)
  BY DEF ResultClaims
<1> HIDE DEF Whole
<1>3. Pass(ResultClaims(bundle))
  BY <1>1, <1>2, CheckPasses, OptionalPasses, UnionPasses
<1>4. Pass(BudgetClaims)
  <2>1. /\ Pass(Claim("total_budget_decision", "AUTHORITY_ATTESTED", FALSE))
        /\ Pass(Claim("global_budget_completeness", "NOT_PROVABLE_FROM_BUNDLE", FALSE))
    BY OptionalPasses
  <2> QED BY <2>1, UnionPasses DEF BudgetClaims
<1> QED BY <1>3, <1>4

-----------------------------------------------------------------------------
(* The verdict.                                                            *)

\* What the authority told the service is what it paid for, and is told in
\* the bundle of every payment that was attempted.
LEMMA ServiceOfExport ==
    ASSUME WithinTheSchema, TrailInv, Exported, NEW version \in {1, 2}, NEW bundle,
           IsExport(bundle, version), NEW trust, trust.authority = Authority, version = 2
    PROVE  Pass(ServiceAuthorizationClaims(bundle, trust))
<1> DEFINE authorization == bundle.serviceAuthorization
           request == bundle.authorizationRequest.request
           outbound == bundle.outboundRequest
           Told == /\ VerifiesPinned(authorization.authority, trust.authority,
                                     "service-authorization", authorization)
                   /\ authorization.invocationId = bundle.identifiers.invocationId
                   /\ authorization.grantId = bundle.identifiers.grantId
                   /\ outbound # None
                   /\ authorization.request.url = outbound.url
                   /\ authorization.request.requestSha256 = outbound.sha256
                   /\ authorization.operationDigest = Digest(request.operation)
                   /\ bundle.requirement # None
                   /\ authorization.payment =
                         Restrict(bundle.requirement, {"network", "asset", "payTo", "amount"})
<1>1. /\ authorization = IF row.attempt = None THEN None ELSE row.serviceAuthorization
      /\ bundle.identifiers.grantId = row.grantId
      /\ bundle.identifiers.invocationId = row.invocationId
      /\ request = row.request /\ bundle.requirement = row.requirement
      /\ outbound = IF row.requirement = None THEN None ELSE PaidRequest(row.request)
  BY DEF IsExport
<1>2. /\ row.invocationId = row.request.invocationId /\ row.grantId = row.request.grantId
      /\ row.attempt # None =>
            row.state # "DENIED" /\ AuthorizationExports(row.serviceAuthorization)
      /\ row.state # "DENIED" => row.requirement # None /\ PaidRequest(row.request) # None
  BY ExportedTerms
<1>3. authorization # None => Told
  BY <1>1, <1>2 DEF AuthorizationExports
<1>4. ServiceAuthorizationClaims(bundle, trust) =
         IF authorization = None THEN Claim("service_authorization", "NOT_CHECKED", FALSE)
         ELSE Check("service_authorization", Told)
  BY DEF ServiceAuthorizationClaims
<1> HIDE DEF Told
<1> QED BY <1>3, <1>4, CheckPasses, OptionalPasses

\* All but what a pinned service key and the chain would show.
AttestedClaims(bundle, trust) ==
    TrustClaims(bundle, trust) \cup IntegrityClaims(bundle, trust) \cup
    StateClaims(bundle) \cup AuthorizationClaims(bundle, trust) \cup
    PolicyClaims(bundle) \cup PaymentClaims(bundle, trust) \cup
    ResultClaims(bundle) \cup BudgetClaims

\* They all pass.
LEMMA AttestedExport ==
    ASSUME WithinTheSchema, TrailInv, Exported, NEW version \in {1, 2}, NEW bundle,
           IsExport(bundle, version), ManifestStates(bundle.manifest, version),
           NEW trust, trust.issuer = Permit.issuer, trust.authority = Authority,
           trust.profiles = {Profile}
    PROVE  Pass(AttestedClaims(bundle, trust))
<1> DEFINE Vouched == TrustClaims(bundle, trust) \cup IntegrityClaims(bundle, trust) \cup
                     StateClaims(bundle) \cup AuthorizationClaims(bundle, trust)
           Recorded == PolicyClaims(bundle) \cup PaymentClaims(bundle, trust) \cup
                    ResultClaims(bundle) \cup BudgetClaims
<1>1. /\ Pass(TrustClaims(bundle, trust)) /\ Pass(IntegrityClaims(bundle, trust))
      /\ Pass(StateClaims(bundle)) /\ Pass(AuthorizationClaims(bundle, trust))
  BY TrustOfExport, StateOfExport, AuthorizationOfExport
<1>2. /\ Pass(PolicyClaims(bundle)) /\ Pass(PaymentClaims(bundle, trust))
      /\ Pass(ResultClaims(bundle)) /\ Pass(BudgetClaims)
  BY PolicyOfExport, PaymentOfExport, ResultOfExport
<1>3. Pass(Vouched)
  BY <1>1, UnionPasses
<1>4. Pass(Recorded)
  BY <1>2, UnionPasses
<1>5. AttestedClaims(bundle, trust) = Vouched \cup Recorded
  BY DEF AttestedClaims
<1> HIDE DEF Vouched, Recorded
<1> QED BY <1>3, <1>4, <1>5, UnionPasses

\* The verdict on a bundle that parses and attests.
LEMMA VerdictOfExport ==
    ASSUME NEW bundle, NEW trust, NEW mode, NEW seen,
           Parses(bundle), Pass(AttestedClaims(bundle, trust)),
           Pass(SettlementClaims(bundle, mode, seen))
    PROVE  VerifyEvidenceBundle(bundle, trust, mode, seen) = "VALID"
              <=> Pass(ServiceClaims(bundle, trust))
<1> DEFINE claims == AttestedClaims(bundle, trust) \cup
                     (ServiceClaims(bundle, trust) \cup SettlementClaims(bundle, mode, seen))
<1>1. VerifyEvidenceBundle(bundle, trust, mode, seen) = Overall(claims)
  <2>1. claims = AttestedClaims(bundle, trust) \cup ServiceClaims(bundle, trust) \cup
                 SettlementClaims(bundle, mode, seen)
    OBVIOUS
  <2> HIDE DEF claims
  <2> QED BY <2>1 DEF VerifyEvidenceBundle, AttestedClaims
<1>2. Pass(claims) <=> Pass(ServiceClaims(bundle, trust))
  BY UnionPasses
<1> HIDE DEF claims
<1> QED BY <1>1, <1>2, ValidVerdict

\* Offline no settlement claim fails.
LEMMA OfflineSettlement ==
    ASSUME NEW bundle, NEW seen
    PROVE  Pass(SettlementClaims(bundle, "offline", seen))
<1> DEFINE state == bundle.manifest.purchaseState
           Open == state # "CONFIRMED" \/ None \in {bundle.settlement, bundle.attempt}
           answer == IF state = "RECONCILIATION_REQUIRED" THEN "INDETERMINATE"
                     ELSE "NOT_CHECKED"
<1>1. answer # "INVALID"
  OBVIOUS
<1>2. SettlementClaims(bundle, "offline", seen) =
         IF Open THEN Claim("settlement", answer, FALSE)
         ELSE Claim("settlement", "AUTHORITY_ATTESTED", FALSE)
  BY DEF SettlementClaims
<1> HIDE DEF answer, Open
<1> QED BY <1>1, <1>2, OptionalPasses

\* The exported bundle, of either version.
LEMMA ExportAttests ==
    ASSUME WithinTheSchema, TrailInv, SoundInv, Exportable, NEW version \in {1, 2},
           NEW service, NEW bundle, bundle = Bundle(version)
    PROVE  /\ Exported /\ IsExport(bundle, version) /\ ManifestStates(bundle.manifest, version)
           /\ Parses(bundle) /\ Pass(AttestedClaims(bundle, Trust(service)))
           /\ version = 2 => Pass(ServiceAuthorizationClaims(bundle, Trust(service)))
<1> DEFINE trust == Trust(service)
<1>1. /\ trust.issuer = Permit.issuer /\ trust.authority = Authority
      /\ trust.profiles = {Profile}
  BY DEF Trust
<1>2. NullsAreNoRecords
  BY DEF WithinTheSchema, WithinBounds
<1>3. Exported /\ IsExport(bundle, version) /\ ManifestStates(bundle.manifest, version)
  BY <1>2, ExportedRow, ExportedBundle
<1>4. Parses(bundle)
  BY <1>3, ExportParses
<1> HIDE DEF trust
<1>5. Pass(AttestedClaims(bundle, trust))
  BY <1>1, <1>3, AttestedExport
<1>6. version = 2 => Pass(ServiceAuthorizationClaims(bundle, trust))
  BY <1>1, <1>3, ServiceOfExport
<1> QED BY <1>3, <1>4, <1>5, <1>6 DEF trust

\* Without a pinned service key nothing is asked of an acknowledgement.
LEMMA UnpinnedService ==
    ASSUME NEW version \in {1, 2}, NEW bundle, bundle.version = version,
           NEW trust, trust.service = None,
           version = 2 => Pass(ServiceAuthorizationClaims(bundle, trust))
    PROVE  Pass(ServiceClaims(bundle, trust))
<1> DEFINE told == ServiceAuthorizationClaims(bundle, trust)
<1>1. ServiceClaims(bundle, trust) =
         IF version = 1 THEN Claim("service_authorization", "NOT_CHECKED", FALSE)
         ELSE told \cup Claim("service_acknowledgement", "NOT_CHECKED", FALSE)
  BY DEF ServiceClaims
<1> HIDE DEF told
<1>2. /\ Pass(Claim("service_authorization", "NOT_CHECKED", FALSE))
      /\ Pass(Claim("service_acknowledgement", "NOT_CHECKED", FALSE))
  BY OptionalPasses
<1>3. version = 2 => Pass(told)
  BY DEF told
<1> QED BY <1>1, <1>2, <1>3, UnionPasses

\* One export, of either version.
LEMMA ExportVerifies ==
    ASSUME WithinTheSchema, TrailInv, SoundInv, Exportable, NEW version \in {1, 2},
           NEW bundle, bundle = Bundle(version)
    PROVE  VerifyEvidenceBundle(bundle, Trust(None), "offline", None) = "VALID"
<1>1. /\ IsExport(bundle, version) /\ Parses(bundle)
      /\ Pass(AttestedClaims(bundle, Trust(None)))
      /\ version = 2 => Pass(ServiceAuthorizationClaims(bundle, Trust(None)))
  BY ExportAttests
<1>2. Pass(ServiceClaims(bundle, Trust(None)))
  <2>1. Trust(None).service = None
    BY DEF Trust
  <2>2. bundle.version = version
    BY <1>1 DEF IsExport
  <2> QED BY <1>1, <2>1, <2>2, UnpinnedService
<1>3. Pass(SettlementClaims(bundle, "offline", None))
  BY OfflineSettlement
<1> QED BY <1>1, <1>2, <1>3, VerdictOfExport

\* Whatever the authority exports, of any outcome and in either version, verifies
\* offline against its keys (buildEvidenceBundle against verifyEvidenceBundle).
THEOREM ExportsVerifyAlways ==
    ASSUME WithinTheSchema
    PROVE  TrailSpec => []ExportsVerify
<1>1. TrailInv /\ SoundInv => ExportsVerify
  BY ExportVerifies DEF ExportsVerify
<1> QED BY <1>1, TrailInvAlways, SoundInvAlways, PTL

\* What the service said back passes exactly if it was kept.
LEMMA ServiceOfConfirmed ==
    ASSUME WithinTheSchema, TrailInv, Exported, NEW bundle, IsExport(bundle, 2),
           ManifestStates(bundle.manifest, 2), row.state = "CONFIRMED",
           NEW trust, trust.service = Service, Service # None,
           Pass(ServiceAuthorizationClaims(bundle, trust))
    PROVE  Pass(ServiceClaims(bundle, trust)) <=> row.result.acknowledgement # None
<1> DEFINE ack == bundle.serviceAcknowledgement
           request == bundle.authorizationRequest.request
           Known == ack.service = trust.service
           Stated == /\ VerifiesPinned(ack.service, trust.service,
                                       "service-acknowledgement", ack)
                     /\ bundle.serviceAuthorization # None
                     /\ None \notin {bundle.outboundRequest, bundle.requirement,
                                     bundle.settlement, bundle.result}
                     /\ AcknowledgementMatches(ack, bundle.identifiers.invocationId,
                            bundle.serviceAuthorization, bundle.outboundRequest.sha256,
                            request.operation, bundle.requirement,
                            bundle.settlement.transactionId, bundle.result)
           Authorized == ServiceAuthorizationClaims(bundle, trust)
<1>1. PICK body \in Bodies : ResultIs(body) /\ ResultExports(body)
  BY DEF Exported
<1>2. /\ row.attempt # None /\ row.settlement # None
      /\ \E t \in chain : SettledBy(t)
  BY DEF Exported
<1>3. /\ row.invocationId = row.request.invocationId
      /\ row.requirement # None /\ ParsesRequirement(row.requirement)
      /\ PaidRequest(row.request) # None
      /\ AuthorizationExports(row.serviceAuthorization)
  BY <1>2, ExportedTerms
<1>4. /\ ack = row.result.acknowledgement /\ request = row.request
      /\ bundle.identifiers.invocationId = row.invocationId
      /\ bundle.serviceAuthorization = row.serviceAuthorization
      /\ bundle.outboundRequest = PaidRequest(row.request)
      /\ bundle.requirement = row.requirement
  BY <1>2, <1>3 DEF IsExport
<1>5. /\ bundle.settlement = row.settlement
      /\ bundle.result = SummarizeResult(200, body) /\ bundle.result # None
  BY <1>1 DEF IsExport, ResultExports
<1>6. bundle.version = 2 /\ bundle.manifest.purchaseState = "CONFIRMED"
  BY DEF IsExport, ManifestStates
<1>7. row.settlement.transactionId # Odd
  BY <1>2, SettlementParses
<1>8. row.serviceAuthorization # None
  BY <1>3 DEF AuthorizationExports
<1>9. ack # None => Known /\ Stated
  <2> SUFFICES ASSUME ack # None PROVE Known /\ Stated
    OBVIOUS
  <2>1. /\ VerifiesPinned(ack.service, Service, "service-acknowledgement", ack)
        /\ AcknowledgementMatches(ack, row.request.invocationId, row.serviceAuthorization,
               PaidRequest(row.request).sha256, row.request.operation, row.requirement,
               row.settlement.transactionId, SummarizeResult(200, body))
    BY <1>1, <1>3, <1>4, <1>7, AcknowledgementParses
  <2>2. ack.service = Service
    BY <2>1 DEF VerifiesPinned
  <2> QED BY <1>2, <1>3, <1>4, <1>5, <1>8, <2>1, <2>2
<1>10. ServiceClaims(bundle, trust) =
          Authorized \cup
          (IF ack = None THEN Check("service_acknowledgement", FALSE)
           ELSE Check("service_trusted", Known) \cup Check("service_acknowledgement", Stated))
  BY <1>6 DEF ServiceClaims
<1>11. ~Pass(Check("service_acknowledgement", FALSE))
  BY DEF Pass, Check, Claim
<1> HIDE DEF Known, Stated, Authorized
<1>12. ack # None => /\ Pass(Check("service_trusted", Known))
                     /\ Pass(Check("service_acknowledgement", Stated))
  BY <1>9, CheckPasses
<1>13. Pass(Authorized)
  BY DEF Authorized
<1>14. CASE ack = None
  BY <1>4, <1>10, <1>11, <1>14, UnionPasses
<1>15. CASE ack # None
  <2> DEFINE Said == Check("service_trusted", Known) \cup
                     Check("service_acknowledgement", Stated)
  <2>1. Pass(Said)
    BY <1>12, <1>15, UnionPasses
  <2>2. ServiceClaims(bundle, trust) = Authorized \cup Said
    BY <1>10, <1>15
  <2> HIDE DEF Said
  <2> QED BY <1>4, <1>13, <1>15, <2>1, <2>2, UnionPasses
<1> QED BY <1>14, <1>15

\* One confirmed purchase, for a verifier that pins the service's key.
LEMMA AcknowledgementDecides ==
    ASSUME WithinTheSchema, Service # None, TrailInv, SoundInv, Exportable,
           row.state = "CONFIRMED", NEW bundle, bundle = Bundle(2)
    PROVE  VerifyEvidenceBundle(bundle, Trust(Service), "offline", None) =
              IF row.result.acknowledgement # None THEN "VALID" ELSE "INVALID"
<1> DEFINE trust == Trust(Service)
<1>1. trust.service = Service
  BY DEF Trust
<1>2. /\ Exported /\ IsExport(bundle, 2) /\ ManifestStates(bundle.manifest, 2)
      /\ Parses(bundle) /\ Pass(AttestedClaims(bundle, trust))
      /\ Pass(ServiceAuthorizationClaims(bundle, trust))
  BY ExportAttests
<1> HIDE DEF trust
<1>3. Pass(ServiceClaims(bundle, trust)) <=> row.result.acknowledgement # None
  BY <1>1, <1>2, ServiceOfConfirmed
<1>4. Pass(SettlementClaims(bundle, "offline", None))
  BY OfflineSettlement
<1>5. CASE row.result.acknowledgement # None
  BY <1>2, <1>3, <1>4, <1>5, VerdictOfExport DEF trust
<1>6. CASE row.result.acknowledgement = None
  <2>1. /\ bundle.version = 2 /\ bundle.manifest.purchaseState = "CONFIRMED"
        /\ bundle.serviceAcknowledgement = None
    BY <1>2, <1>6 DEF IsExport, ManifestStates
  <2>2. ServiceClaims(bundle, trust) = ServiceAuthorizationClaims(bundle, trust) \cup
                                       Check("service_acknowledgement", FALSE)
    <3> DEFINE more == ServiceAuthorizationClaims(bundle, trust)
               ack == bundle.serviceAcknowledgement
               unpinned == trust.service = None \/ bundle.manifest.purchaseState # "CONFIRMED"
               Known == ack.service = trust.service
               Stated ==
                  /\ VerifiesPinned(ack.service, trust.service, "service-acknowledgement", ack)
                  /\ bundle.serviceAuthorization # None
                  /\ None \notin {bundle.outboundRequest, bundle.requirement,
                                  bundle.settlement, bundle.result}
                  /\ AcknowledgementMatches(ack, bundle.identifiers.invocationId,
                         bundle.serviceAuthorization, bundle.outboundRequest.sha256,
                         bundle.authorizationRequest.request.operation, bundle.requirement,
                         bundle.settlement.transactionId, bundle.result)
    <3>1. ServiceClaims(bundle, trust) =
             IF bundle.version = 1 THEN Claim("service_authorization", "NOT_CHECKED", FALSE)
             ELSE more \cup
                  IF unpinned THEN Claim("service_acknowledgement", "NOT_CHECKED", FALSE)
                  ELSE IF ack = None THEN Check("service_acknowledgement", FALSE)
                  ELSE Check("service_trusted", Known) \cup
                       Check("service_acknowledgement", Stated)
      BY DEF ServiceClaims
    <3>2. ~unpinned /\ ack = None /\ bundle.version # 1
      BY <1>1, <2>1
    <3> HIDE DEF more, unpinned, Known, Stated, ack
    <3>3. ServiceClaims(bundle, trust) = more \cup Check("service_acknowledgement", FALSE)
      BY <3>1, <3>2
    <3> QED BY <3>3 DEF more
  <2> DEFINE claims == AttestedClaims(bundle, trust) \cup ServiceClaims(bundle, trust) \cup
                       SettlementClaims(bundle, "offline", None)
  <2>3. VerifyEvidenceBundle(bundle, trust, "offline", None) = Overall(claims)
    BY <1>2 DEF VerifyEvidenceBundle, AttestedClaims
  <2>4. Check("service_acknowledgement", FALSE) \subseteq claims
    BY <2>2
  <2> HIDE DEF claims
  <2> QED BY <1>6, <2>3, <2>4, InvalidClaim DEF trust
<1> QED BY <1>5, <1>6

\* The authority keeps an acknowledgement exactly when a verifier that pins the
\* service's key accepts the bundle (#acceptAcknowledgement against
\* serviceClaims).
THEOREM AcknowledgementsVerifyAlways ==
    ASSUME WithinTheSchema, Service # None
    PROVE  TrailSpec => []KeptAcknowledgementsVerify
<1>1. TrailInv /\ SoundInv => KeptAcknowledgementsVerify
  BY AcknowledgementDecides DEF KeptAcknowledgementsVerify
<1> QED BY <1>1, TrailInvAlways, SoundInvAlways, PTL

\* What the chain shows of a confirmed purchase.
SeenStatus(bundle, seen) ==
    IF seen = None THEN "INDETERMINATE"
    ELSE IF /\ CheckSettledTransaction(seen, bundle.attempt) = "settled"
            /\ TransactionId(seen.message) = bundle.settlement.transactionId
         THEN "VERIFIED" ELSE "INVALID"

\* Online the chain is asked.
LEMMA OnlineSettlement ==
    ASSUME NEW bundle, NEW seen, bundle.manifest.purchaseState = "CONFIRMED",
           bundle.settlement # None, bundle.attempt # None
    PROVE  SettlementClaims(bundle, "online", seen) =
              Claim("settlement", SeenStatus(bundle, seen), TRUE)
<1> DEFINE state == bundle.manifest.purchaseState
           Open == state # "CONFIRMED" \/ None \in {bundle.settlement, bundle.attempt}
           open == IF state = "RECONCILIATION_REQUIRED" THEN "INDETERMINATE"
                   ELSE "NOT_CHECKED"
           status == SeenStatus(bundle, seen)
<1>1. SettlementClaims(bundle, "online", seen) =
         IF Open THEN Claim("settlement", open, FALSE)
         ELSE Claim("settlement", status, TRUE)
  BY DEF SettlementClaims, SeenStatus
<1>2. ~Open
  OBVIOUS
<1> HIDE DEF open, Open, status
<1>3. SettlementClaims(bundle, "online", seen) = Claim("settlement", status, TRUE)
  BY <1>1, <1>2
<1> QED BY <1>3 DEF status

\* The transaction that settled a purchase is the only one on the chain with
\* its signature.
LEMMA OneTransferPaid ==
    ASSUME TrailInv, NEW t0 \in chain, SettledBy(t0), NEW t \in chain
    PROVE  /\ t0 # None /\ t0.payerSignature = row.attempt.payerSignature /\ ~t0.err
           /\ CheckSettledTransaction(t0, row.attempt) = "settled"
           /\ t.payerSignature = row.attempt.payerSignature => t = t0
           /\ CheckSettledTransaction(t, row.attempt) = "settled" => t = t0
<1>1. CheckSettledTransaction(t0, row.attempt) = "settled"
  BY DEF SettledBy
<1>2. /\ t0 # None /\ t0.payerSignature = row.attempt.payerSignature /\ ~t0.err
      /\ CheckSettledTransaction(t, row.attempt) = "settled" =>
            t.payerSignature = row.attempt.payerSignature
  BY <1>1 DEF CheckSettledTransaction
<1>3. t.payerSignature = row.attempt.payerSignature => t = t0
  BY <1>2 DEF TrailInv, PaymentsAreConsistent
<1> QED BY <1>1, <1>2, <1>3

\* One confirmed purchase, whatever the verifier's RPC shows.
LEMMA ChainDecides ==
    ASSUME WithinTheSchema, TrailInv, SoundInv, Exportable, row.state = "CONFIRMED",
           NEW bundle, bundle = Bundle(2), NEW t0 \in chain, SettledBy(t0)
    PROVE  /\ VerifyEvidenceBundle(bundle, Trust(None), "online", None) = "INDETERMINATE"
           /\ \A t \in chain :
                 VerifyEvidenceBundle(bundle, Trust(None), "online", t) = "VALID" <=> t = t0
<1> DEFINE trust == Trust(None)
<1>1. trust.service = None
  BY DEF Trust
<1>2. /\ Exported /\ IsExport(bundle, 2) /\ ManifestStates(bundle.manifest, 2)
      /\ Parses(bundle) /\ Pass(AttestedClaims(bundle, trust))
      /\ Pass(ServiceAuthorizationClaims(bundle, trust))
  BY ExportAttests
<1> HIDE DEF trust
<1>3. /\ bundle.manifest.purchaseState = "CONFIRMED" /\ bundle.version = 2
      /\ bundle.attempt = row.attempt /\ bundle.settlement = row.settlement
      /\ row.attempt # None /\ row.settlement # None
  BY <1>2 DEF IsExport, ManifestStates, Exported
<1>4. Pass(ServiceClaims(bundle, trust))
  BY <1>1, <1>2, <1>3, UnpinnedService
<1> DEFINE said == AttestedClaims(bundle, trust) \cup ServiceClaims(bundle, trust)
           shown(seen) == Claim("settlement", SeenStatus(bundle, seen), TRUE)
           verdict(seen) == VerifyEvidenceBundle(bundle, trust, "online", seen)
<1>5. Pass(said)
  BY <1>2, <1>4, UnionPasses
<1>6. ASSUME NEW seen PROVE verdict(seen) = Overall(said \cup shown(seen))
  <2>1. SettlementClaims(bundle, "online", seen) = shown(seen)
    BY <1>3, OnlineSettlement
  <2> HIDE DEF shown
  <2> QED BY <1>2, <2>1 DEF VerifyEvidenceBundle, AttestedClaims
<1> HIDE DEF said
<1>7. verdict(None) = "INDETERMINATE"
  <2>1. SeenStatus(bundle, None) = "INDETERMINATE"
    BY DEF SeenStatus
  <2>2. verdict(None) = Overall(said \cup Claim("settlement", "INDETERMINATE", TRUE))
    BY <1>6, <2>1
  <2> HIDE DEF verdict
  <2> QED BY <1>5, <2>2, OpenVerdict
<1>8. ASSUME NEW t \in chain PROVE verdict(t) = "VALID" <=> t = t0
  <2> DEFINE status == SeenStatus(bundle, t)
  <2>1. verdict(t) = Overall(said \cup Claim("settlement", status, TRUE))
    BY <1>6
  <2>2. status = "VERIFIED" <=> t = t0
    <3>1. /\ t0 # None /\ CheckSettledTransaction(t0, row.attempt) = "settled"
          /\ CheckSettledTransaction(t, row.attempt) = "settled" => t = t0
      BY OneTransferPaid
    <3>2. row.settlement.transactionId = TransactionId(t0.message)
      BY SettlementParses
    <3> QED BY <1>3, <3>1, <3>2 DEF SeenStatus
  <2> HIDE DEF status, verdict
  <2>3. verdict(t) = "VALID" <=> Pass(Claim("settlement", status, TRUE))
    <3> DEFINE waiting == Claim("settlement", status, TRUE)
    <3>1. verdict(t) = Overall(said \cup waiting)
      BY <2>1
    <3> HIDE DEF waiting
    <3>2. verdict(t) = "VALID" <=> Pass(waiting)
      BY <1>5, <3>1, ValidVerdict, UnionPasses
    <3> QED BY <3>2 DEF waiting
  <2> QED BY <2>2, <2>3, RequiredPasses
<1> QED BY <1>7, <1>8 DEF trust

\* Online, a confirmed purchase verifies on the transaction that paid it and on
\* no other, and nothing is concluded while it is not visible (settlementClaims
\* against the lookup that confirmed the payment).
THEOREM OnlineVerdictsFollowTheChain ==
    ASSUME WithinTheSchema
    PROVE  TrailSpec => []OnlineVerdictFollowsTheChain
<1>1. ASSUME TrailInv, SoundInv PROVE OnlineVerdictFollowsTheChain
  <2> SUFFICES ASSUME Exportable, row.state = "CONFIRMED"
               PROVE  OnlineVerdictFollowsTheChain
    BY DEF OnlineVerdictFollowsTheChain
  <2> DEFINE verdict(seen) == VerifyEvidenceBundle(Bundle(2), Trust(None), "online", seen)
             paidBy == {t \in chain : t.payerSignature = row.attempt.payerSignature /\ ~t.err}
  <2>1. PICK t0 \in chain : SettledBy(t0)
    BY <1>1, ExportedRow DEF Exported
  <2>2. /\ verdict(None) = "INDETERMINATE"
        /\ \A t \in chain : verdict(t) = "VALID" <=> t = t0
    BY <1>1, <2>1, ChainDecides
  <2>3. paidBy = {t0}
    BY <1>1, <2>1, OneTransferPaid
  <2>4. {t \in chain : verdict(t) = "VALID"} = {t0}
    BY <2>2
  <2>5. /\ verdict(None) = "INDETERMINATE"
        /\ {t \in chain : verdict(t) = "VALID"} = paidBy
        /\ paidBy # {}
    BY <2>2, <2>3, <2>4
  <2> QED BY <2>5 DEF OnlineVerdictFollowsTheChain
<1>2. TrailInv /\ SoundInv => OnlineVerdictFollowsTheChain
  BY <1>1
<1> QED BY <1>2, TrailInvAlways, SoundInvAlways, PTL

=============================================================================
