--------------------------- MODULE PaidServiceProofs ---------------------------
(***************************************************************************)
(* What the paid service settles and what it answers, for any callers, any  *)
(* requests and prices, and any table of scenarios.                        *)
(***************************************************************************)
EXTENDS PaidService, PurchaseLemmas, SequenceTheorems

-----------------------------------------------------------------------------
(* The operators.                                                          *)

\* What the authority does with the service's acknowledgement of this request.
Kept(received, ack) ==
    LET authorization == received.authorization
    IN AcceptAcknowledgement(ack, ServiceKey,
           [invocationId |-> received.invocationId,
            operation |-> [method |-> received.method, resource |-> received.path,
                           operation |-> received.body[1], datasetId |-> received.body[2]]],
           authorization, [sha256 |-> authorization.request.requestSha256],
           authorization.payment,
           [transactionId |-> TransactionId(received.transaction.message)],
           SummarizeResult(200, RunReport(received.body)))

\* An acknowledgement of a checked request is kept (#acceptAcknowledgement).
LEMMA AcknowledgementIsKept ==
    ASSUME NEW received \in Received, NEW key, NEW at \in 1..MaxNow, NEW checkedAt,
           received.transaction # None,
           CheckServiceAuthorization(received, key, Terms, checkedAt) = "ok"
    PROVE  Kept(received, Acknowledgement(received, RunReport(received.body), at)) # None
<1> DEFINE authorization == received.authorization
           result == SummarizeResult(200, RunReport(received.body))
           transactionId == TransactionId(received.transaction.message)
           digest == ServiceAuthorizationDigest(authorization)
           sha256 == Digest([url |-> authorization.request.url, method |-> "POST",
                             body |-> received.body])
           performed == [method |-> received.method, resource |-> received.path,
                         operation |-> received.body[1], datasetId |-> received.body[2]]
           fields ==
             [version |-> 1, service |-> ServiceKey, invocationId |-> received.invocationId,
              authorizationDigest |-> digest, requestSha256 |-> sha256,
              received |-> performed,
              payment |-> [transaction |-> transactionId, asset |-> Terms.asset,
                           payTo |-> Terms.payTo, amount |-> Terms.amount],
              result |-> [httpStatus |-> 200, sha256 |-> result.sha256, bytes |-> result.bytes],
              fulfilledAt |-> at]
           F == {"version", "service", "invocationId", "authorizationDigest", "requestSha256",
                 "received", "payment", "result", "fulfilledAt"}
           ack == Acknowledgement(received, RunReport(received.body), at)
<1>1. ack = SignedBy(ServiceKey, "service-acknowledgement", fields)
  BY DEF Acknowledgement, ServiceAcknowledgement
<1>2. result.httpStatus = 200
  BY DEF SummarizeResult
<1>0. AuthorizedBy(received, key) /\ AuthorizedFor(received, Terms)
  BY ONLY CheckServiceAuthorization(received, key, Terms, checkedAt) = "ok",
          CheckedAuthorization
<1>3. /\ authorization # None
      /\ authorization.request.requestSha256 = sha256
      /\ authorization.payment.asset = Terms.asset
      /\ authorization.payment.payTo = Terms.payTo
      /\ authorization.payment.amount = Terms.amount
  BY <1>0 DEF AuthorizedBy, AuthorizedFor
<1>4. ack # None /\ ServiceKey # None
  BY <1>3, PaidServiceAssumption
<1> HIDE DEF result, transactionId, digest, sha256, performed, ack
<1>5. fields = [f \in F |-> fields[f]] /\ "signature" \notin F
  OBVIOUS
<1>6. /\ fields.service = ServiceKey /\ fields.invocationId = received.invocationId
      /\ fields.authorizationDigest = digest /\ fields.requestSha256 = sha256
      /\ fields.received = performed
  OBVIOUS
<1>7. /\ fields.payment.asset = Terms.asset /\ fields.payment.payTo = Terms.payTo
      /\ fields.payment.amount = Terms.amount /\ fields.payment.transaction = transactionId
  OBVIOUS
<1>8. /\ fields.result.httpStatus = 200
      /\ fields.result.sha256 = result.sha256 /\ fields.result.bytes = result.bytes
  OBVIOUS
<1> HIDE DEF fields
<1>9. /\ Without(ack, "signature") = fields
      /\ ack.signature = Sign(ServiceKey, "service-acknowledgement", fields)
      /\ \A f \in F : ack[f] = fields[f]
  BY ONLY <1>1, <1>5, SignedByOpens
<1>10. /\ ack.service = fields.service /\ ack.invocationId = fields.invocationId
       /\ ack.authorizationDigest = fields.authorizationDigest
       /\ ack.requestSha256 = fields.requestSha256 /\ ack.received = fields.received
       /\ ack.payment = fields.payment /\ ack.result = fields.result
  BY <1>9
<1>11. VerifiesPinned(ack.service, ServiceKey, "service-acknowledgement", ack)
  BY <1>4, <1>6, <1>9, <1>10 DEF VerifiesPinned, Verifies
<1>12. \A field \in {"asset", "payTo", "amount"} :
          ack.payment[field] = authorization.payment[field]
  BY <1>3, <1>7, <1>10
<1>13. \A field \in {"httpStatus", "sha256", "bytes"} : ack.result[field] = result[field]
  <2>1. ack.result.httpStatus = result.httpStatus
    BY <1>2, <1>8, <1>10
  <2>2. ack.result.sha256 = result.sha256
    BY <1>8, <1>10
  <2>3. ack.result.bytes = result.bytes
    BY <1>8, <1>10
  <2> QED BY <2>1, <2>2, <2>3
<1>14. AcknowledgementMatches(ack, received.invocationId, authorization,
                              authorization.request.requestSha256, performed,
                              authorization.payment, transactionId, result)
  BY <1>3, <1>6, <1>7, <1>10, <1>12, <1>13 DEF AcknowledgementMatches, digest
<1>15. Kept(received, ack) = ack
  BY <1>4, <1>11, <1>14
     DEF Kept, AcceptAcknowledgement, performed, transactionId, result
<1> QED BY <1>4, <1>15 DEF ack

-----------------------------------------------------------------------------
(* The inductive invariant.                                                *)

\* The scenario table.
Entry == [invocationId : {r.invocationId : r \in Received}, scenario : Scenarios]

TableIsBounded ==
    /\ scenarios \in Seq(Entry)
    /\ Len(scenarios) <= MaxScenarios
    /\ \A j, k \in DOMAIN scenarios :
          scenarios[j].invocationId = scenarios[k].invocationId => j = k

\* A request whose authorization the service has checked, at some time.
Checked(received) ==
    /\ received.transaction # None
    /\ \E at \in 1..MaxNow :
          CheckServiceAuthorization(received, AuthorityKey, Terms, at) = "ok"

\* What a request has passed where it waits.
AtGate(c) == \E r \in Received :
    /\ connections[c] = [pc |-> "gate", received |-> r]
    /\ r.transaction # None => Checked(r)

AtSettlement(c) == \E r \in Received, g \in Scenarios :
    /\ connections[c] = [pc |-> "settling", received |-> r, gate |-> g]
    /\ Checked(r)

AtReport(c) == \E r \in Received, g \in Scenarios :
    /\ connections[c] = [pc |-> "fulfil", received |-> r, gate |-> g]
    /\ Checked(r)
    /\ r.transaction \in settled /\ PaysTerms(r.transaction, Prices[g])

\* ... and has got when it is answered.
Reported(c) == \E r \in Received, at \in 1..MaxNow :
    /\ connections[c].received = r /\ Checked(r) /\ r.transaction \in settled
    /\ connections[c].response.ack = Acknowledgement(r, RunReport(r.body), at)

Answered(c) ==
    /\ connections[c].pc = "done"
    /\ connections[c].response.status = 200 => Reported(c)

RequestsAreChecked ==
    /\ connections = [c \in Connections |-> connections[c]]
    /\ \A c \in Connections :
          connections[c] = Free \/ AtGate(c) \/ AtSettlement(c) \/ AtReport(c) \/ Answered(c)

PaidServiceInv ==
    /\ TableIsBounded
    /\ RequestsAreChecked
    /\ authorityKey \in {None, AuthorityKey}
    /\ now \in 1..MaxNow

\* What a connection waits for tells its place in the handler.
LEMMA WhereItWaits ==
    ASSUME NEW c
    PROVE  /\ connections[c] = Free => connections[c].pc = "free"
           /\ AtGate(c) => connections[c].pc = "gate"
           /\ AtSettlement(c) => connections[c].pc = "settling"
           /\ AtReport(c) => connections[c].pc = "fulfil"
           /\ Answered(c) => connections[c].pc = "done"
<1>1. connections[c] = Free => connections[c].pc = "free"
  BY DEF Free
<1>2. ASSUME AtGate(c) PROVE connections[c].pc = "gate"
  <2> PICK r \in Received : connections[c] = [pc |-> "gate", received |-> r]
    BY <1>2 DEF AtGate
  <2> QED OBVIOUS
<1>3. ASSUME AtSettlement(c) PROVE connections[c].pc = "settling"
  <2> PICK r \in Received, g \in Scenarios :
        connections[c] = [pc |-> "settling", received |-> r, gate |-> g]
    BY <1>3 DEF AtSettlement
  <2> QED OBVIOUS
<1>4. ASSUME AtReport(c) PROVE connections[c].pc = "fulfil"
  <2> PICK r \in Received, g \in Scenarios :
        connections[c] = [pc |-> "fulfil", received |-> r, gate |-> g]
    BY <1>4 DEF AtReport
  <2> QED OBVIOUS
<1>5. Answered(c) => connections[c].pc = "done"
  BY DEF Answered
<1> QED BY <1>1, <1>2, <1>3, <1>4, <1>5

\* No connection, no scenario.
LEMMA PaidServiceInvInit == PaidServiceInit => PaidServiceInv
<1> SUFFICES ASSUME PaidServiceInit PROVE PaidServiceInv
  OBVIOUS
<1>1. TableIsBounded
  BY PaidServiceAssumption, EmptySeq DEF PaidServiceInit, TableIsBounded
<1>2. RequestsAreChecked
  BY DEF PaidServiceInit, RequestsAreChecked
<1> QED BY <1>1, <1>2, PaidServiceAssumption DEF PaidServiceInit, PaidServiceInv

-----------------------------------------------------------------------------
(* The scenario table.                                                     *)

\* Cutting the oldest entry leaves the others, in a table that has room.
LEMMA CutTable ==
    ASSUME TableIsBounded, NEW kept,
           kept = IF Len(scenarios) >= MaxScenarios THEN Tail(scenarios) ELSE scenarios
    PROVE  /\ kept \in Seq(Entry)
           /\ Len(kept) < MaxScenarios
           /\ \A j, k \in DOMAIN kept : kept[j].invocationId = kept[k].invocationId => j = k
<1> USE PaidServiceAssumption DEF TableIsBounded
<1>1. CASE Len(scenarios) >= MaxScenarios
  <2>1. scenarios # <<>> /\ kept = Tail(scenarios)
    BY <1>1
  <2>2. kept \in Seq(Entry) /\ Len(kept) = Len(scenarios) - 1
        /\ \A k \in 1..Len(kept) : kept[k] = scenarios[k + 1]
    BY <2>1, HeadTailProperties
  <2>3. \A k \in DOMAIN kept : k + 1 \in DOMAIN scenarios /\ kept[k] = scenarios[k + 1]
                               /\ k \in Nat
    BY <2>2, LenProperties
  <2> QED BY <2>2, <2>3, LenProperties
<1>2. CASE ~(Len(scenarios) >= MaxScenarios)
  BY <1>2, LenProperties
<1> QED BY <1>1, <1>2

\* POST /__demo/scenario keeps the table bounded, with one entry for an
\* invocation.
LEMMA SetScenarioKeeps ==
    ASSUME TableIsBounded, NEW id \in {r.invocationId : r \in Received},
           NEW scenario \in Scenarios, SetScenario(id, scenario)
    PROVE  TableIsBounded'
<1> DEFINE kept == IF Len(scenarios) >= MaxScenarios THEN Tail(scenarios) ELSE scenarios
           entry == [invocationId |-> id, scenario |-> scenario]
           place == PlaceOf(kept, id)
<1>1. /\ kept \in Seq(Entry) /\ Len(kept) < MaxScenarios
      /\ \A j, k \in DOMAIN kept : kept[j].invocationId = kept[k].invocationId => j = k
  BY CutTable
<1>2. scenarios' = IF place = {} THEN Append(kept, entry)
                   ELSE [k \in DOMAIN kept |-> IF k \in place THEN entry ELSE kept[k]]
  BY DEF SetScenario
<1>3. entry \in Entry /\ entry.invocationId = id
  BY DEF Entry
<1>4. place = {k \in DOMAIN kept : kept[k].invocationId = id}
  BY DEF PlaceOf
<1> HIDE DEF kept, entry, place
<1>5. DOMAIN kept = 1..Len(kept) /\ Len(kept) \in Nat
  BY <1>1, LenProperties
<1>6. CASE place = {}
  <2>1. scenarios' = Append(kept, entry)
    BY <1>2, <1>6
  <2>2. /\ scenarios' \in Seq(Entry) /\ Len(scenarios') = Len(kept) + 1
        /\ \A k \in 1..Len(kept) : scenarios'[k] = kept[k]
        /\ scenarios'[Len(kept) + 1] = entry
    BY <1>1, <1>3, <2>1
  <2>3. DOMAIN scenarios' = 1..(Len(kept) + 1)
    BY <2>2, LenProperties
  <2>4. ASSUME NEW j \in DOMAIN scenarios', NEW k \in DOMAIN scenarios',
               scenarios'[j].invocationId = scenarios'[k].invocationId
        PROVE  j = k
    <3>1. \A i \in 1..Len(kept) : kept[i].invocationId # id
      BY <1>4, <1>5, <1>6
    <3>2. (j \in 1..Len(kept) \/ j = Len(kept) + 1) /\ (k \in 1..Len(kept) \/ k = Len(kept) + 1)
      BY <1>5, <2>3
    <3> QED BY <1>1, <1>3, <1>5, <2>2, <2>4, <3>1, <3>2
  <2>5. Len(scenarios') <= MaxScenarios
    BY <1>1, <1>5, <2>2, PaidServiceAssumption
  <2> QED BY <2>2, <2>4, <2>5 DEF TableIsBounded
<1>7. CASE place # {}
  <2>1. scenarios' = [k \in 1..Len(kept) |-> IF k \in place THEN entry ELSE kept[k]]
    BY <1>2, <1>5, <1>7
  <2>2. \A k \in 1..Len(kept) : kept[k] \in Entry
    BY <1>1, ElementOfSeq
  <2>3. scenarios' \in [1..Len(kept) -> Entry]
    BY <1>3, <2>1, <2>2
  <2>4. scenarios' \in Seq(Entry) /\ Len(scenarios') = Len(kept)
    BY <1>5, <2>1, <2>3, SeqDef
  <2>5. \A k \in 1..Len(kept) : scenarios'[k].invocationId = kept[k].invocationId
    BY <1>3, <1>4, <2>1
  <2>6. \A j, k \in DOMAIN scenarios' :
           scenarios'[j].invocationId = scenarios'[k].invocationId => j = k
    BY <1>1, <1>5, <2>1, <2>5
  <2>7. Len(scenarios') <= MaxScenarios
    BY <1>1, <1>5, <2>4, PaidServiceAssumption
  <2> QED BY <2>4, <2>6, <2>7 DEF TableIsBounded
<1> QED BY <1>6, <1>7

-----------------------------------------------------------------------------
(* The requests.                                                           *)

InPlace(c) == connections[c] = Free \/ AtGate(c) \/ AtSettlement(c) \/ AtReport(c) \/ Answered(c)

\* A request that a step leaves alone keeps what it has passed.
LEMMA InPlaceKeeps ==
    ASSUME NEW c, InPlace(c), connections'[c] = connections[c], settled \subseteq settled'
    PROVE  InPlace(c)'
<1>1. AtGate(c) => AtGate(c)'
  BY DEF AtGate, Checked
<1>2. AtSettlement(c) => AtSettlement(c)'
  BY DEF AtSettlement, Checked
<1>3. ASSUME AtReport(c) PROVE AtReport(c)'
  <2>1. PICK r \in Received, g \in Scenarios :
           /\ connections[c] = [pc |-> "fulfil", received |-> r, gate |-> g]
           /\ Checked(r)
           /\ r.transaction \in settled /\ PaysTerms(r.transaction, Prices[g])
    BY <1>3 DEF AtReport
  <2>2. r.transaction \in settled'
    BY <2>1
  <2> QED BY <2>1, <2>2 DEF AtReport, Checked, PaysTerms
<1>4. ASSUME Reported(c) PROVE Reported(c)'
  <2>1. PICK r \in Received, at \in 1..MaxNow :
           /\ connections[c].received = r /\ Checked(r) /\ r.transaction \in settled
           /\ connections[c].response.ack = Acknowledgement(r, RunReport(r.body), at)
    BY <1>4 DEF Reported
  <2>2. /\ connections'[c].received = r /\ r.transaction \in settled'
        /\ connections'[c].response.ack = Acknowledgement(r, RunReport(r.body), at)
    BY <2>1
  <2> QED BY <2>1, <2>2 DEF Reported, Checked
<1>5. Answered(c) => Answered(c)'
  BY <1>4 DEF Answered
<1>6. connections[c] = Free => connections'[c] = Free
  OBVIOUS
<1> QED BY <1>1, <1>2, <1>3, <1>5, <1>6 DEF InPlace

\* A request is answered without a report.
LEMMA FinishKeeps ==
    ASSUME RequestsAreChecked, NEW c \in Connections, NEW gate, NEW status, NEW ack,
           Finish(c, gate, status, ack), status # 200
    PROVE  InPlace(c)'
<1>1. connections'[c] = [pc |-> "done", received |-> connections[c].received, gate |-> gate,
                         response |-> Done(status, ack)]
  BY DEF Finish, RequestsAreChecked
<1> QED BY <1>1 DEF InPlace, Answered, Done

\* Which scenario an invocation has.
LEMMA ScenarioOfTable ==
    ASSUME TableIsBounded, NEW id
    PROVE  ScenarioFor(id) \in Scenarios
<1> DEFINE place == PlaceOf(scenarios, id)
<1>1. CASE place = {}
  BY <1>1 DEF ScenarioFor, Scenarios
<1>2. CASE place # {}
  <2>1. (CHOOSE k \in place : TRUE) \in place
    BY <1>2
  <2>2. \A k \in place : scenarios[k] \in Entry
    BY LenProperties, ElementOfSeq DEF PlaceOf, TableIsBounded
  <2> QED BY <1>2, <2>1, <2>2 DEF ScenarioFor, Entry
<1> QED BY <1>1, <1>2

\* The gate: the request takes the scenario's price with it.
LEMMA GateKeeps ==
    ASSUME PaidServiceInv, NEW c \in Connections, Gate(c)
    PROVE  InPlace(c)'
<1> DEFINE received == connections[c].received
           scenario == ScenarioFor(received.invocationId)
<1>1. AtGate(c)
  BY WhereItWaits DEF Gate, PaidServiceInv, RequestsAreChecked
<1>2. received \in Received /\ (received.transaction # None => Checked(received))
  BY <1>1 DEF AtGate
<1>3. scenario \in Scenarios
  BY ScenarioOfTable DEF PaidServiceInv
<1> HIDE DEF received, scenario
<1>4. CASE Finish(c, scenario, 402, None) \/ Finish(c, scenario, 0, None)
  BY <1>4, FinishKeeps DEF PaidServiceInv
<1>5. CASE /\ received.transaction # None
           /\ connections' = [connections EXCEPT ![c] =
                  [pc |-> "settling", received |-> received, gate |-> scenario]]
  <2>1. connections'[c] = [pc |-> "settling", received |-> received, gate |-> scenario]
    BY <1>5 DEF PaidServiceInv, RequestsAreChecked
  <2> QED BY <1>2, <1>3, <1>5, <2>1 DEF InPlace, AtSettlement, Checked
<1> QED BY <1>4, <1>5 DEF Gate, received, scenario

\* Only what is authorized settles.
LEMMA SettleKeeps ==
    ASSUME PaidServiceInv, NEW c \in Connections, NEW success \in BOOLEAN, Settle(c, success)
    PROVE  InPlace(c)' /\ settled \subseteq settled'
<1>1. AtSettlement(c)
  BY WhereItWaits DEF Settle, PaidServiceInv, RequestsAreChecked
<1>2. PICK r \in Received, g \in Scenarios :
         /\ connections[c] = [pc |-> "settling", received |-> r, gate |-> g]
         /\ Checked(r)
  BY <1>1 DEF AtSettlement
<1>3. CASE success
  <2>1. /\ PaysTerms(r.transaction, Prices[g])
        /\ connections' = [connections EXCEPT ![c].pc = "fulfil"]
        /\ settled' = settled \cup {r.transaction}
    BY <1>2, <1>3 DEF Settle
  <2>2. connections'[c] = [pc |-> "fulfil", received |-> r, gate |-> g]
    BY <1>2, <2>1 DEF PaidServiceInv, RequestsAreChecked
  <2> QED BY <1>2, <2>1, <2>2 DEF InPlace, AtReport, Checked, PaysTerms
<1>4. CASE ~success
  BY <1>4, FinishKeeps DEF Settle, PaidServiceInv
<1> QED BY <1>3, <1>4

\* A report leaves with the acknowledgement of the request that was checked.
LEMMA FulfilKeeps ==
    ASSUME PaidServiceInv, NEW c \in Connections,
           Fulfil(c, RunReport(connections[c].received.body))
    PROVE  InPlace(c)'
<1>1. AtReport(c)
  BY WhereItWaits DEF Fulfil, PaidServiceInv, RequestsAreChecked
<1>2. PICK r \in Received, g \in Scenarios :
         /\ connections[c] = [pc |-> "fulfil", received |-> r, gate |-> g]
         /\ Checked(r) /\ r.transaction \in settled
  BY <1>1 DEF AtReport
<1>3. connections[c].received = r /\ connections[c].gate = g
  BY <1>2
<1>4. CASE Finish(c, g, 0, None)
  BY <1>4, FinishKeeps DEF PaidServiceInv
<1>5. CASE Finish(c, g, 200, Acknowledgement(r, RunReport(r.body), now))
  <2>1. connections'[c] = [pc |-> "done", received |-> r, gate |-> g,
                           response |-> Done(200, Acknowledgement(r, RunReport(r.body), now))]
    BY <1>3, <1>5 DEF Finish, PaidServiceInv, RequestsAreChecked
  <2>2. settled' = settled /\ now \in 1..MaxNow
    BY DEF Fulfil, PaidServiceInv
  <2>3. /\ connections'[c].received = r
        /\ connections'[c].response.ack = Acknowledgement(r, RunReport(r.body), now)
    BY <2>1 DEF Done
  <2>4. Reported(c)'
    BY <1>2, <2>2, <2>3 DEF Reported, Checked
  <2> QED BY <2>1, <2>4 DEF InPlace, Answered
<1> QED BY <1>3, <1>4, <1>5 DEF Fulfil

\* Every step keeps each connection in its place.
LEMMA PaidServiceInvStep ==
    ASSUME PaidServiceInv, [PaidServiceNext]_serviceVars
    PROVE  PaidServiceInv'
<1> DEFINE Moved(c) == /\ InPlace(c)' /\ settled \subseteq settled'
                       /\ \E v : connections' = [connections EXCEPT ![c] = v]
<1>1. ASSUME NEW c \in Connections, Moved(c)
      PROVE  RequestsAreChecked'
  <2>1. connections' = [d \in Connections |-> connections'[d]]
    BY <1>1 DEF PaidServiceInv, RequestsAreChecked
  <2>2. ASSUME NEW d \in Connections PROVE InPlace(d)'
    <3>1. CASE d = c
      BY <1>1, <3>1
    <3>2. CASE d # c
      BY <1>1, <3>2, InPlaceKeeps DEF PaidServiceInv, RequestsAreChecked, InPlace
    <3> QED BY <3>1, <3>2
  <2> QED BY <2>1, <2>2 DEF RequestsAreChecked, InPlace
<1>2. ASSUME UNCHANGED <<connections, settled>>
      PROVE  RequestsAreChecked'
  <2>1. ASSUME NEW d \in Connections PROVE InPlace(d)'
    BY <1>2, InPlaceKeeps DEF PaidServiceInv, RequestsAreChecked, InPlace
  <2>2. connections' = [d \in Connections |-> connections'[d]]
    BY <1>2 DEF PaidServiceInv, RequestsAreChecked
  <2> QED BY <2>1, <2>2 DEF RequestsAreChecked, InPlace
<1>3. ASSUME NEW id \in {r.invocationId : r \in Received}, NEW scenario \in Scenarios,
             SetScenario(id, scenario)
      PROVE  PaidServiceInv'
  <2>1. TableIsBounded'
    BY <1>3, SetScenarioKeeps DEF PaidServiceInv
  <2>2. UNCHANGED <<authorityKey, connections, settled, now>>
    BY <1>3 DEF SetScenario
  <2> QED BY <1>2, <2>1, <2>2 DEF PaidServiceInv
<1>4. ASSUME NEW c \in Connections, NEW received \in Received, NEW published \in BOOLEAN,
             Arrive(c, received, published)
      PROVE  PaidServiceInv'
  \* The authorization is checked before the gate.
  <2>1. /\ InPlace(c)' /\ authorityKey' \in {None, AuthorityKey}
        /\ \E v : connections' = [connections EXCEPT ![c] = v]
    <3> DEFINE key == IF authorityKey # None \/ ~published THEN authorityKey ELSE AuthorityKey
               Malformed == ~ParseReportRequest(received.body)
               Refused == CheckServiceAuthorization(received, key, Terms, now) # "ok"
               refusal == IF Malformed THEN 400
                          ELSE IF received.transaction = None THEN 0
                          ELSE IF key = None THEN 503
                          ELSE IF Refused THEN 403
                          ELSE 0
    <3>1. key \in {None, AuthorityKey} /\ now \in 1..MaxNow
      BY DEF PaidServiceInv
    <3>2. connections' = [connections EXCEPT ![c] =
                IF refusal = 0 THEN [pc |-> "gate", received |-> received]
                ELSE [pc |-> "done", response |-> Done(refusal, None)]]
          /\ authorityKey' \in {key, authorityKey}
      BY <1>4 DEF Arrive
    <3> HIDE DEF key, Malformed, Refused
    <3>3. connections'[c] = IF refusal = 0 THEN [pc |-> "gate", received |-> received]
                            ELSE [pc |-> "done", response |-> Done(refusal, None)]
      BY <3>2 DEF PaidServiceInv, RequestsAreChecked
    <3>4. \E v : connections' = [connections EXCEPT ![c] = v]
      <4> HIDE DEF refusal
      <4> QED BY <3>2
    <3>5. CASE refusal = 0
      <4>1. received.transaction # None => Checked(received)
        <5> SUFFICES ASSUME received.transaction # None PROVE Checked(received)
          OBVIOUS
        <5>1. key # None /\ ~Refused
          BY <3>5
        <5> QED BY <3>1, <5>1 DEF Checked, Refused
      <4>2. AtGate(c)'
        BY <3>3, <3>5, <4>1 DEF AtGate, Checked
      <4> QED BY <3>1, <3>2, <3>4, <4>2 DEF InPlace, PaidServiceInv
    <3>6. CASE refusal # 0
      <4>1. refusal # 200
        OBVIOUS
      <4> HIDE DEF refusal
      <4>2. connections'[c].pc = "done" /\ connections'[c].response.status = refusal
        BY <3>3, <3>6 DEF Done
      <4> QED BY <3>1, <3>2, <3>4, <4>1, <4>2 DEF InPlace, Answered, PaidServiceInv
    <3> QED BY <3>5, <3>6
  <2>2. UNCHANGED <<scenarios, settled, now>>
    BY <1>4 DEF Arrive
  <2>3. RequestsAreChecked'
    BY <1>1, <2>1, <2>2
  <2> QED BY <2>1, <2>2, <2>3 DEF PaidServiceInv, TableIsBounded
<1>5. ASSUME NEW c \in Connections, Gate(c)
      PROVE  PaidServiceInv'
  <2>1. UNCHANGED <<scenarios, authorityKey, settled, now>>
        /\ \E v : connections' = [connections EXCEPT ![c] = v]
    BY <1>5 DEF Gate, Finish
  <2>2. RequestsAreChecked'
    BY <1>1, <1>5, <2>1, GateKeeps
  <2> QED BY <2>1, <2>2 DEF PaidServiceInv, TableIsBounded
<1>6. ASSUME NEW c \in Connections, NEW success \in BOOLEAN, Settle(c, success)
      PROVE  PaidServiceInv'
  <2>1. UNCHANGED <<scenarios, authorityKey, now>>
        /\ \E v : connections' = [connections EXCEPT ![c] = v]
    BY <1>6 DEF Settle, Finish
  <2>2. RequestsAreChecked'
    BY <1>1, <1>6, <2>1, SettleKeeps
  <2> QED BY <2>1, <2>2 DEF PaidServiceInv, TableIsBounded
<1>7. ASSUME NEW c \in Connections, Fulfil(c, RunReport(connections[c].received.body))
      PROVE  PaidServiceInv'
  <2>1. UNCHANGED <<scenarios, authorityKey, settled, now>>
        /\ \E v : connections' = [connections EXCEPT ![c] = v]
    BY <1>7 DEF Fulfil, Finish
  <2>2. RequestsAreChecked'
    BY <1>1, <1>7, <2>1, FulfilKeeps
  <2> QED BY <2>1, <2>2 DEF PaidServiceInv, TableIsBounded
<1>8. CASE ServiceTick
  BY <1>2, <1>8, PaidServiceAssumption DEF ServiceTick, PaidServiceInv, TableIsBounded
<1>9. CASE UNCHANGED serviceVars
  BY <1>2, <1>9 DEF serviceVars, PaidServiceInv, TableIsBounded
<1> QED BY <1>3, <1>4, <1>5, <1>6, <1>7, <1>8, <1>9 DEF PaidServiceNext

\* So the invariant holds in every reachable state.
LEMMA PaidServiceInvAlways == PaidServiceSpec => []PaidServiceInv
BY PaidServiceInvInit, PaidServiceInvStep, PTL DEF PaidServiceSpec

-----------------------------------------------------------------------------
(* The theorems.                                                           *)

\* The scenario table stays bounded with one entry for an invocation, a paid
\* request is paid until it is answered, and one authority key is ever used.
THEOREM PaidServiceTypeCorrect == PaidServiceSpec => []PaidServiceTypeOK
<1>1. ASSUME PaidServiceInv PROVE PaidServiceTypeOK
  <2>1. ASSUME NEW c \in Connections, connections[c].pc \in {"settling", "fulfil"}
        PROVE  connections[c].received.transaction # None
    <3>2. AtSettlement(c) \/ AtReport(c)
      BY <1>1, <2>1, WhereItWaits DEF PaidServiceInv, RequestsAreChecked
    <3>3. ASSUME NEW r, Checked(r), connections[c].received = r
          PROVE  connections[c].received.transaction # None
      BY <3>3 DEF Checked
    <3>4. ASSUME AtSettlement(c) PROVE connections[c].received.transaction # None
      BY <3>3, <3>4 DEF AtSettlement
    <3>5. ASSUME AtReport(c) PROVE connections[c].received.transaction # None
      BY <3>3, <3>5 DEF AtReport
    <3> QED BY <3>2, <3>4, <3>5
  <2> QED BY <1>1, <2>1 DEF PaidServiceInv, TableIsBounded, PaidServiceTypeOK
<1> QED BY <1>1, PaidServiceInvAlways, PTL

\* The service settles a credential only of a request that the authority
\* authorized, whatever its scenario becomes; at the advertised price it
\* settles what was authorized (app.ts: refused before the gate).
THEOREM SettlementsCorrect == PaidServiceSpec => []SettledAsAuthorized
<1>1. ASSUME PaidServiceInv, NEW c \in Connections, connections[c].pc = "fulfil"
      PROVE  LET received == connections[c].received
                 price == Prices[connections[c].gate]
             IN /\ received.transaction \in settled
                /\ AuthorizedBy(received, AuthorityKey)
                /\ PaysTerms(received.transaction, price)
                /\ price = Terms => PaysTerms(received.transaction,
                                              received.authorization.payment)
  <2>1. AtReport(c)
    BY <1>1, WhereItWaits DEF PaidServiceInv, RequestsAreChecked
  <2>2. PICK r \in Received, g \in Scenarios :
           /\ connections[c] = [pc |-> "fulfil", received |-> r, gate |-> g]
           /\ Checked(r) /\ r.transaction \in settled /\ PaysTerms(r.transaction, Prices[g])
    BY <2>1 DEF AtReport
  <2>3. connections[c].received = r /\ connections[c].gate = g
    BY <2>2
  <2>4. AuthorizedBy(r, AuthorityKey) /\ AuthorizedFor(r, Terms)
    BY <2>2, CheckedAuthorization DEF Checked
  <2>5. PaysTerms(r.transaction, Terms) => PaysTerms(r.transaction, r.authorization.payment)
    BY <2>4 DEF PaysTerms, AuthorizedFor
  <2> QED BY <2>2, <2>3, <2>4, <2>5
<1>2. PaidServiceInv => SettledAsAuthorized
  BY <1>1 DEF SettledAsAuthorized, AuthorizedBy
<1> QED BY <1>2, PaidServiceInvAlways, PTL

\* Every report leaves with an acknowledgement that the authority keeps, and
\* its transaction has settled.
THEOREM ReportsCorrect == PaidServiceSpec => []ReportsAreAcknowledged
<1>1. ASSUME PaidServiceInv, NEW c \in Connections,
             connections[c].pc = "done", connections[c].response.status = 200
      PROVE  /\ connections[c].received.transaction \in settled
             /\ Kept(connections[c].received, connections[c].response.ack) # None
  <2>1. Reported(c)
    <3>1. Answered(c)
      BY <1>1, WhereItWaits DEF PaidServiceInv, RequestsAreChecked
    <3> QED BY <1>1, <3>1 DEF Answered
  <2>2. PICK r \in Received, at \in 1..MaxNow :
           /\ connections[c].received = r /\ Checked(r) /\ r.transaction \in settled
           /\ connections[c].response.ack = Acknowledgement(r, RunReport(r.body), at)
    BY <2>1 DEF Reported
  <2> QED BY <2>2, AcknowledgementIsKept DEF Checked
<1>2. PaidServiceInv => ReportsAreAcknowledged
  BY <1>1 DEF ReportsAreAcknowledged, Kept
<1> QED BY <1>2, PaidServiceInvAlways, PTL

=============================================================================
