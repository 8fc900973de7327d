------------------------------ MODULE PaidService ------------------------------
(***************************************************************************)
(* The paid report service: src/apps/service-agent/src.  Its handlers run   *)
(* one at a time but stop at every await, and the demonstration's scenario  *)
(* of an invocation, which is read again after the gate, may be replaced    *)
(* while a payment settles.                                                *)
(*                                                                         *)
(* The payment gate (Pay Kit) is external: it settles a credential that     *)
(* pays its price, or does not.                                            *)
(***************************************************************************)
EXTENDS Evidence

CONSTANTS
    Connections,        \* connections of callers, each used once
    Received,           \* report requests a caller may send
    Prices,             \* [Scenarios -> terms]: what each scenario's gate asks
    Terms,              \* price: the advertised terms
    ServiceKey, AuthorityKey,
    MaxScenarios,       \* MAX_SCENARIOS
    MaxNow              \* bound of the model

Scenarios == {"honest", "overcharge", "wrong-recipient", "wrong-asset",
              "lost-response", "drop-credential"}

\* runReport: a report is of the dataset and the operation, no more is needed.
RunReport(body) == [content |-> body, bytes |-> 1]

\* What the service signs of a report that it made at this time.
Acknowledgement(received, report, at) ==
    ServiceAcknowledgement(ServiceKey, received, Terms,
        TransactionId(received.transaction.message), SummarizeResult(200, report), at)

\* The honest scenarios ask the advertised price; null is neither a key nor a
\* message.
ASSUME PaidServiceAssumption ==
    /\ DOMAIN Prices = Scenarios
    /\ MaxScenarios \in Nat \ {0} /\ MaxNow \in Nat \ {0}
    /\ \A s \in {"honest", "lost-response", "drop-credential"} : Prices[s] = Terms
    /\ ServiceKey # None
    /\ \A received \in Received, at \in 1..MaxNow :
          received.transaction # None /\ received.authorization # None =>
              Acknowledgement(received, RunReport(received.body), at) # None

VARIABLES
    scenarios,      \* the scenario map, in insertion order
    authorityKey,   \* the authority's key, once it has been read
    connections,    \* what the service is doing for each
    settled,        \* credentials the gate settled
    now

serviceVars == <<scenarios, authorityKey, connections, settled, now>>

Free == [pc |-> "free"]

PaidServiceInit ==
    /\ scenarios = <<>>
    /\ authorityKey = None
    /\ connections = [c \in Connections |-> Free]
    /\ settled = {}
    /\ now = 1

-----------------------------------------------------------------------------
(* The demonstration's scenarios.                                          *)

PlaceOf(map, invocationId) == {k \in DOMAIN map : map[k].invocationId = invocationId}

ScenarioFor(invocationId) ==
    LET place == PlaceOf(scenarios, invocationId)
    IN IF place = {} THEN "honest" ELSE scenarios[CHOOSE k \in place : TRUE].scenario

\* Slip: the table is cut when it is already too long.
SetScenarioLate(invocationId, scenario) ==
    LET kept == IF Len(scenarios) > MaxScenarios THEN Tail(scenarios) ELSE scenarios
        entry == [invocationId |-> invocationId, scenario |-> scenario]
        place == PlaceOf(kept, invocationId)
    IN /\ scenarios' = IF place = {} THEN Append(kept, entry)
                       ELSE [k \in DOMAIN kept |-> IF k \in place THEN entry ELSE kept[k]]
       /\ UNCHANGED <<authorityKey, connections, settled, now>>

\* POST /__demo/scenario.  A full table loses its oldest entry, also when the
\* invocation has one already.
SetScenario(invocationId, scenario) ==
    LET kept == IF Len(scenarios) >= MaxScenarios THEN Tail(scenarios) ELSE scenarios
        entry == [invocationId |-> invocationId, scenario |-> scenario]
        place == PlaceOf(kept, invocationId)
    IN /\ scenarios' = IF place = {} THEN Append(kept, entry)
                       ELSE [k \in DOMAIN kept |-> IF k \in place THEN entry ELSE kept[k]]
       /\ UNCHANGED <<authorityKey, connections, settled, now>>

-----------------------------------------------------------------------------
(* One report request.                                                     *)

Done(status, ack) == [status |-> status, ack |-> ack]

Finish(c, gate, status, ack) ==
    connections' = [connections EXCEPT ![c] =
        [pc |-> "done", received |-> connections[c].received, gate |-> gate,
         response |-> Done(status, ack)]]

\* parseReportRequest: exactly the two fields, each from its list.
ParseReportRequest(body) == Odd \notin {body[1], body[2]} /\ body[1] \in Operations

\* The request is read: the body, then, for a paid one, the authorization.
\* The authority's key is read when it is first needed and exists.
Arrive(c, received, published) ==
    LET key == IF authorityKey # None \/ ~published THEN authorityKey ELSE AuthorityKey
        refusal == IF ~ParseReportRequest(received.body) THEN 400
                   ELSE IF received.transaction = None THEN 0
                   ELSE IF key = None THEN 503
                   ELSE IF CheckServiceAuthorization(received, key, Terms, now) # "ok" THEN 403
                   ELSE 0
        paid == ParseReportRequest(received.body) /\ received.transaction # None
    IN /\ connections[c] = Free
       /\ authorityKey' = IF paid THEN key ELSE authorityKey
       /\ connections' = [connections EXCEPT ![c] =
            IF refusal = 0 THEN [pc |-> "gate", received |-> received]
            ELSE [pc |-> "done", response |-> Done(refusal, None)]]
       /\ UNCHANGED <<scenarios, settled, now>>

\* The gate of the invocation's scenario.  An unpaid request is answered with
\* its terms; "drop-credential" closes the connection of a paid one.
Gate(c) ==
    LET received == connections[c].received
        scenario == ScenarioFor(received.invocationId)
    IN /\ connections[c].pc = "gate"
       /\ IF received.transaction = None THEN Finish(c, scenario, 402, None)
          ELSE IF scenario = "drop-credential" THEN Finish(c, scenario, 0, None)
          ELSE connections' = [connections EXCEPT ![c] =
                                 [pc |-> "settling", received |-> received, gate |-> scenario]]
       /\ UNCHANGED <<scenarios, authorityKey, settled, now>>

PaysTerms(transaction, terms) ==
    Transfer(terms.asset, terms.amount, Payer, terms.payTo, "token")
        \in transaction.message.instructions

\* Pay Kit has settled the credential, if it pays this gate's price, or gave up.
Settle(c, success) ==
    LET transaction == connections[c].received.transaction
    IN /\ connections[c].pc = "settling"
       /\ success => PaysTerms(transaction, Prices[connections[c].gate])
       /\ IF success
          THEN /\ connections' = [connections EXCEPT ![c].pc = "fulfil"]
               /\ settled' = settled \cup {transaction}
          ELSE /\ Finish(c, connections[c].gate, 402, None)
               /\ UNCHANGED settled
       /\ UNCHANGED <<scenarios, authorityKey, now>>

\* Slip: the acknowledgement states the price of the gate's scenario.
FulfilAtGatePrice(c, report) ==
    LET received == connections[c].received
        scenario == ScenarioFor(received.invocationId)
        ack == ServiceAcknowledgement(ServiceKey, received, Prices[scenario],
                   TransactionId(received.transaction.message), SummarizeResult(200, report), now)
    IN /\ connections[c].pc = "fulfil"
       /\ IF scenario = "lost-response" THEN Finish(c, connections[c].gate, 0, None)
          ELSE Finish(c, connections[c].gate, 200, ack)
       /\ UNCHANGED <<scenarios, authorityKey, settled, now>>

\* Slip: a lost response leaves its connection open.
FulfilSilently(c, report) ==
    LET received == connections[c].received
    IN /\ connections[c].pc = "fulfil"
       /\ ScenarioFor(received.invocationId) # "lost-response"
       /\ Finish(c, connections[c].gate, 200, Acknowledgement(received, report, now))
       /\ UNCHANGED <<scenarios, authorityKey, settled, now>>

\* The report, and the acknowledgement of it, unless the scenario now says
\* that the response is lost.
Fulfil(c, report) ==
    LET received == connections[c].received
        gate == connections[c].gate
    IN /\ connections[c].pc = "fulfil"
       /\ IF ScenarioFor(received.invocationId) = "lost-response" THEN Finish(c, gate, 0, None)
          ELSE Finish(c, gate, 200, Acknowledgement(received, report, now))
       /\ UNCHANGED <<scenarios, authorityKey, settled, now>>

ServiceTick ==
    /\ now < MaxNow
    /\ now' = now + 1
    /\ UNCHANGED <<scenarios, authorityKey, connections, settled>>

PaidServiceNext ==
    \/ \E id \in {r.invocationId : r \in Received}, scenario \in Scenarios :
          SetScenario(id, scenario)
    \/ \E c \in Connections :
          \/ /\ connections[c] = Free
             /\ \E received \in Received, published \in BOOLEAN : Arrive(c, received, published)
          \/ Gate(c)
          \/ \E success \in BOOLEAN : Settle(c, success)
          \/ connections[c].pc = "fulfil" /\ Fulfil(c, RunReport(connections[c].received.body))
    \/ ServiceTick

\* A handler that has begun goes on: every await of it ends.
PaidServiceSpec ==
    /\ PaidServiceInit /\ [][PaidServiceNext]_serviceVars
    /\ \A c \in Connections :
          /\ WF_serviceVars(Gate(c))
          /\ WF_serviceVars(\E success \in BOOLEAN : Settle(c, success))
          /\ WF_serviceVars(connections[c].pc = "fulfil"
                            /\ Fulfil(c, RunReport(connections[c].received.body)))

-----------------------------------------------------------------------------
(* Properties.                                                             *)

\* The table is bounded and has one entry for an invocation, and a request
\* beyond the check is paid or unpaid as its step expects.
PaidServiceTypeOK ==
    /\ Len(scenarios) <= MaxScenarios
    /\ \A j, k \in DOMAIN scenarios :
          scenarios[j].invocationId = scenarios[k].invocationId => j = k
    /\ \A c \in Connections :
          connections[c].pc \in {"settling", "fulfil"} =>
              connections[c].received.transaction # None
    /\ authorityKey \in {None, AuthorityKey}

\* Whatever the scenario becomes meanwhile, the service settles a credential
\* only of a request that the authority authorized, byte for byte, for this
\* invocation (app.ts: refused before the gate, the credential is never
\* settled), and a gate that asks the advertised price settles what the
\* authority authorized.
SettledAsAuthorized ==
    \A c \in Connections :
        connections[c].pc = "fulfil" =>
            LET received == connections[c].received
                authorization == received.authorization
                price == Prices[connections[c].gate]
            IN /\ received.transaction \in settled
               /\ authorization # None
               /\ VerifiesPinned(authorization.authority, AuthorityKey,
                                 "service-authorization", authorization)
               /\ authorization.invocationId = received.invocationId
               /\ authorization.request.method = received.method
               /\ authorization.request.requestSha256 =
                     Digest([url |-> authorization.request.url, method |-> "POST",
                             body |-> received.body])
               /\ PaysTerms(received.transaction, price)
               /\ price = Terms => PaysTerms(received.transaction, authorization.payment)

\* Every report leaves with an acknowledgement that the authority, which
\* checks it on its own, keeps, and its transaction has settled: no work is
\* given away and no honest acknowledgement is dropped.
ReportsAreAcknowledged ==
    \A c \in Connections :
        connections[c].pc = "done" /\ connections[c].response.status = 200 =>
            LET received == connections[c].received
                authorization == received.authorization
                ack == connections[c].response.ack
            IN /\ received.transaction \in settled
               /\ AcceptAcknowledgement(ack, ServiceKey,
                     [invocationId |-> received.invocationId,
                      operation |-> [method |-> received.method, resource |-> received.path,
                                     operation |-> received.body[1],
                                     datasetId |-> received.body[2]]],
                     authorization,
                     [sha256 |-> authorization.request.requestSha256],
                     authorization.payment,
                     [transactionId |-> TransactionId(received.transaction.message)],
                     SummarizeResult(200, RunReport(received.body))) # None

\* Nobody is left waiting: a request that arrived is answered or its
\* connection closed.
EveryRequestEnds ==
    \A c \in Connections : connections[c].pc # "free" ~> connections[c].pc = "done"

\* The scenario "lost-response" settles on the chain, then drops the response
\* (index.ts:115).
LostResponseIsLost ==
    \A c \in Connections :
        /\ connections[c].pc = "done"
        /\ "gate" \in DOMAIN connections[c]
        /\ connections[c].gate = "lost-response"
        => connections[c].response.status # 200

=============================================================================
