---------------------------- MODULE PermitFlowProofs ----------------------------
(***************************************************************************)
(* That nothing is allowed which the human did not approve, for any number *)
(* of sessions, requests and approvals, and any permits, tasks and quotes   *)
(* in between.                                                             *)
(***************************************************************************)
EXTENDS PermitFlow, PurchaseLemmas

-----------------------------------------------------------------------------
(* The operators.                                                          *)

\* A signature is never null.
LEMMA SignedIsNotNull ==
    ASSUME NEW key, NEW domain, NEW value
    PROVE  Sign(key, domain, value) # NoSignature
<1>1. "over" \in DOMAIN Sign(key, domain, value)
  BY DEF Sign
<1>2. "over" \notin DOMAIN NoSignature
  BY DEF NoSignature
<1> QED BY <1>1, <1>2

\* A signature that verifies for a permit's agent is that agent's own.
LEMMA SignedByTheAgent ==
    ASSUME NEW signed, NEW agent,
           VerifyRequestSignature(signed, SignRequest(signed, Agent), agent)
    PROVE  agent = Agent
<1>1. SignRequest(signed, Agent) = Sign(agent, "authorization-request", signed)
  BY DEF VerifyRequestSignature, Verifies
<1>2. Sign(Agent, "authorization-request", signed) = Sign(agent, "authorization-request", signed)
  BY <1>1, SignedIsNotNull DEF SignRequest
<1>3. \A key : Sign(key, "authorization-request", signed).key = key
  BY DEF Sign
<1> QED BY <1>2, <1>3

\* The authority finds nothing wrong with a request that names its permit and
\* is signed by the permit's agent, but perhaps its time (#authenticate).
LEMMA HonestAuthenticates ==
    ASSUME NEW input, NEW issuer, NEW profiles, NEW audience, NEW at,
           VerifyPermit(input.permit), input.permit.issuer = issuer,
           input.permit.network \in profiles,
           ValidRequest(input.request),
           input.signature = SignRequest(input.request, input.permit.agent),
           input.request.audience = audience,
           input.request.grantId = input.permit.grantId,
           input.request.permitDigest = PermitDigest(input.permit)
    PROVE  Authenticate(input, issuer, profiles, audience, at)
             \subseteq {"REQUEST_TIMESTAMP_OUT_OF_RANGE"}
<1> DEFINE permit == input.permit
           signed == input.request
           Missing == input.signature = NoSignature
           Invalid == ~VerifyPermit(permit)
           NotEntitled == permit.issuer # issuer \/ permit.network \notin profiles
           Forged == ~VerifyRequestSignature(signed, input.signature, permit.agent)
           Misdirected == signed.audience # audience
           OtherGrant == signed.grantId # permit.grantId
           OtherPermit == signed.permitDigest # PermitDigest(permit)
           Untimely == signed.issuedAt \notin (at - MaxRequestAge)..(at + MaxFutureSkew)
           condition ==
             [AGENT_SIGNATURE_MISSING |-> Missing, PERMIT_INVALID |-> Invalid,
              ISSUER_NOT_ENTITLED |-> NotEntitled, AGENT_SIGNATURE_INVALID |-> Forged,
              REQUEST_AUDIENCE_MISMATCH |-> Misdirected, REQUEST_GRANT_MISMATCH |-> OtherGrant,
              REQUEST_PERMIT_DIGEST_MISMATCH |-> OtherPermit,
              REQUEST_TIMESTAMP_OUT_OF_RANGE |-> Untimely]
<1>1. Authenticate(input, issuer, profiles, audience, at) = Failing(condition)
  BY DEF Authenticate
<1>2. input.signature = Sign(permit.agent, "authorization-request", signed)
  BY DEF SignRequest
<1>3. ~Missing
  BY <1>2, SignedIsNotNull
<1>4. ~Forged
  BY <1>2 DEF VerifyRequestSignature, Verifies
<1>5. ~Invalid /\ ~NotEntitled /\ ~Misdirected /\ ~OtherGrant /\ ~OtherPermit
  OBVIOUS
<1> HIDE DEF Missing, Invalid, NotEntitled, Forged, Misdirected, OtherGrant, OtherPermit,
             Untimely
<1>6. Failing(condition) \subseteq {"REQUEST_TIMESTAMP_OUT_OF_RANGE"}
  BY <1>3, <1>4, <1>5 DEF Failing
<1> QED BY <1>1, <1>6

-----------------------------------------------------------------------------
(* The invariant.                                                          *)

Permits == issued \cup Strays

\* The k-th approval was made with the code, and its permit is of that time.
Granted(k, permit) ==
    /\ permit = IssuePermit(approved[k].approval, k, approved[k].at)
    /\ permit # None

ApprovalsAreHuman ==
    /\ approved = [k \in 1..Len(approved) |-> approved[k]] /\ Len(approved) \in Nat
    /\ \A k \in 1..Len(approved) : approved[k].human /\ approved[k].at \in 0..now

IssuedAreApproved == \A permit \in issued : \E k \in 1..Len(approved) : Granted(k, permit)

\* A permit the agent holds is one it was given, verified.
Held(permit, digest) ==
    /\ permit \in Permits
    /\ VerifyPermit(permit) /\ permit.agent = Agent /\ digest = PermitDigest(permit)

IsOperation(op) ==
    op = [method |-> op.method, resource |-> op.resource, operation |-> op.operation,
          datasetId |-> op.datasetId]

\* The request is valid, for this authority, and about this verified permit.
NamesItsPermit(permit, asked) ==
    /\ Held(permit, asked.permitDigest)
    /\ ValidRequest(asked)
    /\ asked.audience = Audience /\ asked.grantId = permit.grantId

AgentHoldsVerified ==
    /\ \A s \in Session :
         installed[s] # None => Held(installed[s].permit, installed[s].digest)
    /\ \A r \in Request :
         /\ request[r].pc = "verifying" => request[r].candidate \in Permits
         /\ request[r].pc = "quoting" =>
               Held(request[r].permit, request[r].digest) /\ request[r].task \in Tasks
         /\ request[r].pc = "asking" =>
               /\ request[r].input.permit \in Permits
               /\ request[r].input.request.amount \in Int
               /\ NamesItsPermit(request[r].input.permit, request[r].input.request)
               /\ IsOperation(request[r].input.request.operation)
               /\ request[r].input.signature = SignRequest(request[r].input.request, Agent)

AllowedIsApproved(purchase) ==
    \E k \in 1..Len(approved) :
        /\ approved[k].human
        /\ purchase.permit.grantId = k
        /\ purchase.request.operation = ApprovedOperation(approved[k].approval)
        /\ purchase.request.recipient = Terms.recipient
        /\ purchase.request.mint = Terms.mint
        /\ purchase.request.amount <= Terms.maxPerCall
        /\ approved[k].approval.agent = Agent
        /\ purchase.at \in approved[k].at..(approved[k].at + Ttl)

FlowInv ==
    /\ now \in Nat
    /\ installed = [s \in Session |-> installed[s]]
    /\ request = [r \in Request |-> request[r]]
    /\ ApprovalsAreHuman
    /\ IssuedAreApproved
    /\ AgentHoldsVerified
    /\ \A purchase \in allowed : AllowedIsApproved(purchase)

\* No approval and no permit.
LEMMA FlowInvInit == FlowInit => FlowInv
BY DEF FlowInit, FlowInv, ApprovalsAreHuman, IssuedAreApproved, AgentHoldsVerified, Free

\* The permit of a grant is on the approver's terms (issuePermit).
LEMMA GrantedPermit ==
    ASSUME NEW k \in 1..Len(approved), NEW permit, Granted(k, permit)
    PROVE  /\ permit.grantId = k
           /\ permit.issuer = Issuer /\ permit.network = Terms.network
           /\ permit.agent = approved[k].approval.agent
           /\ permit.mint = Terms.mint
           /\ permit.recipient = Terms.recipient
           /\ permit.maxPerCall = Terms.maxPerCall
           /\ permit.expiresAt = approved[k].at + Ttl
           /\ permit.operation = ApprovedOperation(approved[k].approval)
BY DEF Granted, IssuePermit, SignPermit, WithSignature

\* Later approvals take nothing away.
LEMMA ApprovalsStay ==
    ASSUME \A k \in 1..Len(approved) : approved'[k] = approved[k],
           Len(approved) \in Nat, Len(approved') \in Nat, Len(approved') >= Len(approved)
    PROVE  /\ IssuedAreApproved => \A permit \in issued : \E k \in 1..Len(approved') : Granted(k, permit)'
           /\ \A purchase : AllowedIsApproved(purchase) => AllowedIsApproved(purchase)'
<1>1. \A k \in 1..Len(approved) : k \in 1..Len(approved')
  OBVIOUS
<1>2. ASSUME IssuedAreApproved, NEW permit \in issued
      PROVE  \E k \in 1..Len(approved') : Granted(k, permit)'
  BY <1>1, <1>2 DEF IssuedAreApproved, Granted
<1>3. ASSUME NEW purchase, AllowedIsApproved(purchase)
      PROVE  AllowedIsApproved(purchase)'
  BY <1>1, <1>3 DEF AllowedIsApproved
<1> QED BY <1>2, <1>3

\* What was held once is a held permit still, with more permits about.
LEMMA HeldStays ==
    ASSUME Permits \subseteq Permits'
    PROVE  \A permit, value : /\ Held(permit, value) => Held(permit, value)'
                              /\ NamesItsPermit(permit, value) => NamesItsPermit(permit, value)'
BY DEF Held, NamesItsPermit

\* Nothing changes for a purchase, a grant or an approval while the approvals
\* stay and time does not go back.
LEMMA Undisturbed ==
    ASSUME FlowInv, UNCHANGED <<approved, issued>>, now' \in Nat, now' >= now
    PROVE  /\ ApprovalsAreHuman' /\ IssuedAreApproved' /\ Permits' = Permits
           /\ \A purchase : AllowedIsApproved(purchase) => AllowedIsApproved(purchase)'
BY ApprovalsStay DEF FlowInv, ApprovalsAreHuman, IssuedAreApproved, Permits

\* The approver issues a permit.
LEMMA ApproveKeeps ==
    ASSUME FlowInv, NEW approval \in Approvals, NEW code \in BOOLEAN, Approve(approval, code)
    PROVE  FlowInv'
<1> PICK permit : permit = IssuePermit(approval, Len(approved) + 1, now)
  OBVIOUS
<1> PICK last : last = Len(approved) + 1
  OBVIOUS
<1>1. /\ code /\ permit # None
      /\ approved' = Append(approved, [approval |-> approval, at |-> now, human |-> code])
      /\ issued' = issued \cup {permit}
      /\ UNCHANGED <<now, installed, request, allowed>>
  BY DEF Approve
<1>2. /\ Len(approved') = last
      /\ \A k \in 1..Len(approved) : approved'[k] = approved[k]
      /\ approved'[last] = [approval |-> approval, at |-> now, human |-> code]
      /\ approved' = [k \in 1..Len(approved') |-> approved'[k]]
  BY <1>1 DEF FlowInv, ApprovalsAreHuman
<1>3. Len(approved) \in Nat /\ now \in Nat
  BY DEF FlowInv, ApprovalsAreHuman
<1>4. Granted(last, permit)'
  BY <1>1, <1>2 DEF Granted
<1>5. ApprovalsAreHuman'
  <2>1. \A k \in 1..last : k \in 1..Len(approved) \/ k = last
    BY <1>3
  <2>2. approved'[last].human /\ approved'[last].at \in 0..now
    BY <1>1, <1>2, <1>3
  <2> QED BY <1>1, <1>2, <1>3, <2>1, <2>2 DEF FlowInv, ApprovalsAreHuman
<1>6. IssuedAreApproved'
  <2>1. \A p \in issued : \E k \in 1..Len(approved') : Granted(k, p)'
    BY <1>2, <1>3, ApprovalsStay DEF FlowInv
  <2>2. last \in 1..Len(approved')
    BY <1>2, <1>3
  <2> QED BY <1>1, <1>4, <2>1, <2>2 DEF IssuedAreApproved
<1>7. \A purchase \in allowed' : AllowedIsApproved(purchase)'
  BY <1>1, <1>2, <1>3, ApprovalsStay DEF FlowInv
<1>8. AgentHoldsVerified'
  <2>1. Permits \subseteq Permits'
    BY <1>1 DEF Permits
  <2> QED BY <1>1, <2>1, HeldStays DEF FlowInv, AgentHoldsVerified
<1> QED BY <1>1, <1>5, <1>6, <1>7, <1>8 DEF FlowInv

\* The agent's handlers.
LEMMA HandlersKeep ==
    ASSUME FlowInv, NEW r \in Request,
           \/ \E s \in Session : \/ \E candidate \in issued \cup Strays : ReceivePermit(r, s, candidate)
                                 \/ \E task \in Tasks : RunDemo(r, s, task)
           \/ InstallPermit(r)
           \/ \E quote \in Quotes : Quoted(r, quote)
    PROVE  FlowInv'
<1> USE FlowAssumption DEF FlowInv, AgentHoldsVerified, Step
<1>1. ASSUME NEW s \in Session, NEW candidate \in issued \cup Strays,
             ReceivePermit(r, s, candidate)
      PROVE  FlowInv'
  <2>1. UNCHANGED <<approved, issued, now, installed, allowed>>
    BY <1>1 DEF ReceivePermit
  <2>2. /\ ApprovalsAreHuman' /\ IssuedAreApproved' /\ Permits' = Permits
        /\ \A purchase : AllowedIsApproved(purchase) => AllowedIsApproved(purchase)'
    BY <2>1, Undisturbed
  <2>3. candidate \in Permits
    BY DEF Permits
  <2> QED BY <1>1, <2>1, <2>2, <2>3, HeldStays DEF ReceivePermit
<1>2. ASSUME NEW s \in Session, NEW task \in Tasks, RunDemo(r, s, task)
      PROVE  FlowInv'
  <2>1. UNCHANGED <<approved, issued, now, installed, allowed>>
    BY <1>2 DEF RunDemo
  <2>2. /\ ApprovalsAreHuman' /\ IssuedAreApproved' /\ Permits' = Permits
        /\ \A purchase : AllowedIsApproved(purchase) => AllowedIsApproved(purchase)'
    BY <2>1, Undisturbed
  <2> QED BY <1>2, <2>1, <2>2, HeldStays DEF RunDemo
<1>3. CASE InstallPermit(r)
  <2>1. UNCHANGED <<approved, issued, now, allowed>>
    BY <1>3 DEF InstallPermit
  <2>2. /\ ApprovalsAreHuman' /\ IssuedAreApproved' /\ Permits' = Permits
        /\ \A purchase : AllowedIsApproved(purchase) => AllowedIsApproved(purchase)'
    BY <2>1, Undisturbed
  <2>3. LET candidate == request[r].candidate
            new == [permit |-> candidate, digest |-> PermitDigest(candidate)]
        IN \/ installed' = installed
           \/ /\ Held(candidate, PermitDigest(candidate))
              /\ installed' = [installed EXCEPT ![request[r].session] = new]
    BY <1>3 DEF InstallPermit, Held
  <2>4. request' = [request EXCEPT ![r] = [pc |-> "done"]]
    BY <1>3 DEF InstallPermit
  <2> QED BY <2>1, <2>2, <2>3, <2>4, HeldStays
<1>4. ASSUME NEW quote \in Quotes, Quoted(r, quote)
      PROVE  FlowInv'
  <2>1. UNCHANGED <<approved, issued, now, installed, allowed>>
    BY <1>4 DEF Quoted
  <2>2. /\ ApprovalsAreHuman' /\ IssuedAreApproved' /\ Permits' = Permits
        /\ \A purchase : AllowedIsApproved(purchase) => AllowedIsApproved(purchase)'
    BY <2>1, Undisturbed
  <2> DEFINE unsigned == AuthorizationRequest(request[r].permit, request[r].digest,
                                              request[r].task, quote)
  <2>3. /\ unsigned.amount \in Int /\ IsOperation(unsigned.operation)
        /\ unsigned.audience = Audience
        /\ unsigned.grantId = request[r].permit.grantId
        /\ unsigned.permitDigest = request[r].digest
    BY <1>4 DEF Quoted, AuthorizationRequest, IsOperation
  <2> HIDE DEF unsigned
  <2>4. Held(request[r].permit, request[r].digest)
    BY <1>4 DEF Quoted
  <2>5. request[r].permit \in Permits
    BY <2>4 DEF Held
  <2>6. \/ request' = [request EXCEPT ![r] = [pc |-> "done"]]
        \/ /\ request' = [request EXCEPT ![r] =
                 [pc |-> "asking",
                  input |-> [permit |-> request[r].permit, request |-> unsigned,
                             signature |-> SignRequest(unsigned, Agent)]]]
           /\ NamesItsPermit(request[r].permit, unsigned)
    BY <1>4, <2>3, <2>4 DEF Quoted, unsigned, NamesItsPermit
  <2> QED BY <2>1, <2>2, <2>3, <2>5, <2>6, HeldStays
<1> QED BY <1>1, <1>2, <1>3, <1>4

\* What the authority allows at this moment was approved: the permit verifies
\* for the approver's key, so it is one it issued; the request is signed by
\* the permit's agent, and names the operation and terms of the permit.
LEMMA AllowedNow ==
    ASSUME FlowInv, NEW r \in Request, request[r].pc = "asking",
           NEW input, input = request[r].input,
           Judgement(input) = {}, RequestAllowed(input.permit, input.request, now)
    PROVE  AllowedIsApproved([permit |-> input.permit, request |-> input.request, at |-> now])
<1> DEFINE permit == input.permit
           asked == input.request
<1>1. /\ permit \in Permits /\ asked.amount \in Int /\ IsOperation(asked.operation)
      /\ input.signature = SignRequest(asked, Agent)
  BY DEF FlowInv, AgentHoldsVerified
<1>2. /\ VerifyPermit(permit) /\ permit.issuer = Issuer
      /\ VerifyRequestSignature(asked, input.signature, permit.agent)
  BY AuthenticatedRequest DEF Judgement
<1>3. permit \in issued
  BY <1>1, <1>2, FlowAssumption DEF Permits
<1>4. PICK k \in 1..Len(approved) : Granted(k, permit)
  BY <1>3 DEF FlowInv, IssuedAreApproved
<1>5. permit.agent = Agent
  BY <1>1, <1>2, SignedByTheAgent
<1> DEFINE terms == [service |-> asked.service, capability |-> asked.capability,
                     network |-> asked.network, mint |-> asked.mint,
                     recipient |-> asked.recipient, amount |-> asked.amount]
<1>6. /\ EvaluateExactOperation(permit.operation, asked.operation) = {}
      /\ EvaluatePurchasePermit(permit, terms, 0, now) = {}
  BY DEF RequestAllowed, Policy
<1>7. /\ ~(now > permit.expiresAt)
      /\ terms.mint = permit.mint /\ terms.recipient = permit.recipient
      /\ ~(terms.amount <= 0)
      /\ ~(terms.amount > 0 /\ terms.amount > permit.maxPerCall)
  BY <1>6, PermittedTerms
<1>8. /\ asked.operation.method = permit.operation.method
      /\ asked.operation.resource = permit.operation.resource
      /\ asked.operation.operation = permit.operation.operation
      /\ asked.operation.datasetId = permit.operation.datasetId
  BY <1>6, ExactOperation
<1>9. /\ permit.grantId = k /\ permit.agent = approved[k].approval.agent
      /\ permit.mint = Terms.mint /\ permit.recipient = Terms.recipient
      /\ permit.maxPerCall = Terms.maxPerCall
      /\ permit.expiresAt = approved[k].at + Ttl
      /\ permit.operation = ApprovedOperation(approved[k].approval)
  BY <1>4, GrantedPermit
<1>10. asked.operation = ApprovedOperation(approved[k].approval)
  BY <1>1, <1>8, <1>9 DEF IsOperation, ApprovedOperation
<1>11. asked.amount <= Terms.maxPerCall
  BY <1>1, <1>7, <1>9, FlowAssumption
<1>12. now \in approved[k].at..(approved[k].at + Ttl)
  <2>1. now \in Nat /\ approved[k].at \in 0..now /\ Ttl \in Nat
    BY FlowAssumption DEF FlowInv, ApprovalsAreHuman
  <2> QED BY <2>1, <1>7, <1>9
<1>13. approved[k].human
  BY DEF FlowInv, ApprovalsAreHuman
<1> QED BY <1>5, <1>7, <1>9, <1>10, <1>11, <1>12, <1>13 DEF AllowedIsApproved

\* The authority's decision.
LEMMA AuthorizeKeeps ==
    ASSUME FlowInv, NEW r \in Request, Authorize(r)
    PROVE  FlowInv'
<1> PICK input : input = request[r].input
  OBVIOUS
<1> PICK purchase : purchase = [permit |-> input.permit, request |-> input.request, at |-> now]
  OBVIOUS
<1>1. /\ request[r].pc = "asking"
      /\ UNCHANGED <<now, approved, issued, installed>>
      /\ request' = [request EXCEPT ![r] = [pc |-> "done"]]
      /\ \/ allowed' = allowed
         \/ /\ Judgement(input) = {} /\ RequestAllowed(input.permit, input.request, now)
            /\ allowed' = allowed \cup {purchase}
  BY DEF Authorize, Step
<1>2. /\ ApprovalsAreHuman' /\ IssuedAreApproved' /\ Permits' = Permits
      /\ \A bought : AllowedIsApproved(bought) => AllowedIsApproved(bought)'
  BY <1>1, Undisturbed DEF FlowInv
<1>3. \A bought \in allowed' : AllowedIsApproved(bought)
  BY <1>1, AllowedNow DEF FlowInv
<1>4. AgentHoldsVerified'
  BY <1>1, <1>2, HeldStays DEF FlowInv, AgentHoldsVerified
<1>5. request' = [q \in Request |-> request'[q]]
  BY <1>1 DEF FlowInv
<1> QED BY <1>1, <1>2, <1>3, <1>4, <1>5 DEF FlowInv

\* Time passes.
LEMMA ClockKeeps ==
    ASSUME FlowInv, FlowTick \/ UNCHANGED flowVars
    PROVE  FlowInv'
<1>1. now' \in Nat /\ now' >= now /\ UNCHANGED <<approved, issued, installed, request, allowed>>
  BY DEF FlowTick, flowVars, FlowInv
<1>2. /\ ApprovalsAreHuman' /\ IssuedAreApproved' /\ Permits' = Permits
      /\ \A bought : AllowedIsApproved(bought) => AllowedIsApproved(bought)'
  BY <1>1, Undisturbed
<1>3. AgentHoldsVerified'
  BY <1>1, <1>2, HeldStays DEF FlowInv, AgentHoldsVerified
<1> QED BY <1>1, <1>2, <1>3 DEF FlowInv

\* So the invariant holds in every reachable state.
LEMMA FlowInvAlways == FlowSpec => []FlowInv
<1>1. FlowInit => FlowInv
  BY FlowInvInit
<1>2. FlowInv /\ [FlowNext]_flowVars => FlowInv'
  <2> SUFFICES ASSUME FlowInv, [FlowNext]_flowVars
               PROVE  FlowInv'
    OBVIOUS
  <2>1. ASSUME NEW approval \in Approvals, NEW code \in BOOLEAN, Approve(approval, code)
        PROVE  FlowInv'
    BY <2>1, ApproveKeeps
  <2>2. ASSUME NEW r \in Request, Authorize(r)
        PROVE  FlowInv'
    BY <2>2, AuthorizeKeeps
  <2>3. CASE FlowTick \/ UNCHANGED flowVars
    BY <2>3, ClockKeeps
  <2> QED BY <2>1, <2>2, <2>3, HandlersKeep DEF FlowNext
<1> QED BY <1>1, <1>2, PTL DEF FlowSpec

-----------------------------------------------------------------------------

\* An allowed purchase is one the human approved with the code: this agent's,
\* exactly this operation, on the approver's terms, in its lifetime
\* (parseApprovalRequest, issuePermit, #authenticate and the policy package).
THEOREM ApprovalCorrect == FlowSpec => []OnlyApprovedIsAllowed
<1>1. FlowInv => OnlyApprovedIsAllowed
  <2> SUFFICES ASSUME FlowInv PROVE OnlyApprovedIsAllowed
    OBVIOUS
  <2>1. DOMAIN approved = 1..Len(approved)
    BY DEF FlowInv, ApprovalsAreHuman
  <2> QED BY <2>1 DEF FlowInv, OnlyApprovedIsAllowed, AllowedIsApproved
<1> QED BY <1>1, FlowInvAlways, PTL

\* A purchase under way holds a permit of this agent that verifies, whatever
\* its session installs meanwhile (installPermit, runDemo).
THEOREM HeldPermitsVerified == FlowSpec => []RunsHoldVerifiedPermits
<1>1. FlowInv => RunsHoldVerifiedPermits
  BY DEF FlowInv, AgentHoldsVerified, Held, RunsHoldVerifiedPermits
<1> QED BY <1>1, FlowInvAlways, PTL

\* Under every permit that this approver issued, what the agent signs is a
\* request that the authority can authenticate while it is fresh, whatever is
\* installed before the quote arrives (runDemo, signAuthorizationRequest,
\* #authenticate).
THEOREM HonestRequestsCorrect == FlowSpec => []HonestRequestsAuthenticate
<1>1. FlowInv => HonestRequestsAuthenticate
  <2> SUFFICES ASSUME FlowInv, NEW r \in Request, request[r].pc = "asking",
                      request[r].input.permit \in issued
               PROVE  Judgement(request[r].input) \subseteq {"REQUEST_TIMESTAMP_OUT_OF_RANGE"}
    BY DEF HonestRequestsAuthenticate
  <2> DEFINE input == request[r].input
             permit == input.permit
             asked == input.request
  <2>1. NamesItsPermit(permit, asked) /\ input.signature = SignRequest(asked, Agent)
    BY DEF FlowInv, AgentHoldsVerified
  <2>2. /\ VerifyPermit(permit) /\ permit.agent = Agent
        /\ asked.permitDigest = PermitDigest(permit)
        /\ ValidRequest(asked) /\ asked.audience = Audience
        /\ asked.grantId = permit.grantId
    BY <2>1 DEF NamesItsPermit, Held
  <2>3. PICK k \in 1..Len(approved) : Granted(k, permit)
    BY DEF FlowInv, IssuedAreApproved
  <2>4. permit.issuer = Issuer /\ permit.network = Terms.network
    BY <2>3, GrantedPermit
  <2>5. permit.network \in {Profile}
    BY <2>4, FlowAssumption
  <2> HIDE DEF input
  <2>6. Authenticate(input, Issuer, {Profile}, Audience, now)
          \subseteq {"REQUEST_TIMESTAMP_OUT_OF_RANGE"}
    BY <2>1, <2>2, <2>4, <2>5, HonestAuthenticates
  <2> QED BY <2>6 DEF Judgement, input
<1> QED BY <1>1, FlowInvAlways, PTL

=============================================================================
