------------------------------- MODULE PermitFlow -------------------------------
(***************************************************************************)
(* From the human's approval to the authority's decision: the approver     *)
(* (src/apps/approver/src), the agent's handlers that install a permit and *)
(* run a purchase under it (src/apps/agent/src/server.ts), and the         *)
(* authority's judgement of what arrives.  A handler stops at every await,  *)
(* and another request of the session may change the installed permit      *)
(* meanwhile; AgentSessions models the sessions' own life.                 *)
(***************************************************************************)
EXTENDS PurchasePolicy

CONSTANTS
    Session,        \* the agent's sessions
    Request,        \* POST /permit and POST /demo requests, each used once
    Approvals,      \* bodies of POST /approvals
    Terms,          \* ApprovalTerms: what the human is willing to authorize
    Strays,         \* permits that did not come from this approver
    Tasks,          \* what a caller asks the agent to buy
    Quotes,         \* what the service may quote
    Issuer, Agent, Audience, Profile,
    Ttl,            \* terms.ttlMs
    MaxApprovals, MaxNow    \* bounds of the model

\* Nobody else can sign as the approver, amounts are numbers, and the approver
\* issues for the authority's network profile (VH_DEMO_NETWORK in compose.yaml).
ASSUME FlowAssumption ==
    /\ {Ttl, MaxApprovals, MaxNow} \subseteq Nat
    /\ \A stray \in Strays : VerifyPermit(stray) => stray.issuer # Issuer
    /\ Terms.maxPerCall \in Int /\ Terms.network = Profile
    /\ \A quote \in Quotes : quote.amount \in Int
    /\ \A task \in Tasks : task.amount \in Int \cup {None}

VARIABLES
    now,
    approved,       \* what the human approved, and when; the k-th has grant k
    issued,         \* the permits issued
    installed,      \* session.installed, or null
    request,        \* what the agent is doing for each request
    allowed         \* purchases the authority allowed

flowVars == <<now, approved, issued, installed, request, allowed>>

Free == [pc |-> "free"]

FlowInit ==
    /\ now = 1
    /\ approved = <<>>
    /\ issued = {}
    /\ installed = [s \in Session |-> None]
    /\ request = [r \in Request |-> Free]
    /\ allowed = {}

-----------------------------------------------------------------------------
(* The approver.                                                           *)

ApprovedOperation(approval) ==
    [method |-> Terms.method, resource |-> Terms.resource,
     operation |-> approval.operation, datasetId |-> approval.datasetId]

\* parseApprovalRequest: the agent, the operation and the dataset are chosen,
\* and nothing else can be.
ParseApprovalRequest(approval) ==
    /\ DOMAIN approval = {"agent", "operation", "datasetId"}
    /\ approval.agent # Odd
    /\ ValidOperation(ApprovedOperation(approval))

\* issuePermit
IssuePermit(approval, grantId, at) ==
    SignPermit(
        [version |-> 2, grantId |-> grantId, issuer |-> Issuer, agent |-> approval.agent,
         service |-> Terms.service, capability |-> Terms.capability,
         network |-> Terms.network, mint |-> Terms.mint, recipient |-> Terms.recipient,
         maxPerCall |-> Terms.maxPerCall, maxTotal |-> Terms.maxTotal,
         issuedAt |-> at, expiresAt |-> at + Ttl, subdelegation |-> FALSE,
         operation |-> ApprovedOperation(approval)], Issuer)

\* POST /approvals, with the human's code or without; each approval is a new
\* grant with a budget of its own.
Approve(approval, code) ==
    LET permit == IssuePermit(approval, Len(approved) + 1, now)
    IN /\ code
       /\ ParseApprovalRequest(approval) /\ permit # None
       /\ approved' = Append(approved, [approval |-> approval, at |-> now, human |-> code])
       /\ issued' = issued \cup {permit}
       /\ UNCHANGED <<now, installed, request, allowed>>

-----------------------------------------------------------------------------
(* The agent installs a permit.                                            *)

Step(r, record) == request' = [request EXCEPT ![r] = record]

\* POST /permit: the session is found, and the verification begins.
ReceivePermit(r, s, candidate) ==
    /\ request[r] = Free
    /\ Step(r, [pc |-> "verifying", session |-> s, candidate |-> candidate])
    /\ UNCHANGED <<now, approved, issued, installed, allowed>>

\* Slip: only the agent's name is compared.
InstallUnverified(r) ==
    LET candidate == request[r].candidate
        session == request[r].session
    IN /\ request[r].pc = "verifying"
       /\ installed' = IF candidate.agent # Agent THEN installed
            ELSE [installed EXCEPT ![session] =
                    [permit |-> candidate, digest |-> PermitDigest(candidate)]]
       /\ Step(r, [pc |-> "done"])
       /\ UNCHANGED <<now, approved, issued, allowed>>

\* installPermit: verified by its own issuer's key, and this agent's.
InstallPermit(r) ==
    LET candidate == request[r].candidate
        session == request[r].session
        valid == VerifyPermit(candidate) /\ candidate.agent = Agent
    IN /\ request[r].pc = "verifying"
       /\ installed' = IF ~valid THEN installed
            ELSE [installed EXCEPT ![session] =
                    [permit |-> candidate, digest |-> PermitDigest(candidate)]]
       /\ Step(r, [pc |-> "done"])
       /\ UNCHANGED <<now, approved, issued, allowed>>

-----------------------------------------------------------------------------
(* The agent buys.                                                         *)

\* POST /demo: runDemo takes the session's permit, and asks for a quote.
RunDemo(r, s, task) ==
    /\ request[r] = Free
    /\ Step(r, IF installed[s] = None THEN [pc |-> "done"]
               ELSE [pc |-> "quoting", session |-> s, task |-> task,
                     permit |-> installed[s].permit, digest |-> installed[s].digest])
    /\ UNCHANGED <<now, approved, issued, installed, allowed>>

\* What runDemo asks the authority for: the quote's terms, the agent's task.
AuthorizationRequest(permit, digest, task, quote) ==
    [version |-> 2, audience |-> Audience, grantId |-> permit.grantId,
     permitDigest |-> digest, invocationId |-> task.invocationId,
     service |-> quote.service, capability |-> quote.capability,
     network |-> quote.network, mint |-> quote.mint, recipient |-> quote.recipient,
     amount |-> IF task.amount = None THEN quote.amount ELSE task.amount,
     issuedAt |-> now,
     operation |-> [method |-> quote.method, resource |-> quote.resource,
                    operation |-> task.operation, datasetId |-> task.datasetId]]

\* Slip: after the quote, the permit is the one installed by then.
QuotedWithInstalled(r, quote) ==
    LET run == request[r]
        permit == installed[run.session].permit
        unsigned == AuthorizationRequest(permit, run.digest, run.task, quote)
    IN /\ run.pc = "quoting"
       /\ Step(r, IF ~ValidRequest(unsigned) THEN [pc |-> "done"]
                  ELSE [pc |-> "asking",
                        input |-> [permit |-> permit, request |-> unsigned,
                                   signature |-> SignRequest(unsigned, Agent)]])
       /\ UNCHANGED <<now, approved, issued, installed, allowed>>

\* The quote has arrived (and the scenario, if any, is set): an operation
\* that is none is refused, and so is a request that cannot be signed;
\* otherwise it is signed and sent.
Quoted(r, quote) ==
    LET run == request[r]
        unsigned == AuthorizationRequest(run.permit, run.digest, run.task, quote)
    IN /\ run.pc = "quoting"
       /\ Step(r, IF ~ValidRequest(unsigned) THEN [pc |-> "done"]
                  ELSE [pc |-> "asking",
                        input |-> [permit |-> run.permit, request |-> unsigned,
                                   signature |-> SignRequest(unsigned, Agent)]])
       /\ UNCHANGED <<now, approved, issued, installed, allowed>>

Judgement(input) == Authenticate(input, Issuer, {Profile}, Audience, now)

\* Slip: any operation of the permitted resource will do.
AuthorizeAnyOperation(r) ==
    LET input == request[r].input
        permit == input.permit
    IN /\ request[r].pc = "asking"
       /\ allowed' = IF /\ Judgement(input) = {}
                        /\ EvaluatePurchasePermit(permit, input.request, 0, now) = {}
                     THEN allowed \cup {[permit |-> permit, request |-> input.request,
                                         at |-> now]}
                     ELSE allowed
       /\ Step(r, [pc |-> "done"])
       /\ UNCHANGED <<now, approved, issued, installed>>

\* POST /authorize: authenticated, and permitted by the static policy (the
\* budget and the service's challenge come after, in the other modules).
Authorize(r) ==
    LET input == request[r].input
    IN /\ request[r].pc = "asking"
       /\ allowed' = IF /\ Judgement(input) = {}
                        /\ RequestAllowed(input.permit, input.request, now)
                     THEN allowed \cup {[permit |-> input.permit, request |-> input.request,
                                         at |-> now]}
                     ELSE allowed
       /\ Step(r, [pc |-> "done"])
       /\ UNCHANGED <<now, approved, issued, installed>>

FlowTick ==
    /\ now < MaxNow
    /\ now' = now + 1
    /\ UNCHANGED <<approved, issued, installed, request, allowed>>

FlowNext ==
    \/ /\ Len(approved) < MaxApprovals
       /\ \E approval \in Approvals, code \in BOOLEAN : Approve(approval, code)
    \/ \E r \in Request :
          \/ /\ request[r] = Free
             /\ \E s \in Session :
                  \/ \E candidate \in issued \cup Strays : ReceivePermit(r, s, candidate)
                  \/ \E task \in Tasks : RunDemo(r, s, task)
          \/ InstallPermit(r)
          \/ request[r].pc = "quoting" /\ \E quote \in Quotes : Quoted(r, quote)
          \/ Authorize(r)
    \/ FlowTick

FlowSpec == FlowInit /\ [][FlowNext]_flowVars

-----------------------------------------------------------------------------
(* Properties.                                                             *)

\* Whatever is installed, quoted and asked, and in whatever order, an allowed
\* purchase is one the human approved with the code: for this agent, exactly
\* this operation and dataset, on the approver's terms, and in its lifetime.
OnlyApprovedIsAllowed ==
    \A purchase \in allowed :
        \E k \in DOMAIN approved :
            /\ approved[k].human
            /\ purchase.permit.grantId = k
            /\ purchase.request.operation = ApprovedOperation(approved[k].approval)
            /\ purchase.request.recipient = Terms.recipient
            /\ purchase.request.mint = Terms.mint
            /\ purchase.request.amount <= Terms.maxPerCall
            /\ approved[k].approval.agent = Agent
            /\ purchase.at \in approved[k].at..(approved[k].at + Ttl)

\* The agent's request is one the authority can authenticate, for every
\* permit this approver issued, while it is fresh: the agent never mixes two
\* permits, although another may be installed while it waits for the quote.
HonestRequestsAuthenticate ==
    \A r \in Request :
        request[r].pc = "asking" /\ request[r].input.permit \in issued =>
            Judgement(request[r].input) \subseteq {"REQUEST_TIMESTAMP_OUT_OF_RANGE"}

\* A request in progress holds a permit of this agent that verifies, although
\* its session may hold another by now.
RunsHoldVerifiedPermits ==
    \A r \in Request :
        request[r].pc = "quoting" =>
            /\ VerifyPermit(request[r].permit)
            /\ request[r].permit.agent = Agent
            /\ request[r].digest = PermitDigest(request[r].permit)

=============================================================================
