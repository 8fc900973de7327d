-------------------------------- MODULE WebDemo --------------------------------
(***************************************************************************)
(* The demonstration page (src/apps/web/src): the handlers of App.tsx with *)
(* the requests of api.ts they await, and the timeline model.ts derives    *)
(* from what the page holds.  A handler stops at every request, and the    *)
(* buttons that are enabled meanwhile start others.  The servers that      *)
(* answer are external: the agent's sessions and permits are kept as far as *)
(* they decide its answers, and AgentSessions, PermitFlow and EvidenceTrail *)
(* model them.  Buttons that only list further attempts (onExtra) are left  *)
(* out.                                                                    *)
(***************************************************************************)
EXTENDS Naturals, FiniteSets

CONSTANTS
    None,
    Blocks,         \* where a denial is shown: "operation", "budget", or later
    MaxSessions, MaxApprovals, MaxRuns, MaxChecks   \* bounds of the model

ASSUME WebAssumption ==
    {MaxSessions, MaxApprovals, MaxRuns, MaxChecks} \subseteq Nat

VARIABLES
    \* external: what the agent and the approver keep
    created,        \* sessions created, numbered
    live,           \* those that have not ended
    installed,      \* the permit of each session
    issued,         \* permits issued, numbered
    asked,          \* invocations begun, numbered
    checked,        \* verifications begun, numbered
    \* the page
    token,          \* sessionToken
    permit, runs, latest, running, bundle, report, verifying,
    \* its handlers: the effect that starts a session, onApprove (approving
    \* while it is not idle), onRun, and the calls of verify
    loading, approval, run, checks

server == <<created, live, installed, issued, asked>>
shown == <<permit, runs, latest, bundle, report>>
webVars == <<server, checked, token, shown, running, verifying, loading, approval, run, checks>>

Kinds == {"allow", "deny"}
Idle == [pc |-> "idle"]

WebInit ==
    /\ created = 0 /\ live = {} /\ issued = 0 /\ asked = 0 /\ checked = 0
    /\ installed = [s \in 1..MaxSessions |-> None]
    /\ token = None /\ permit = None
    /\ runs = [k \in Kinds |-> None] /\ latest = None /\ running = None
    /\ bundle = None /\ report = None /\ verifying = FALSE
    /\ loading = TRUE
    /\ approval = Idle /\ run = Idle /\ checks = {}

-----------------------------------------------------------------------------
(* Sessions.                                                               *)

\* startSession: a new session and its token, or a failure that is shown.
StartSession(works) ==
    IF works /\ created < MaxSessions
    THEN /\ created' = created + 1
         /\ live' = live \cup {created + 1}
         /\ token' = created + 1
    ELSE UNCHANGED <<created, live, token>>

\* The effect of the page load has its answer.
Loaded(works) ==
    /\ loading
    /\ loading' = FALSE
    /\ StartSession(works)
    /\ UNCHANGED <<installed, issued, asked, checked, shown, running, verifying, approval, run,
                   checks>>

\* A session expires, or is evicted by others.
End(s) ==
    /\ s \in live
    /\ live' = live \ {s}
    /\ UNCHANGED <<created, installed, issued, asked, checked, token, shown, running, verifying,
                   loading, approval, run, checks>>

-----------------------------------------------------------------------------
(* onApprove                                                               *)

\* The form is there while there is no permit.
ClickApprove ==
    /\ permit = None /\ approval = Idle
    /\ issued < MaxApprovals
    /\ approval' = [pc |-> "approving"]
    /\ UNCHANGED <<server, checked, token, shown, running, verifying, loading, run, checks>>

\* The approver refuses a wrong code, with a 401; fails; or signs, and the
\* permit is sent to the agent, if there is a session to send it to.
Approved(answer) ==
    /\ approval.pc = "approving"
    /\ issued' = IF answer = "permit" THEN issued + 1 ELSE issued
    /\ approval' = IF answer = "failure" THEN Idle
                   ELSE IF answer = "permit" /\ token # None
                   THEN [pc |-> "installing", token |-> token, permit |-> issued + 1]
                   ELSE [pc |-> "recovering"]
    /\ permit' = IF approval'.pc = "recovering" THEN None ELSE permit
    /\ UNCHANGED <<created, live, installed, asked, checked, token, runs, latest, bundle, report,
                   running, verifying, loading, run, checks>>

\* POST /permit at the agent: the permit is the session's, or is refused; the
\* answer may be lost.
Install(answer) ==
    /\ approval.pc = "installing"
    /\ answer = "unauthorized" <=> approval.token \notin live
    /\ approval' = [pc |-> "installed", answer |-> answer, permit |-> approval.permit]
    /\ \/ /\ approval.token \in live
          /\ installed' = [installed EXCEPT ![approval.token] = approval.permit]
       \/ answer # "installed" /\ UNCHANGED installed
    /\ UNCHANGED <<created, live, issued, asked, checked, token, shown, running, verifying,
                   loading, run, checks>>

\* Slip: the earlier runs stay.
InstalledBesideEarlier ==
    /\ approval.pc = "installed"
    /\ IF approval.answer = "installed"
       THEN approval' = Idle /\ permit' = approval.permit
       ELSE approval' = [pc |-> "recovering"] /\ permit' = None
    /\ UNCHANGED <<server, checked, token, runs, latest, bundle, report, running, verifying,
                   loading, run, checks>>

\* The permit is installed and shown, in place of all earlier results; or the
\* session is not there, and a new one is needed; or an error is shown.
Installed ==
    /\ approval.pc = "installed"
    /\ IF approval.answer = "installed"
       THEN /\ approval' = Idle
            /\ permit' = approval.permit
            /\ runs' = [k \in Kinds |-> None] /\ latest' = None
            /\ bundle' = None /\ report' = None
       ELSE /\ approval' = IF approval.answer = "unauthorized" THEN [pc |-> "recovering"] ELSE Idle
            /\ permit' = IF approval.answer = "unauthorized" THEN None ELSE permit
            /\ UNCHANGED <<runs, latest, bundle, report>>
    /\ UNCHANGED <<server, checked, token, running, verifying, loading, run, checks>>

\* recoverExpiredSession has its new session.
ApprovalRecovered(works) ==
    /\ approval.pc = "recovering"
    /\ StartSession(works)
    /\ approval' = Idle
    /\ UNCHANGED <<installed, issued, asked, checked, shown, running, verifying, loading, run,
                   checks>>

-----------------------------------------------------------------------------
(* onRun                                                                   *)

ClickRun(kind) ==
    /\ permit # None /\ running = None
    /\ asked < MaxRuns
    /\ asked' = asked + 1
    /\ running' = kind
    /\ run' = [pc |-> "asking", token |-> token, id |-> asked + 1]
    /\ UNCHANGED <<created, live, installed, issued, checked, token, shown, verifying, loading,
                   approval, checks>>

\* What the agent can answer for an invocation: the authority's decision (its
\* receipt names the permit), a refusal (4xx, no decision), a failure, or a
\* 401: the session is not there, or the authority's own refusal passed on.
Answers(kind) ==
    IF run.token \notin live THEN {[decision |-> "UNAUTHORIZED"]}
    ELSE IF installed[run.token] = None THEN {[decision |-> "REFUSED", id |-> run.id]}
    ELSE {[decision |-> "DENY", id |-> run.id, block |-> b, permit |-> installed[run.token]] :
            b \in IF kind = "deny" THEN {"operation"} ELSE Blocks \ {"operation"}}
         \cup {[decision |-> "REFUSED", id |-> run.id], [decision |-> "FAILURE"],
               [decision |-> "UNAUTHORIZED"]}
         \cup (IF kind = "allow" THEN {[decision |-> "ALLOW", id |-> run.id,
                                         permit |-> installed[run.token]]} ELSE {})

\* POST /demo at the agent.
Serve ==
    /\ run.pc = "asking"
    /\ \E answer \in Answers(running) : run' = [pc |-> "answered", answer |-> answer]
    /\ UNCHANGED <<server, checked, token, shown, running, verifying, loading, approval, checks>>

\* finally: the buttons are enabled again.
Finish == run' = Idle /\ running' = None

\* A decision or a refusal is shown; a completed purchase's evidence is fetched.
Answered ==
    LET answer == run.answer
        kept == UNCHANGED <<permit, bundle, report>>
        display == runs' = [runs EXCEPT ![running] = answer] /\ latest' = running
    IN /\ run.pc = "answered"
       /\ CASE answer.decision = "FAILURE" ->
                 Finish /\ kept /\ UNCHANGED <<runs, latest>>
            [] answer.decision = "UNAUTHORIZED" ->
                 /\ run' = [pc |-> "recovering"] /\ permit' = None
                 /\ UNCHANGED <<runs, latest, bundle, report, running>>
            [] answer.decision = "ALLOW" ->
                 /\ display /\ bundle' = None /\ report' = None
                 /\ run' = [pc |-> "exporting", id |-> answer.id]
                 /\ UNCHANGED <<permit, running>>
            [] OTHER -> display /\ Finish /\ kept
       /\ UNCHANGED <<server, checked, token, verifying, loading, approval, checks>>

\* verify is called
Verify(text, owner) ==
    /\ checked' = checked + 1
    /\ verifying' = TRUE
    /\ checks' = checks \cup {[id |-> checked + 1, of |-> text, owner |-> owner]}

\* GET /evidence/:id: the bundle is kept and verified offline, or an error shown.
Exported(works) ==
    /\ run.pc = "exporting"
    /\ IF works
       THEN /\ bundle' = run.id
            /\ Verify(run.id, "run")
            /\ run' = [pc |-> "verifying"]
            /\ UNCHANGED running
       ELSE Finish /\ UNCHANGED <<bundle, checked, verifying, checks>>
    /\ UNCHANGED <<server, token, permit, runs, latest, report, loading, approval>>

RunRecovered(works) ==
    /\ run.pc = "recovering"
    /\ StartSession(works)
    /\ Finish
    /\ UNCHANGED <<installed, issued, asked, checked, shown, verifying, loading, approval, checks>>

-----------------------------------------------------------------------------
(* verify                                                                  *)

ClickVerify ==
    /\ bundle # None /\ ~verifying
    /\ checked < MaxChecks
    /\ Verify(bundle, "button")
    /\ UNCHANGED <<server, token, shown, running, loading, approval, run>>

\* Slip: the state is reset on success only.
VerifiedNoFinally(check, works) ==
    /\ check \in checks
    /\ checks' = checks \ {check}
    /\ IF works THEN report' = check.of /\ verifying' = FALSE ELSE UNCHANGED <<report, verifying>>
    /\ IF check.owner = "run" THEN Finish ELSE UNCHANGED <<run, running>>
    /\ UNCHANGED <<server, checked, token, permit, runs, latest, bundle, loading, approval>>

\* The verifier's report (here: the bundle it is about, whose authorization it
\* verified), or an error.  onRun awaits its own verification.
Verified(check, works) ==
    /\ check \in checks
    /\ checks' = checks \ {check}
    /\ report' = IF works THEN check.of ELSE report
    /\ verifying' = FALSE
    /\ IF check.owner = "run" THEN Finish ELSE UNCHANGED <<run, running>>
    /\ UNCHANGED <<server, checked, token, permit, runs, latest, bundle, loading, approval>>

-----------------------------------------------------------------------------
(* buildTimeline: the state of each step, from the latest run, and from the *)
(* bundle and report when that run was of the approved operation.           *)

Decision(answer, d) == answer.decision = d

BuildTimeline(answer, bundleFetched, verified) ==
    LET denied == Decision(answer, "DENY")
        decided == denied \/ Decision(answer, "ALLOW")
        paid == Decision(answer, "ALLOW")
        blocked(step) == denied /\ answer.block = step
        Reached(condition) == IF condition THEN "done" ELSE "not-reached"
    IN [permission |-> Reached(decided),
        agent |-> Reached(decided),
        operation |-> IF blocked("operation") THEN "blocked" ELSE Reached(decided),
        budget |-> IF blocked("budget") THEN "blocked"
                   ELSE Reached(decided /\ ~blocked("operation")),
        challenge |-> Reached(paid),
        authorized |-> IF ~paid THEN "not-reached"
                       ELSE IF verified THEN "done" ELSE "pending",
        payment |-> Reached(paid),
        result |-> Reached(paid),
        evidence |-> IF denied THEN "not-reached"
                     ELSE IF bundleFetched THEN "done"
                     ELSE IF paid THEN "pending" ELSE "not-reached"]

Timeline == BuildTimeline(runs[latest], latest = "allow" /\ bundle # None,
                          latest = "allow" /\ report # None)

-----------------------------------------------------------------------------
ApprovalStep ==
    \/ \E answer \in {"permit", "unauthorized", "failure"} : Approved(answer)
    \/ \E answer \in {"installed", "unauthorized", "failure"} : Install(answer)
    \/ Installed
    \/ \E works \in BOOLEAN : ApprovalRecovered(works)

RunStep ==
    \/ Serve \/ Answered
    \/ \E works \in BOOLEAN : Exported(works) \/ RunRecovered(works)

VerifyStep == \E check \in checks, works \in BOOLEAN : Verified(check, works)

WebNext ==
    \/ \E works \in BOOLEAN : Loaded(works)
    \/ \E s \in live : End(s)
    \/ ClickApprove \/ ApprovalStep
    \/ \E kind \in Kinds : ClickRun(kind)
    \/ RunStep
    \/ ClickVerify \/ VerifyStep

\* Every request is answered, or fails.
WebSpec ==
    /\ WebInit /\ [][WebNext]_webVars
    /\ WF_webVars(ApprovalStep) /\ WF_webVars(RunStep) /\ WF_webVars(VerifyStep)

-----------------------------------------------------------------------------
(* Properties.                                                             *)

\* The comparison and the timeline set the permit shown against decisions
\* that were made under it: no decision under an earlier permit, and none
\* that arrives late, is ever shown beside another (onApprove, onRun,
\* buildComparison).
ComparesOnePermit ==
    permit # None =>
        \A k \in Kinds :
            runs[k] # None /\ runs[k].decision \in {"ALLOW", "DENY"} => runs[k].permit = permit

\* The buttons come back: a run and a verification end, however they go
\* (the finally clauses of onRun and verify).
ButtonsComeBack ==
    /\ (running # None) ~> (running = None)
    /\ verifying ~> ~verifying

\* A step without backing data is never shown as done: the evidence step is
\* done only when the evidence of the request shown has been fetched.
EvidenceStepIsBacked ==
    latest # None /\ Timeline.evidence = "done" => bundle = runs[latest].id

\* ... and the service's authorization is shown verified only when the
\* verifier's report is about the request shown.
AuthorizedStepIsBacked ==
    latest # None /\ runs[latest].decision = "ALLOW" /\ Timeline.authorized = "done" =>
        report = runs[latest].id

\* A fresh session owns nothing, so the human must approve again: a permit on
\* the page is one its session has, while the session lasts.
PermitIsInstalled ==
    permit # None /\ token \in live => installed[token] = permit

\* A session is given up only when it has ended (recoverExpiredSession).
OnlyEndedSessionsAreReplaced ==
    [][(approval'.pc = "recovering" /\ approval.pc # "recovering")
       \/ (run'.pc = "recovering" /\ run.pc # "recovering")
       => token \notin live]_webVars

=============================================================================
