------------------------------ MODULE WebDemoProofs ------------------------------
(***************************************************************************)
(* That the page never shows a decision beside a permit it was not made     *)
(* under, for any number of sessions, approvals, purchases and              *)
(* verifications, and any order of their answers.                          *)
(***************************************************************************)
EXTENDS WebDemo, TLAPS

Buying == {"asking", "answered", "exporting", "verifying"}
Decided(answer) == answer.decision \in {"ALLOW", "DENY"}

\* A new session has no permit, and the page's token is of a session that was created.
SessionsAreFresh ==
    /\ created \in 0..MaxSessions
    /\ installed = [s \in 1..MaxSessions |-> installed[s]]
    /\ \A s \in 1..MaxSessions : s > created => installed[s] = None
    /\ token = None \/ token \in 1..created

\* Approvals and purchases exclude each other: the form is there without a
\* permit only, the buttons with one only.
OneOrTheOther ==
    /\ approval # Idle => permit = None
    /\ run.pc \in Buying => permit # None

\* What an approval in progress will show is what the page's session has, or
\* that session is a new one.
ApprovalIsForItsSession ==
    /\ approval.pc = "installing" =>
         /\ approval.token \in 1..created
         /\ token \in 1..created
         /\ token = approval.token \/ installed[token] = None
    /\ approval.pc = "installed" /\ approval.answer = "installed" =>
         /\ token \in 1..created
         /\ installed[token] \in {None, approval.permit}

\* What the agent will decide under is the permit shown.
PurchaseIsUnderThePermit ==
    /\ permit # None => token \in 1..created /\ installed[token] \in {None, permit}
    /\ run.pc = "asking" => run.token \in 1..created /\ installed[run.token] \in {None, permit}
    /\ run.pc = "answered" /\ Decided(run.answer) => run.answer.permit = permit

PageInv ==
    /\ runs = [k \in Kinds |-> runs[k]]
    /\ SessionsAreFresh
    /\ OneOrTheOther
    /\ ApprovalIsForItsSession
    /\ PurchaseIsUnderThePermit
    /\ ComparesOnePermit

\* A page that was just opened.
LEMMA PageInvInit == WebInit => PageInv
BY WebAssumption DEF WebInit, PageInv, SessionsAreFresh, OneOrTheOther, ApprovalIsForItsSession,
   PurchaseIsUnderThePermit, ComparesOnePermit, Idle, Buying

\* A session that starts has no permit, and takes none from the page's.
LEMMA StartSessionKeeps ==
    ASSUME PageInv, NEW works, StartSession(works), UNCHANGED installed
    PROVE  /\ SessionsAreFresh'
           /\ created' >= created
           /\ token' = token \/ (token' \in 1..created' /\ installed[token'] = None)
BY WebAssumption DEF StartSession, PageInv, SessionsAreFresh

\* Every handler keeps the invariant (onApprove).
LEMMA ApprovalKeeps ==
    ASSUME PageInv, ClickApprove \/ ApprovalStep
    PROVE  PageInv'
<1> USE WebAssumption DEF PageInv, SessionsAreFresh, OneOrTheOther, ApprovalIsForItsSession,
        PurchaseIsUnderThePermit, ComparesOnePermit, Idle, Buying, Decided, server, shown
<1>1. CASE ClickApprove
  BY <1>1 DEF ClickApprove
<1>2. ASSUME NEW answer \in {"permit", "unauthorized", "failure"}, Approved(answer)
      PROVE  PageInv'
  <2>1. CASE answer = "permit" /\ token # None
    BY <1>2, <2>1 DEF Approved
  <2>2. CASE ~(answer = "permit" /\ token # None)
    BY <1>2, <2>2 DEF Approved
  <2> QED BY <2>1, <2>2
<1>3. ASSUME NEW answer \in {"installed", "unauthorized", "failure"}, Install(answer)
      PROVE  PageInv'
  <2> DEFINE sent == [installed EXCEPT ![approval.token] = approval.permit]
  <2>1. /\ approval.pc = "installing"
        /\ approval' = [pc |-> "installed", answer |-> answer, permit |-> approval.permit]
        /\ installed' = sent \/ (answer # "installed" /\ installed' = installed)
        /\ UNCHANGED <<created, token, permit, run, runs>>
    BY <1>3 DEF Install
  <2>2. /\ approval'.pc = "installed" /\ approval'.permit = approval.permit
        /\ approval'.answer = answer
    BY <2>1
  <2>3. approval # Idle /\ permit = None /\ run.pc \notin Buying
    BY <2>1
  <2> HIDE DEF sent
  <2>4. /\ token \in 1..created
        /\ installed'[token] \in {None, approval.permit} \/ answer # "installed"
        /\ installed' = [s \in 1..MaxSessions |-> installed'[s]]
        /\ \A s \in 1..MaxSessions : s > created => installed'[s] = None
    <3>1. CASE installed' = sent
      <4>1. installed' = [installed EXCEPT ![approval.token] = approval.permit]
        BY <3>1 DEF sent
      <4>2. /\ approval.token \in 1..created
            /\ token \in 1..created
            /\ token = approval.token \/ installed[token] = None
        BY <2>1
      <4>3. DOMAIN installed = 1..MaxSessions /\ 1..created \subseteq 1..MaxSessions
        OBVIOUS
      <4>4. \A s \in 1..MaxSessions :
              installed'[s] = IF s = approval.token THEN approval.permit ELSE installed[s]
        BY <4>1, <4>3
      <4>5. installed' = [s \in 1..MaxSessions |-> installed'[s]]
        BY <4>1, <4>3
      <4>6. approval.token \notin {s \in 1..MaxSessions : s > created}
        BY <4>2
      <4> QED BY <4>2, <4>3, <4>4, <4>5, <4>6
    <3>2. CASE answer # "installed" /\ installed' = installed
      BY <2>1, <3>2
    <3> QED BY <2>1, <3>1, <3>2
  <2> QED BY <2>1, <2>2, <2>3, <2>4
<1>4. CASE Installed
  <2>1. CASE approval.answer = "installed"
    BY <1>4, <2>1 DEF Installed
  <2>2. CASE approval.answer # "installed"
    <3>1. CASE approval.answer = "unauthorized"
      BY <1>4, <2>2, <3>1 DEF Installed
    <3>2. CASE approval.answer # "unauthorized"
      BY <1>4, <2>2, <3>2 DEF Installed
    <3> QED BY <3>1, <3>2
  <2> QED BY <2>1, <2>2
<1>5. ASSUME NEW works \in BOOLEAN, ApprovalRecovered(works)
      PROVE  PageInv'
  <2>1. StartSession(works) /\ UNCHANGED installed
    BY <1>5 DEF ApprovalRecovered
  <2>2. /\ SessionsAreFresh'
        /\ created' >= created
        /\ token' = token \/ (token' \in 1..created' /\ installed[token'] = None)
    BY <2>1, StartSessionKeeps
  <2> QED BY <1>5, <2>2 DEF ApprovalRecovered
<1> QED BY <1>1, <1>2, <1>3, <1>4, <1>5 DEF ApprovalStep

\* ... (onRun)
LEMMA RunKeeps ==
    ASSUME PageInv, RunStep \/ \E kind \in Kinds : ClickRun(kind)
    PROVE  PageInv'
<1> USE WebAssumption DEF PageInv, SessionsAreFresh, OneOrTheOther, ApprovalIsForItsSession,
        PurchaseIsUnderThePermit, ComparesOnePermit, Idle, Buying, Decided, server, shown
<1>1. ASSUME NEW kind \in Kinds, ClickRun(kind)
      PROVE  PageInv'
  BY <1>1 DEF ClickRun
<1>2. CASE Serve
  <2>1. PICK answer \in Answers(running) : run' = [pc |-> "answered", answer |-> answer]
    BY <1>2 DEF Serve
  <2>2. Decided(answer) => answer.permit = installed[run.token] /\ installed[run.token] # None
    BY DEF Answers
  <2> QED BY <1>2, <2>1, <2>2 DEF Serve
<1>3. CASE Answered
  <2>1. CASE run.answer.decision = "FAILURE"
    BY <1>3, <2>1 DEF Answered, Finish
  <2>2. CASE run.answer.decision = "UNAUTHORIZED"
    BY <1>3, <2>2 DEF Answered
  <2>3. CASE run.answer.decision \notin {"FAILURE", "UNAUTHORIZED"}
    <3>1. /\ runs' = [runs EXCEPT ![running] = run.answer]
          /\ run' = Idle \/ run' = [pc |-> "exporting", id |-> run.answer.id]
          /\ UNCHANGED <<server, token, permit, approval>>
      BY <1>3, <2>3 DEF Answered, Finish
    <3>2. \A k \in Kinds : runs'[k] = runs[k] \/ runs'[k] = run.answer
      BY <3>1
    <3>3. run.pc = "answered"
      BY <1>3 DEF Answered
    <3>4. ComparesOnePermit'
      BY <3>1, <3>2, <3>3
    <3>5. runs' = [k \in Kinds |-> runs'[k]]
      BY <3>1
    <3>6. run'.pc \in {"idle", "exporting"} /\ permit # None
      BY <3>1, <3>3
    <3>7. SessionsAreFresh' /\ ApprovalIsForItsSession'
      BY <3>1
    <3>8. OneOrTheOther' /\ PurchaseIsUnderThePermit'
      BY <3>1, <3>6
    <3> HIDE DEF SessionsAreFresh, OneOrTheOther, ApprovalIsForItsSession,
                 PurchaseIsUnderThePermit, ComparesOnePermit
    <3> QED BY <3>4, <3>5, <3>7, <3>8
  <2> QED BY <2>1, <2>2, <2>3
<1>4. ASSUME NEW works \in BOOLEAN, Exported(works)
      PROVE  PageInv'
  BY <1>4 DEF Exported, Finish
<1>5. ASSUME NEW works \in BOOLEAN, RunRecovered(works)
      PROVE  PageInv'
  <2>1. StartSession(works) /\ UNCHANGED installed
    BY <1>5 DEF RunRecovered
  <2>2. /\ SessionsAreFresh'
        /\ created' >= created
        /\ token' = token \/ (token' \in 1..created' /\ installed[token'] = None)
    BY <2>1, StartSessionKeeps
  <2> QED BY <1>5, <2>2 DEF RunRecovered, Finish
<1> QED BY <1>1, <1>2, <1>3, <1>4, <1>5 DEF RunStep

\* ... (the page load's effect, sessions that end, and verify)
LEMMA OthersKeep ==
    ASSUME PageInv,
           \/ \E works \in BOOLEAN : Loaded(works)
           \/ \E s \in live : End(s)
           \/ ClickVerify \/ VerifyStep
           \/ UNCHANGED webVars
    PROVE  PageInv'
<1> USE WebAssumption DEF PageInv, SessionsAreFresh, OneOrTheOther, ApprovalIsForItsSession,
        PurchaseIsUnderThePermit, ComparesOnePermit, Idle, Buying, Decided, server, shown
<1>1. ASSUME NEW works \in BOOLEAN, Loaded(works)
      PROVE  PageInv'
  <2>1. StartSession(works) /\ UNCHANGED installed
    BY <1>1 DEF Loaded
  <2>2. /\ SessionsAreFresh'
        /\ created' >= created
        /\ token' = token \/ (token' \in 1..created' /\ installed[token'] = None)
    BY <2>1, StartSessionKeeps
  <2> QED BY <1>1, <2>2 DEF Loaded
<1>2. ASSUME NEW s \in live, End(s)
      PROVE  PageInv'
  BY <1>2 DEF End
<1>3. CASE ClickVerify
  BY <1>3 DEF ClickVerify
<1>4. ASSUME NEW check \in checks, NEW works \in BOOLEAN, Verified(check, works)
      PROVE  PageInv'
  BY <1>4 DEF Verified, Finish
<1>5. CASE UNCHANGED webVars
  BY <1>5 DEF webVars
<1> QED BY <1>1, <1>2, <1>3, <1>4, <1>5 DEF VerifyStep

\* A decision shown with a permit was made under it (onApprove, onRun,
\* buildComparison).
THEOREM ComparisonCorrect == WebSpec => []ComparesOnePermit
<1>1. WebInit => PageInv
  BY PageInvInit
<1>2. PageInv /\ [WebNext]_webVars => PageInv'
  BY ApprovalKeeps, RunKeeps, OthersKeep DEF WebNext
<1>3. PageInv => ComparesOnePermit
  BY DEF PageInv
<1> QED BY <1>1, <1>2, <1>3, PTL DEF WebSpec

=============================================================================
