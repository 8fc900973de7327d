# A verification of the Virtual Haibin spending authority

Virtual Haibin lets a human sign a permit (one service, one exact operation, one
asset and recipient, a cap per call and a cap in total), lets an agent ask for
purchases under it, and has an *authority* pay for them over x402, with evidence
that anybody can check. The property that all of it serves: **the money of one
invocation leaves at most once, a permit's total is never exceeded, and money
that left is accounted for**, whatever crashes, times out, is retried, or runs
concurrently. Around it stand three more: a purchase is one the human approved,
evidence of it says what happened, and the keys and pages on the way there do not
mix things up. This directory states and checks these.

## 1. Inventory

| Component (source) | State | Operations | What is hard, and what makes it correct |
|---|---|---|---|
| Authority store (`apps/authority/src/store`) | SQLite tables `grants` (pinned digest, `reserved_atomic`, `consumed_atomic`) and `invocations` (state, fingerprint, attempt, transaction, result, receipt) | `reserve`, `recordPaymentAttempt`, `confirm`, `fail`, `markReconciliationRequired`, `resolveReconciliation`, `attachReceipt`, `recoverInterruptedInvocations` | Each call is one transaction; any order of calls, by any number of processes. Totals match rows; budget; one permit per grant; decisions are final; receipts tell their row |
| Authority service (`authorize.ts`, `index.ts`) | `#pending` promises, the running calls, the single reconciliation run | `authorize` (authenticate, decide, pay, receipt), `reconcile`, start-up recovery | Awaits between every two store calls; crash at any point; state read before an await and used after it |
| Payment provider (`packages/payments`) | none of its own; blockhash and attempt in flight | `fetchChallenge`, `execute` (sign, `beforeSubmit`, transmit, await confirmation), `lookupSettlement` | The answer of a paid request may be lost; a lookup reads the chain in several calls; a verdict must not be wrong |
| Chain and facilitator (external) | block height, transfers | a sent transfer lands while its blockhash is valid, or never | lands at any time, also after everybody stopped looking |
| Agent (`apps/agent`) | `SessionStore`: sessions, owners of invocation ids, decided ids; requests in flight | `POST /session`, `/permit`, `/demo`, `GET /evidence/:id` | A request outlives its session; the bounded owners map forgets |
| Policy (`packages/policy`, `payment-challenge.ts`, `#authenticate`) | none | `evaluatePurchasePermit`, `evaluateExactOperation`, `selectAndValidateChallenge`, `#authenticate` | boundaries of the amounts; challenges with several terms; what is checked, signed and recorded must be the same |
| Paid service (`apps/service-agent`, `packages/evidence/src/service.ts`) | scenario table, requests in progress | authorization check before the payment gate, fulfilment, acknowledgement | scenario read before and after the payment; bounded table; only authorized requests settle; every report is acknowledged |
| Approver (`apps/approver`) | issuer key, approval code | `POST /approvals` | a permit is altered, another's or expired on its way; only what the human approved may be allowed |
| Evidence and verifier (`packages/evidence`, `apps/verifier`, `evidence-export.ts`) | none | export a bundle; parse and verify it | every honest export must verify; written by one set of rules and read by another; later than the payment |
| Mandates (`packages/mandate`) | none | validate, sign, verify, digest | fields that no check covers |
| Identity (`packages/identity`) | key file, trust file | `readOrCreatePrivateFile`, `publishPublicKey` | overlapping starts, kills between two file calls; one identity for ever |
| Web interface (`apps/web`) | token, permit, runs, bundle, report on the page; requests in flight | approve, run, verify, recover an ended session | answers out of order, late, or about something else than what is shown |
| Audit (`packages/audit`), scripts, deployment | in-memory list | append | - |

How they interact: the agent calls the authority's `/authorize` over HTTP and
relays `/evidence`; the authority service calls its store (synchronous SQLite
transactions) and the provider (HTTP to the paid service, JSON-RPC to the pinned
node); start-up runs recovery, then one reconciliation, then serves, with a
reconciliation every 15 s. Processes share nothing but the database file, the
trust files that publish their public keys, and the chain. The page takes a permit
from the approver and installs it at the agent; the agent asks the paid service for
a quote and the authority for the purchase; the authority sends the service a
signed authorization with the payment and receives a signed acknowledgement; the
page fetches the evidence from the agent and has the verifier judge it.

## 2. Modules

| Module | What it is |
|---|---|
| `AuthorityStore` | the two tables and every mutating method; `StoreSpec` lets any caller call anything in any order |
| `AuthorityService` | EXTENDS the store: processes with their calls, reconciliation, crash and restart; the chain |
| `SpendingPromise` | the abstract promise: `Pay` (at most once, within the total) and `Account` |
| `AuthorityProofs` | theorems of `StoreSpec` and `ServiceSpec`; the service implements the store, and with one process `SpendingPromise` |
| `AgentSessions` | `SessionStore` and the demo requests in flight |
| `AgentSessionsProofs` | theorems of `SessionsSpec` |
| `Mandate` | operators: permits, operations, requests, their validation, signatures and digests |
| `PurchasePolicy` | EXTENDS it: both evaluators, the challenge, `#authenticate`, `#process`'s decision |
| `Payments` | EXTENDS it: the transfer's check before it leaves and after it landed |
| `Evidence` | EXTENDS it: authorization, acknowledgement, receipt, export |
| `EvidenceVerifier` | EXTENDS it: the strict parser and every claim of the report |
| `EvidenceTrail` | EXTENDS that: one purchase from the request to an exported bundle, with retries, restarts, a lying service and the chain |
| `PaidService` | EXTENDS `Evidence`: the service's requests and scenario table |
| `PermitFlow` | EXTENDS `PurchasePolicy`: approver, agent and authority composed over a permit's life |
| `PurchaseLemmas` | lemmas about the operators above: the reasons of a decision, the selected challenge, the attempt, what is signed and exported, the claims of a verdict |
| `EvidenceTrailProofs`, `PaidServiceProofs`, `PermitFlowProofs` | theorems of `TrailSpec`, `PaidServiceSpec` and `FlowSpec` |
| `KeyFiles`, `KeyFilesProofs` | key and trust files, file call by file call; theorems of `KeySpec` |
| `WebDemo`, `WebDemoProofs` | the page and its requests in flight; a theorem of `WebSpec` |
| `MCAuthorityStore`, `MCAuthorityService`, `MCAgentSessions`, `MCEvidenceTrail`, `MCPaidService`, `MCPermitFlow` | instances for TLC |
| `MCEvidence` | `MCEvidenceTrail` with the assumption of the theorems about verdicts, for TLC to evaluate |

### Correspondence

*AuthorityStore.* `permit`, `reserved`, `consumed` are the columns of `grants`; a
record `row[i]` is a row of `invocations`. Columns that only carry evidence are
dropped; a transaction id is named by the attempt whose signature the transaction
carries. A request stands for its fingerprint, which covers its permit, invocation
id and amount, so the columns written with it are read through it. Every method is
one action because `#transaction` runs it between `BEGIN IMMEDIATE` and `COMMIT`
with no await. A method that throws, or returns without writing, leaves the tables
alone and has no action; its condition is a predicate (`IsExisting`,
`GrantConflict`) that the service uses. `Units` writes a sum of amounts as the size
of a set, which the prover handles without recursion. In `AmountPermitted` the
evaluator is the amount rules of `evaluatePurchasePermit`; `ReserveDenied` is
always possible, since any other term may mismatch.

*AuthorityService.* `handler[h].pc` is where an `authorize` call waits:
`challenge` (for `fetchChallenge`), `reserved` (for the provider to sign),
`recorded` (the attempt is durable, nothing sent), `sent`, `paid` (confirmed on the
pinned RPC), `receipt` (for the receipt's signature), `notSubmitted` (the provider
rejected). An action is the code between two of these awaits, with every store call
in it. `recon[p]` is the process's one reconciliation run: the listed rows
(`queue`), the row under lookup with the attempt *as listed*, and the verdict.
`ReadHistory` and `ReadHeight` are the lookup's two reads. `transfer[a]` and
`history` are the chain's: `Land` at any height up to `lastValid`.
Failing store calls are `ReleaseFails`, `SettlementNotRecorded` and
`ReconcileAborts`. `Crash` forgets everything of a process but the store, the chain
and credentials already sent; `Restart` starts with recovery, and the first
reconciliation run opens the server, as `index.ts` does.

*SpendingPromise* is implemented by `AuthorityService` under the mapping
`payments[r]` = settled transfers of request `r`, `accounted` = fingerprints of
CONFIRMED rows (`PromiseKept`, and `PromiseKeptInTheEnd` with fairness).

*AgentSessions.* `sessions` and `owners` are the two Maps, as sequences in insertion
order since eviction and forgetting go by it. Every session lives equally long, so those
past `expiresAt` are the oldest: `expired` counts them, and grows by an event of its own
that the next `#prune` notices. `demo[d]` is a `/demo` request: `body` (authenticated,
its body awaited), `claimed` (awaiting the authority). It keeps its session object
whatever happens to the session. `recorded` is the authority's: whose fingerprint
an invocation has.

*Mandate, PurchasePolicy, Payments, Evidence, EvidenceVerifier* translate pure
functions and keep their order: validation returns what it copies, a failing check
its reason code. Cryptography is symbolic: `Digest(v)` is told apart by `v`, a
signature holds its key, domain and value, and `Verifies` compares them; `NoSignature` and
`NoDigest` are null in their place. A check returns `"ok"` or its error code. `Joined` is
an object literal that spreads another. The value
`Odd` stands for a text or number outside what a schema admits, whatever its form,
and `None` for null. A wire transaction is its instructions, fee payer, blockhash
and payer signature.

*EvidenceTrail.* `row` is one invocation's row with all its evidence columns (`NoRow` before
it is stored), `call`
where its `authorize` call waits (`challenge`, `reserved`, `recorded`, `sent`,
`receipt`), `wire` the paid requests under way, `submitted` and `chain` the
transfers. `Answered` is `fetchChallenge`, `selectAndValidateChallenge`, the
decision in `reserve` and the signing of the service's authorization; `Prepare` is
`execute` up to the recorded attempt, where the client may have signed something
else than what was selected; `Serve` is a service whose answer need not be true. The
clock is the authority's; `Skews` shifts the agent's. What a reader keeps of an
export is `held`. `AuthorityStore` and `AuthorityService` have the opposite
emphasis: many invocations and processes, contents abstracted.

*PaidService.* `connections[c].pc` is where a request waits: `gate` (after the
authorization check), `settling` (inside Pay Kit), `fulfil`, where the report is made and acknowledged
(`Acknowledgement`). `scenarios` is the Map in
insertion order. `authorityKey` is cached at its first successful read.

*PermitFlow.* `approved[k]` is what was asked of the approver and whether with the
code; grant ids are numbered by it (they are random UUIDs). `request[r]` is one HTTP request
to the agent, at its await: `verifying` a permit, `quoting`, `asking` the authority. A request that is not valid is not signed, and ends there.
`allowed` collects what authentication and the static policy let through.

*KeyFiles.* One action per file call of `readOrCreatePrivateFile` and
`publishPublicKey`; opening with truncation and writing are two. A process that has
the temporary file open while another renames it writes the renamed file. `Exit` is
a start that throws. Whether a deployment lets two processes run at once is `overlap`,
chosen at the start and never changed.

*WebDemo.* `token`, `shown` and the three requests in flight (`approval`, `run`, checks)
are the page's; `live` and `installed` the agent's. Every `await` of a handler is a state
of its own, every answer may be late, refused or lost.

Operators commented `Slip` are plausible mistakes at the definition they precede.
No specification uses them; each replaces that definition to show that a property
notices.

## 3. Runs

| Run (cfg) | Question | Bounds |
|---|---|---|
| `store` (AuthorityStore) | do totals, rows, receipts and decisions stay consistent under every order of calls? | 2 grants, 3 permits (two with different totals for one grant), 4 ids, 5 requests (two with different fingerprints for one id) |
| `service` (AuthorityService) | can money leave that no row covers; can a row be CONFIRMED without a settlement; can a verdict hit another attempt; are blocked rows always resolvable; is the abstract promise kept at every step? | 1 process, 2 calls, 2 requests that exceed the permit's total together, 2 attempts, 1 crash, 1 failing store call |
| `liveness` (ServiceLiveness) | is money that left booked in the end, does every unknown outcome and every reservation end? | 1 invocation, 2 calls, 2 attempts, 1 crash |
| `sessions` (AgentSessions) | does an id belong to one session for ever? | 3 sessions where 2 fit, 2 ids, 2 requests in flight |
| `owners_bound` (OwnersBound) | what survives when owners are forgotten? | 4 sessions one at a time, 3 ids, 2 owners remembered |
| `evidence` (Evidence) | does every honest export verify, is every acknowledgement kept exactly when a verifier accepts it, does only what was signed leave, and soon enough; does evidence that somebody kept stay true through a retry, can bundles be recombined, does the online verdict follow the chain? | 3 requests (one permitted, one of another operation, one too dear), 7 answers of the service, a client that may sign for another payee, 2 budgets, time 1..5, 2 attempts (the second up to time `MaxRetryTime` = 1) |
| `paid_service` (PaidService) | does only an authorized request settle, is every report acknowledged, does every request end, whatever the scenario becomes? | 2 connections, 2 ids, 9 requests, table of 1 entry, time 1..2 |
| `key_files` (KeyFiles) | one identity for ever; is the trust file ever half-written while one process publishes at a time? | 2 processes, overlapping or one at a time, 2 readers, 3 seeds, 2 kills |
| `permit_flow` (PermitFlow) | is only what the human approved allowed; do the agent's own requests authenticate? | 1 session, 3 requests, 2 of 4 approvals, 2 stray permits, time 1..3, permits valid for 1 |
| `web_demo` (WebDemo) | does the page compare decisions of one permit; do its buttons come back? | 2 sessions, 2 approvals, 2 runs, 3 verifications |
| `slow_lookup` (SlowLookup) | "it never settled": is that so of every FAILED row? (violated) | a lookup of up to 2 blocks, a margin of 1 |
| `stale_evidence` (StaleEvidence) | "a step without backing data is shown as not reached": is that so of the evidence step? (violated) | 3 sessions, 2 approvals, 3 runs, 5 verifications |

Two attempts are what a retry needs: an attempt that ends and the one that follows.
`Validity = Margin = LookupBlocks = 1` keeps the order of the thresholds of the
code (a lookup is shorter than the margin, each is at least one block), and
`MaxHeight = 6` lets one attempt expire by the margin and another begin, and
expire, after it; no attempt is signed that the height could not outlive. The named bounds
(`MaxHeight`, `MaxCrashes`, `MaxStoreErrors`) stand in guards. Attempts are
symmetric in the safety runs. In `owners_bound` the owners map holds twice the claims live
sessions can have (`2 * MaxSessions * MaxInvocations`), the proportion that makes a
live session safe; the defaults (50,000 for 2 * 100 * 200) have more. A bound of 1
there breaks `EvidenceStaysReadable`.

In the evidence runs one unit of time is each of the permit's lifetime, the request's
age, the clock skew and the timeouts, so each boundary is met and passed (`MaxTime`
5 lies beyond their sum after the issue). A maximum of 2 per call and 3 in total is
exceeded by one unit in the requests and by the committed amounts. A second attempt
is what `ExportsDoNotMix` needs, and one holder of a bundle who may take it at any
time stands for all. A scenario table of one entry is full with the first. Two
processes are what an overlap needs, three seeds what two of them and a restart can
draw. In `permit_flow` a second approval is the permit that is installed while a run
holds the first. The configurations that end in a violation use the smallest bounds that
show their trace. A retry that begins later repeats the times of a first attempt, so
`MaxRetryTime` keeps it at the start of the clock.

`CHECK_DEADLOCK FALSE` stands in every run: a store or service may stop being
called, and the bounds end every behaviour.

### Fairness

Weak fairness of a call's steps (an awaited call returns: every HTTP call has a
timeout), of the reconciliation run (the 15 s timer), of `Restart` (the container is
restarted) and of `Tick`; strong fairness of the two reads of a lookup, which may
fail any number of times but not for ever. Nothing is assumed of clients, of the
holders of a credential, or of store errors; `liveness` has no failing store call,
because after one a row may stay RESERVED until somebody restarts the process.

`EveryRequestEnds` assumes weak fairness of a request's own steps after it arrived
(the gate and the report return). `ButtonsComeBack` assumes that every request of the
page is answered or fails, as `fetch` promises do; nothing is assumed of clicks.
`ComesUp` (`FirstStartKilled`) assumes that a component which is down is started again
(compose's restart policy) and that a start goes on.

### Disagreements found

Two runs end in a violation; each states what the repository says of itself.

* `slow_lookup`: one process. When a lookup takes more blocks than the margin, a
  payment that lands between its two reads is judged expired and its budget
  released (`sqlite-store.ts:257-258`: "it never settled"). The code bounds a
  single RPC call by 10 s, the margin is 20 blocks.
* `stale_evidence`: a later run of the approved operation that is denied keeps the earlier
  purchase's bundle, and the timeline shows it as this request's evidence (`model.ts:3-4`).

Further configurations beside them end in a violation too. TLC finds each one with
`tlc -config X.cfg M`, M being the module that the parenthesis names.

* `TwoProcessesTransmit` (MCAuthorityService, `ReleasedNeverTransmitted`): with two processes on one database, recovery by one and
  a retry make the other's in-flight payment look like the owner of the new
  reservation. It records its attempt and transmits after the row was released,
  which `store/types.ts:71-72` and `docs/payments-x402-sandbox.md:106` exclude.
  `docs/submission/security-and-limitations.md:39` states the assumption that does
  exclude it: one authority process.
* `TwoProcessesBlocked` (MCAuthorityService, `BlockedRowsCanBeResolved`): in the same setting a late `markReconciliationRequired`
  blocks a retried reservation that has no attempt (`docs/payments-x402-sandbox.md:108`).
* `ShortHistory` (MCAuthorityService, `FailedNeverSettled`): one process. Only the newest 50 signatures are searched; an older
  settlement is judged expired (1 for 50 here).
* `ForgottenOwners` (MCAgentSessions, `ClaimedOnce`): at `maxOwnedInvocations` the oldest owner is forgotten and the id
  can be claimed by another session (`sessions.ts:14-15`, `docs/judge-demo-ui.md:49`).
* `ClockAhead` (MCEvidenceTrail, `AllowedIsWithinStaticPolicy`): the authority judges the permit's expiry by its clock and accepts a
  request up to a minute from the future; the verifier judges it at the request's
  `issuedAt`. An honest, confirmed purchase's evidence is INVALID
  (`docs/evidence-and-verification.md:104`).
* `MovedResource` (MCEvidenceTrail, `OutboundIsWhatWasSent`): the export builds the outbound request from today's
  configuration (`evidence-export.ts:91`, `docs/evidence-and-verification.md:63`).
* `ReconciledEvidence` (MCEvidenceTrail, `ConfirmedIsExportable`): a purchase confirmed by reconciliation can never be exported
  (`docs/evidence-and-verification.md:184` and 198).
* `OddReport` (MCEvidenceTrail, `ExportsVerify`): the facilitator's transaction name is stored unbounded and parsed
  bounded, so a confirmed purchase may export an INVALID bundle
  (`apps/authority/src/evidence.test.ts:114`).
* `ReplacedScenario` (MCPaidService, `LostResponseIsLost`): the loss of a response is decided by the scenario after the payment,
  not by the one that was paid through (`service-agent/src/index.ts:115`).
* `HalfWrittenTrust` (KeyFiles, `NeverHalfWritten`): two overlapping starts share the temporary file
  (`key-file.ts:74-75`); one at a time, `HalfWrittenOnlyByTwo` holds.
* `FirstStartKilled` (KeyFiles, `ComesUp`): a kill between creating and writing the key file leaves an empty
  file that no later start replaces (`key-file.ts:7`).
* `StaleReport` (WebDemo, `AuthorizedStepIsBacked`): a verification answered late completes the next purchase's
  authorization step (`model.ts:3-4`).
* `LateSession` (WebDemo, `PermitIsInstalled`): two new sessions answered out of order leave a permit on the page
  that its session has not (`App.tsx:125-126`).
* `WrongCode` (WebDemo, `OnlyEndedSessionsAreReplaced`): a mistyped approval code is taken for an ended session (`App.tsx:16`).

The passing runs, and the theorems under `SingleAuthority` (one process,
`LookupBlocks <= Margin`, a history that holds every transfer), say under which conditions
the promises do hold; `TwoProcessesTransmit`, `TwoProcessesBlocked`, `slow_lookup` and
`ShortHistory` show that none of the three can be dropped.

## 4. Proofs

**Store.** `AuthorityProofs` proves of `StoreSpec`, for every finite set of invocations and any
requests, permits and amounts: type correctness, `LedgerMatchesRows`,
`BudgetNeverExceeded`, `RowsUseThePinnedPermit`, `ReservationsCanBeReturned`,
`ReceiptsTellTheRow` and `DecisionsAreFinal`. `StoreSpec` allows any call at any time, so
this holds whatever processes share the store.

The inductive invariant `StoreInv` is the conjunction of the type invariant, the
pinning, the ledger and the budget. None of these is inductive alone: the budget
needs the pinning (else the total checked is not the total pinned), the ledger
needs the pinning (else a retry changes which grant a row counts for) and the type
invariant. The ledger's argument: the units of a grant in some states are a disjoint
union of one block per row (`Block`), so moving one row adds or removes one block
(`UnitsChange`), and recovery removes the blocks of the released rows at once. A row
in a holding state is one of its grant's blocks, which gives
`ReservationsCanBeReturned`. Assumptions: those named in `AuthorityStore`
(finitely many invocations; NULL is no permit, request or attempt; the permit's and request's
fields are in their domains).

**Service.** It carries this over to the service. Each step of a call, of a
reconciliation run, of recovery or of a failing store call is a `StoreNext` step or leaves
the tables alone (`ServiceImplementsStore`), for any number of processes that crash when
they like; so all of the above holds of `ServiceSpec`. It needs the service's type
correctness and that a call which waits for its receipt has a CONFIRMED row
(`ReceiptsInHand`), which `attachReceipt` asks for.

**One process.** It proves `PaymentsAreCovered`, `ConfirmedWasSettled`,
`BlockedRowsCanBeResolved` and `VerdictsMatchTheRow` for any requests, permits, attempts,
calls, crashes, store errors, validity and margin, under `SingleAuthority`. It proves there
also `ReleasedNeverTransmitted` and `FailedNeverSettled`, the two statements of the
repository that the configurations above break without it. None of these is inductive; the
invariant `ServiceInv` adds

* `CallsArePending`: two calls at one invocation are the same call, since `#pending` of the
  one process has one entry (`SoleCall`);
* `CallsOwnTheirRows`: from its reservation to its end, a call's row is as that call left
  it, so `recordPaymentAttempt` and `confirm` hit the row they were meant for;
* `ListedRowsStayBlocked`: the rows a run has listed stay blocked with the attempt as
  listed until the run gets there, since nothing but the one process's one run resolves
  them, and recovery, which takes RESERVED rows only, runs while no call is in progress;
* `HistoryIsComplete` and `VerdictsAreTrue`: what a lookup did not find in the history was
  valid after it began, and the margin is at least the lookup's length, so what it judges
  expired can no longer land.

The proof shows once what a step of one call may do to the rest (`CallFrame`) and what a
step of the reconciliation run leaves to the calls (`RunFrame`); each part of the invariant is
then kept by each kind of step.

**Promise.** Last it proves `PromiseKept` under `SingleAuthority`. A settlement is `Pay`: by
`PaymentsAreCovered` two settled transfers of one request are both its row's attempt, hence
one; and the units of the settled requests of a permit are among the units of its grant's
RESERVED, blocked and CONFIRMED rows (`SpentIsCovered`), which the ledger bounds by the pinned
total (`BudgetNeverExceeded`, from the store). Every other step leaves the
payments alone (`OnlySettlementPays`) and books only what was paid (`BookingsArePaid`).

**Keys.** `KeyFilesProofs` proves `OneIdentity`, `KeyIsKept` for any number of processes,
readers, seeds and kills, overlapping or not. `OneIdentity` is not inductive: that a
process publishes the file's key needs that the file did not change after it was
read, which needs that only a process between its exclusive creation and its write
finds the file empty, and that this is one process (`OneWriter`); that a reader pins
this key needs that neither the temporary nor the trust file ever holds another
(`PublishesTheKey`). It proves `HalfWrittenOnlyByTwo` as well: while one process runs at a
time, nobody renames the temporary file under its writer, and what is renamed is written
(`OnePublisher`). Assumed: a file state is no seed, and seeds are fresh (`Stat`
draws one never drawn).

**Approval.** `PermitFlowProofs` proves `OnlyApprovedIsAllowed`, `RunsHoldVerifiedPermits` and
`HonestRequestsAuthenticate` for any sessions, requests, approvals, strays, tasks and quotes.
The invariant says that every issued permit is signed over terms that were approved with
the code (`IssuedAreApproved`), that what the agent holds has been verified
(`AgentHoldsVerified`), and that a request on its way is a valid one, under a permit the
agent holds, that names it (`NamesItsPermit`). The step that matters is the authority's: a
permit it authenticates carries the issuer's signature over the permit's fields, and only the
approver signs with that key (strays do not verify under it), so it is one of the issued
ones; the policy then binds the request to it. The other direction goes back to the
approver: an issued permit names its agent and the authority's network, and the
agent signed what it sends. Assumed is what `FlowAssumption` states: no stray permit
verifies as the issuer's, amounts are integers, and the approver's terms name the
authority's profile (both come from `VH_DEMO_NETWORK` in `compose.yaml`).

**Service agent.** `PaidServiceProofs` proves `SettledAsAuthorized` and
`ReportsAreAcknowledged`, with the type invariant, for any requests, prices, connections and
size of the scenario table. `PaidServiceInv` says that the table is bounded and holds
entries of received requests (`TableIsBounded`), and that a request which passed the
authorization check and whose credential the gate took still satisfies both when its
report returns, whatever the table says by then (`RequestsAreChecked`). That the authority
keeps the acknowledgement (`AcknowledgementIsKept`) is a chain of equalities through the
check: what the service signs is what it compared with the authorization, and what the
authority compares again. `PaidServiceAssumption` asks that the scenarios which are paid
honestly cost the terms and that an acknowledgement is not null.

**Evidence.** `EvidenceTrailProofs` proves `PaidAsSigned`, `ExportedEvidenceStaysTrue`,
`AcceptedSoonAfterExpiry` and `ExportsDoNotMix`, with the type invariant, for any permit that verifies, any
requests, answers of the service, quotes to the client, resources, timeouts and number of
attempts. `TrailInv` is the conjunction of

* `RowIsConsistent`: a row that was not denied asks for the permit's terms and operation
  (`AsPermitted`), its requirement asks the same (`AskedAsPermitted`), its attempt pays
  that, and once it FAILED, its attempt has failed for good;
* `CallIsConsistent`: what the code knows at each await, among it that the wait for the
  challenge began before the permit's expiry and is not over its timeout;
* `PaymentsAreConsistent`: what left, wherever it is, pays as the row's request says, its
  authorization lasts no longer than the two timeouts together (`LastsAtMost`), and a
  payer's signature is on the chain once;
* `HeldIsTrue`: what an exported bundle says is still so.

`PaidAsSigned` alone is not inductive: that a retry pays as the first request said needs that
only a request with the same fingerprint replaces a row (`SameFingerprint`), and that the
client's transaction pays the selected requirement is `PrepareAttempt`'s check
(`PreparedAttempt`). Evidence of a failure stays true because a signature is final on the chain
once. `ExportsDoNotMix` has an invariant of its own, `ExportInv`: a bundle somebody kept
carries a manifest with the digest of each of its artifacts. Where two exports differ, the
digest of the artifact put in is not that of the manifest (`DigestNamesArtifact`), and one
invalid claim makes the verdict invalid (`InvalidClaim`); the permit, whose digest covers its fields only,
is the same in both. `TrailAssumption` names what is assumed: the permit verifies, times and
amounts are integers, and the payer is text.

**Verdicts.** The same module proves that evidence is worth having: `ExportsVerify`,
`KeptAcknowledgementsVerify` and `OnlineVerdictFollowsTheChain`, for every claim the verifier
makes. The rules that write an export and those that judge it are two sets of functions of different
packages; the proof is that nothing the first lets through fails the second. Its invariant is
`SoundInv`, beside `TrailInv`:

* `DecisionIsSound`: the stored request was authenticated, at the time of the decision and
  not before it was signed; every reason that the verifier's static evaluation will find is
  among those stored, and without a reason the terms agree with the profile and the
  request;
* `AttemptIsSound`: the attempt matches the requirement, whatever the client signed, and goes
  with an authorization for this payment;
* `OutcomeIsSound`: a receipt restates its row, the settlement of a CONFIRMED row is one that a
  lookup found on the chain, its result is one the service sent, with an acknowledgement only if
  `#acceptAcknowledgement` let it through;
* `CallIsSound`: what the call in progress holds and the row does not have yet, at each await.

From there `ExportedBundle` opens the export, `ExportParses` takes it through the strict parser
artifact by artifact, and one lemma per group of claims (`TrustOfExport` to `ServiceOfExport`)
meets each required claim. `ServiceOfConfirmed` shows that the verifier's comparison of an
acknowledgement and the authority's are equivalent, so keeping one decides the verdict. Online,
`PaymentsAreConsistent` supplies that a signature is on the chain once (`OneTransferPaid`), so
of all transactions only the one that settled verifies.

These three assume `WithinTheSchema`, and `KeptAcknowledgementsVerify` that a service key is configured
(`Service # None`). Each part is one that the code gives, or one whose absence is a
disagreement listed in section 3:

* a permit has exactly its schema's fields, as the copy that verification returns and the
  authority stores has (`crypto.ts`, `verifyWith`), and was signed before the clock started;
* the agent's clock is not ahead of the authority's, whatever its delay (else `ClockAhead`);
* the method is POST, the only one `parse.ts:290` reads;
* a restart does not move the paid resource (else `MovedResource`), and its path is its URL's;
* text is within the parser's bounds: the authority's name, the facilitator's report (else
  `OddReport`) and what a decoded challenge may contain (`AnswerIsPlain`);
* a result that is kept fits (`MaxResultBytes`, 16 KiB in `x402-exact-provider.ts:86`, under the
  96 KiB of `parse.ts:41`), and so do all reasons together
  (25 of them, under the 32 of `parse.ts:42`);
* a null, or text out of bounds, is no object (`NullsAreNoRecords`).

All but the last are `WithinBounds`, which TLC evaluates in the run `evidence` (`MCEvidence`); the
last is about untyped model values, which TLC cannot take apart.

**Page.** `WebDemoProofs` proves `ComparesOnePermit` for any bounds. The invariant adds what each
request in flight will bring: the permit an approval will show is the one its session
has or none (`ApprovalIsForItsSession`), what the agent decides under is the permit
shown (`PurchaseIsUnderThePermit`), and an approval and a purchase are never in flight
together (`OneOrTheOther`).

**Sessions.** `AgentSessionsProofs` proves the type invariant and `EvidenceIsOwn` with any bound on the owners map, and
`ClaimedOnce` and `EvidenceStaysReadable` when the map is at least as large as the set of
ids (`OwnersAreKept`; without it `ForgottenOwners` shows `ClaimedOnce` broken; that a map of
twice the live claims keeps `EvidenceStaysReadable` stays with TLC, in `owners_bound`).
`EvidenceIsOwn` holds because the authority's first record
of an id stays. `ClaimedOnce` needs that every id ever claimed has one entry
(`ClaimsAreRemembered`, `OneEntry`): eviction only renames entries (`RetireKeepsIds`), and as
the entries have different ids there are never more of them than ids, so the bound removes
none (`ClaimAppends`). `EvidenceStaysReadable` follows an entry through one step: only the
entries of sessions that end are renamed (`OthersAreEvicted`, `LiveEntriesStay`).

**Model-checked only.** Liveness under fairness (`PromiseKeptInTheEnd` and the other
properties of `liveness`, `EveryRequestEnds`, `ButtonsComeBack`) is out of the prover's reach. Every
safety property that a passing run checks is a theorem, under the assumptions named above; what the
theorems assume away (more processes, a short history, a forgotten owner) stays with TLC, in the
configurations that break it and in `owners_bound`.

## 5. Not modelled

Bytes: canonical JSON, encodings, the parsing of a wire transaction, size limits other
than the result's; real cryptography. The x402 client and Pay Kit beyond what the code
relies on (external). The wallet's key, which a process may draw anew at every start:
an attempt names its payer. Failures of the machine (files survive a kill), file
modes. Schema migration, which runs before any call. Version 1 permits, which the
authority refuses. The audit log and log output, which no decision reads. The
verifier's HTTP and command-line fronts, which are stateless. The page's extra runs
(`onExtra`), which only append to a list, its comparison table and its rendering.
The agent's own restart, which forgets its sessions. Deployment, CI and scripts.

## 6. Plan

1. Theorems: the verdicts with a clock that is ahead by less than the permit's remaining life,
   and with a resource that moved when nothing was paid, where an export still verifies.
2. Runs: reconciliation of two rows in one run under fairness; `PaidService` composed
   with the retries of `EvidenceTrail`; two sessions in `PermitFlow`.
