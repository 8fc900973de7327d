--------------------------- MODULE AuthorityService ---------------------------
(***************************************************************************)
(* The authority service over its store: AuthorityService in               *)
(* src/apps/authority/src/authorize.ts, the provider of                    *)
(* src/packages/payments/src/x402-exact-provider.ts, the start-up and the  *)
(* reconciliation timer of src/apps/authority/src/index.ts, and the chain. *)
(*                                                                         *)
(* A process runs its handlers interleaved at their awaits.  An action is  *)
(* what runs between two awaits whose order with other actors matters:     *)
(* store calls are synchronous, so a store call and the code up to the     *)
(* next await are one action.  Several processes may share the store.      *)
(*                                                                         *)
(* A call that changes nothing (a replay with a stored receipt, a          *)
(* conflict, "in progress", "reconciliation required", a caller joining    *)
(* the pending promise of the same request) is a stuttering step.          *)
(***************************************************************************)
EXTENDS AuthorityStore, Sequences

CONSTANTS
    Process,        \* authority processes sharing the database file
    Handler,        \* authorize calls a process may have in flight
    ProcessOf,      \* the process a handler belongs to
    Validity,       \* blocks for which a fresh blockhash stays valid
    Margin,         \* expiryMarginBlocks
    HistoryLimit,   \* entries getSignaturesForAddress returns
    LookupBlocks,   \* blocks that may pass during one settlement lookup
    MaxHeight,      \* bound: the last block height
    MaxCrashes,     \* bound: process crashes
    MaxStoreErrors  \* bound: store calls that fail (SQLITE_BUSY, I/O)

ASSUME ServiceAssumption ==
    /\ ProcessOf \in [Handler -> Process]
    /\ None \notin Handler \cup Invocation
    /\ {Validity, Margin, HistoryLimit, LookupBlocks} \subseteq Nat
    /\ {MaxHeight, MaxCrashes, MaxStoreErrors} \subseteq Nat

VARIABLES
    mode,           \* mode[p]: "down", "starting" or "serving"
    pending,        \* pending[p][i]: the handler behind #pending's promise
    handler,        \* handler[h]: where an authorize call is
    recon,          \* recon[p]: where the process's reconciliation run is
    height,         \* the chain's confirmed block height
    transfer,       \* transfer[a]: what became of a signed transfer
    history,        \* the transfers that landed, oldest first
    crashes,        \* crashes so far
    storeErrors     \* failed store calls so far

processVars == <<mode, pending, handler, recon>>
chainVars == <<height, transfer, history>>
boundVars == <<crashes, storeErrors>>
serviceVars == <<permit, reserved, consumed, row, mode, pending, handler, recon,
                 height, transfer, history, crashes, storeErrors>>

-----------------------------------------------------------------------------
(* State.                                                                  *)

HandlerPc ==
    {"idle", "challenge", "reserved", "notSubmitted", "recorded", "sent", "paid", "receipt"}

IdleHandler ==
    [pc |-> "idle", request |-> None, attempt |-> None, receipt |-> NoReceipt]

ReconPc == {"idle", "next", "height", "resolve", "receipt"}

Verdict == {"none", "confirmed", "failed_onchain", "expired"}

IdleRecon ==
    [pc |-> "idle", queue |-> {}, invocation |-> None, attempt |-> None,
     since |-> 0, verdict |-> "none", receipt |-> NoReceipt]

\* A transfer once its credential is signed: whose it is, and the last height
\* at which the network accepts it.
TransferStatus == {"unsigned", "signed", "sent", "settled", "failed"}
Unsigned == [status |-> "unsigned", request |-> None, lastValid |-> 0]

ServiceTypeOK ==
    /\ StoreTypeOK
    /\ mode \in [Process -> {"down", "starting", "serving"}]
    /\ pending \in [Process -> [Invocation -> Handler \cup {None}]]
    /\ handler \in [Handler -> [pc : HandlerPc, request : Request \cup {None},
                                attempt : Attempt \cup {None},
                                receipt : Receipt \cup {NoReceipt}]]
    /\ recon \in [Process -> [pc : ReconPc, queue : SUBSET (Invocation \X Attempt),
                              invocation : Invocation \cup {None},
                              attempt : Attempt \cup {None}, since : Nat,
                              verdict : Verdict, receipt : Receipt \cup {NoReceipt}]]
    /\ height \in 0..MaxHeight
    /\ transfer \in [Attempt -> [status : TransferStatus,
                                 request : Request \cup {None}, lastValid : Nat]]
    /\ history \in Seq(Attempt)
    /\ crashes \in 0..MaxCrashes
    /\ storeErrors \in 0..MaxStoreErrors

ServiceInit ==
    /\ StoreInit
    /\ mode = [p \in Process |-> "down"]
    /\ pending = [p \in Process |-> [i \in Invocation |-> None]]
    /\ handler = [h \in Handler |-> IdleHandler]
    /\ recon = [p \in Process |-> IdleRecon]
    /\ height = 0
    /\ transfer = [a \in Attempt |-> Unsigned]
    /\ history = <<>>
    /\ crashes = 0
    /\ storeErrors = 0

-----------------------------------------------------------------------------
(* Handlers.                                                               *)

RequestAt(h) == handler[h].request
InvocationAt(h) == InvocationOf[RequestAt(h)]

GoTo(h, pc) == handler' = [handler EXCEPT ![h].pc = pc]

\* The end of authorize, by a result or an exception: the finally block drops
\* the promise from #pending.
Finish(h) ==
    /\ handler' = [handler EXCEPT ![h] = IdleHandler]
    /\ pending' = [pending EXCEPT ![ProcessOf[h]][InvocationAt(h)] = None]

\* ensureReceipt: the receipt is built from the row as it was read, signed
\* (await), and attached later.
GoToReceipt(h, r, inv) ==
    handler' = [handler EXCEPT ![h] = [pc |-> "receipt", request |-> r, attempt |-> None,
                                       receipt |-> ReceiptOf(inv)]]

NeedsReceipt(r) ==
    LET inv == row[InvocationOf[r]]
    IN /\ inv.fingerprint = r
       /\ inv.state \in {"DENIED", "CONFIRMED"}
       /\ inv.receipt = NoReceipt

\* authorize up to the first await of #process: no other call for the id is
\* pending in this process, and the row is read.
Begin(h, r) ==
    LET p == ProcessOf[h]
        i == InvocationOf[r]
    IN /\ mode[p] = "serving"
       /\ handler[h].pc = "idle"
       /\ pending[p][i] = None
       /\ pending' = [pending EXCEPT ![p][i] = h]
       /\ \/ /\ ~IsExisting(r)
             /\ handler' = [handler EXCEPT ![h] = [IdleHandler EXCEPT !.pc = "challenge",
                                                                      !.request = r]]
          \/ /\ NeedsReceipt(r)
             /\ GoToReceipt(h, r, row[i])
       /\ UNCHANGED <<storeVars, mode, recon, chainVars, boundVars>>

\* The service did not answer with a challenge: 502, nothing is written.
ServiceUnavailable(h) ==
    /\ handler[h].pc = "challenge"
    /\ Finish(h)
    /\ UNCHANGED <<storeVars, mode, recon, chainVars, boundVars>>

\* The decision, once the challenge is there or the request is refused
\* without one.
Decide(h) ==
    LET r == RequestAt(h)
    IN /\ handler[h].pc = "challenge"
       /\ \/ /\ ReserveAllowed(r)
             /\ GoTo(h, "reserved")
             /\ UNCHANGED pending
          \/ /\ ReserveDenied(r)
             /\ GoToReceipt(h, r, row'[InvocationOf[r]])
             /\ UNCHANGED pending
          \* existing: decided meanwhile by another process
          \/ /\ IsExisting(r) /\ NeedsReceipt(r)
             /\ GoToReceipt(h, r, row[InvocationOf[r]])
             /\ UNCHANGED <<storeVars, pending>>
          \* existing otherwise, or grant_conflict
          \/ /\ \/ IsExisting(r) /\ ~NeedsReceipt(r)
                \/ ~IsExisting(r) /\ GrantConflict(r)
             /\ Finish(h)
             /\ UNCHANGED storeVars
       /\ UNCHANGED <<mode, recon, chainVars, boundVars>>

\* A row changed by another process makes the store throw
\* InvalidStateTransitionError, which changes nothing.
IfReserved(i, Call) ==
    IF row[i].state = "RESERVED" THEN Call ELSE UNCHANGED storeVars

\* Nothing left the authority: #pay's store.fail, after the credential could
\* not be built, was refused, or its attempt could not be recorded.
ReleaseNotSubmitted(h) ==
    /\ handler[h].pc \in {"reserved", "notSubmitted"}
    /\ IfReserved(InvocationAt(h), Fail(InvocationAt(h)))
    /\ Finish(h)
    /\ UNCHANGED <<mode, recon, chainVars, boundVars>>

\* The same, when store.fail fails: the row stays RESERVED.
ReleaseFails(h) ==
    /\ handler[h].pc \in {"reserved", "notSubmitted"}
    /\ storeErrors < MaxStoreErrors
    /\ storeErrors' = storeErrors + 1
    /\ Finish(h)
    /\ UNCHANGED <<storeVars, mode, recon, chainVars, crashes>>

\* execute up to beforeSubmit: a fresh blockhash, a signed and validated
\* transfer, and recordPaymentAttempt.  A refusal turns into
\* PaymentNotSubmittedError.
\* Bound: a transfer is signed only while the chain can outlive it.
RecordAttempt(h, a) ==
    LET i == InvocationAt(h)
    IN /\ handler[h].pc = "reserved"
       /\ transfer[a] = Unsigned
       /\ height + Validity + Margin < MaxHeight
       /\ transfer' = [transfer EXCEPT ![a] = [status |-> "signed", request |-> RequestAt(h),
                                               lastValid |-> height + Validity]]
       /\ \/ /\ RecordPaymentAttempt(i, a)
             /\ handler' = [handler EXCEPT ![h].pc = "recorded", ![h].attempt = a]
          \/ /\ row[i].state # "RESERVED" \/ row[i].attempt # None
             /\ GoTo(h, "notSubmitted")
             /\ UNCHANGED storeVars
       /\ UNCHANGED <<pending, mode, recon, height, history, boundVars>>

\* The only point at which the credential leaves the authority.
Transmit(h) ==
    /\ handler[h].pc = "recorded"
    /\ transfer' = [transfer EXCEPT ![handler[h].attempt].status = "sent"]
    /\ GoTo(h, "sent")
    /\ UNCHANGED <<storeVars, pending, mode, recon, height, history, boundVars>>

\* Slip: the facilitator's report is trusted.
TrustReport(h) ==
    /\ handler[h].pc = "sent"
    /\ GoTo(h, "paid")
    /\ UNCHANGED <<storeVars, pending, mode, recon, chainVars, boundVars>>

\* A 200 with a settlement report, and awaitConfirmation found the transfer.
ObserveSettled(h) ==
    /\ handler[h].pc = "sent"
    /\ transfer[handler[h].attempt].status = "settled"
    /\ GoTo(h, "paid")
    /\ UNCHANGED <<storeVars, pending, mode, recon, chainVars, boundVars>>

\* Anything else after transmission: PaymentOutcomeUnknownError.
OutcomeUnknown(h) ==
    /\ handler[h].pc = "sent"
    /\ IfReserved(InvocationAt(h), MarkReconciliationRequired(InvocationAt(h)))
    /\ Finish(h)
    /\ UNCHANGED <<mode, recon, chainVars, boundVars>>

\* The settlement is recorded.  If the row is no longer RESERVED, confirm and
\* then markReconciliationRequired throw, and the second is swallowed.
RecordSettlement(h) ==
    LET i == InvocationAt(h)
    IN /\ handler[h].pc = "paid"
       /\ \/ /\ Confirm(i, handler[h].attempt)
             /\ GoToReceipt(h, RequestAt(h), row'[i])
             /\ UNCHANGED pending
          \/ /\ row[i].state # "RESERVED"
             /\ Finish(h)
             /\ UNCHANGED storeVars
       /\ UNCHANGED <<mode, recon, chainVars, boundVars>>

\* confirm fails; the row is marked, or, when that fails too, stays RESERVED.
SettlementNotRecorded(h) ==
    LET i == InvocationAt(h)
    IN /\ handler[h].pc \in {"sent", "paid"}
       /\ storeErrors < MaxStoreErrors
       /\ storeErrors' = storeErrors + 1
       /\ \/ handler[h].pc = "paid" /\ MarkReconciliationRequired(i)
          \/ UNCHANGED storeVars
       /\ Finish(h)
       /\ UNCHANGED <<mode, recon, chainVars, crashes>>

\* The signed receipt is stored, unless one was.
SignReceipt(h) ==
    /\ handler[h].pc = "receipt"
    /\ AttachReceipt(InvocationAt(h), handler[h].receipt)
    /\ Finish(h)
    /\ UNCHANGED <<mode, recon, chainVars, boundVars>>

-----------------------------------------------------------------------------
(* The chain and the holders of a transmitted credential.  Once sent, a    *)
(* transfer lands at any time up to its last valid height, or never.       *)

Land(a, status) ==
    /\ transfer[a].status = "sent"
    /\ height <= transfer[a].lastValid
    /\ transfer' = [transfer EXCEPT ![a].status = status]
    /\ history' = Append(history, a)
    /\ UNCHANGED <<storeVars, processVars, height, boundVars>>

\* Assumption: a settlement lookup takes at most LookupBlocks blocks.
Tick ==
    /\ height < MaxHeight
    /\ \A p \in Process :
          recon[p].pc = "height" => height < recon[p].since + LookupBlocks
    /\ height' = height + 1
    /\ UNCHANGED <<storeVars, processVars, transfer, history, boundVars>>

\* What getSignaturesForAddress returns: the newest entries.
Recent == {history[k] : k \in {n \in DOMAIN history : n + HistoryLimit > Len(history)}}

-----------------------------------------------------------------------------
(* Reconciliation: one run at a time in a process, at start-up before      *)
(* serving and then on a timer; one lookup at a time in a run.             *)

InRecon(p, pc) == recon[p].pc = pc

\* Slip: only start-up reconciles.
ReconcileAtStartupOnly(p) ==
    /\ mode[p] = "starting"
    /\ InRecon(p, "idle")
    /\ recon' = [recon EXCEPT ![p] = [IdleRecon EXCEPT
          !.pc = "next",
          !.queue = {<<i, row[i].attempt>> :
                        i \in {j \in InState({"RECONCILIATION_REQUIRED"}) :
                                 row[j].attempt # None}}]]
    /\ UNCHANGED <<storeVars, mode, pending, handler, chainVars, boundVars>>

\* The rows are listed once; a row with no attempt is only reported.
ReconcileStart(p) ==
    /\ mode[p] \in {"starting", "serving"}
    /\ InRecon(p, "idle")
    /\ recon' = [recon EXCEPT ![p] = [IdleRecon EXCEPT
          !.pc = "next",
          !.queue = {<<i, row[i].attempt>> :
                        i \in {j \in InState({"RECONCILIATION_REQUIRED"}) :
                                 row[j].attempt # None}}]]
    /\ UNCHANGED <<storeVars, mode, pending, handler, chainVars, boundVars>>

\* On to the next listed row.
NextItem(p) == recon' = [recon EXCEPT ![p] = [IdleRecon EXCEPT !.pc = "next",
                                                               !.queue = recon[p].queue]]

\* #lookup's first reads: the payer's recent transactions.
ReadHistory(p, i, a) ==
    /\ InRecon(p, "next")
    /\ <<i, a>> \in recon[p].queue
    /\ recon' = [recon EXCEPT ![p] =
          [recon[p] EXCEPT !.queue = @ \ {<<i, a>>},
                           !.invocation = i,
                           !.attempt = a,
                           !.since = height,
                           !.pc = IF a \in Recent THEN "resolve" ELSE "height",
                           !.verdict = IF a \notin Recent THEN "none"
                                       ELSE IF transfer[a].status = "settled" THEN "confirmed"
                                       ELSE "failed_onchain"]]
    /\ UNCHANGED <<storeVars, mode, pending, handler, chainVars, boundVars>>

\* Slip: the blockhash counts as expired without the margin, or never.
ReadHeightWithoutMargin(p) ==
    /\ InRecon(p, "height")
    /\ IF height > transfer[recon[p].attempt].lastValid
       THEN recon' = [recon EXCEPT ![p].pc = "resolve", ![p].verdict = "expired"]
       ELSE NextItem(p)
    /\ UNCHANGED <<storeVars, mode, pending, handler, chainVars, boundVars>>
ReadHeightNeverExpired(p) ==
    /\ InRecon(p, "height")
    /\ NextItem(p)
    /\ UNCHANGED <<storeVars, mode, pending, handler, chainVars, boundVars>>

\* #lookup's last read; a transfer that may still be valid stays pending.
ReadHeight(p) ==
    /\ InRecon(p, "height")
    /\ \/ /\ height > transfer[recon[p].attempt].lastValid + Margin
          /\ recon' = [recon EXCEPT ![p].pc = "resolve", ![p].verdict = "expired"]
       \/ /\ height <= transfer[recon[p].attempt].lastValid + Margin
          /\ NextItem(p)
    /\ UNCHANGED <<storeVars, mode, pending, handler, chainVars, boundVars>>

\* An RPC call fails, or what it found is inconclusive: the row is left.
LookupFails(p) ==
    /\ \/ InRecon(p, "height") /\ NextItem(p)
       \/ /\ InRecon(p, "next")
          /\ \E item \in recon[p].queue :
                recon' = [recon EXCEPT ![p].queue = @ \ {item}]
    /\ UNCHANGED <<storeVars, mode, pending, handler, chainVars, boundVars>>

\* resolveReconciliation, applied to whatever the row is now; in any state but
\* RECONCILIATION_REQUIRED it throws and the run counts it already resolved.
Resolve(p) ==
    LET i == recon[p].invocation
    IN /\ InRecon(p, "resolve")
       /\ \/ /\ recon[p].verdict = "confirmed"
             /\ ResolveConfirmed(i, recon[p].attempt)
             /\ recon' = [recon EXCEPT ![p].pc = "receipt",
                                       ![p].receipt = ReceiptOf(row'[i])]
          \/ /\ recon[p].verdict \in {"failed_onchain", "expired"}
             /\ ResolveFailed(i)
             /\ NextItem(p)
          \/ /\ row[i].state # "RECONCILIATION_REQUIRED"
             /\ NextItem(p)
             /\ UNCHANGED storeVars
       /\ UNCHANGED <<mode, pending, handler, chainVars, boundVars>>

ReconcileReceipt(p) ==
    /\ InRecon(p, "receipt")
    /\ AttachReceipt(recon[p].invocation, recon[p].receipt)
    /\ NextItem(p)
    /\ UNCHANGED <<mode, pending, handler, chainVars, boundVars>>

\* The end of a run; the one at start-up opens the server.
EndRun(p) ==
    /\ recon' = [recon EXCEPT ![p] = IdleRecon]
    /\ mode' = [mode EXCEPT ![p] = "serving"]

ReconcileEnd(p) ==
    /\ InRecon(p, "next") /\ recon[p].queue = {}
    /\ EndRun(p)
    /\ UNCHANGED <<storeVars, pending, handler, chainVars, boundVars>>

\* A store call fails, which ends the run: the rest waits for the next one.
ReconcileAborts(p) ==
    /\ recon[p].pc \in {"resolve", "receipt"}
    /\ storeErrors < MaxStoreErrors
    /\ storeErrors' = storeErrors + 1
    /\ EndRun(p)
    /\ UNCHANGED <<storeVars, pending, handler, chainVars, crashes>>

-----------------------------------------------------------------------------
(* Processes.                                                              *)

\* Everything but the store, the chain and transmitted credentials is lost.
Crash(p) ==
    /\ mode[p] # "down"
    /\ crashes < MaxCrashes
    /\ crashes' = crashes + 1
    /\ mode' = [mode EXCEPT ![p] = "down"]
    /\ pending' = [pending EXCEPT ![p] = [i \in Invocation |-> None]]
    /\ handler' = [h \in Handler |-> IF ProcessOf[h] = p THEN IdleHandler ELSE handler[h]]
    /\ recon' = [recon EXCEPT ![p] = IdleRecon]
    /\ UNCHANGED <<storeVars, chainVars, storeErrors>>

\* Start-up recovers every RESERVED row before anything else.
Restart(p) ==
    /\ mode[p] = "down"
    /\ RecoverInterrupted
    /\ mode' = [mode EXCEPT ![p] = "starting"]
    /\ UNCHANGED <<pending, handler, recon, chainVars, boundVars>>

-----------------------------------------------------------------------------
(* The service.                                                            *)

\* A handler's progress when the store answers.
HandlerStep(h) ==
    \/ ServiceUnavailable(h)
    \/ Decide(h)
    \/ ReleaseNotSubmitted(h)
    \/ \E a \in Attempt : RecordAttempt(h, a)
    \/ Transmit(h)
    \/ ObserveSettled(h)
    \/ OutcomeUnknown(h)
    \/ RecordSettlement(h)
    \/ SignReceipt(h)

ReconcileStep(p) ==
    \/ ReconcileStart(p)
    \/ \E i \in Invocation, a \in Attempt : ReadHistory(p, i, a)
    \/ ReadHeight(p)
    \/ LookupFails(p)
    \/ Resolve(p)
    \/ ReconcileReceipt(p)
    \/ ReconcileEnd(p)

ServiceNext ==
    \/ \E h \in Handler : \/ \E r \in Request : Begin(h, r)
                          \/ HandlerStep(h)
                          \/ ReleaseFails(h)
                          \/ SettlementNotRecorded(h)
    \/ \E p \in Process : ReconcileStep(p) \/ ReconcileAborts(p) \/ Crash(p) \/ Restart(p)
    \/ \E a \in Attempt : Land(a, "settled") \/ Land(a, "failed")
    \/ Tick

ServiceSpec == ServiceInit /\ [][ServiceNext]_serviceVars

\* Awaited calls return, the timer fires, a process that stopped is started
\* again, blocks are produced, and a row's lookup does not fail for ever.
\* No client has to call, no credential has to be presented to the chain.
Fairness ==
    /\ \A h \in Handler : WF_serviceVars(HandlerStep(h))
    /\ \A p \in Process : /\ WF_serviceVars(ReconcileStep(p))
                          /\ WF_serviceVars(Restart(p))
                          /\ SF_serviceVars(ReadHeight(p))
                          /\ \A i \in Invocation, a \in Attempt :
                                SF_serviceVars(ReadHistory(p, i, a))
    /\ WF_serviceVars(Tick)

ServiceFairSpec == ServiceSpec /\ Fairness

-----------------------------------------------------------------------------
(* Properties.                                                             *)

\* A transfer whose money has left or may still leave.
Live(a) == \/ transfer[a].status = "settled"
           \/ transfer[a].status = "sent" /\ height <= transfer[a].lastValid

\* Money that has left, or may still leave, belongs to a row that holds or
\* has spent its amount and that names the very transfer: no release (a
\* failed call, recovery, an "expired" verdict) precedes a settlement.
PaymentsAreCovered ==
    \A a \in Attempt :
        Live(a) => LET inv == row[InvocationOf[transfer[a].request]]
                   IN /\ inv.fingerprint = transfer[a].request
                      /\ inv.attempt = a
                      /\ inv.state \in {"RESERVED", "RECONCILIATION_REQUIRED", "CONFIRMED"}

\* No row is CONFIRMED but by the settlement of the attempt it recorded,
\* whoever recorded it and whichever lookup found it.
ConfirmedWasSettled ==
    \A i \in InState({"CONFIRMED"}) :
        LET tx == row[i].transaction
        IN /\ tx # None
           /\ tx = row[i].attempt
           /\ transfer[tx].status = "settled"
           /\ transfer[tx].request = row[i].fingerprint

\* A row is blocked only with the attempt that can unblock it: a payment is
\* never left unresolvable ("no_attempt_recorded").
BlockedRowsCanBeResolved ==
    \A i \in InState({"RECONCILIATION_REQUIRED"}) : row[i].attempt # None

\* A verdict is applied to the attempt it was reached for: while a lookup is
\* under way, no release and retry puts another attempt in its row.
VerdictsMatchTheRow ==
    \A p \in Process :
        recon[p].pc = "resolve" =>
            LET inv == row[recon[p].invocation]
            IN inv.state = "RECONCILIATION_REQUIRED" => inv.attempt = recon[p].attempt

\* "A process still in flight cannot transmit after its row was released"
\* (store/types.ts, recoverInterruptedInvocations).
ReleasedNeverTransmitted ==
    \A a \in Attempt :
        transfer[a].status = "sent" /\ height <= transfer[a].lastValid
            => row[InvocationOf[transfer[a].request]].state # "FAILED"

\* A FAILED invocation "never settled" (sqlite-store.ts, at the statement that
\* clears its payment evidence for a retry).
FailedNeverSettled ==
    \A i \in InState({"FAILED"}) :
        row[i].attempt # None => transfer[row[i].attempt].status # "settled"

\* The service keeps the authority's promise: see SpendingPromise.
Payments == [r \in Request |->
    Cardinality({a \in Attempt : transfer[a].status = "settled" /\ transfer[a].request = r})]
Accounted == {row[i].fingerprint : i \in InState({"CONFIRMED"})}
Promise == INSTANCE SpendingPromise WITH payments <- Payments, accounted <- Accounted

\* Money leaves at most once for an invocation, within the total the human
\* signed for one permit per grant, and only money that left is booked, once.
PromiseKept == Promise!Spec

\* And all money that left is booked in the end, whatever crashed.
PromiseKeptInTheEnd == Promise!FairSpec

\* A payment whose outcome is unknown is resolved in the end.
ReconciliationEnds ==
    \A i \in Invocation :
        row[i].state = "RECONCILIATION_REQUIRED" ~> row[i].state # "RECONCILIATION_REQUIRED"

\* A reservation does not stay in progress for ever.
ReservationsEnd ==
    \A i \in Invocation : row[i].state = "RESERVED" ~> row[i].state # "RESERVED"

=============================================================================
