---------------------------- MODULE AuthorityStore ----------------------------
(***************************************************************************)
(* The authority's durable store: the grants and invocations tables of     *)
(* src/apps/authority/src/store/sqlite-store.ts.  Every mutating method is *)
(* one BEGIN IMMEDIATE transaction (#transaction), so a method is one      *)
(* action and no intermediate state of a method is ever visible.           *)
(*                                                                         *)
(* A method that throws, or that returns without writing (reserve's        *)
(* "existing" and "grant_conflict" outcomes), leaves the tables alone: it  *)
(* has no action here, and the predicates that decide it (IsExisting,      *)
(* GrantConflict, the states the guards ask for) are used by the modules   *)
(* that model the callers.                                                 *)
(***************************************************************************)
EXTENDS Integers, FiniteSets

CONSTANTS
    Grant,          \* (issuer, grantId) pairs
    Permit,         \* permit digests
    Invocation,     \* invocation ids chosen by agents
    Request,        \* request fingerprints
    Attempt,        \* payment attempts: the payer's signature of one transfer
    None,           \* SQL NULL
    MaxAtomic,      \* MAX_U64, the largest atomic amount
    GrantOf,        \* the grant a permit is for
    MaxTotal,       \* the permit's maxTotalAtomic
    MaxPerCall,     \* the permit's maxPerCallAtomic
    InvocationOf,   \* the invocation id a request is signed for
    PermitOf,       \* the permit a request is bound to
    Amount          \* the request's amountAtomic

ASSUME FiniteAssumption == IsFiniteSet(Invocation)
ASSUME NoneAssumption == None \notin Permit \cup Request \cup Attempt
ASSUME MaxAtomicAssumption == MaxAtomic \in Nat
ASSUME PermitAssumption ==
    /\ GrantOf \in [Permit -> Grant]
    /\ MaxTotal \in [Permit -> 0..MaxAtomic]
    /\ MaxPerCall \in [Permit -> 0..MaxAtomic]
ASSUME RequestAssumption ==
    /\ InvocationOf \in [Request -> Invocation]
    /\ PermitOf \in [Request -> Permit]
    /\ Amount \in [Request -> 0..MaxAtomic]

VARIABLES
    permit,     \* permit[g]: the digest pinned by the grant's row, or None
    reserved,   \* reserved[g]: reserved_atomic
    consumed,   \* consumed[g]: consumed_atomic
    row         \* row[i]: the invocation's row

storeVars == <<permit, reserved, consumed, row>>

-----------------------------------------------------------------------------
(* The tables.                                                             *)

InvocationState ==
    {"RESERVED", "DENIED", "CONFIRMED", "FAILED", "RECONCILIATION_REQUIRED"}

\* A signed receipt states the decision and the transaction that paid.
Receipt == [decision : {"ALLOW", "DENY"}, transaction : Attempt \cup {None}]

NoReceipt == [decision |-> "NONE", transaction |-> None]

\* "ABSENT" stands for the missing row.  `result` says whether the paid
\* result's bytes were kept; `transaction` is payment_transaction_id, named
\* by the attempt whose signature the transaction carries.
Row == [state       : InvocationState \cup {"ABSENT"},
        fingerprint : Request \cup {None},
        attempt     : Attempt \cup {None},
        transaction : Attempt \cup {None},
        result      : BOOLEAN,
        receipt     : Receipt \cup {NoReceipt}]

AbsentRow == [state       |-> "ABSENT",
              fingerprint |-> None,
              attempt     |-> None,
              transaction |-> None,
              result      |-> FALSE,
              receipt     |-> NoReceipt]

StoreTypeOK ==
    /\ permit \in [Grant -> Permit \cup {None}]
    /\ reserved \in [Grant -> Nat]
    /\ consumed \in [Grant -> Nat]
    /\ row \in [Invocation -> Row]

StoreInit ==
    /\ permit = [g \in Grant |-> None]
    /\ reserved = [g \in Grant |-> 0]
    /\ consumed = [g \in Grant |-> 0]
    /\ row = [i \in Invocation |-> AbsentRow]

-----------------------------------------------------------------------------
(* Reading.                                                                *)

GrantOfRequest(r) == GrantOf[PermitOf[r]]

\* The amount and the grant of a row: columns written from the request whose
\* fingerprint the row carries, and covered by that fingerprint.
RowAmount(i) == Amount[row[i].fingerprint]
RowGrant(i) == GrantOfRequest(row[i].fingerprint)

Committed(g) == reserved[g] + consumed[g]

\* Slip: a denied request may be retried too.
RetryOfDenied(r) == LET inv == row[InvocationOf[r]]
                    IN inv.state \in {"FAILED", "DENIED"} /\ inv.fingerprint = r

\* Slip: so may one whose payment is still unresolved.
RetryOfBlocked(r) == LET inv == row[InvocationOf[r]]
                     IN /\ inv.state \in {"FAILED", "RECONCILIATION_REQUIRED"}
                        /\ inv.fingerprint = r

\* A FAILED invocation may be attempted again by the same request only.
IsRetry(r) == LET inv == row[InvocationOf[r]]
              IN inv.state = "FAILED" /\ inv.fingerprint = r

IsExisting(r) == row[InvocationOf[r]].state # "ABSENT" /\ ~IsRetry(r)

\* Slip: the pinned digest is not compared.
NoGrantConflict(r) == FALSE

\* The first permit used under a grant pins its digest and its total (which
\* the digest covers).
GrantConflict(r) ==
    permit[GrantOfRequest(r)] \notin {None, PermitOf[r]}

\* What the policy says of the amount, given the grant's committed total.
AmountPermitted(r, committed) ==
    /\ Amount[r] > 0
    /\ Amount[r] <= MaxPerCall[PermitOf[r]]
    /\ committed + Amount[r] <= MaxTotal[PermitOf[r]]

\* reserve's last check, independent of the evaluator; it throws when false.
WithinGrant(r) ==
    LET g == GrantOfRequest(r)
    IN /\ Amount[r] > 0
       /\ Committed(g) + Amount[r] <= MaxTotal[PermitOf[r]]
       /\ reserved[g] + Amount[r] <= MaxAtomic

\* The atomic units that rows I of grant g account for, one by one: a sum of
\* amounts as the size of a set.
Units(g, I) ==
    {u \in Invocation \X (1..MaxAtomic) :
        u[1] \in I /\ RowGrant(u[1]) = g /\ u[2] <= RowAmount(u[1])}

InState(S) == {i \in Invocation : row[i].state \in S}

\* The rows recovery finds.
WithAttempt == {i \in Invocation : row[i].state = "RESERVED" /\ row[i].attempt # None}
WithoutAttempt == {i \in Invocation : row[i].state = "RESERVED" /\ row[i].attempt = None}

-----------------------------------------------------------------------------
(* Writing.                                                                *)

\* #writeDecision: an INSERT, or the UPDATE of a FAILED row, which clears
\* every trace of the earlier payment attempt but not the receipt.
WriteDecision(r, state) ==
    row' = [row EXCEPT ![InvocationOf[r]] =
              [state       |-> state,
               fingerprint |-> r,
               attempt     |-> None,
               transaction |-> None,
               result      |-> FALSE,
               receipt     |-> @.receipt]]

PinGrant(r) == permit' = [permit EXCEPT ![GrantOfRequest(r)] = PermitOf[r]]

\* Common to both decisions: the invocation is new or retried, and the grant
\* is new or pinned to this very permit.
MayDecide(r) == ~IsExisting(r) /\ ~GrantConflict(r)

\* reserve, when the evaluator allows.
ReserveAllowed(r) ==
    LET g == GrantOfRequest(r)
    IN /\ MayDecide(r)
       /\ AmountPermitted(r, Committed(g))
       /\ WithinGrant(r)
       /\ PinGrant(r)
       /\ reserved' = [reserved EXCEPT ![g] = @ + Amount[r]]
       /\ WriteDecision(r, "RESERVED")
       /\ UNCHANGED consumed

\* reserve, when the evaluator denies: for the amount, or for any other term
\* of the permit or of the challenge.
ReserveDenied(r) ==
    /\ MayDecide(r)
    /\ PinGrant(r)
    /\ WriteDecision(r, "DENIED")
    /\ UNCHANGED <<reserved, consumed>>

RecordPaymentAttempt(i, a) ==
    /\ row[i].state = "RESERVED"
    /\ row[i].attempt = None
    /\ row' = [row EXCEPT ![i].attempt = a]
    /\ UNCHANGED <<permit, reserved, consumed>>

\* Both throw, and so roll back, when less is reserved than the row holds.
ConsumeReservation(i) ==
    LET g == RowGrant(i)
    IN /\ reserved[g] >= RowAmount(i)
       /\ reserved' = [reserved EXCEPT ![g] = @ - RowAmount(i)]
       /\ consumed' = [consumed EXCEPT ![g] = @ + RowAmount(i)]

ReleaseReservation(i) ==
    LET g == RowGrant(i)
    IN /\ reserved[g] >= RowAmount(i)
       /\ reserved' = [reserved EXCEPT ![g] = @ - RowAmount(i)]
       /\ UNCHANGED consumed

\* RESERVED -> CONFIRMED, with the transaction and the result it paid for.
Confirm(i, tx) ==
    /\ row[i].state = "RESERVED"
    /\ ConsumeReservation(i)
    /\ row' = [row EXCEPT ![i].state = "CONFIRMED",
                          ![i].transaction = tx,
                          ![i].result = TRUE]
    /\ UNCHANGED permit

\* RESERVED -> FAILED.  Whether an attempt is recorded is not looked at.
Fail(i) ==
    /\ row[i].state = "RESERVED"
    /\ ReleaseReservation(i)
    /\ row' = [row EXCEPT ![i].state = "FAILED"]
    /\ UNCHANGED permit

\* Slip: the reservation is released on an unknown outcome.
MarkAndRelease(i) ==
    /\ row[i].state = "RESERVED"
    /\ ReleaseReservation(i)
    /\ row' = [row EXCEPT ![i].state = "RECONCILIATION_REQUIRED"]
    /\ UNCHANGED permit

MarkReconciliationRequired(i) ==
    /\ row[i].state = "RESERVED"
    /\ row' = [row EXCEPT ![i].state = "RECONCILIATION_REQUIRED"]
    /\ UNCHANGED <<permit, reserved, consumed>>

\* RECONCILIATION_REQUIRED -> CONFIRMED; no result is known.
ResolveConfirmed(i, tx) ==
    /\ row[i].state = "RECONCILIATION_REQUIRED"
    /\ ConsumeReservation(i)
    /\ row' = [row EXCEPT ![i].state = "CONFIRMED", ![i].transaction = tx]
    /\ UNCHANGED permit

\* RECONCILIATION_REQUIRED -> FAILED.  Which attempt was looked up is not
\* compared with the row's.
ResolveFailed(i) ==
    /\ row[i].state = "RECONCILIATION_REQUIRED"
    /\ ReleaseReservation(i)
    /\ row' = [row EXCEPT ![i].state = "FAILED"]
    /\ UNCHANGED permit

\* Slip: a receipt for a row that is not decided.
AttachToUndecided(i, rc) ==
    /\ row[i].state # "ABSENT"
    /\ row' = IF row[i].receipt = NoReceipt
              THEN [row EXCEPT ![i].receipt = rc]
              ELSE row
    /\ UNCHANGED <<permit, reserved, consumed>>

\* The first receipt of a decided row stays; a later one changes nothing.
AttachReceipt(i, rc) ==
    /\ row[i].state \in {"DENIED", "CONFIRMED"}
    /\ row' = IF row[i].receipt = NoReceipt
              THEN [row EXCEPT ![i].receipt = rc]
              ELSE row
    /\ UNCHANGED <<permit, reserved, consumed>>

\* Slips of recovery: the totals are not adjusted; rows without an attempt are
\* blocked, or left alone; rows with an attempt are released.
Recovered(toBlocked, toFailed) ==
    row' = [i \in Invocation |->
              CASE i \in toBlocked -> [row[i] EXCEPT !.state = "RECONCILIATION_REQUIRED"]
                [] i \in toFailed -> [row[i] EXCEPT !.state = "FAILED"]
                [] OTHER -> row[i]]
RecoverWithoutRelease ==
    Recovered(WithAttempt, WithoutAttempt) /\ UNCHANGED <<permit, reserved, consumed>>
RecoverAllBlocked ==
    Recovered(InState({"RESERVED"}), {}) /\ UNCHANGED <<permit, reserved, consumed>>
RecoverRecordedOnly ==
    Recovered(WithAttempt, {}) /\ UNCHANGED <<permit, reserved, consumed>>
RecoverAllFailed ==
    /\ Recovered({}, InState({"RESERVED"}))
    /\ reserved' = [g \in Grant |-> reserved[g] - Cardinality(Units(g, InState({"RESERVED"})))]
    /\ UNCHANGED <<permit, consumed>>

\* recoverInterruptedInvocations: every RESERVED row in one transaction, each
\* release checked and subtracted as in ReleaseReservation.
RecoverInterrupted ==
    LET released(g) == Cardinality(Units(g, WithoutAttempt))
    IN /\ \A g \in Grant : reserved[g] >= released(g)
       /\ reserved' = [g \in Grant |-> reserved[g] - released(g)]
       /\ row' = [i \in Invocation |->
                    CASE i \in WithAttempt ->
                           [row[i] EXCEPT !.state = "RECONCILIATION_REQUIRED"]
                      [] i \in WithoutAttempt ->
                           [row[i] EXCEPT !.state = "FAILED"]
                      [] OTHER -> row[i]]
       /\ UNCHANGED <<permit, consumed>>

-----------------------------------------------------------------------------
(* The receipt the service derives from a decided row (#ensureReceipt).    *)
\* Slip: the state is stated for the decision.
ReceiptOfState(inv) == [decision |-> inv.state, transaction |-> inv.transaction]

ReceiptOf(inv) ==
    [decision |-> IF inv.state = "CONFIRMED" THEN "ALLOW" ELSE "DENY",
     transaction |-> inv.transaction]

-----------------------------------------------------------------------------
(* The store on its own, called by any number of processes in any order.   *)

StoreNext ==
    \/ \E r \in Request : ReserveAllowed(r) \/ ReserveDenied(r)
    \/ \E i \in Invocation :
          \/ \E a \in Attempt : \/ RecordPaymentAttempt(i, a)
                                \/ Confirm(i, a)
                                \/ ResolveConfirmed(i, a)
          \/ Fail(i)
          \/ MarkReconciliationRequired(i)
          \/ ResolveFailed(i)
          \/ AttachReceipt(i, ReceiptOf(row[i]))
    \/ RecoverInterrupted

StoreSpec == StoreInit /\ [][StoreNext]_storeVars

-----------------------------------------------------------------------------
(* Properties.                                                             *)

Holding == {"RESERVED", "RECONCILIATION_REQUIRED"}

\* A grant's two totals are exactly what its rows hold and have spent: no
\* interleaving of reserve, fail, confirm, resolve and recovery adds or
\* subtracts an amount twice, or forgets one.
LedgerMatchesRows ==
    \A g \in Grant :
        /\ reserved[g] = Cardinality(Units(g, InState(Holding)))
        /\ consumed[g] = Cardinality(Units(g, InState({"CONFIRMED"})))

\* Every row carries a request signed for its own id, and belongs to the
\* permit its grant is pinned to, so that the total each reservation was
\* checked against is one and the same (reserve's grant_conflict outcome).
RowsUseThePinnedPermit ==
    \A i \in Invocation :
        row[i].state # "ABSENT" =>
            /\ row[i].fingerprint \in Request
            /\ InvocationOf[row[i].fingerprint] = i
            /\ permit[RowGrant(i)] = PermitOf[row[i].fingerprint]

\* What is reserved and spent never exceeds the total the human signed,
\* whatever was retried, released or reconciled in between.
BudgetNeverExceeded ==
    \A g \in Grant :
        IF permit[g] = None THEN Committed(g) = 0
                            ELSE Committed(g) <= MaxTotal[permit[g]]

\* The subtraction that #consumeReservation and #releaseReservation refuse is
\* never asked for: a row that holds a reservation can always give it back.
ReservationsCanBeReturned ==
    \A i \in InState(Holding) : reserved[RowGrant(i)] >= RowAmount(i)

\* A receipt says what its row says, however late it was attached.
ReceiptsTellTheRow ==
    \A i \in Invocation :
        row[i].receipt # NoReceipt => /\ row[i].state \in {"DENIED", "CONFIRMED"}
                                      /\ row[i].receipt = ReceiptOf(row[i])

\* A decision is final: once DENIED or CONFIRMED, a row only ever gains its
\* first receipt.
DecisionsAreFinal ==
    [][\A i \in InState({"DENIED", "CONFIRMED"}) :
          \/ row'[i] = row[i]
          \/ /\ row[i].receipt = NoReceipt
             /\ row'[i] = [row[i] EXCEPT !.receipt = row'[i].receipt]]_storeVars

=============================================================================
