---------------------------- MODULE AuthorityProofs ----------------------------
(***************************************************************************)
(* The authority, for every set of grants, permits, requests, invocations  *)
(* and attempts, for every order of calls, crashes and failing store calls.*)
(*                                                                         *)
(* First the store on its own (StoreSpec).  Then the service with any      *)
(* number of processes: it is well typed and implements the store.  Then,  *)
(* when one process owns the store, for every validity and margin: money   *)
(* that leaves is covered by a row, only money that left is booked, and the*)
(* promise of SpendingPromise is kept.                                     *)
(***************************************************************************)
EXTENDS AuthorityService, FiniteSetTheorems, TLAPS

-----------------------------------------------------------------------------
(* The store: type correctness.                                            *)

USE DEF storeVars

\* A decision writes a well-formed row.
LEMMA WriteDecisionType ==
    ASSUME StoreTypeOK, NEW r \in Request, NEW s \in InvocationState,
           WriteDecision(r, s)
    PROVE  row' \in [Invocation -> Row]
<1>1. InvocationOf[r] \in Invocation
  BY RequestAssumption
<1>2. row[InvocationOf[r]].receipt \in Receipt \cup {NoReceipt}
  BY <1>1 DEF StoreTypeOK, Row
<1>3. [state |-> s, fingerprint |-> r, attempt |-> None, transaction |-> None,
       result |-> FALSE, receipt |-> row[InvocationOf[r]].receipt] \in Row
  BY <1>2 DEF Row
<1> QED
  BY <1>1, <1>3 DEF WriteDecision, StoreTypeOK

\* A request's grant and amount are in their domains.
LEMMA RequestType ==
    ASSUME NEW r \in Request
    PROVE  /\ InvocationOf[r] \in Invocation
           /\ PermitOf[r] \in Permit
           /\ GrantOfRequest(r) \in Grant
           /\ Amount[r] \in Nat
           /\ Amount[r] \in 0..MaxAtomic
           /\ MaxTotal[PermitOf[r]] \in Nat
BY RequestAssumption, PermitAssumption, MaxAtomicAssumption DEF GrantOfRequest

\* Every set of units is finite.
LEMMA UnitsFinite ==
    ASSUME NEW g, NEW I
    PROVE  IsFiniteSet(Units(g, I)) /\ Cardinality(Units(g, I)) \in Nat
<1>1. IsFiniteSet(1..MaxAtomic)
  BY FS_Interval, MaxAtomicAssumption
<1>2. IsFiniteSet(Invocation \X (1..MaxAtomic))
  BY <1>1, FiniteAssumption, FS_Product
<1>3. Units(g, I) \in SUBSET (Invocation \X (1..MaxAtomic))
  BY DEF Units
<1> QED
  BY <1>2, <1>3, FS_Subset, FS_CardinalityType

\* Each action keeps the tables well formed, given that a row which is there
\* carries a request.
LEMMA StoreTypeStep ==
    ASSUME StoreTypeOK, RowsUseThePinnedPermit, StoreNext
    PROVE  StoreTypeOK'
<1> USE DEF StoreTypeOK
<1>1. ASSUME NEW r \in Request, ReserveAllowed(r)
      PROVE  StoreTypeOK'
  <2>1. "RESERVED" \in InvocationState /\ WriteDecision(r, "RESERVED")
    BY <1>1 DEF InvocationState, ReserveAllowed
  <2>2. row' \in [Invocation -> Row]
    BY <2>1, WriteDecisionType
  <2> QED
    BY <1>1, <2>2, RequestType DEF ReserveAllowed, PinGrant
<1>2. ASSUME NEW r \in Request, ReserveDenied(r)
      PROVE  StoreTypeOK'
  <2>1. "DENIED" \in InvocationState /\ WriteDecision(r, "DENIED")
    BY <1>2 DEF InvocationState, ReserveDenied
  <2>2. row' \in [Invocation -> Row]
    BY <2>1, WriteDecisionType
  <2> QED
    BY <1>2, <2>2, RequestType DEF ReserveDenied, PinGrant
<1>3. ASSUME NEW i \in Invocation, NEW a \in Attempt, RecordPaymentAttempt(i, a)
      PROVE  StoreTypeOK'
  BY <1>3 DEF RecordPaymentAttempt, Row
<1>4. ASSUME NEW i \in Invocation, row[i].state # "ABSENT"
      PROVE  RowGrant(i) \in Grant /\ RowAmount(i) \in Nat
  BY <1>4, RequestType DEF RowsUseThePinnedPermit, RowGrant, RowAmount
<1>5. ASSUME NEW i \in Invocation, NEW a \in Attempt, Confirm(i, a)
      PROVE  StoreTypeOK'
  <2>1. RowGrant(i) \in Grant /\ RowAmount(i) \in Nat
    BY <1>5, <1>4 DEF Confirm
  <2>2. reserved' \in [Grant -> Nat] /\ consumed' \in [Grant -> Nat]
    BY <1>5, <2>1 DEF Confirm, ConsumeReservation
  <2>3. row' \in [Invocation -> Row]
    <3> DEFINE new == [row[i] EXCEPT !.state = "CONFIRMED", !.transaction = a,
                                     !.result = TRUE]
    <3>1. new \in Row
      BY DEF Row, InvocationState
    <3>2. row' = [row EXCEPT ![i] = new]
      BY <1>5 DEF Confirm
    <3> QED
      BY <3>1, <3>2
  <2> QED
    BY <1>5, <2>2, <2>3 DEF Confirm
<1>6. ASSUME NEW i \in Invocation, NEW a \in Attempt, ResolveConfirmed(i, a)
      PROVE  StoreTypeOK'
  <2>1. RowGrant(i) \in Grant /\ RowAmount(i) \in Nat
    BY <1>6, <1>4 DEF ResolveConfirmed
  <2>2. reserved' \in [Grant -> Nat] /\ consumed' \in [Grant -> Nat]
    BY <1>6, <2>1 DEF ResolveConfirmed, ConsumeReservation
  <2>3. row' \in [Invocation -> Row]
    <3> DEFINE new == [row[i] EXCEPT !.state = "CONFIRMED", !.transaction = a]
    <3>1. new \in Row
      BY DEF Row, InvocationState
    <3>2. row' = [row EXCEPT ![i] = new]
      BY <1>6 DEF ResolveConfirmed
    <3> QED
      BY <3>1, <3>2
  <2> QED
    BY <1>6, <2>2, <2>3 DEF ResolveConfirmed
<1>7. ASSUME NEW i \in Invocation, Fail(i)
      PROVE  StoreTypeOK'
  <2>1. RowGrant(i) \in Grant /\ RowAmount(i) \in Nat
    BY <1>7, <1>4 DEF Fail
  <2>2. reserved' \in [Grant -> Nat] /\ consumed' \in [Grant -> Nat]
    BY <1>7, <2>1 DEF Fail, ReleaseReservation
  <2>3. row' \in [Invocation -> Row]
    BY <1>7 DEF Fail, Row, InvocationState
  <2> QED
    BY <1>7, <2>2, <2>3 DEF Fail
<1>8. ASSUME NEW i \in Invocation, MarkReconciliationRequired(i)
      PROVE  StoreTypeOK'
  BY <1>8 DEF MarkReconciliationRequired, Row, InvocationState
<1>9. ASSUME NEW i \in Invocation, ResolveFailed(i)
      PROVE  StoreTypeOK'
  <2>1. RowGrant(i) \in Grant /\ RowAmount(i) \in Nat
    BY <1>9, <1>4 DEF ResolveFailed
  <2>2. reserved' \in [Grant -> Nat] /\ consumed' \in [Grant -> Nat]
    BY <1>9, <2>1 DEF ResolveFailed, ReleaseReservation
  <2>3. row' \in [Invocation -> Row]
    BY <1>9 DEF ResolveFailed, Row, InvocationState
  <2> QED
    BY <1>9, <2>2, <2>3 DEF ResolveFailed
<1>10. ASSUME NEW i \in Invocation, AttachReceipt(i, ReceiptOf(row[i]))
       PROVE  StoreTypeOK'
  <2>1. ReceiptOf(row[i]) \in Receipt
    BY DEF ReceiptOf, Receipt, Row
  <2> QED
    BY <1>10, <2>1 DEF AttachReceipt, Row
<1>11. CASE RecoverInterrupted
  <2>1. row' \in [Invocation -> Row]
    BY <1>11 DEF RecoverInterrupted, Row, InvocationState
  <2>2. reserved' \in [Grant -> Nat]
    BY <1>11, UnitsFinite DEF RecoverInterrupted
  <2> QED
    BY <1>11, <2>1, <2>2 DEF RecoverInterrupted
<1> QED
  BY <1>1, <1>2, <1>3, <1>5, <1>6, <1>7, <1>8, <1>9, <1>10, <1>11 DEF StoreNext

-----------------------------------------------------------------------------
(* Counting units.  A row's units are one block of its grant's.            *)

Block(i, n) == {i} \X (1..n)

\* What row i adds to the units of grant g held in the states S.
Weight(i, S, g) ==
    IF row[i].state \in S /\ RowGrant(i) = g THEN RowAmount(i) ELSE 0

\* The units of one row are as many as its amount.
LEMMA BlockSize ==
    ASSUME NEW i, NEW n \in Nat
    PROVE  IsFiniteSet(Block(i, n)) /\ Cardinality(Block(i, n)) = n
<1>1. IsFiniteSet({i}) /\ Cardinality({i}) = 1
  BY FS_Singleton
<1>2. IsFiniteSet(1..n) /\ Cardinality(1..n) = n
  BY FS_Interval
<1>3. /\ Cardinality({i} \X (1..n)) = Cardinality({i}) * Cardinality(1..n)
      /\ IsFiniteSet({i} \X (1..n))
  BY <1>1, <1>2, FS_Product, Zenon
<1> QED
  BY <1>1, <1>2, <1>3 DEF Block

\* Adding a disjoint block and removing a contained one.
LEMMA BlockAdded ==
    ASSUME NEW U, IsFiniteSet(U), NEW i, NEW n \in Nat, U \cap Block(i, n) = {}
    PROVE  Cardinality(U \cup Block(i, n)) = Cardinality(U) + n
<1>1. Cardinality(U \cup Block(i, n)) = Cardinality(U) + n - Cardinality({})
  BY BlockSize, FS_Union
<1>2. Cardinality(U) \in Nat
  BY FS_CardinalityType
<1> QED
  BY <1>1, <1>2, FS_EmptySet

\* What remains of a finite set without one row's units is smaller by that row's amount.
LEMMA BlockRemoved ==
    ASSUME NEW U, IsFiniteSet(U), NEW i, NEW n \in Nat, Block(i, n) \subseteq U
    PROVE  /\ IsFiniteSet(U \ Block(i, n))
           /\ Cardinality(U \ Block(i, n)) = Cardinality(U) - n
           /\ n <= Cardinality(U)
<1>1. U \cap Block(i, n) = Block(i, n)
  OBVIOUS
<1>2. IsFiniteSet(U \ Block(i, n))
      /\ Cardinality(U \ Block(i, n)) = Cardinality(U) - Cardinality(U \cap Block(i, n))
  BY FS_Difference
<1>3. Cardinality(Block(i, n)) <= Cardinality(U)
  BY FS_Subset
<1> QED
  BY <1>1, <1>2, <1>3, BlockSize

\* When only row i changes, the units of g held in the states S change by the
\* weight of that row.
LEMMA UnitsChange ==
    ASSUME NEW i \in Invocation, NEW g, NEW S,
           \A j \in Invocation : j # i => row'[j] = row[j],
           row[i].state \in S => RowAmount(i) \in 0..MaxAtomic,
           row'[i].state \in S => RowAmount(i)' \in 0..MaxAtomic
    PROVE  /\ Cardinality(Units(g, InState(S)))' =
                Cardinality(Units(g, InState(S))) - Weight(i, S, g) + Weight(i, S, g)'
           /\ Weight(i, S, g) <= Cardinality(Units(g, InState(S)))
<1> DEFINE U == Units(g, InState(S))
           old == Block(i, Weight(i, S, g))
           new == Block(i, Weight(i, S, g)')
<1>1. Weight(i, S, g) \in 0..MaxAtomic /\ Weight(i, S, g)' \in 0..MaxAtomic
  BY MaxAtomicAssumption DEF Weight
<1>2. old \subseteq U
  BY <1>1, MaxAtomicAssumption DEF Block, Weight, Units, InState
<1>3. U' = (U \ old) \cup new
  <2>1. ASSUME NEW j \in Invocation, NEW k \in 1..MaxAtomic
        PROVE  <<j, k>> \in U' <=> <<j, k>> \in (U \ old) \cup new
    <3>1. CASE j = i
      BY <1>1, <3>1 DEF Block, Weight, Units, InState
    <3>2. CASE j # i
      BY <1>1, <3>2 DEF Block, Units, InState, RowGrant, RowAmount
    <3> QED
      BY <3>1, <3>2
  <2>2. U' \subseteq Invocation \X (1..MaxAtomic)
    BY DEF Units
  <2>3. (U \ old) \cup new \subseteq Invocation \X (1..MaxAtomic)
    BY <1>1, MaxAtomicAssumption DEF Units, Block
  <2> QED
    BY <2>1, <2>2, <2>3
<1>4. (U \ old) \cap new = {}
  BY <1>1 DEF Block, Weight, Units, InState
<1>5. IsFiniteSet(U) /\ Cardinality(U) \in Nat
  BY UnitsFinite
<1>6. /\ IsFiniteSet(U \ old)
      /\ Cardinality(U \ old) = Cardinality(U) - Weight(i, S, g)
      /\ Weight(i, S, g) <= Cardinality(U)
  BY <1>1, <1>2, <1>5, BlockRemoved, MaxAtomicAssumption
<1>7. Cardinality((U \ old) \cup new) = Cardinality(U \ old) + Weight(i, S, g)'
  BY <1>1, <1>4, <1>6, BlockAdded, MaxAtomicAssumption
<1> QED
  BY <1>3, <1>6, <1>7

-----------------------------------------------------------------------------
(* The inductive invariant.  The budget bound alone is not inductive: that *)
(* a release subtracts what was added needs the ledger, and that the total *)
(* a reservation was checked against is the pinned one needs the rows.     *)

StoreInv ==
    /\ StoreTypeOK
    /\ RowsUseThePinnedPermit
    /\ LedgerMatchesRows
    /\ BudgetNeverExceeded

\* A row that is there carries a request for its own id, with a grant and an
\* amount in their domains.
LEMMA PresentRow ==
    ASSUME StoreTypeOK, RowsUseThePinnedPermit,
           NEW i \in Invocation, row[i].state # "ABSENT"
    PROVE  /\ row[i].fingerprint \in Request
           /\ InvocationOf[row[i].fingerprint] = i
           /\ permit[RowGrant(i)] = PermitOf[row[i].fingerprint]
           /\ RowGrant(i) \in Grant
           /\ RowAmount(i) \in 0..MaxAtomic
           /\ RowAmount(i) \in Nat
BY RequestType DEF RowsUseThePinnedPermit, RowGrant, RowAmount

\* What a decision leaves behind.
LEMMA Decided ==
    ASSUME StoreTypeOK, NEW r \in Request, NEW s \in InvocationState,
           WriteDecision(r, s)
    PROVE  /\ \A j \in Invocation : j # InvocationOf[r] => row'[j] = row[j]
           /\ row'[InvocationOf[r]].state = s
           /\ row'[InvocationOf[r]].fingerprint = r
           /\ row'[InvocationOf[r]].attempt = None
           /\ row'[InvocationOf[r]].transaction = None
           /\ row'[InvocationOf[r]].receipt = row[InvocationOf[r]].receipt
BY RequestType DEF WriteDecision, StoreTypeOK

\* A step that changes a row changes its state and payment columns only,
\* unless it is a decision.
KeepsRequests ==
    /\ permit' = permit
    /\ \A i \in Invocation : /\ row'[i].fingerprint = row[i].fingerprint
                             /\ (row'[i].state = "ABSENT") = (row[i].state = "ABSENT")

\* Every store call keeps the rows with the permit their grant is pinned to.
LEMMA RowsStep ==
    ASSUME StoreTypeOK, RowsUseThePinnedPermit, StoreNext
    PROVE  RowsUseThePinnedPermit'
<1>1. ASSUME KeepsRequests
      PROVE  RowsUseThePinnedPermit'
  BY <1>1 DEF KeepsRequests, RowsUseThePinnedPermit, RowGrant, GrantOfRequest
<1>2. ASSUME NEW r \in Request, NEW s \in InvocationState,
             MayDecide(r), PinGrant(r), WriteDecision(r, s)
      PROVE  RowsUseThePinnedPermit'
  <2> DEFINE g0 == GrantOfRequest(r)
  <2>1. g0 \in Grant /\ PermitOf[r] \in Permit /\ InvocationOf[r] \in Invocation
    BY RequestType
  <2>2. permit'[g0] = PermitOf[r] /\ \A g \in Grant : g # g0 => permit'[g] = permit[g]
    BY <1>2, <2>1 DEF PinGrant, StoreTypeOK
  <2>3. permit[g0] \in {None, PermitOf[r]}
    BY <1>2 DEF MayDecide, GrantConflict
  <2>4. SUFFICES ASSUME NEW i \in Invocation, row'[i].state # "ABSENT"
                 PROVE  /\ row'[i].fingerprint \in Request
                        /\ InvocationOf[row'[i].fingerprint] = i
                        /\ permit'[RowGrant(i)'] = PermitOf[row'[i].fingerprint]
    BY DEF RowsUseThePinnedPermit
  <2>5. CASE i = InvocationOf[r]
    BY <1>2, <2>1, <2>2, <2>5, Decided DEF RowGrant
  <2>6. CASE i # InvocationOf[r]
    <3>1. row'[i] = row[i]
      BY <1>2, <2>6, Decided
    <3>2. /\ row[i].fingerprint \in Request
          /\ InvocationOf[row[i].fingerprint] = i
          /\ permit[RowGrant(i)] = PermitOf[row[i].fingerprint]
          /\ RowGrant(i) \in Grant
          /\ PermitOf[row[i].fingerprint] # None
      BY <2>4, <3>1, PresentRow, RequestType, NoneAssumption
    <3>3. RowGrant(i)' = RowGrant(i)
      BY <3>1 DEF RowGrant
    <3> QED
      BY <2>2, <2>3, <3>1, <3>2, <3>3
  <2> QED
    BY <2>5, <2>6
<1>3. ASSUME NEW r \in Request, ReserveAllowed(r) \/ ReserveDenied(r)
      PROVE  RowsUseThePinnedPermit'
  BY <1>2, <1>3 DEF ReserveAllowed, ReserveDenied, InvocationState
<1>4. ASSUME NEW i \in Invocation, NEW a \in Attempt,
             RecordPaymentAttempt(i, a) \/ Confirm(i, a) \/ ResolveConfirmed(i, a)
      PROVE  KeepsRequests
  BY <1>4 DEF RecordPaymentAttempt, Confirm, ResolveConfirmed, KeepsRequests, StoreTypeOK, Row
<1>5. ASSUME NEW i \in Invocation,
             \/ Fail(i)
             \/ MarkReconciliationRequired(i)
             \/ ResolveFailed(i)
             \/ AttachReceipt(i, ReceiptOf(row[i]))
      PROVE  KeepsRequests
  BY <1>5 DEF Fail, MarkReconciliationRequired, ResolveFailed, AttachReceipt,
              KeepsRequests, StoreTypeOK, Row
<1>6. ASSUME RecoverInterrupted
      PROVE  KeepsRequests
  BY <1>6 DEF RecoverInterrupted, KeepsRequests, WithAttempt, WithoutAttempt, StoreTypeOK, Row
<1> QED
  BY <1>1, <1>3, <1>4, <1>5, <1>6 DEF StoreNext

\* Row i, and only row i, moves to another state.
MovesRow(i) ==
    /\ row[i].state # "ABSENT"
    /\ \A j \in Invocation : j # i => row'[j] = row[j]
    /\ row'[i].state # "ABSENT"
    /\ row'[i].fingerprint = row[i].fingerprint

\* The ledger follows a move whose totals change by the weight of the row.
LEMMA LedgerFollowsMove ==
    ASSUME StoreInv, NEW i \in Invocation, MovesRow(i),
           \A g \in Grant :
              /\ reserved'[g] = reserved[g] - Weight(i, Holding, g) + Weight(i, Holding, g)'
              /\ consumed'[g] = consumed[g] - Weight(i, {"CONFIRMED"}, g)
                                            + Weight(i, {"CONFIRMED"}, g)'
    PROVE  LedgerMatchesRows'
<1>1. RowAmount(i) \in 0..MaxAtomic
  BY PresentRow DEF StoreInv, MovesRow
<1>2. RowAmount(i)' \in 0..MaxAtomic
  BY <1>1 DEF RowAmount, MovesRow
<1>3. ASSUME NEW g \in Grant
      PROVE  /\ reserved'[g] = Cardinality(Units(g, InState(Holding)))'
             /\ consumed'[g] = Cardinality(Units(g, InState({"CONFIRMED"})))'
  BY <1>1, <1>2, UnitsChange DEF MovesRow, StoreInv, LedgerMatchesRows
<1> QED
  BY <1>3 DEF LedgerMatchesRows

\* Every store call keeps the two totals equal to what the rows hold and spent.
LEMMA LedgerStep ==
    ASSUME StoreInv, StoreNext
    PROVE  LedgerMatchesRows'
<1> USE DEF StoreInv
<1>1. ASSUME NEW r \in Request, NEW s \in {"RESERVED", "DENIED"},
             MayDecide(r), WriteDecision(r, s),
             \A g \in Grant :
                reserved'[g] = IF g = GrantOfRequest(r) /\ s = "RESERVED"
                               THEN reserved[g] + Amount[r] ELSE reserved[g],
             consumed' = consumed
      PROVE  LedgerMatchesRows'
  <2> DEFINE i == InvocationOf[r]
  <2>1. /\ i \in Invocation
        /\ Amount[r] \in 0..MaxAtomic
        /\ GrantOfRequest(r) \in Grant
    BY RequestType
  <2>2. /\ \A j \in Invocation : j # i => row'[j] = row[j]
        /\ row'[i].state = s
        /\ row'[i].fingerprint = r
    BY <1>1, Decided DEF InvocationState
  <2>3. row[i].state \in {"ABSENT", "FAILED"}
    BY <1>1 DEF MayDecide, IsExisting, IsRetry
  <2>4. RowAmount(i)' = Amount[r] /\ RowGrant(i)' = GrantOfRequest(r)
    BY <2>2 DEF RowAmount, RowGrant
  <2>5. SUFFICES ASSUME NEW g \in Grant
                 PROVE  /\ reserved'[g] = Cardinality(Units(g, InState(Holding)))'
                        /\ consumed'[g] = Cardinality(Units(g, InState({"CONFIRMED"})))'
    BY DEF LedgerMatchesRows
  <2>6. reserved[g] \in Nat /\ consumed[g] \in Nat
    BY DEF StoreTypeOK
  <2>7. /\ Weight(i, Holding, g) = 0
        /\ Weight(i, Holding, g)' = IF g = GrantOfRequest(r) /\ s = "RESERVED"
                                    THEN Amount[r] ELSE 0
        /\ Weight(i, {"CONFIRMED"}, g) = 0
        /\ Weight(i, {"CONFIRMED"}, g)' = 0
    BY <2>2, <2>3, <2>4 DEF Weight, Holding
  <2>8. Cardinality(Units(g, InState(Holding)))' =
           Cardinality(Units(g, InState(Holding))) - 0 + Weight(i, Holding, g)'
    BY <2>1, <2>2, <2>3, <2>4, <2>7, UnitsChange DEF Holding
  <2>9. Cardinality(Units(g, InState({"CONFIRMED"})))' =
           Cardinality(Units(g, InState({"CONFIRMED"}))) - 0 + 0
    BY <2>1, <2>2, <2>3, <2>4, <2>7, UnitsChange
  <2> QED
    BY <1>1, <2>1, <2>6, <2>7, <2>8, <2>9 DEF LedgerMatchesRows
<1>2. ASSUME NEW r \in Request, ReserveAllowed(r)
      PROVE  LedgerMatchesRows'
  <2>1. \A g \in Grant : reserved'[g] = IF g = GrantOfRequest(r)
                                        THEN reserved[g] + Amount[r] ELSE reserved[g]
    BY <1>2, RequestType DEF ReserveAllowed, StoreTypeOK
  <2> QED
    BY <1>1, <1>2, <2>1 DEF ReserveAllowed
<1>3. ASSUME NEW r \in Request, ReserveDenied(r)
      PROVE  LedgerMatchesRows'
  <2>1. reserved' = reserved /\ consumed' = consumed
    BY <1>3 DEF ReserveDenied
  <2> QED
    BY <1>1, <1>3, <2>1 DEF ReserveDenied
<1>4. ASSUME NEW i \in Invocation,
             row[i].state # "ABSENT",
             \A j \in Invocation : j # i => row'[j] = row[j],
             row'[i].state = row[i].state \/ {row[i].state, row'[i].state} \subseteq Holding,
             row'[i].fingerprint = row[i].fingerprint,
             reserved' = reserved, consumed' = consumed
      PROVE  LedgerMatchesRows'
  <2>1. MovesRow(i)
    BY <1>4 DEF MovesRow, Holding
  <2>2. ASSUME NEW g \in Grant, NEW S \in {Holding, {"CONFIRMED"}}
        PROVE  Weight(i, S, g)' = Weight(i, S, g) /\ Weight(i, S, g) \in Nat
    BY <1>4, PresentRow DEF Weight, RowGrant, RowAmount, Holding
  <2>3. \A g \in Grant : reserved[g] \in Nat /\ consumed[g] \in Nat
    BY DEF StoreTypeOK
  <2>4. \A g \in Grant :
           /\ reserved'[g] = reserved[g] - Weight(i, Holding, g) + Weight(i, Holding, g)'
           /\ consumed'[g] = consumed[g] - Weight(i, {"CONFIRMED"}, g)
                                         + Weight(i, {"CONFIRMED"}, g)'
    BY <1>4, <2>2, <2>3
  <2> QED
    BY <2>1, <2>4, LedgerFollowsMove
<1>5. ASSUME NEW i \in Invocation,
             row[i].state \in Holding,
             \A j \in Invocation : j # i => row'[j] = row[j],
             row'[i].fingerprint = row[i].fingerprint,
             \/ row'[i].state = "CONFIRMED" /\ ConsumeReservation(i)
             \/ row'[i].state = "FAILED" /\ ReleaseReservation(i)
      PROVE  LedgerMatchesRows'
  <2>1. MovesRow(i)
    BY <1>5 DEF MovesRow, Holding
  <2>2. RowGrant(i) \in Grant /\ RowAmount(i) \in Nat
    BY <1>5, PresentRow DEF Holding
  <2>3. RowGrant(i)' = RowGrant(i) /\ RowAmount(i)' = RowAmount(i)
    BY <1>5 DEF RowGrant, RowAmount
  <2>4. ASSUME NEW g \in Grant
        PROVE  /\ reserved'[g] = reserved[g] - Weight(i, Holding, g) + Weight(i, Holding, g)'
               /\ consumed'[g] = consumed[g] - Weight(i, {"CONFIRMED"}, g)
                                             + Weight(i, {"CONFIRMED"}, g)'
    <3>1. reserved[g] \in Nat /\ consumed[g] \in Nat
      BY DEF StoreTypeOK
    <3>2. /\ Weight(i, Holding, g) = IF g = RowGrant(i) THEN RowAmount(i) ELSE 0
          /\ Weight(i, Holding, g)' = 0
          /\ Weight(i, {"CONFIRMED"}, g) = 0
          /\ Weight(i, {"CONFIRMED"}, g)' =
                IF g = RowGrant(i) /\ row'[i].state = "CONFIRMED" THEN RowAmount(i) ELSE 0
      BY <1>5, <2>3 DEF Weight, Holding
    <3>3. CASE row'[i].state = "CONFIRMED"
      BY <1>5, <2>2, <3>1, <3>2, <3>3 DEF ConsumeReservation, StoreTypeOK
    <3>4. CASE row'[i].state = "FAILED"
      BY <1>5, <2>2, <3>1, <3>2, <3>4 DEF ReleaseReservation, StoreTypeOK
    <3> QED
      BY <1>5, <3>3, <3>4
  <2> QED
    BY <2>1, <2>4, LedgerFollowsMove
<1>6. CASE RecoverInterrupted
  <2> DEFINE released(g) == Units(g, WithoutAttempt)
  <2>1. SUFFICES ASSUME NEW g \in Grant
                 PROVE  /\ reserved'[g] = Cardinality(Units(g, InState(Holding)))'
                        /\ consumed'[g] = Cardinality(Units(g, InState({"CONFIRMED"})))'
    BY DEF LedgerMatchesRows
  <2>2. \A i \in Invocation :
           /\ row'[i].fingerprint = row[i].fingerprint
           /\ row'[i].state \in Holding <=> row[i].state \in Holding /\ i \notin WithoutAttempt
           /\ row'[i].state = "CONFIRMED" <=> row[i].state = "CONFIRMED"
    BY <1>6 DEF RecoverInterrupted, WithAttempt, WithoutAttempt, Holding, StoreTypeOK, Row
  <2>3. Units(g, InState(Holding))' = Units(g, InState(Holding)) \ released(g)
    BY <2>2 DEF Units, InState, RowGrant, RowAmount
  <2>4. Units(g, InState({"CONFIRMED"}))' = Units(g, InState({"CONFIRMED"}))
    BY <2>2 DEF Units, InState, RowGrant, RowAmount
  <2>5. released(g) \subseteq Units(g, InState(Holding))
    BY DEF Units, InState, WithoutAttempt, Holding
  <2>6. Units(g, InState(Holding)) \cap released(g) = released(g)
    BY <2>5
  <2>7. Cardinality(Units(g, InState(Holding)) \ released(g)) =
           Cardinality(Units(g, InState(Holding))) - Cardinality(released(g))
    BY <2>6, UnitsFinite, FS_Difference
  <2>8. reserved'[g] = reserved[g] - Cardinality(released(g)) /\ consumed' = consumed
    BY <1>6 DEF RecoverInterrupted
  <2> QED
    BY <2>3, <2>4, <2>7, <2>8 DEF LedgerMatchesRows
<1>7. ASSUME NEW i \in Invocation, NEW a \in Attempt,
             RecordPaymentAttempt(i, a) \/ Confirm(i, a) \/ ResolveConfirmed(i, a)
      PROVE  LedgerMatchesRows'
  <2>1. ASSUME RecordPaymentAttempt(i, a) PROVE LedgerMatchesRows'
    BY <1>4, <2>1 DEF RecordPaymentAttempt, StoreTypeOK, Row
  <2>2. ASSUME Confirm(i, a) PROVE LedgerMatchesRows'
    BY <1>5, <2>2 DEF Confirm, StoreTypeOK, Row, Holding
  <2>3. ASSUME ResolveConfirmed(i, a) PROVE LedgerMatchesRows'
    BY <1>5, <2>3 DEF ResolveConfirmed, StoreTypeOK, Row, Holding
  <2> QED
    BY <1>7, <2>1, <2>2, <2>3
<1>8. ASSUME NEW i \in Invocation,
             \/ Fail(i)
             \/ MarkReconciliationRequired(i)
             \/ ResolveFailed(i)
             \/ AttachReceipt(i, ReceiptOf(row[i]))
      PROVE  LedgerMatchesRows'
  <2>1. ASSUME Fail(i) PROVE LedgerMatchesRows'
    BY <1>5, <2>1 DEF Fail, StoreTypeOK, Row, Holding
  <2>2. ASSUME MarkReconciliationRequired(i) PROVE LedgerMatchesRows'
    BY <1>4, <2>2 DEF MarkReconciliationRequired, StoreTypeOK, Row, Holding
  <2>3. ASSUME ResolveFailed(i) PROVE LedgerMatchesRows'
    BY <1>5, <2>3 DEF ResolveFailed, StoreTypeOK, Row, Holding
  <2>4. ASSUME AttachReceipt(i, ReceiptOf(row[i])) PROVE LedgerMatchesRows'
    BY <1>4, <2>4 DEF AttachReceipt, StoreTypeOK, Row
  <2> QED
    BY <1>8, <2>1, <2>2, <2>3, <2>4
<1> QED
  BY <1>2, <1>3, <1>6, <1>7, <1>8 DEF StoreNext

-----------------------------------------------------------------------------
(* The budget.                                                             *)

\* Every store call keeps reserved + consumed within the pinned total: reserve
\* checks it, and nothing else adds to the sum.
LEMMA BudgetStep ==
    ASSUME StoreInv, StoreNext
    PROVE  BudgetNeverExceeded'
<1> USE DEF StoreInv
<1>1. ASSUME permit' = permit,
             \A g \in Grant : /\ reserved'[g] + consumed'[g] <= Committed(g)
                              /\ reserved'[g] \in Nat /\ consumed'[g] \in Nat
      PROVE  BudgetNeverExceeded'
  <2>1. SUFFICES ASSUME NEW g \in Grant
                 PROVE  IF permit[g] = None
                        THEN reserved'[g] + consumed'[g] = 0
                        ELSE reserved'[g] + consumed'[g] <= MaxTotal[permit[g]]
    BY <1>1 DEF BudgetNeverExceeded, Committed
  <2>2. permit[g] # None => permit[g] \in Permit /\ MaxTotal[permit[g]] \in Nat
    BY PermitAssumption DEF StoreTypeOK
  <2>3. reserved[g] \in Nat /\ consumed[g] \in Nat
    BY DEF StoreTypeOK
  <2> QED
    BY <1>1, <2>2, <2>3 DEF BudgetNeverExceeded, Committed
<1>2. ASSUME NEW r \in Request, MayDecide(r), PinGrant(r),
             consumed' = consumed,
             \A g \in Grant : g # GrantOfRequest(r) => reserved'[g] = reserved[g],
             \/ reserved' = reserved
             \/ /\ WithinGrant(r)
                /\ reserved'[GrantOfRequest(r)] = reserved[GrantOfRequest(r)] + Amount[r]
      PROVE  BudgetNeverExceeded'
  <2> DEFINE g0 == GrantOfRequest(r)
  <2>1. /\ g0 \in Grant /\ PermitOf[r] \in Permit /\ Amount[r] \in Nat
        /\ MaxTotal[PermitOf[r]] \in Nat /\ PermitOf[r] # None
    BY RequestType, NoneAssumption
  <2>2. permit'[g0] = PermitOf[r] /\ \A g \in Grant : g # g0 => permit'[g] = permit[g]
    BY <1>2, <2>1 DEF PinGrant, StoreTypeOK
  <2>3. permit[g0] \in {None, PermitOf[r]}
    BY <1>2 DEF MayDecide, GrantConflict
  <2>4. SUFFICES ASSUME NEW g \in Grant
                 PROVE  IF permit'[g] = None
                        THEN reserved'[g] + consumed'[g] = 0
                        ELSE reserved'[g] + consumed'[g] <= MaxTotal[permit'[g]]
    BY DEF BudgetNeverExceeded, Committed
  <2>5. CASE g # g0
    BY <1>2, <2>2, <2>5 DEF BudgetNeverExceeded, Committed
  <2>6. CASE g = g0
    <3>1. reserved[g0] \in Nat /\ consumed[g0] \in Nat
      BY <2>1 DEF StoreTypeOK
    <3>2. CASE reserved' = reserved
      <4>1. reserved[g0] + consumed[g0] <= MaxTotal[PermitOf[r]]
        BY <2>1, <2>3, <3>1 DEF BudgetNeverExceeded, Committed
      <4> QED
        BY <1>2, <2>1, <2>2, <2>6, <3>2, <4>1
    <3>3. CASE /\ WithinGrant(r)
               /\ reserved'[g0] = reserved[g0] + Amount[r]
      <4>1. reserved[g0] + consumed[g0] + Amount[r] <= MaxTotal[PermitOf[r]]
        BY <3>3 DEF WithinGrant, Committed
      <4> QED
        BY <1>2, <2>1, <2>2, <2>6, <3>1, <3>3, <4>1
    <3> QED
      BY <1>2, <3>2, <3>3
  <2> QED
    BY <2>5, <2>6
<1>3. ASSUME NEW r \in Request, ReserveAllowed(r)
      PROVE  BudgetNeverExceeded'
  <2>1. /\ \A g \in Grant : g # GrantOfRequest(r) => reserved'[g] = reserved[g]
        /\ reserved'[GrantOfRequest(r)] = reserved[GrantOfRequest(r)] + Amount[r]
    BY <1>3, RequestType DEF ReserveAllowed, StoreTypeOK
  <2> QED
    BY <1>2, <1>3, <2>1 DEF ReserveAllowed
<1>4. ASSUME NEW r \in Request, ReserveDenied(r)
      PROVE  BudgetNeverExceeded'
  BY <1>2, <1>4 DEF ReserveDenied
<1>5. ASSUME reserved' = reserved, consumed' = consumed, permit' = permit
      PROVE  BudgetNeverExceeded'
  BY <1>5 DEF BudgetNeverExceeded, Committed
<1>6. ASSUME NEW i \in Invocation, row[i].state \in Holding, permit' = permit,
             ConsumeReservation(i) \/ ReleaseReservation(i)
      PROVE  BudgetNeverExceeded'
  <2>1. RowGrant(i) \in Grant /\ RowAmount(i) \in Nat
    BY <1>6, PresentRow DEF Holding
  <2>2. ASSUME NEW g \in Grant
        PROVE  /\ reserved'[g] + consumed'[g] <= Committed(g)
               /\ reserved'[g] \in Nat /\ consumed'[g] \in Nat
    <3>1. reserved[g] \in Nat /\ consumed[g] \in Nat
      BY DEF StoreTypeOK
    <3>2. CASE ConsumeReservation(i)
      BY <2>1, <3>1, <3>2 DEF ConsumeReservation, Committed, StoreTypeOK
    <3>3. CASE ReleaseReservation(i)
      BY <2>1, <3>1, <3>3 DEF ReleaseReservation, Committed, StoreTypeOK
    <3> QED
      BY <1>6, <3>2, <3>3
  <2> QED
    BY <1>1, <1>6, <2>2
<1>7. ASSUME NEW i \in Invocation, NEW a \in Attempt,
             RecordPaymentAttempt(i, a) \/ Confirm(i, a) \/ ResolveConfirmed(i, a)
      PROVE  BudgetNeverExceeded'
  BY <1>5, <1>6, <1>7 DEF RecordPaymentAttempt, Confirm, ResolveConfirmed, Holding
<1>8. ASSUME NEW i \in Invocation,
             \/ Fail(i)
             \/ MarkReconciliationRequired(i)
             \/ ResolveFailed(i)
             \/ AttachReceipt(i, ReceiptOf(row[i]))
      PROVE  BudgetNeverExceeded'
  BY <1>5, <1>6, <1>8
     DEF Fail, MarkReconciliationRequired, ResolveFailed, AttachReceipt, Holding
<1>9. CASE RecoverInterrupted
  <2>1. ASSUME NEW g \in Grant
        PROVE  /\ reserved'[g] + consumed'[g] <= Committed(g)
               /\ reserved'[g] \in Nat /\ consumed'[g] \in Nat
    <3>1. reserved[g] \in Nat /\ consumed[g] \in Nat
      BY DEF StoreTypeOK
    <3>2. Cardinality(Units(g, WithoutAttempt)) \in Nat
      BY UnitsFinite
    <3> QED
      BY <1>9, <3>1, <3>2 DEF RecoverInterrupted, Committed
  <2> QED
    BY <1>1, <1>9, <2>1 DEF RecoverInterrupted
<1> QED
  BY <1>3, <1>4, <1>7, <1>8, <1>9 DEF StoreNext

\* The empty tables satisfy the inductive invariant.
LEMMA StoreInvInit == StoreInit => StoreInv
<1> SUFFICES ASSUME StoreInit
             PROVE  StoreInv
  OBVIOUS
<1> USE DEF StoreInit
<1>1. StoreTypeOK
  <2>1. AbsentRow \in Row
    BY DEF AbsentRow, Row
  <2> QED
    BY <2>1 DEF StoreTypeOK
<1>2. \A i \in Invocation : row[i].state = "ABSENT"
  BY DEF AbsentRow
<1>3. RowsUseThePinnedPermit /\ BudgetNeverExceeded
  BY <1>2 DEF RowsUseThePinnedPermit, BudgetNeverExceeded, Committed
<1>4. \A g \in Grant : /\ Units(g, InState(Holding)) = {}
                       /\ Units(g, InState({"CONFIRMED"})) = {}
  BY <1>2 DEF Units, InState, Holding
<1>5. LedgerMatchesRows
  BY <1>4, FS_EmptySet DEF LedgerMatchesRows
<1> QED
  BY <1>1, <1>3, <1>5 DEF StoreInv

\* The inductive invariant is kept by every store call.
LEMMA StoreInvStep == StoreInv /\ [StoreNext]_storeVars => StoreInv'
<1>1. ASSUME StoreInv, StoreNext
      PROVE  StoreInv'
  BY <1>1, StoreTypeStep, RowsStep, LedgerStep, BudgetStep DEF StoreInv
<1>2. ASSUME StoreInv, UNCHANGED storeVars
      PROVE  StoreInv'
  <2>1. \A g, S : Units(g, InState(S))' = Units(g, InState(S))
    BY <1>2 DEF Units, InState, RowGrant, RowAmount
  <2> QED
    BY <1>2, <2>1 DEF StoreInv, StoreTypeOK, RowsUseThePinnedPermit, LedgerMatchesRows,
                      BudgetNeverExceeded, Committed, RowGrant
<1> QED
  BY <1>1, <1>2

-----------------------------------------------------------------------------
(* The store's theorems.                                                   *)

\* The tables stay well formed under every order of store calls.
THEOREM StoreTypeCorrect == StoreSpec => []StoreTypeOK
<1>1. StoreInv => StoreTypeOK
  BY DEF StoreInv
<1> QED
  BY <1>1, StoreInvInit, StoreInvStep, PTL DEF StoreSpec

\* The two totals of a grant are the sums over its rows, under every order of
\* reserve, fail, confirm, mark, resolve and recovery.
THEOREM LedgerCorrect == StoreSpec => []LedgerMatchesRows
<1>1. StoreInv => LedgerMatchesRows
  BY DEF StoreInv
<1> QED
  BY <1>1, StoreInvInit, StoreInvStep, PTL DEF StoreSpec

\* reserved + consumed never exceeds the total of the permit that pinned the
\* grant.
THEOREM BudgetCorrect == StoreSpec => []BudgetNeverExceeded
<1>1. StoreInv => BudgetNeverExceeded
  BY DEF StoreInv
<1> QED
  BY <1>1, StoreInvInit, StoreInvStep, PTL DEF StoreSpec

\* Every row stays with the permit its grant was pinned to.
THEOREM PinningCorrect == StoreSpec => []RowsUseThePinnedPermit
<1>1. StoreInv => RowsUseThePinnedPermit
  BY DEF StoreInv
<1> QED
  BY <1>1, StoreInvInit, StoreInvStep, PTL DEF StoreSpec

\* A row that holds a reservation is one of its grant's blocks, so the grant
\* holds at least as much: the refusal in #consumeReservation and
\* #releaseReservation is unreachable.
THEOREM ReturnsCorrect == StoreSpec => []ReservationsCanBeReturned
<1>1. ASSUME StoreInv, NEW i \in InState(Holding)
      PROVE  reserved[RowGrant(i)] >= RowAmount(i)
  <2> DEFINE U == Units(RowGrant(i), InState(Holding))
  <2>1. i \in Invocation /\ RowGrant(i) \in Grant /\ RowAmount(i) \in 0..MaxAtomic
        /\ RowAmount(i) \in Nat
    BY <1>1, PresentRow DEF StoreInv, InState, Holding
  <2>2. Block(i, RowAmount(i)) \subseteq U
    BY <2>1, MaxAtomicAssumption DEF Block, Units
  <2>3. RowAmount(i) <= Cardinality(U)
    BY <2>1, <2>2, UnitsFinite, BlockRemoved
  <2>4. reserved[RowGrant(i)] = Cardinality(U)
    BY <1>1, <2>1 DEF StoreInv, LedgerMatchesRows
  <2> QED
    BY <2>1, <2>3, <2>4, UnitsFinite
<1>2. StoreInv => ReservationsCanBeReturned
  BY <1>1 DEF ReservationsCanBeReturned
<1> QED
  BY <1>2, StoreInvInit, StoreInvStep, PTL DEF StoreSpec

\* Once DENIED or CONFIRMED, a row only ever gains its first receipt: retries
\* need FAILED, recovery needs RESERVED, and so on for every guard.
LEMMA FinalStep ==
    ASSUME StoreInv, StoreNext, NEW i \in InState({"DENIED", "CONFIRMED"})
    PROVE  \/ row'[i] = row[i]
           \/ /\ row[i].receipt = NoReceipt
              /\ row'[i] = [row[i] EXCEPT !.receipt = ReceiptOf(row[i])]
<1> USE DEF StoreInv, StoreTypeOK
<1>1. i \in Invocation /\ row[i].state \in {"DENIED", "CONFIRMED"}
  BY DEF InState
<1>2. ASSUME NEW r \in Request, ReserveAllowed(r) \/ ReserveDenied(r)
      PROVE  row'[i] = row[i]
  <2>1. i # InvocationOf[r]
    BY <1>1, <1>2 DEF ReserveAllowed, ReserveDenied, MayDecide, IsExisting, IsRetry
  <2> QED
    BY <1>1, <1>2, <2>1, RequestType DEF ReserveAllowed, ReserveDenied, WriteDecision
<1>3. ASSUME NEW j \in Invocation, NEW a \in Attempt,
             RecordPaymentAttempt(j, a) \/ Confirm(j, a) \/ ResolveConfirmed(j, a)
      PROVE  row'[i] = row[i]
  BY <1>1, <1>3 DEF RecordPaymentAttempt, Confirm, ResolveConfirmed
<1>4. ASSUME NEW j \in Invocation,
             Fail(j) \/ MarkReconciliationRequired(j) \/ ResolveFailed(j)
      PROVE  row'[i] = row[i]
  BY <1>1, <1>4 DEF Fail, MarkReconciliationRequired, ResolveFailed
<1>5. ASSUME NEW j \in Invocation, AttachReceipt(j, ReceiptOf(row[j]))
      PROVE  \/ row'[i] = row[i]
             \/ /\ row[i].receipt = NoReceipt
                /\ row'[i] = [row[i] EXCEPT !.receipt = ReceiptOf(row[i])]
  BY <1>1, <1>5 DEF AttachReceipt
<1>6. CASE RecoverInterrupted
  BY <1>1, <1>6 DEF RecoverInterrupted, WithAttempt, WithoutAttempt
<1> QED
  BY <1>2, <1>3, <1>4, <1>5, <1>6 DEF StoreNext

\* A DENIED or CONFIRMED row is never decided, released or spent again.
THEOREM FinalityCorrect == StoreSpec => DecisionsAreFinal
<1>1. ASSUME StoreInv, StoreNext, NEW i \in InState({"DENIED", "CONFIRMED"})
      PROVE  \/ row'[i] = row[i]
             \/ /\ row[i].receipt = NoReceipt
                /\ row'[i] = [row[i] EXCEPT !.receipt = row'[i].receipt]
  <2>1. i \in Invocation /\ row[i] \in Row
    BY <1>1 DEF InState, StoreInv, StoreTypeOK
  <2> QED
    BY <1>1, <2>1, FinalStep DEF Row
<1>2. StoreInv /\ [StoreNext]_storeVars =>
         [\A i \in InState({"DENIED", "CONFIRMED"}) :
             \/ row'[i] = row[i]
             \/ /\ row[i].receipt = NoReceipt
                /\ row'[i] = [row[i] EXCEPT !.receipt = row'[i].receipt]]_storeVars
  BY <1>1
<1> QED
  BY <1>2, StoreInvInit, StoreInvStep, PTL DEF StoreSpec, DecisionsAreFinal

\* A receipt always tells its row: it is derived from a decided row, and the
\* row cannot change under it.
LEMMA ReceiptStep ==
    ASSUME StoreInv, ReceiptsTellTheRow, StoreNext
    PROVE  ReceiptsTellTheRow'
<1> USE DEF StoreInv, StoreTypeOK
<1>1. ASSUME NEW i \in Invocation, row[i].receipt # NoReceipt
      PROVE  row'[i] = row[i]
  BY <1>1, FinalStep DEF ReceiptsTellTheRow, InState
<1>2. ASSUME NEW i \in Invocation, row[i].receipt = NoReceipt, row'[i].receipt # NoReceipt
      PROVE  row'[i].state \in {"DENIED", "CONFIRMED"} /\ row'[i].receipt = ReceiptOf(row'[i])
  <2>1. CASE row[i].state \in {"DENIED", "CONFIRMED"}
    <3>1. row'[i] = [row[i] EXCEPT !.receipt = ReceiptOf(row[i])]
      BY <1>2, <2>1, FinalStep DEF InState
    <3>2. row[i] \in Row
      BY <1>2
    <3> QED
      BY <2>1, <3>1, <3>2 DEF ReceiptOf, Row
  <2>2. CASE row[i].state \notin {"DENIED", "CONFIRMED"}
    <3>1. ASSUME NEW r \in Request, NEW s \in InvocationState, WriteDecision(r, s)
          PROVE  row'[i].receipt = row[i].receipt
      BY <3>1, Decided
    <3>2. ASSUME NEW r \in Request, ReserveAllowed(r) \/ ReserveDenied(r)
          PROVE  row'[i].receipt = row[i].receipt
      BY <3>1, <3>2 DEF ReserveAllowed, ReserveDenied, InvocationState
    <3>3. ASSUME NEW j \in Invocation, NEW a \in Attempt,
                 RecordPaymentAttempt(j, a) \/ Confirm(j, a) \/ ResolveConfirmed(j, a)
          PROVE  row'[i].receipt = row[i].receipt
      BY <1>2, <3>3 DEF RecordPaymentAttempt, Confirm, ResolveConfirmed, Row
    <3>4. ASSUME NEW j \in Invocation,
                 Fail(j) \/ MarkReconciliationRequired(j) \/ ResolveFailed(j)
          PROVE  row'[i].receipt = row[i].receipt
      BY <1>2, <3>4 DEF Fail, MarkReconciliationRequired, ResolveFailed, Row
    <3>5. ASSUME NEW j \in Invocation, AttachReceipt(j, ReceiptOf(row[j]))
          PROVE  row'[i].receipt = row[i].receipt
      BY <1>2, <2>2, <3>5 DEF AttachReceipt
    <3>6. CASE RecoverInterrupted
      BY <1>2, <3>6 DEF RecoverInterrupted, Row
    <3> QED
      BY <1>2, <3>2, <3>3, <3>4, <3>5, <3>6 DEF StoreNext
  <2> QED
    BY <2>1, <2>2
<1> QED
  BY <1>1, <1>2 DEF ReceiptsTellTheRow, ReceiptOf

\* A receipt states the decision and the transaction of its row, under every
\* order of store calls.
THEOREM ReceiptsCorrect == StoreSpec => []ReceiptsTellTheRow
<1>1. StoreInit => ReceiptsTellTheRow
  BY DEF StoreInit, AbsentRow, ReceiptsTellTheRow
<1>2. StoreInv /\ ReceiptsTellTheRow /\ [StoreNext]_storeVars => ReceiptsTellTheRow'
  <2>1. ASSUME UNCHANGED storeVars, ReceiptsTellTheRow
        PROVE  ReceiptsTellTheRow'
    BY <2>1 DEF ReceiptsTellTheRow, ReceiptOf
  <2> QED
    BY <2>1, ReceiptStep
<1> QED
  BY <1>1, <1>2, StoreInvInit, StoreInvStep, PTL DEF StoreSpec

HIDE DEF storeVars

-----------------------------------------------------------------------------
(* The service, with any number of processes.                              *)

\* What each control state of a call has at hand.
CallsAreTyped ==
    /\ mode \in [Process -> {"down", "starting", "serving"}]
    /\ pending \in [Process -> [Invocation -> Handler \cup {None}]]
    /\ handler \in [Handler -> [pc : HandlerPc, request : Request \cup {None},
                                attempt : Attempt \cup {None},
                                receipt : Receipt \cup {NoReceipt}]]
    /\ \A h \in Handler :
          /\ handler[h].pc # "idle" => handler[h].request \in Request
          /\ handler[h].pc \in {"recorded", "sent", "paid"} => handler[h].attempt \in Attempt

\* ... and of a reconciliation run.
RunsAreTyped ==
    /\ recon \in [Process -> [pc : ReconPc, queue : SUBSET (Invocation \X Attempt),
                              invocation : Invocation \cup {None},
                              attempt : Attempt \cup {None}, since : Nat,
                              verdict : Verdict, receipt : Receipt \cup {NoReceipt}]]
    /\ \A p \in Process :
          recon[p].pc \in {"height", "resolve", "receipt"} =>
              recon[p].invocation \in Invocation /\ recon[p].attempt \in Attempt

\* The chain's.
ChainIsTyped ==
    /\ height \in 0..MaxHeight
    /\ transfer \in [Attempt -> [status : TransferStatus,
                                 request : Request \cup {None}, lastValid : Nat]]
    /\ history \in Seq(Attempt)

BoundsAreTyped == crashes \in 0..MaxCrashes /\ storeErrors \in 0..MaxStoreErrors

\* A receipt that is being signed tells its row, which is decided.
Tells(receipt, i) == row[i].state \in {"DENIED", "CONFIRMED"} /\ receipt = ReceiptOf(row[i])

ReceiptsInHand ==
    /\ \A h \in Handler : handler[h].pc = "receipt" => Tells(handler[h].receipt, InvocationAt(h))
    /\ \A p \in Process :
          recon[p].pc = "receipt" => Tells(recon[p].receipt, recon[p].invocation)

CallInv == StoreInv /\ CallsAreTyped /\ RunsAreTyped /\ ChainIsTyped /\ BoundsAreTyped
           /\ ReceiptsInHand

\* The receipt of a stored row is a receipt.
LEMMA ReceiptOfRow ==
    ASSUME StoreTypeOK, NEW i \in Invocation
    PROVE  ReceiptOf(row[i]) \in Receipt
BY DEF StoreTypeOK, Row, ReceiptOf, Receipt

\* The request of a call in progress names an invocation.
LEMMA CallOfInvocation ==
    ASSUME CallsAreTyped, NEW h \in Handler, handler[h].pc # "idle"
    PROVE  RequestAt(h) \in Request /\ InvocationAt(h) \in Invocation
BY RequestAssumption DEF CallsAreTyped, RequestAt, InvocationAt

\* Every step of a call is at most one store call (authorize.ts: each store
\* method is called between two awaits), and a signed receipt is attached to
\* the row it tells.
LEMMA CallsAreStoreSteps ==
    ASSUME CallInv, NEW h \in Handler,
           \/ \E r \in Request : Begin(h, r)
           \/ HandlerStep(h) \/ ReleaseFails(h) \/ SettlementNotRecorded(h)
    PROVE  [StoreNext]_storeVars
<1> USE DEF CallInv, storeVars
<1>1. ASSUME NEW r \in Request, Begin(h, r)
      PROVE  UNCHANGED storeVars
  BY <1>1 DEF Begin
<1>2. CASE handler[h].pc = "idle"
  BY <1>1, <1>2 DEF HandlerStep, ServiceUnavailable, Decide, ReleaseNotSubmitted, RecordAttempt,
     Transmit, ObserveSettled, OutcomeUnknown, RecordSettlement, SignReceipt, ReleaseFails,
     SettlementNotRecorded
<1>3. CASE handler[h].pc # "idle"
  <2>1. RequestAt(h) \in Request /\ InvocationAt(h) \in Invocation
    BY <1>3, CallOfInvocation
  <2>2. CASE ServiceUnavailable(h) \/ Transmit(h) \/ ObserveSettled(h) \/ ReleaseFails(h)
    BY <2>2 DEF ServiceUnavailable, Transmit, ObserveSettled, ReleaseFails
  <2>3. CASE Decide(h)
    BY <2>1, <2>3 DEF Decide, StoreNext
  <2>4. CASE ReleaseNotSubmitted(h)
    BY <2>1, <2>4 DEF ReleaseNotSubmitted, IfReserved, StoreNext
  <2>5. ASSUME NEW a \in Attempt, RecordAttempt(h, a)
        PROVE  [StoreNext]_storeVars
    BY <2>1, <2>5 DEF RecordAttempt, StoreNext
  <2>6. CASE OutcomeUnknown(h)
    BY <2>1, <2>6 DEF OutcomeUnknown, IfReserved, StoreNext
  <2>7. CASE RecordSettlement(h)
    <3>1. handler[h].attempt \in Attempt
      BY <2>7 DEF RecordSettlement, CallsAreTyped
    <3> QED BY <2>1, <2>7, <3>1 DEF RecordSettlement, StoreNext
  <2>8. CASE SettlementNotRecorded(h)
    BY <2>1, <2>8 DEF SettlementNotRecorded, StoreNext
  <2>9. CASE SignReceipt(h)
    <3>1. AttachReceipt(InvocationAt(h), ReceiptOf(row[InvocationAt(h)]))
      BY <2>9 DEF SignReceipt, ReceiptsInHand, Tells
    <3> QED BY <2>1, <3>1 DEF StoreNext
  <2> QED BY <1>1, <2>2, <2>3, <2>4, <2>5, <2>6, <2>7, <2>8, <2>9 DEF HandlerStep
<1> QED BY <1>2, <1>3

\* ... and so is every step of a reconciliation run, a crash and a restart.
LEMMA ProcessesAreStoreSteps ==
    ASSUME CallInv, NEW p \in Process,
           ReconcileStep(p) \/ ReconcileAborts(p) \/ Crash(p) \/ Restart(p)
    PROVE  [StoreNext]_storeVars
<1> USE DEF CallInv, storeVars
<1>1. CASE \/ ReconcileStart(p)
           \/ \E i \in Invocation, a \in Attempt : ReadHistory(p, i, a)
           \/ ReadHeight(p) \/ LookupFails(p) \/ ReconcileEnd(p)
           \/ ReconcileAborts(p) \/ Crash(p)
  BY <1>1 DEF ReconcileStart, ReadHistory, ReadHeight, LookupFails, ReconcileEnd,
     ReconcileAborts, Crash
<1>2. CASE Restart(p)
  BY <1>2 DEF Restart, StoreNext
<1>3. CASE Resolve(p)
  <2>1. recon[p].invocation \in Invocation /\ recon[p].attempt \in Attempt
    BY <1>3 DEF Resolve, InRecon, RunsAreTyped
  <2> QED BY <1>3, <2>1 DEF Resolve, StoreNext
<1>4. CASE ReconcileReceipt(p)
  <2>1. recon[p].invocation \in Invocation
    BY <1>4 DEF ReconcileReceipt, InRecon, RunsAreTyped
  <2>2. AttachReceipt(recon[p].invocation, ReceiptOf(row[recon[p].invocation]))
    BY <1>4 DEF ReconcileReceipt, InRecon, ReceiptsInHand, Tells
  <2> QED BY <2>1, <2>2 DEF StoreNext
<1> QED BY <1>1, <1>2, <1>3, <1>4 DEF ReconcileStep

\* No step of the service does to the store what one store call does not.
LEMMA StoreSteps == CallInv /\ [ServiceNext]_serviceVars => [StoreNext]_storeVars
<1>1. ASSUME CallInv, UNCHANGED serviceVars
      PROVE  UNCHANGED storeVars
  BY <1>1 DEF serviceVars, storeVars
<1>2. ASSUME CallInv, \/ \E a \in Attempt : Land(a, "settled") \/ Land(a, "failed")
                      \/ Tick
      PROVE  UNCHANGED storeVars
  BY <1>2 DEF Land, Tick, storeVars
<1> QED BY <1>1, <1>2, CallsAreStoreSteps, ProcessesAreStoreSteps DEF ServiceNext

\* A decided row keeps what its receipt tells.
LEMMA DecidedRowKeeps ==
    ASSUME StoreInv, [StoreNext]_storeVars, NEW i \in Invocation,
           row[i].state \in {"DENIED", "CONFIRMED"}
    PROVE  row'[i].state = row[i].state /\ ReceiptOf(row'[i]) = ReceiptOf(row[i])
<1>1. CASE UNCHANGED storeVars
  BY <1>1 DEF storeVars
<1>2. CASE StoreNext
  <2>1. row[i] \in Row /\ i \in InState({"DENIED", "CONFIRMED"})
    BY DEF StoreInv, StoreTypeOK, InState
  <2> QED BY <1>2, <2>1, FinalStep DEF Row, ReceiptOf
<1> QED BY <1>1, <1>2

\* Each control state has what it needs (authorize.ts).
LEMMA CallsTypedStep ==
    ASSUME CallInv, [ServiceNext]_serviceVars
    PROVE  CallsAreTyped'
<1> USE ServiceAssumption, RequestAssumption DEF CallsAreTyped, HandlerPc, RequestAt,
        InvocationAt
<1>0. CallsAreTyped
  BY DEF CallInv
<1>1. CASE UNCHANGED <<mode, pending, handler>>
  BY <1>0, <1>1
<1>2. ASSUME NEW h \in Handler, Finish(h), UNCHANGED mode
      PROVE  CallsAreTyped'
  BY <1>0, <1>2 DEF Finish, IdleHandler
<1>3. ASSUME NEW h \in Handler, NEW pc \in HandlerPc,
             pc # "idle" => handler[h].pc # "idle",
             pc \in {"recorded", "sent", "paid"} => handler[h].attempt \in Attempt,
             GoTo(h, pc), UNCHANGED <<mode, pending>>
      PROVE  CallsAreTyped'
  <2> DEFINE Calls == [pc : HandlerPc, request : Request \cup {None},
                       attempt : Attempt \cup {None}, receipt : Receipt \cup {NoReceipt}]
             next == [handler[h] EXCEPT !.pc = pc]
  <2>1. handler' = [handler EXCEPT ![h] = next]
    BY <1>3 DEF GoTo
  <2>2. handler \in [Handler -> Calls]
    BY <1>0
  <2>3. next \in Calls
    BY <1>3, <2>2
  <2>4. handler' \in [Handler -> Calls]
    BY <2>1, <2>2, <2>3
  <2>5. /\ handler'[h].pc = pc
        /\ handler'[h].request = handler[h].request /\ handler'[h].attempt = handler[h].attempt
        /\ \A g \in Handler : g # h => handler'[g] = handler[g]
    BY <1>0, <2>1
  <2> QED BY <1>0, <1>3, <2>4, <2>5
<1>4. ASSUME NEW h \in Handler, NEW r \in Request, NEW rc \in Receipt,
             handler' = [handler EXCEPT ![h] = [pc |-> "receipt", request |-> r,
                                               attempt |-> None, receipt |-> rc]],
             UNCHANGED <<mode, pending>>
      PROVE  CallsAreTyped'
  BY <1>0, <1>4
<1>5. ASSUME NEW h \in Handler, NEW r \in Request, Begin(h, r)
      PROVE  CallsAreTyped'
  <2>1. pending' \in [Process -> [Invocation -> Handler \cup {None}]] /\ mode' = mode
    BY <1>0, <1>5 DEF Begin
  <2>2. ReceiptOf(row[InvocationOf[r]]) \in Receipt
    BY ReceiptOfRow DEF CallInv, StoreInv
  <2>3. CASE GoToReceipt(h, r, row[InvocationOf[r]])
    BY <1>0, <2>1, <2>2, <2>3 DEF GoToReceipt
  <2>4. CASE handler' = [handler EXCEPT ![h] = [IdleHandler EXCEPT !.pc = "challenge",
                                                                   !.request = r]]
    BY <1>0, <2>1, <2>4 DEF IdleHandler
  <2> QED BY <1>5, <2>3, <2>4 DEF Begin
<1>6. ASSUME NEW h \in Handler, Decide(h)
      PROVE  CallsAreTyped'
  <2>1. RequestAt(h) \in Request /\ InvocationAt(h) \in Invocation /\ handler[h].pc = "challenge"
    BY <1>0, <1>6, CallOfInvocation DEF Decide
  <2>2. StoreTypeOK /\ StoreTypeOK'
    BY StoreSteps, StoreInvStep DEF CallInv, StoreInv
  <2>3. ReceiptOf(row[InvocationAt(h)]) \in Receipt /\ ReceiptOf(row'[InvocationAt(h)]) \in Receipt
    BY <2>1, <2>2 DEF StoreTypeOK, Row, ReceiptOf, Receipt
  <2>4. CASE GoTo(h, "reserved") /\ UNCHANGED pending
    BY <1>3, <1>6, <2>1, <2>4 DEF Decide
  <2>5. CASE /\ \/ GoToReceipt(h, RequestAt(h), row'[InvocationAt(h)])
                \/ GoToReceipt(h, RequestAt(h), row[InvocationAt(h)])
             /\ UNCHANGED pending
    BY <1>4, <1>6, <2>1, <2>3, <2>5 DEF Decide, GoToReceipt
  <2>6. CASE Finish(h)
    BY <1>2, <1>6, <2>6 DEF Decide
  <2> QED BY <1>6, <2>4, <2>5, <2>6 DEF Decide
<1>7. ASSUME NEW h \in Handler, NEW a \in Attempt, RecordAttempt(h, a)
      PROVE  CallsAreTyped'
  <2>1. CASE handler' = [handler EXCEPT ![h].pc = "recorded", ![h].attempt = a]
    <3> DEFINE Calls == [pc : HandlerPc, request : Request \cup {None},
                         attempt : Attempt \cup {None}, receipt : Receipt \cup {NoReceipt}]
               next == [handler[h] EXCEPT !.pc = "recorded", !.attempt = a]
    <3>1. handler' = [handler EXCEPT ![h] = next]
      BY <2>1
    <3>2. handler \in [Handler -> Calls] /\ handler[h].pc = "reserved"
      BY <1>0, <1>7 DEF RecordAttempt
    <3>3. next \in Calls /\ next.attempt = a /\ next.request = handler[h].request
      BY <3>2
    <3>4. handler' \in [Handler -> Calls]
      BY <3>1, <3>2, <3>3
    <3>5. \A g \in Handler : handler'[g] = IF g = h THEN next ELSE handler[g]
      BY <3>1, <3>2
    <3>6. UNCHANGED <<mode, pending>>
      BY <1>7 DEF RecordAttempt
    <3> HIDE DEF next
    <3> QED BY <1>0, <3>2, <3>3, <3>4, <3>5, <3>6
  <2>2. CASE GoTo(h, "notSubmitted")
    BY <1>3, <1>7, <2>2 DEF RecordAttempt
  <2> QED BY <1>7, <2>1, <2>2 DEF RecordAttempt
<1>8. ASSUME NEW h \in Handler, Transmit(h) \/ ObserveSettled(h)
      PROVE  CallsAreTyped'
  BY <1>0, <1>3, <1>8 DEF Transmit, ObserveSettled
<1>9. ASSUME NEW h \in Handler, RecordSettlement(h)
      PROVE  CallsAreTyped'
  <2>1. RequestAt(h) \in Request /\ InvocationAt(h) \in Invocation
    BY <1>0, <1>9, CallOfInvocation DEF RecordSettlement
  <2>2. StoreTypeOK'
    BY StoreSteps, StoreInvStep DEF CallInv, StoreInv
  <2>3. ReceiptOf(row'[InvocationAt(h)]) \in Receipt
    BY <2>1, <2>2 DEF StoreTypeOK, Row, ReceiptOf, Receipt
  <2>4. CASE GoToReceipt(h, RequestAt(h), row'[InvocationAt(h)]) /\ UNCHANGED pending
    BY <1>4, <1>9, <2>1, <2>3, <2>4 DEF RecordSettlement, GoToReceipt
  <2>5. CASE Finish(h)
    BY <1>2, <1>9, <2>5 DEF RecordSettlement
  <2> QED BY <1>9, <2>4, <2>5 DEF RecordSettlement
<1>10. ASSUME NEW h \in Handler,
              \/ ServiceUnavailable(h) \/ ReleaseNotSubmitted(h) \/ ReleaseFails(h)
              \/ OutcomeUnknown(h) \/ SettlementNotRecorded(h) \/ SignReceipt(h)
       PROVE  CallsAreTyped'
  BY <1>2, <1>10 DEF ServiceUnavailable, ReleaseNotSubmitted, ReleaseFails, OutcomeUnknown,
     SettlementNotRecorded, SignReceipt
<1>11. ASSUME NEW p \in Process, ReconcileStep(p) \/ ReconcileAborts(p) \/ Restart(p)
       PROVE  CallsAreTyped'
  BY <1>0, <1>1, <1>11 DEF ReconcileStep, ReconcileStart, ReadHistory, ReadHeight, LookupFails,
     Resolve, ReconcileReceipt, ReconcileEnd, EndRun, ReconcileAborts, Restart
<1>12. ASSUME NEW p \in Process, Crash(p)
       PROVE  CallsAreTyped'
  BY <1>0, <1>12 DEF Crash, IdleHandler
<1>13. CASE (\E a \in Attempt : Land(a, "settled") \/ Land(a, "failed")) \/ Tick
  BY <1>1, <1>13 DEF Land, Tick, processVars
<1>14. CASE UNCHANGED serviceVars
  BY <1>1, <1>14 DEF serviceVars
<1> QED
  BY <1>5, <1>6, <1>7, <1>8, <1>9, <1>10, <1>11, <1>12, <1>13, <1>14
  DEF ServiceNext, HandlerStep

\* ... and each step of a lookup (#lookup, #reconcile).
LEMMA RunsTypedStep ==
    ASSUME CallInv, [ServiceNext]_serviceVars
    PROVE  RunsAreTyped'
<1> DEFINE Runs == [pc : ReconPc, queue : SUBSET (Invocation \X Attempt),
                    invocation : Invocation \cup {None},
                    attempt : Attempt \cup {None}, since : Nat,
                    verdict : Verdict, receipt : Receipt \cup {NoReceipt}]
           Ready(run) == run.pc \in {"height", "resolve", "receipt"} =>
                             run.invocation \in Invocation /\ run.attempt \in Attempt
<1>0. /\ recon \in [Process -> Runs] /\ \A p \in Process : Ready(recon[p])
      /\ StoreTypeOK /\ height \in Nat
  BY DEF CallInv, RunsAreTyped, StoreInv, ChainIsTyped
<1>1. ASSUME NEW p \in Process, NEW run \in Runs, Ready(run),
             recon' = [recon EXCEPT ![p] = run]
      PROVE  RunsAreTyped'
  <2>1. recon' \in [Process -> Runs]
    BY <1>0, <1>1
  <2>2. \A q \in Process : recon'[q] = run \/ recon'[q] = recon[q]
    BY <1>0, <1>1
  <2> QED BY <1>0, <1>1, <2>1, <2>2 DEF RunsAreTyped
<1>2. CASE UNCHANGED recon
  BY <1>2 DEF CallInv, RunsAreTyped
<1>3. IdleRecon \in Runs /\ Ready(IdleRecon)
  BY DEF IdleRecon, ReconPc, Verdict
<1>4. ASSUME NEW p \in Process, NextItem(p)
      PROVE  RunsAreTyped'
  <2> DEFINE run == [IdleRecon EXCEPT !.pc = "next", !.queue = recon[p].queue]
  <2>1. run \in Runs /\ Ready(run)
    BY <1>0 DEF IdleRecon, ReconPc, Verdict
  <2> QED BY <1>1, <1>4, <2>1 DEF NextItem
<1>5. ASSUME NEW p \in Process, ReconcileStart(p)
      PROVE  RunsAreTyped'
  <2> DEFINE listed == {<<i, row[i].attempt>> :
                          i \in {j \in InState({"RECONCILIATION_REQUIRED"}) :
                                   row[j].attempt # None}}
             run == [IdleRecon EXCEPT !.pc = "next", !.queue = listed]
  <2>1. listed \in SUBSET (Invocation \X Attempt)
    BY <1>0 DEF StoreTypeOK, Row, InState
  <2>2. run \in Runs /\ Ready(run)
    BY <2>1 DEF IdleRecon, ReconPc, Verdict
  <2>3. recon' = [recon EXCEPT ![p] = run]
    BY <1>5 DEF ReconcileStart
  <2> QED BY <1>1, <2>2, <2>3
<1>6. ASSUME NEW p \in Process, NEW i \in Invocation, NEW a \in Attempt, ReadHistory(p, i, a)
      PROVE  RunsAreTyped'
  <2> DEFINE label == IF a \in Recent THEN "resolve" ELSE "height"
             verdict == IF a \notin Recent THEN "none"
                        ELSE IF transfer[a].status = "settled" THEN "confirmed"
                        ELSE "failed_onchain"
             run == [recon[p] EXCEPT !.queue = @ \ {<<i, a>>}, !.invocation = i, !.attempt = a,
                                     !.since = height, !.pc = label, !.verdict = verdict]
  <2>1. label \in ReconPc /\ verdict \in Verdict
    BY DEF ReconPc, Verdict
  <2>2. recon' = [recon EXCEPT ![p] =
                    [recon[p] EXCEPT !.queue = @ \ {<<i, a>>}, !.invocation = i, !.attempt = a,
                                     !.since = height, !.pc = label, !.verdict = verdict]]
    BY <1>6 DEF ReadHistory
  <2> HIDE DEF label, verdict
  <2>3. recon' = [recon EXCEPT ![p] = run]
    BY <2>2
  <2>4. run \in Runs /\ Ready(run)
    BY <1>0, <2>1
  <2> HIDE DEF run
  <2> QED BY <1>1, <2>3, <2>4
<1>7. ASSUME NEW p \in Process, ReadHeight(p)
      PROVE  RunsAreTyped'
  <2>1. CASE recon' = [recon EXCEPT ![p].pc = "resolve", ![p].verdict = "expired"]
    <3> DEFINE run == [recon[p] EXCEPT !.pc = "resolve", !.verdict = "expired"]
    <3>1. run \in Runs
      BY <1>0 DEF ReconPc, Verdict
    <3>2. Ready(run)
      BY <1>0, <1>7 DEF ReadHeight, InRecon
    <3>3. recon' = [recon EXCEPT ![p] = run]
      BY <2>1
    <3> HIDE DEF run
    <3> QED BY <1>1, <3>1, <3>2, <3>3
  <2> QED BY <1>4, <1>7, <2>1 DEF ReadHeight
<1>8. ASSUME NEW p \in Process, LookupFails(p)
      PROVE  RunsAreTyped'
  <2>1. ASSUME NEW item, InRecon(p, "next"),
               recon' = [recon EXCEPT ![p].queue = @ \ {item}]
        PROVE  RunsAreTyped'
    <3> DEFINE run == [recon[p] EXCEPT !.queue = @ \ {item}]
    <3>1. run \in Runs /\ Ready(run)
      BY <1>0, <2>1 DEF InRecon
    <3>2. recon' = [recon EXCEPT ![p] = run]
      BY <2>1
    <3> HIDE DEF run
    <3> QED BY <1>1, <3>1, <3>2
  <2> QED BY <1>4, <1>8, <2>1 DEF LookupFails
<1>9. ASSUME NEW p \in Process, Resolve(p)
      PROVE  RunsAreTyped'
  <2> DEFINE i == recon[p].invocation
  <2>1. i \in Invocation
    BY <1>0, <1>9 DEF Resolve, InRecon
  <2>2. CASE recon' = [recon EXCEPT ![p].pc = "receipt", ![p].receipt = ReceiptOf(row'[i])]
    <3> DEFINE run == [recon[p] EXCEPT !.pc = "receipt", !.receipt = ReceiptOf(row'[i])]
    <3>1. ReceiptOf(row'[i]) \in Receipt
      <4>1. StoreTypeOK'
        BY StoreSteps, StoreInvStep DEF CallInv, StoreInv
      <4> QED BY <2>1, <4>1 DEF StoreTypeOK, Row, ReceiptOf, Receipt
    <3>2. run \in Runs
      BY <1>0, <3>1 DEF ReconPc
    <3>3. Ready(run)
      BY <1>0, <1>9 DEF Resolve, InRecon
    <3>4. recon' = [recon EXCEPT ![p] = run]
      BY <2>2
    <3> HIDE DEF run
    <3> QED BY <1>1, <3>2, <3>3, <3>4
  <2> QED BY <1>4, <1>9, <2>2 DEF Resolve
<1>10. ASSUME NEW p \in Process, ReconcileReceipt(p)
       PROVE  RunsAreTyped'
  BY <1>4, <1>10 DEF ReconcileReceipt
<1>11. ASSUME NEW p \in Process,
              ReconcileEnd(p) \/ ReconcileAborts(p) \/ Crash(p)
       PROVE  RunsAreTyped'
  <2>1. recon' = [recon EXCEPT ![p] = IdleRecon]
    BY <1>11 DEF ReconcileEnd, ReconcileAborts, Crash, EndRun
  <2> HIDE DEF Runs, Ready
  <2> QED BY <1>1, <1>3, <2>1
<1>12. ASSUME NEW h \in Handler,
              \/ \E r \in Request : Begin(h, r)
              \/ HandlerStep(h) \/ ReleaseFails(h) \/ SettlementNotRecorded(h)
       PROVE  RunsAreTyped'
  BY <1>2, <1>12 DEF Begin, HandlerStep, ServiceUnavailable, Decide, ReleaseNotSubmitted,
     RecordAttempt, Transmit, ObserveSettled, OutcomeUnknown, RecordSettlement, SignReceipt,
     ReleaseFails, SettlementNotRecorded
<1>13. CASE \/ \E p \in Process : Restart(p)
            \/ \E a \in Attempt : Land(a, "settled") \/ Land(a, "failed")
            \/ Tick \/ UNCHANGED serviceVars
  BY <1>2, <1>13 DEF Restart, Land, Tick, processVars, serviceVars
<1> QED
  BY <1>5, <1>6, <1>7, <1>8, <1>9, <1>10, <1>11, <1>12, <1>13 DEF ServiceNext, ReconcileStep

\* Transfers are signed for requests (execute), and land at most in their order.
LEMMA ChainTypedStep ==
    ASSUME CallInv, [ServiceNext]_serviceVars
    PROVE  ChainIsTyped' /\ BoundsAreTyped'
<1> USE ServiceAssumption DEF TransferStatus
<1>0. ChainIsTyped /\ BoundsAreTyped
  BY DEF CallInv
<1>1. CASE UNCHANGED <<chainVars, boundVars>>
  BY <1>0, <1>1 DEF ChainIsTyped, BoundsAreTyped, chainVars, boundVars
<1>2. ASSUME NEW h \in Handler, NEW a \in Attempt, RecordAttempt(h, a)
      PROVE  ChainIsTyped' /\ BoundsAreTyped'
  <2>1. RequestAt(h) \in Request
    BY <1>2, CallOfInvocation DEF RecordAttempt, CallInv
  <2> QED BY <1>0, <1>2, <2>1 DEF RecordAttempt, ChainIsTyped, BoundsAreTyped, boundVars
<1>3. ASSUME NEW h \in Handler, Transmit(h)
      PROVE  ChainIsTyped' /\ BoundsAreTyped'
  <2>1. handler[h].attempt \in Attempt
    BY <1>3 DEF Transmit, CallInv, CallsAreTyped
  <2> QED BY <1>0, <1>3, <2>1 DEF Transmit, ChainIsTyped, BoundsAreTyped, boundVars
<1>4. ASSUME NEW a \in Attempt, Land(a, "settled") \/ Land(a, "failed")
      PROVE  ChainIsTyped' /\ BoundsAreTyped'
  <2> DEFINE Transfers == [status : TransferStatus, request : Request \cup {None}, lastValid : Nat]
  <2>1. PICK status \in {"settled", "failed"} :
            transfer' = [transfer EXCEPT ![a].status = status]
    BY <1>4 DEF Land
  <2>2. transfer' \in [Attempt -> Transfers]
    BY <1>0, <2>1 DEF ChainIsTyped
  <2>3. history' \in Seq(Attempt)
    <3>1. history' = Append(history, a) /\ history \in Seq(Attempt)
      BY <1>0, <1>4 DEF ChainIsTyped, Land
    <3> QED BY <3>1
  <2>4. UNCHANGED <<height, boundVars>>
    BY <1>4 DEF Land
  <2> QED BY <1>0, <2>2, <2>3, <2>4 DEF ChainIsTyped, BoundsAreTyped, boundVars
<1>5. CASE Tick
  BY <1>0, <1>5 DEF Tick, ChainIsTyped, BoundsAreTyped, boundVars
<1>6. ASSUME UNCHANGED chainVars,
             \/ crashes' = crashes + 1 /\ crashes < MaxCrashes /\ UNCHANGED storeErrors
             \/ storeErrors' = storeErrors + 1 /\ storeErrors < MaxStoreErrors /\ UNCHANGED crashes
      PROVE  ChainIsTyped' /\ BoundsAreTyped'
  <2>1. ChainIsTyped'
    BY <1>0, <1>6 DEF ChainIsTyped, chainVars
  <2>2. crashes \in 0..MaxCrashes /\ storeErrors \in 0..MaxStoreErrors
    BY <1>0 DEF BoundsAreTyped
  <2>3. BoundsAreTyped'
    BY <1>6, <2>2 DEF BoundsAreTyped
  <2> QED BY <2>1, <2>3
<1>7. ASSUME NEW h \in Handler,
             \/ \E r \in Request : Begin(h, r)
             \/ HandlerStep(h) \/ ReleaseFails(h) \/ SettlementNotRecorded(h)
      PROVE  ChainIsTyped' /\ BoundsAreTyped'
  BY <1>1, <1>2, <1>3, <1>6, <1>7 DEF Begin, HandlerStep, ServiceUnavailable, Decide,
     ReleaseNotSubmitted, ObserveSettled, OutcomeUnknown, RecordSettlement, SignReceipt,
     ReleaseFails, SettlementNotRecorded
<1>8. ASSUME NEW p \in Process,
             ReconcileStep(p) \/ ReconcileAborts(p) \/ Crash(p) \/ Restart(p)
      PROVE  ChainIsTyped' /\ BoundsAreTyped'
  BY <1>1, <1>6, <1>8 DEF ReconcileStep, ReconcileStart, ReadHistory, ReadHeight, LookupFails,
     Resolve, ReconcileReceipt, ReconcileEnd, ReconcileAborts, Crash, Restart
<1>9. CASE UNCHANGED serviceVars
  BY <1>1, <1>9 DEF serviceVars, chainVars, boundVars
<1> QED BY <1>4, <1>5, <1>7, <1>8, <1>9 DEF ServiceNext

\* A receipt in hand goes on telling its row, whatever step is taken, and a
\* new one is built from the row as that step leaves it (#ensureReceipt).
LEMMA ReceiptsStep ==
    ASSUME CallInv, [ServiceNext]_serviceVars
    PROVE  ReceiptsInHand'
<1> USE DEF CallsAreTyped, RunsAreTyped
<1>0. StoreInv /\ CallsAreTyped /\ RunsAreTyped /\ ReceiptsInHand /\ [StoreNext]_storeVars
  BY StoreSteps DEF CallInv
<1>1. ASSUME NEW i \in Invocation, NEW receipt, Tells(receipt, i)
      PROVE  Tells(receipt, i)'
  BY <1>0, <1>1, DecidedRowKeeps DEF Tells
<1>2. ASSUME NEW h \in Handler, handler[h].pc = "receipt", handler'[h] = handler[h]
      PROVE  Tells(handler[h].receipt, InvocationAt(h))'
  <2>1. InvocationAt(h) \in Invocation /\ InvocationAt(h)' = InvocationAt(h)
    BY <1>0, <1>2, CallOfInvocation DEF InvocationAt, RequestAt
  <2> QED BY <1>0, <1>1, <1>2, <2>1 DEF ReceiptsInHand, Tells
<1>3. ASSUME NEW p \in Process, recon[p].pc = "receipt", recon'[p] = recon[p]
      PROVE  Tells(recon[p].receipt, recon[p].invocation)'
  <2>1. recon[p].invocation \in Invocation
    BY <1>0, <1>3
  <2> QED BY <1>0, <1>1, <1>3, <2>1 DEF ReceiptsInHand, Tells
<1>4. ASSUME NEW h \in Handler, NEW r \in Request, GoToReceipt(h, r, row'[InvocationOf[r]]),
             row'[InvocationOf[r]].state \in {"DENIED", "CONFIRMED"}, UNCHANGED recon
      PROVE  ReceiptsInHand'
  <2>1. /\ handler'[h].request = r /\ handler'[h].receipt = ReceiptOf(row'[InvocationOf[r]])
        /\ \A g \in Handler : g # h => handler'[g] = handler[g]
    BY <1>0, <1>4 DEF GoToReceipt
  <2>2. Tells(handler[h].receipt, InvocationAt(h))'
    BY <1>4, <2>1 DEF Tells, InvocationAt, RequestAt
  <2> QED BY <1>2, <1>3, <1>4, <2>1, <2>2 DEF ReceiptsInHand
<1>5. ASSUME \A h \in Handler : handler'[h] = handler[h] \/ handler'[h].pc # "receipt",
             \A p \in Process : recon'[p] = recon[p] \/ recon'[p].pc # "receipt"
      PROVE  ReceiptsInHand'
  BY <1>2, <1>3, <1>5 DEF ReceiptsInHand
<1>6. ASSUME NEW h \in Handler, Finish(h), UNCHANGED recon
      PROVE  ReceiptsInHand'
  BY <1>0, <1>5, <1>6 DEF Finish, IdleHandler
<1>7. ASSUME NEW h \in Handler, NEW r \in Request, Begin(h, r)
      PROVE  ReceiptsInHand'
  <2>1. CASE NeedsReceipt(r) /\ GoToReceipt(h, r, row[InvocationOf[r]])
    BY <1>4, <1>7, <2>1 DEF Begin, NeedsReceipt, storeVars
  <2>2. CASE handler' = [handler EXCEPT ![h] = [IdleHandler EXCEPT !.pc = "challenge",
                                                                   !.request = r]]
    BY <1>0, <1>5, <1>7, <2>2 DEF Begin, IdleHandler
  <2> QED BY <1>7, <2>1, <2>2 DEF Begin
<1>8. ASSUME NEW h \in Handler, Decide(h)
      PROVE  ReceiptsInHand'
  <2> DEFINE r == RequestAt(h)
  <2>1. r \in Request /\ InvocationOf[r] \in Invocation /\ UNCHANGED recon
    BY <1>0, <1>8, CallOfInvocation DEF Decide, InvocationAt
  <2>2. CASE GoTo(h, "reserved")
    BY <1>0, <1>5, <2>1, <2>2 DEF GoTo
  <2>3. CASE ReserveDenied(r) /\ GoToReceipt(h, r, row'[InvocationOf[r]])
    <3>1. row'[InvocationOf[r]].state = "DENIED"
      BY <1>0, <2>1, <2>3, Decided DEF ReserveDenied, InvocationState, StoreInv
    <3> QED BY <1>4, <2>1, <2>3, <3>1
  <2>4. CASE NeedsReceipt(r) /\ GoToReceipt(h, r, row[InvocationOf[r]]) /\ UNCHANGED storeVars
    BY <1>4, <2>1, <2>4 DEF NeedsReceipt, storeVars
  <2>5. CASE Finish(h)
    BY <1>6, <2>1, <2>5
  <2> QED BY <1>8, <2>2, <2>3, <2>4, <2>5 DEF Decide, storeVars
<1>9. ASSUME NEW h \in Handler, RecordSettlement(h)
      PROVE  ReceiptsInHand'
  <2> DEFINE r == RequestAt(h)
  <2>1. r \in Request /\ InvocationAt(h) = InvocationOf[r] /\ InvocationOf[r] \in Invocation
        /\ UNCHANGED recon
    BY <1>0, <1>9, CallOfInvocation DEF RecordSettlement, InvocationAt
  <2>2. CASE Confirm(InvocationOf[r], handler[h].attempt)
             /\ GoToReceipt(h, r, row'[InvocationOf[r]])
    <3>1. row'[InvocationOf[r]].state = "CONFIRMED"
      BY <1>0, <2>1, <2>2 DEF Confirm, StoreInv, StoreTypeOK, Row
    <3> QED BY <1>4, <2>1, <2>2, <3>1
  <2>3. CASE Finish(h)
    BY <1>6, <2>1, <2>3
  <2> QED BY <1>9, <2>1, <2>2, <2>3 DEF RecordSettlement
<1>10. ASSUME NEW h \in Handler,
              \/ ServiceUnavailable(h) \/ ReleaseNotSubmitted(h) \/ ReleaseFails(h)
              \/ OutcomeUnknown(h) \/ SettlementNotRecorded(h) \/ SignReceipt(h)
       PROVE  ReceiptsInHand'
  BY <1>6, <1>10 DEF ServiceUnavailable, ReleaseNotSubmitted, ReleaseFails, OutcomeUnknown,
     SettlementNotRecorded, SignReceipt
<1>11. ASSUME NEW h \in Handler,
              \/ \E a \in Attempt : RecordAttempt(h, a)
              \/ Transmit(h) \/ ObserveSettled(h)
       PROVE  ReceiptsInHand'
  <2>1. UNCHANGED recon
    BY <1>11 DEF RecordAttempt, Transmit, ObserveSettled
  <2>2. \A g \in Handler : handler'[g] = handler[g] \/ handler'[g].pc # "receipt"
    BY <1>0, <1>11 DEF RecordAttempt, Transmit, ObserveSettled, GoTo
  <2> QED BY <1>5, <2>1, <2>2
<1>12. ASSUME NEW p \in Process, Resolve(p)
       PROVE  ReceiptsInHand'
  <2> DEFINE i == recon[p].invocation
  <2>1. i \in Invocation /\ UNCHANGED handler
    BY <1>0, <1>12 DEF Resolve, InRecon
  <2>2. CASE ResolveConfirmed(i, recon[p].attempt)
             /\ recon' = [recon EXCEPT ![p].pc = "receipt", ![p].receipt = ReceiptOf(row'[i])]
    <3>1. row'[i].state = "CONFIRMED"
      BY <1>0, <2>1, <2>2 DEF ResolveConfirmed, StoreInv, StoreTypeOK, Row
    <3>2. /\ recon'[p].receipt = ReceiptOf(row'[i]) /\ recon'[p].invocation = i
          /\ \A q \in Process : q # p => recon'[q] = recon[q]
      BY <1>0, <2>2
    <3>3. Tells(recon[p].receipt, recon[p].invocation)'
      BY <3>1, <3>2 DEF Tells
    <3> QED BY <1>2, <1>3, <2>1, <3>2, <3>3 DEF ReceiptsInHand
  <2>3. CASE NextItem(p)
    BY <1>0, <1>5, <2>1, <2>3 DEF NextItem, IdleRecon
  <2> QED BY <1>12, <2>2, <2>3 DEF Resolve
<1>13. ASSUME NEW p \in Process,
              \/ ReconcileStart(p) \/ ReadHeight(p) \/ LookupFails(p)
              \/ \E i \in Invocation, a \in Attempt : ReadHistory(p, i, a)
              \/ ReconcileReceipt(p) \/ ReconcileEnd(p) \/ ReconcileAborts(p)
       PROVE  ReceiptsInHand'
  <2>1. UNCHANGED handler
    BY <1>13 DEF ReconcileStart, ReadHistory, ReadHeight, LookupFails, ReconcileReceipt,
       ReconcileEnd, ReconcileAborts
  <2>2. ASSUME NEW run, run.pc # "receipt", recon' = [recon EXCEPT ![p] = run]
        PROVE  ReceiptsInHand'
    BY <1>0, <1>5, <2>1, <2>2
  <2>3. CASE NextItem(p)
    BY <2>2, <2>3 DEF NextItem, IdleRecon
  <2>4. CASE ReconcileStart(p) \/ ReconcileEnd(p) \/ ReconcileAborts(p)
    BY <2>2, <2>4 DEF ReconcileStart, ReconcileEnd, ReconcileAborts, EndRun, IdleRecon
  <2>5. CASE ReadHeight(p)
    <3>1. CASE recon' = [recon EXCEPT ![p].pc = "resolve", ![p].verdict = "expired"]
      <4>1. \A q \in Process : recon'[q] = recon[q] \/ recon'[q].pc # "receipt"
        BY <1>0, <3>1
      <4> QED BY <1>5, <2>1, <4>1
    <3> QED BY <2>3, <2>5, <3>1 DEF ReadHeight
  <2>6. CASE LookupFails(p)
    <3>1. ASSUME NEW item \in recon[p].queue, recon[p].pc = "next",
                 recon' = [recon EXCEPT ![p].queue = @ \ {item}]
          PROVE  ReceiptsInHand'
      <4>1. \A q \in Process : recon'[q] = recon[q] \/ recon'[q].pc # "receipt"
        BY <1>0, <3>1
      <4> QED BY <1>5, <2>1, <4>1
    <3> QED BY <2>3, <2>6, <3>1 DEF LookupFails, InRecon
  <2>7. ASSUME NEW i \in Invocation, NEW a \in Attempt, ReadHistory(p, i, a)
        PROVE  ReceiptsInHand'
    <3>1. ASSUME NEW pc \in {"resolve", "height"}, NEW verdict,
                 recon' = [recon EXCEPT ![p] =
                     [recon[p] EXCEPT !.queue = @ \ {<<i, a>>}, !.invocation = i, !.attempt = a,
                                      !.since = height, !.pc = pc, !.verdict = verdict]]
          PROVE  ReceiptsInHand'
      <4> DEFINE run == [recon[p] EXCEPT !.queue = @ \ {<<i, a>>}, !.invocation = i,
                                         !.attempt = a, !.since = height, !.pc = pc,
                                         !.verdict = verdict]
      <4>1. run.pc = pc
        BY <1>0
      <4> QED BY <2>2, <3>1, <4>1
    <3> QED BY <2>7, <3>1 DEF ReadHistory
  <2>8. CASE ReconcileReceipt(p)
    BY <2>3, <2>8 DEF ReconcileReceipt
  <2> QED BY <1>13, <2>4, <2>5, <2>6, <2>7, <2>8
<1>14. ASSUME NEW p \in Process, Crash(p)
       PROVE  ReceiptsInHand'
  BY <1>0, <1>5, <1>14 DEF Crash, IdleHandler, IdleRecon
<1>15. CASE \/ \E p \in Process : Restart(p)
            \/ \E a \in Attempt : Land(a, "settled") \/ Land(a, "failed")
            \/ Tick \/ UNCHANGED serviceVars
  BY <1>5, <1>15 DEF Restart, Land, Tick, processVars, serviceVars
<1> QED
  BY <1>7, <1>8, <1>9, <1>10, <1>11, <1>12, <1>13, <1>14, <1>15
  DEF ServiceNext, HandlerStep, ReconcileStep

\* No call and no run at first.
LEMMA CallInvInit == ServiceInit => CallInv
<1> SUFFICES ASSUME ServiceInit
             PROVE  CallInv
  OBVIOUS
<1>1. StoreInv
  BY StoreInvInit DEF ServiceInit
<1>2. CallsAreTyped /\ RunsAreTyped /\ ReceiptsInHand
  BY DEF ServiceInit, CallsAreTyped, RunsAreTyped, ReceiptsInHand, IdleHandler, IdleRecon,
     HandlerPc, ReconPc, Verdict
<1>3. ChainIsTyped /\ BoundsAreTyped
  BY ServiceAssumption DEF ServiceInit, ChainIsTyped, BoundsAreTyped, Unsigned, TransferStatus
<1> QED BY <1>1, <1>2, <1>3 DEF CallInv

\* Every step of the service keeps the shapes.
LEMMA CallInvStep == CallInv /\ [ServiceNext]_serviceVars => CallInv'
BY StoreSteps, StoreInvStep, CallsTypedStep, RunsTypedStep, ChainTypedStep, ReceiptsStep
DEF CallInv

\* So they hold in every reachable state.
LEMMA CallInvAlways == ServiceSpec => []CallInv
BY CallInvInit, CallInvStep, PTL DEF ServiceSpec

\* The processes, calls, runs and the chain are well formed in every reachable state.
THEOREM ServiceTypeCorrect == ServiceSpec => []ServiceTypeOK
<1>1. CallInv => ServiceTypeOK
  BY DEF CallInv, StoreInv, ServiceTypeOK, CallsAreTyped, RunsAreTyped, ChainIsTyped,
     BoundsAreTyped
<1> QED BY <1>1, CallInvAlways, PTL

\* Whatever processes, calls, crashes, restarts and failing store calls do, the
\* tables see one store call at a time: all that holds of the store under
\* every order of calls holds of it under the service.
THEOREM ServiceImplementsStore == ServiceSpec => StoreSpec
<1>1. ServiceInit => StoreInit
  BY DEF ServiceInit
<1>2. CallInv /\ [ServiceNext]_serviceVars => [StoreNext]_storeVars
  BY StoreSteps
<1> QED BY <1>1, <1>2, CallInvAlways, PTL DEF ServiceSpec, StoreSpec

-----------------------------------------------------------------------------
(* One process, whose lookup is quick and whose history reaches back.        *)

\* One process serves the store, a lookup takes no longer than the margin, and
\* the history it reads reaches back to every transfer.
SingleAuthority ==
    /\ \A p, q \in Process : p = q
    /\ LookupBlocks <= Margin
    /\ IsFiniteSet(Attempt) /\ Cardinality(Attempt) <= HistoryLimit

-----------------------------------------------------------------------------
(* The inductive invariant.                                                *)

\* Who a transfer is for is known once it is signed.
TransfersAreSigned ==
    \A a \in Attempt : transfer[a].status # "unsigned" => transfer[a].request \in Request

\* A call in progress is the pending one of its invocation.
CallsArePending ==
    \A h \in Handler : handler[h].pc # "idle" =>
        /\ mode[ProcessOf[h]] = "serving"
        /\ pending[ProcessOf[h]][InvocationAt(h)] = h

\* Between its reservation and its end a call's row stays as the call left it.
OwnsItsRow(h) ==
    LET call == handler[h]
        inv == row[InvocationAt(h)]
    IN /\ call.pc # "notSubmitted"
       /\ call.pc \in {"reserved", "recorded", "sent", "paid"} =>
             inv.state = "RESERVED" /\ inv.fingerprint = call.request
       /\ call.pc = "reserved" => inv.attempt = None
       /\ call.pc \in {"recorded", "sent", "paid"} => inv.attempt = call.attempt
       /\ call.pc = "recorded" => transfer[call.attempt].status = "signed"
       /\ call.pc = "sent" => transfer[call.attempt].status \in {"sent", "settled", "failed"}
       /\ call.pc = "paid" => transfer[call.attempt].status = "settled"

CallsOwnTheirRows == \A h \in Handler : OwnsItsRow(h)

\* A row's attempt is a transfer signed for the row's request.
RowsNameTheirTransfers ==
    \A i \in Invocation :
        row[i].attempt # None => /\ transfer[row[i].attempt].status # "unsigned"
                                 /\ transfer[row[i].attempt].request = row[i].fingerprint

\* The history holds what landed, once.
Landed(a) == transfer[a].status \in {"settled", "failed"}
HistoryIsComplete ==
    /\ \A a \in Attempt : Landed(a) <=> \E k \in DOMAIN history : history[k] = a
    /\ \A k, l \in DOMAIN history : history[k] = history[l] => k = l

\* What a reconciliation run has listed stays blocked until it gets there.
StaysBlocked(p) ==
    /\ \A item \in recon[p].queue :
          /\ row[item[1]].state = "RECONCILIATION_REQUIRED"
          /\ row[item[1]].attempt = item[2]
    /\ recon[p].pc \in {"height", "resolve"} =>
          /\ row[recon[p].invocation].state = "RECONCILIATION_REQUIRED"
          /\ row[recon[p].invocation].attempt = recon[p].attempt
          /\ \A item \in recon[p].queue : item[1] # recon[p].invocation

ListedRowsStayBlocked == \A p \in Process : StaysBlocked(p)

\* A transfer that lands during a lookup is valid when the lookup begins, and
\* so not expired by the margin when it ends: a verdict is true for ever.
IsTrue(p) ==
    LET looked == transfer[recon[p].attempt]
    IN /\ recon[p].pc = "height" =>
             /\ recon[p].since <= height /\ height <= recon[p].since + LookupBlocks
             /\ Landed(recon[p].attempt) => looked.lastValid >= recon[p].since
       /\ recon[p].pc = "resolve" =>
             \/ recon[p].verdict = "confirmed" /\ looked.status = "settled"
             \/ recon[p].verdict = "failed_onchain" /\ looked.status = "failed"
             \/ /\ recon[p].verdict = "expired" /\ looked.status # "settled"
                /\ height > looked.lastValid

VerdictsAreTrue == \A p \in Process : IsTrue(p)

\* The rows and the transfers.
CoverInv ==
    /\ TransfersAreSigned
    /\ RowsNameTheirTransfers
    /\ PaymentsAreCovered
    /\ ConfirmedWasSettled
    /\ BlockedRowsCanBeResolved

ServiceInv ==
    /\ CallInv
    /\ CoverInv
    /\ CallsArePending
    /\ CallsOwnTheirRows
    /\ HistoryIsComplete
    /\ ListedRowsStayBlocked
    /\ VerdictsAreTrue

-----------------------------------------------------------------------------
(* What a step may do to a row and to a transfer.                          *)

SameRequest(i) == row'[i].fingerprint = row[i].fingerprint /\ row'[i].attempt = row[i].attempt

\* A row is decided, records a signed attempt, is confirmed by its settled
\* attempt, is blocked with an attempt, or is released when its attempt can
\* no longer settle.
RowStep(i) ==
    \/ SameRequest(i) /\ row'[i].state = row[i].state /\ row'[i].transaction = row[i].transaction
    \/ /\ row[i].state \in {"ABSENT", "FAILED"} /\ row'[i].state \in {"RESERVED", "DENIED"}
       /\ row'[i].attempt = None
    \/ /\ row[i].state = "RESERVED" /\ row'[i].state = "RESERVED"
       /\ row'[i].fingerprint = row[i].fingerprint
       /\ row[i].attempt = None /\ row'[i].attempt \in Attempt
       /\ transfer'[row'[i].attempt].status = "signed"
       /\ transfer'[row'[i].attempt].request = row[i].fingerprint
    \/ /\ row[i].state \in Holding /\ row'[i].state = "CONFIRMED"
       /\ SameRequest(i) /\ row'[i].transaction = row[i].attempt /\ row[i].attempt # None
       /\ transfer[row[i].attempt].status = "settled"
    \/ /\ row[i].state = "RESERVED" /\ row'[i].state = "RECONCILIATION_REQUIRED"
       /\ SameRequest(i) /\ row[i].attempt # None
    \/ /\ row[i].state \in Holding /\ row'[i].state = "FAILED"
       /\ SameRequest(i) /\ (row[i].attempt # None => ~Live(row[i].attempt))

\* A transfer is signed, sent while its row is reserved for it, or lands while
\* it is valid.
TransferStep(a) ==
    \/ transfer'[a] = transfer[a]
    \/ /\ transfer[a].status = "unsigned" /\ transfer'[a].status = "signed"
       /\ transfer'[a].request \in Request
    \/ /\ transfer[a].status = "signed" /\ transfer'[a].status = "sent"
       /\ transfer'[a].request = transfer[a].request
       /\ transfer'[a].lastValid = transfer[a].lastValid
       /\ row' = row
       /\ row[InvocationOf[transfer[a].request]].state = "RESERVED"
       /\ row[InvocationOf[transfer[a].request]].fingerprint = transfer[a].request
       /\ row[InvocationOf[transfer[a].request]].attempt = a
    \/ /\ transfer[a].status = "sent" /\ transfer'[a].status \in {"settled", "failed"}
       /\ transfer'[a].request = transfer[a].request
       /\ transfer'[a].lastValid = transfer[a].lastValid
       /\ height <= transfer[a].lastValid

CoverStep ==
    /\ \A i \in Invocation : RowStep(i)
    /\ \A a \in Attempt : TransferStep(a)
    /\ height' \in Nat /\ height' >= height

\* Such steps keep money covered, whatever takes them.
LEMMA CoverStepKeeps ==
    ASSUME CallInv, CoverInv, CoverStep
    PROVE  CoverInv'
<1> USE DEF CoverStep, CoverInv
<1>0. /\ row \in [Invocation -> Row] /\ height \in Nat
      /\ transfer \in [Attempt -> [status : TransferStatus,
                                   request : Request \cup {None}, lastValid : Nat]]
      /\ \A r \in Request : InvocationOf[r] \in Invocation
  BY RequestAssumption DEF CallInv, StoreInv, StoreTypeOK, ChainIsTyped
<1>1. TransfersAreSigned'
  BY DEF TransfersAreSigned, TransferStep
<1>2. RowsNameTheirTransfers'
  <2> SUFFICES ASSUME NEW i \in Invocation, row'[i].attempt # None
               PROVE  /\ transfer'[row'[i].attempt].status # "unsigned"
                      /\ transfer'[row'[i].attempt].request = row'[i].fingerprint
    BY DEF RowsNameTheirTransfers
  <2>1. RowStep(i)
    OBVIOUS
  <2>2. CASE SameRequest(i)
    <3>1. /\ transfer[row[i].attempt].status # "unsigned"
          /\ transfer[row[i].attempt].request = row[i].fingerprint
          /\ row[i].attempt \in Attempt
      BY <1>0, <2>2 DEF RowsNameTheirTransfers, SameRequest, Row
    <3>2. TransferStep(row[i].attempt)
      BY <3>1
    <3> QED BY <2>2, <3>1, <3>2 DEF SameRequest, TransferStep
  <2>3. CASE /\ transfer'[row'[i].attempt].status = "signed"
             /\ transfer'[row'[i].attempt].request = row[i].fingerprint
             /\ row'[i].fingerprint = row[i].fingerprint
    BY <2>3
  <2> QED BY <2>1, <2>2, <2>3 DEF RowStep, Holding
<1>3. PaymentsAreCovered'
  <2> SUFFICES ASSUME NEW a \in Attempt, Live(a)'
               PROVE  LET inv == row'[InvocationOf[transfer'[a].request]]
                      IN /\ inv.fingerprint = transfer'[a].request
                         /\ inv.attempt = a
                         /\ inv.state \in {"RESERVED", "RECONCILIATION_REQUIRED", "CONFIRMED"}
    BY DEF PaymentsAreCovered
  <2>1. TransferStep(a)
    OBVIOUS
  <2>2. CASE Live(a) /\ transfer'[a].request = transfer[a].request
    <3> DEFINE i == InvocationOf[transfer[a].request]
    <3>1. i \in Invocation
      BY <1>0, <2>2 DEF TransfersAreSigned, Live
    <3>2. /\ row[i].fingerprint = transfer[a].request /\ row[i].attempt = a
          /\ row[i].state \in {"RESERVED", "RECONCILIATION_REQUIRED", "CONFIRMED"}
      BY <2>2 DEF PaymentsAreCovered
    <3>3. RowStep(i) /\ a # None
      BY <3>1, NoneAssumption
    <3> HIDE DEF i
    <3> QED BY <2>2, <3>2, <3>3 DEF RowStep, SameRequest, i
  <2>3. CASE transfer[a].status = "signed" /\ transfer'[a].status = "sent"
    BY <1>0, <2>1, <2>3 DEF TransferStep
  <2>4. transfer'[a].status # "signed"
    BY DEF Live
  <2>5. CASE transfer'[a] = transfer[a]
    <3>1. Live(a)
      BY <1>0, <2>5 DEF Live
    <3> QED BY <2>2, <2>5, <3>1
  <2>6. CASE /\ transfer[a].status = "sent" /\ height <= transfer[a].lastValid
             /\ transfer'[a].request = transfer[a].request
    BY <2>2, <2>6 DEF Live
  <2> QED BY <2>1, <2>3, <2>4, <2>5, <2>6 DEF TransferStep
<1>4. ConfirmedWasSettled'
  <2> SUFFICES ASSUME NEW i \in Invocation, row'[i].state = "CONFIRMED"
               PROVE  /\ row'[i].transaction # None
                      /\ row'[i].transaction = row'[i].attempt
                      /\ transfer'[row'[i].transaction].status = "settled"
                      /\ transfer'[row'[i].transaction].request = row'[i].fingerprint
    BY DEF ConfirmedWasSettled, InState
  <2>1. RowStep(i) /\ row[i] \in Row
    BY <1>0
  <2>2. /\ row'[i].transaction # None
        /\ row'[i].transaction = row'[i].attempt /\ SameRequest(i)
        /\ transfer[row[i].attempt].status = "settled"
        /\ row[i].state \in {"RESERVED", "RECONCILIATION_REQUIRED", "CONFIRMED"}
    BY <2>1 DEF RowStep, ConfirmedWasSettled, InState, Holding, SameRequest
  <2>3. row[i].attempt \in Attempt /\ TransferStep(row[i].attempt)
    BY <2>1, <2>2 DEF SameRequest, Row
  <2>4. transfer[row[i].attempt].request = row[i].fingerprint
    BY <2>2 DEF RowsNameTheirTransfers, SameRequest
  <2> QED BY <2>2, <2>3, <2>4 DEF TransferStep, SameRequest
<1>5. BlockedRowsCanBeResolved'
  BY DEF BlockedRowsCanBeResolved, InState, RowStep, SameRequest
<1> QED BY <1>1, <1>2, <1>3, <1>4, <1>5

-----------------------------------------------------------------------------
(* The steps of a call.                                                    *)

\* The pending promise of an invocation belongs to one call (#pending).
LEMMA SoleCall ==
    ASSUME SingleAuthority, CallInv, CallsArePending, NEW g \in Handler, NEW h \in Handler,
           handler[g].pc # "idle", handler[h].pc # "idle", InvocationAt(g) = InvocationAt(h)
    PROVE  g = h
BY ServiceAssumption DEF SingleAuthority, CallsArePending

\* What a step of call h leaves alone.
CallFrame(h) ==
    /\ CoverStep
    /\ \A i \in Invocation :
          /\ row[i].state = "RECONCILIATION_REQUIRED" => row'[i] = row[i]
          /\ row'[i] = row[i] \/ (handler[h].pc # "idle" /\ i = InvocationAt(h))
    /\ \A a \in Attempt :
          /\ Landed(a)' <=> Landed(a)
          /\ \/ transfer'[a] = transfer[a]
             \/ transfer[a].status = "unsigned"
             \/ handler[h].pc = "recorded" /\ a = handler[h].attempt
    /\ \A g \in Handler \ {h} : handler'[g] = handler[g]
    /\ OwnsItsRow(h)'
    /\ UNCHANGED <<recon, height, history>>

\* ... is all that the other calls and the reconciliation run rely on.
LEMMA CallFrameKeeps ==
    ASSUME SingleAuthority, ServiceInv, NEW h \in Handler, CallFrame(h)
    PROVE  /\ CoverInv' /\ CallsOwnTheirRows' /\ HistoryIsComplete'
           /\ ListedRowsStayBlocked' /\ VerdictsAreTrue'
<1> USE DEF CallFrame
<1>0. CallInv /\ CoverInv
  BY DEF ServiceInv
<1>1. CoverInv'
  BY <1>0, CoverStepKeeps
<1>2. ASSUME NEW g \in Handler
      PROVE  OwnsItsRow(g)'
  <2>1. CASE g = h
    BY <2>1
  <2>2. CASE g # h /\ handler[g].pc \notin {"reserved", "recorded", "sent", "paid"}
    BY <2>2 DEF ServiceInv, CallsOwnTheirRows, OwnsItsRow
  <2>3. CASE g # h /\ handler[g].pc \in {"reserved", "recorded", "sent", "paid"}
    <3>1. handler'[g] = handler[g] /\ InvocationAt(g)' = InvocationAt(g) /\ OwnsItsRow(g)
      BY <2>3 DEF ServiceInv, CallsOwnTheirRows, InvocationAt, RequestAt
    <3>2. InvocationAt(g) \in Invocation
      BY <1>0, <2>3, CallOfInvocation DEF CallInv
    <3>3. row'[InvocationAt(g)] = row[InvocationAt(g)]
      BY <2>3, <3>2, SoleCall DEF ServiceInv
    <3>4. ASSUME handler[g].pc \in {"recorded", "sent", "paid"}
          PROVE  transfer'[handler[g].attempt] = transfer[handler[g].attempt]
      <4> DEFINE a == handler[g].attempt
      <4>1. a \in Attempt /\ transfer[a].status # "unsigned"
        BY <1>0, <3>1, <3>4 DEF CallInv, CallsAreTyped, OwnsItsRow
      <4>2. CASE handler[h].pc = "recorded" /\ a = handler[h].attempt
        <5>1. OwnsItsRow(h) /\ InvocationAt(h) \in Invocation /\ a # None
          BY <1>0, <4>1, <4>2, CallOfInvocation, NoneAssumption
          DEF CallInv, ServiceInv, CallsOwnTheirRows
        <5>2. transfer[a].request = handler[h].request
          BY <1>0, <4>2, <5>1 DEF OwnsItsRow, CoverInv, RowsNameTheirTransfers
        <5>3. transfer[a].request = handler[g].request
          BY <1>0, <3>1, <3>2, <3>4, <5>1
          DEF OwnsItsRow, CoverInv, RowsNameTheirTransfers
        <5>4. g = h
          BY <2>3, <4>2, <5>2, <5>3, SoleCall DEF ServiceInv, InvocationAt, RequestAt
        <5> QED BY <2>3, <5>4
      <4> QED BY <4>1, <4>2
    <3> QED BY <3>1, <3>3, <3>4 DEF OwnsItsRow
  <2> QED BY <2>1, <2>2, <2>3
<1>3. HistoryIsComplete'
  BY DEF ServiceInv, HistoryIsComplete, Landed
<1>4. ASSUME NEW p \in Process
      PROVE  StaysBlocked(p)'
  <2>1. /\ StaysBlocked(p)
        /\ \A item \in recon[p].queue : item[1] \in Invocation
        /\ recon[p].pc \in {"height", "resolve"} => recon[p].invocation \in Invocation
    BY <1>0 DEF ServiceInv, ListedRowsStayBlocked, CallInv, RunsAreTyped
  <2> QED BY <2>1 DEF StaysBlocked
<1>5. ASSUME NEW p \in Process
      PROVE  IsTrue(p)'
  <2> DEFINE a == recon[p].attempt
  <2>1. CASE recon[p].pc \notin {"height", "resolve"}
    BY <2>1 DEF IsTrue
  <2>2. CASE recon[p].pc \in {"height", "resolve"}
    <3>1. a \in Attempt /\ recon[p].invocation \in Invocation
      BY <1>0, <2>2 DEF CallInv, RunsAreTyped
    <3>2. transfer[a].status # "unsigned"
      BY <1>0, <2>2, <3>1, NoneAssumption DEF ServiceInv, ListedRowsStayBlocked, StaysBlocked,
         CoverInv, RowsNameTheirTransfers
    <3>3. /\ TransferStep(a) /\ recon' = recon
          /\ transfer'[a].status \in {"settled", "failed"} <=> Landed(a)
      BY <3>1 DEF CoverStep, Landed
    <3>4. transfer'[a].lastValid = transfer[a].lastValid
          /\ (transfer'[a] = transfer[a] \/ (transfer'[a].status = "sent" /\ ~Landed(a)))
      <4> HIDE DEF a
      <4> QED BY <3>2, <3>3 DEF TransferStep, Landed
    <3>5. IsTrue(p)
      BY DEF ServiceInv, VerdictsAreTrue
    <3> QED BY <3>3, <3>4, <3>5 DEF IsTrue, Landed
  <2> QED BY <2>1, <2>2
<1> QED
  BY <1>1, <1>2, <1>3, <1>4, <1>5 DEF CallsOwnTheirRows, ListedRowsStayBlocked, VerdictsAreTrue

Harmless == {"idle", "challenge", "receipt"}

\* A step of a call that only changes its own row, or nothing.
LEMMA RowFrame ==
    ASSUME ServiceInv, NEW h \in Handler,
           \A g \in Handler \ {h} : handler'[g] = handler[g],
           handler'[h].pc \in Harmless \/ OwnsItsRow(h)',
           UNCHANGED <<recon, chainVars>>,
           \/ row' = row
           \/ /\ handler[h].pc # "idle"
              /\ \A j \in Invocation : j # InvocationAt(h) => row'[j] = row[j]
              /\ RowStep(InvocationAt(h))
              /\ \/ row[InvocationAt(h)].state # "RECONCILIATION_REQUIRED"
                 \/ row'[InvocationAt(h)] = row[InvocationAt(h)]
    PROVE  CallFrame(h)
<1>1. OwnsItsRow(h)'
  BY DEF OwnsItsRow, Harmless
<1>2. \A j \in Invocation : row'[j] = row[j] => RowStep(j)
  BY DEF RowStep, SameRequest
<1>3. \A j \in Invocation : RowStep(j)
  BY <1>2
<1>4. CoverStep
  BY <1>3 DEF CoverStep, TransferStep, chainVars, ServiceInv, CallInv, ChainIsTyped
<1> QED BY <1>1, <1>4 DEF CallFrame, Landed, chainVars

\* authorize up to the first await, and every end of a call that writes nothing.
LEMMA QuietCall ==
    ASSUME ServiceInv, NEW h \in Handler,
           \/ \E r \in Request : Begin(h, r)
           \/ ServiceUnavailable(h) \/ ReleaseFails(h)
           \/ (Finish(h) /\ UNCHANGED <<row, recon, chainVars>>)
    PROVE  CallFrame(h)
<1>0. CallsAreTyped
  BY DEF ServiceInv, CallInv
<1>1. ASSUME Finish(h), UNCHANGED <<row, recon, chainVars>>
      PROVE  CallFrame(h)
  <2>1. handler'[h].pc \in Harmless /\ \A g \in Handler \ {h} : handler'[g] = handler[g]
    BY <1>0, <1>1 DEF Finish, IdleHandler, Harmless, CallsAreTyped
  <2> QED BY <1>1, <2>1, RowFrame
<1>2. ASSUME NEW r \in Request, Begin(h, r)
      PROVE  CallFrame(h)
  <2>1. handler'[h].pc \in Harmless /\ \A g \in Handler \ {h} : handler'[g] = handler[g]
    <3>1. CASE GoToReceipt(h, r, row[InvocationOf[r]])
      BY <1>0, <3>1 DEF GoToReceipt, Harmless, CallsAreTyped
    <3>2. CASE handler' = [handler EXCEPT ![h] = [IdleHandler EXCEPT !.pc = "challenge",
                                                                     !.request = r]]
      BY <1>0, <3>2 DEF IdleHandler, Harmless, CallsAreTyped
    <3> QED BY <1>2, <3>1, <3>2 DEF Begin
  <2> QED BY <1>2, <2>1, RowFrame DEF Begin, storeVars
<1> QED BY <1>1, <1>2 DEF ServiceUnavailable, ReleaseFails, storeVars, chainVars

\* The decision.
LEMMA DecideFrame ==
    ASSUME ServiceInv, NEW h \in Handler, Decide(h)
    PROVE  CallFrame(h)
<1> DEFINE r == RequestAt(h)
           i == InvocationAt(h)
<1>0. StoreTypeOK /\ CallsAreTyped /\ handler[h].pc = "challenge" /\ UNCHANGED <<recon, chainVars>>
  BY DEF ServiceInv, CallInv, StoreInv, Decide
<1>1. r \in Request /\ i = InvocationOf[r] /\ i \in Invocation
  BY <1>0, CallOfInvocation DEF InvocationAt
<1>2. ASSUME NEW pc \in {"reserved", "receipt"}, NEW state \in {"RESERVED", "DENIED"},
             MayDecide(r), WriteDecision(r, state),
             handler'[h].pc = pc, pc = "reserved" => state = "RESERVED" /\ handler'[h].request = r,
             \A g \in Handler \ {h} : handler'[g] = handler[g]
      PROVE  CallFrame(h)
  <2>1. /\ \A j \in Invocation : j # i => row'[j] = row[j]
        /\ row'[i].state = state /\ row'[i].fingerprint = r /\ row'[i].attempt = None
    BY <1>0, <1>1, <1>2, Decided DEF InvocationState
  <2>2. row[i].state \in {"ABSENT", "FAILED"}
    BY <1>1, <1>2 DEF MayDecide, IsExisting, IsRetry
  <2>3. RowStep(i)
    BY <2>1, <2>2 DEF RowStep
  <2>4. handler'[h].pc \in Harmless \/ OwnsItsRow(h)'
    BY <1>1, <1>2, <2>1 DEF OwnsItsRow, Harmless, InvocationAt, RequestAt
  <2> QED BY <1>0, <1>2, <2>1, <2>2, <2>3, <2>4, RowFrame
<1>3. ASSUME NEW inv, GoToReceipt(h, r, inv)
      PROVE  handler'[h].pc = "receipt" /\ \A g \in Handler \ {h} : handler'[g] = handler[g]
  BY <1>0, <1>3 DEF GoToReceipt, CallsAreTyped
<1>4. CASE ReserveAllowed(r) /\ GoTo(h, "reserved")
  <2>1. /\ handler'[h].pc = "reserved" /\ handler'[h].request = r
        /\ \A g \in Handler \ {h} : handler'[g] = handler[g]
    BY <1>0, <1>4 DEF GoTo, CallsAreTyped, RequestAt
  <2> QED BY <1>2, <1>4, <2>1 DEF ReserveAllowed
<1>5. CASE ReserveDenied(r) /\ GoToReceipt(h, r, row'[i])
  <2>1. handler'[h].pc = "receipt" /\ \A g \in Handler \ {h} : handler'[g] = handler[g]
    BY <1>3, <1>5
  <2> QED BY <1>2, <1>5, <2>1 DEF ReserveDenied
<1>6. CASE GoToReceipt(h, r, row[i]) /\ UNCHANGED storeVars
  <2>1. handler'[h].pc = "receipt" /\ \A g \in Handler \ {h} : handler'[g] = handler[g]
    BY <1>3, <1>6
  <2> QED BY <1>0, <1>6, <2>1, RowFrame DEF Harmless, storeVars
<1>7. CASE Finish(h) /\ UNCHANGED storeVars
  BY <1>0, <1>7, QuietCall DEF storeVars
<1> QED BY <1>1, <1>4, <1>5, <1>6, <1>7 DEF Decide

\* The ends of a call that moves its RESERVED row.
LEMMA EndFrame ==
    ASSUME ServiceInv, NEW h \in Handler,
           \/ ReleaseNotSubmitted(h) \/ OutcomeUnknown(h) \/ RecordSettlement(h)
           \/ SettlementNotRecorded(h) \/ SignReceipt(h)
    PROVE  CallFrame(h)
<1> DEFINE i == InvocationAt(h)
<1>0. /\ StoreTypeOK /\ CallsAreTyped /\ OwnsItsRow(h) /\ handler[h].pc # "idle"
      /\ UNCHANGED <<recon, chainVars>>
  BY DEF ServiceInv, CallInv, StoreInv, CallsOwnTheirRows, ReleaseNotSubmitted, OutcomeUnknown,
     RecordSettlement, SettlementNotRecorded, SignReceipt
<1>1. i \in Invocation /\ row[i] \in Row
  BY <1>0, CallOfInvocation DEF StoreTypeOK
<1>2. ASSUME Finish(h) \/ GoToReceipt(h, RequestAt(h), row'[i])
      PROVE  handler'[h].pc \in Harmless /\ \A g \in Handler \ {h} : handler'[g] = handler[g]
  BY <1>0, <1>2 DEF Finish, IdleHandler, GoToReceipt, Harmless, CallsAreTyped
<1>3. ASSUME Finish(h) \/ GoToReceipt(h, RequestAt(h), row'[i]),
             \A j \in Invocation : j # i => row'[j] = row[j],
             RowStep(i), row[i].state # "RECONCILIATION_REQUIRED"
      PROVE  CallFrame(h)
  BY <1>0, <1>2, <1>3, RowFrame
<1>4. CASE ReleaseNotSubmitted(h)
  <2>1. row[i].state = "RESERVED" /\ row[i].attempt = None
    BY <1>0, <1>4 DEF ReleaseNotSubmitted, OwnsItsRow
  <2>2. Fail(i)
    BY <1>4, <2>1 DEF ReleaseNotSubmitted, IfReserved
  <2>3. /\ \A j \in Invocation : j # i => row'[j] = row[j]
        /\ row'[i].state = "FAILED" /\ SameRequest(i)
    BY <1>0, <1>1, <2>2 DEF Fail, SameRequest, StoreTypeOK, Row
  <2> QED BY <1>3, <1>4, <2>1, <2>3 DEF ReleaseNotSubmitted, RowStep, Holding
<1>5. ASSUME MarkReconciliationRequired(i), Finish(h), handler[h].pc \in {"sent", "paid"}
      PROVE  CallFrame(h)
  <2>1. row[i].state = "RESERVED" /\ row[i].attempt # None
    BY <1>0, <1>5, NoneAssumption DEF OwnsItsRow, CallsAreTyped
  <2>2. /\ \A j \in Invocation : j # i => row'[j] = row[j]
        /\ row'[i].state = "RECONCILIATION_REQUIRED" /\ SameRequest(i)
    BY <1>0, <1>1, <1>5 DEF MarkReconciliationRequired, SameRequest, StoreTypeOK, Row
  <2> QED BY <1>3, <1>5, <2>1, <2>2 DEF RowStep
<1>6. CASE OutcomeUnknown(h)
  <2>1. row[i].state = "RESERVED"
    BY <1>0, <1>6 DEF OutcomeUnknown, OwnsItsRow
  <2> QED BY <1>5, <1>6, <2>1 DEF OutcomeUnknown, IfReserved
<1>7. CASE SettlementNotRecorded(h)
  BY <1>0, <1>5, <1>7, QuietCall DEF SettlementNotRecorded, storeVars
<1>8. CASE RecordSettlement(h)
  <2>1. /\ row[i].state = "RESERVED" /\ row[i].attempt = handler[h].attempt
        /\ row[i].attempt # None /\ transfer[row[i].attempt].status = "settled"
    BY <1>0, <1>8, NoneAssumption DEF RecordSettlement, OwnsItsRow, CallsAreTyped
  <2>2. Confirm(i, handler[h].attempt) /\ GoToReceipt(h, RequestAt(h), row'[i])
    BY <1>8, <2>1 DEF RecordSettlement
  <2>3. /\ \A j \in Invocation : j # i => row'[j] = row[j]
        /\ row'[i].state = "CONFIRMED" /\ SameRequest(i)
        /\ row'[i].transaction = handler[h].attempt
    BY <1>0, <1>1, <2>2 DEF Confirm, SameRequest, StoreTypeOK, Row
  <2> QED BY <1>3, <2>1, <2>2, <2>3 DEF RowStep, Holding
<1>9. CASE SignReceipt(h)
  <2>1. /\ \A j \in Invocation : j # i => row'[j] = row[j]
        /\ row'[i].state = row[i].state /\ row'[i].transaction = row[i].transaction
        /\ SameRequest(i) /\ row[i].state # "RECONCILIATION_REQUIRED"
    BY <1>0, <1>1, <1>9 DEF SignReceipt, AttachReceipt, SameRequest, StoreTypeOK, Row
  <2> QED BY <1>3, <1>9, <2>1 DEF SignReceipt, RowStep
<1> QED BY <1>4, <1>6, <1>7, <1>8, <1>9

\* The steps between reservation and settlement: the attempt is signed and
\* recorded in one transaction's row before it is transmitted (beforeSubmit).
LEMMA PayFrame ==
    ASSUME ServiceInv, NEW h \in Handler,
           (\E a \in Attempt : RecordAttempt(h, a)) \/ Transmit(h) \/ ObserveSettled(h)
    PROVE  CallFrame(h)
<1> DEFINE i == InvocationAt(h)
           r == RequestAt(h)
           Transfers == [status : TransferStatus, request : Request \cup {None}, lastValid : Nat]
<1>0. /\ StoreTypeOK /\ CallsAreTyped /\ OwnsItsRow(h) /\ handler[h].pc # "idle"
      /\ UNCHANGED <<recon, height, history>>
      /\ transfer \in [Attempt -> Transfers] /\ height \in Nat
  BY DEF ServiceInv, CallInv, StoreInv, CallsOwnTheirRows, RecordAttempt, Transmit,
     ObserveSettled, chainVars, ChainIsTyped
<1>1. i \in Invocation /\ row[i] \in Row /\ r \in Request /\ i = InvocationOf[r]
  BY <1>0, CallOfInvocation DEF StoreTypeOK, InvocationAt
<1>2. CASE ObserveSettled(h)
  <2>1. /\ handler'[h].pc = "paid" /\ handler'[h].request = r
        /\ handler'[h].attempt = handler[h].attempt
        /\ \A g \in Handler \ {h} : handler'[g] = handler[g]
    BY <1>0, <1>2 DEF ObserveSettled, GoTo, CallsAreTyped, RequestAt
  <2>2. OwnsItsRow(h)'
    BY <1>0, <1>2, <2>1 DEF OwnsItsRow, ObserveSettled, storeVars, chainVars, InvocationAt, RequestAt
  <2> QED BY <1>2, <2>1, <2>2, RowFrame DEF ObserveSettled, storeVars
<1>3. CASE Transmit(h)
  <2> DEFINE a == handler[h].attempt
  <2>1. /\ a \in Attempt /\ row' = row /\ row[i].state = "RESERVED" /\ row[i].attempt = a
        /\ row[i].fingerprint = r /\ transfer[a].status = "signed" /\ a # None
    BY <1>0, <1>3, NoneAssumption
    DEF Transmit, OwnsItsRow, CallsAreTyped, storeVars, RequestAt
  <2>2. /\ transfer'[a].status = "sent" /\ transfer'[a].request = transfer[a].request
        /\ transfer'[a].lastValid = transfer[a].lastValid
        /\ \A b \in Attempt : b # a => transfer'[b] = transfer[b]
    BY <1>0, <1>3, <2>1 DEF Transmit
  <2>3. transfer[a].request = r
    BY <1>1, <2>1 DEF ServiceInv, CoverInv, RowsNameTheirTransfers
  <2>4. /\ handler'[h].pc = "sent" /\ handler'[h].request = r /\ handler'[h].attempt = a
        /\ \A g \in Handler \ {h} : handler'[g] = handler[g]
    BY <1>0, <1>3 DEF Transmit, GoTo, CallsAreTyped, RequestAt
  <2>5. OwnsItsRow(h)'
    BY <1>1, <2>1, <2>2, <2>4 DEF OwnsItsRow, InvocationAt, RequestAt
  <2>6. \A b \in Attempt : TransferStep(b)
    BY <1>1, <2>1, <2>2, <2>3 DEF TransferStep
  <2>7. CoverStep
    BY <1>0, <2>1, <2>6 DEF CoverStep, RowStep, SameRequest
  <2>8. \A b \in Attempt : Landed(b)' <=> Landed(b)
    BY <2>1, <2>2 DEF Landed
  <2>9. handler[h].pc = "recorded"
    BY <1>3 DEF Transmit
  <2> QED BY <1>0, <2>1, <2>2, <2>4, <2>5, <2>7, <2>8, <2>9 DEF CallFrame
<1>4. ASSUME NEW a \in Attempt, RecordAttempt(h, a)
      PROVE  CallFrame(h)
  <2>1. /\ handler[h].pc = "reserved" /\ row[i].state = "RESERVED" /\ row[i].attempt = None
        /\ row[i].fingerprint = r /\ transfer[a] = Unsigned
    BY <1>0, <1>4 DEF RecordAttempt, OwnsItsRow, RequestAt
  <2>2. RecordPaymentAttempt(i, a)
        /\ handler' = [handler EXCEPT ![h].pc = "recorded", ![h].attempt = a]
    BY <1>4, <2>1 DEF RecordAttempt
  <2>3. /\ transfer'[a].status = "signed" /\ transfer'[a].request = r
        /\ \A b \in Attempt : b # a => transfer'[b] = transfer[b]
    BY <1>0, <1>4 DEF RecordAttempt
  <2>4. /\ \A j \in Invocation : j # i => row'[j] = row[j]
        /\ row'[i].state = "RESERVED" /\ row'[i].fingerprint = r /\ row'[i].attempt = a
    BY <1>0, <1>1, <2>1, <2>2 DEF RecordPaymentAttempt, StoreTypeOK, Row
  <2>5. /\ handler'[h].pc = "recorded" /\ handler'[h].request = r /\ handler'[h].attempt = a
        /\ \A g \in Handler \ {h} : handler'[g] = handler[g]
    BY <1>0, <2>2 DEF CallsAreTyped, RequestAt
  <2>6. OwnsItsRow(h)'
    BY <1>1, <2>3, <2>4, <2>5 DEF OwnsItsRow, InvocationAt, RequestAt
  <2>7. \A b \in Attempt : TransferStep(b)
    BY <1>1, <2>1, <2>3 DEF TransferStep, Unsigned
  <2>8. \A j \in Invocation : RowStep(j)
    <3>1. RowStep(i)
      BY <2>1, <2>3, <2>4 DEF RowStep
    <3>2. ASSUME NEW j \in Invocation, j # i
          PROVE  RowStep(j)
      BY <2>4, <3>2 DEF RowStep, SameRequest
    <3> QED BY <3>1, <3>2
  <2>9. CoverStep
    BY <1>0, <2>7, <2>8 DEF CoverStep
  <2>10. \A b \in Attempt : Landed(b)' <=> Landed(b)
    BY <2>1, <2>3 DEF Landed, Unsigned
  <2>11. \A b \in Attempt : transfer'[b] = transfer[b] \/ transfer[b].status = "unsigned"
    BY <2>1, <2>3 DEF Unsigned
  <2> QED BY <1>0, <2>1, <2>4, <2>5, <2>6, <2>9, <2>10, <2>11 DEF CallFrame
<1> QED BY <1>2, <1>3, <1>4

\* Whatever a call does, it leaves the others and the run what they rely on.
LEMMA CallStepFrame ==
    ASSUME ServiceInv, NEW h \in Handler,
           \/ \E r \in Request : Begin(h, r)
           \/ HandlerStep(h) \/ ReleaseFails(h) \/ SettlementNotRecorded(h)
    PROVE  CallFrame(h)
BY QuietCall, DecideFrame, EndFrame, PayFrame DEF HandlerStep

\* #pending: set when a call begins, cleared in its finally block.
LEMMA CallKeepsPending ==
    ASSUME SingleAuthority, ServiceInv, NEW h \in Handler,
           \/ \E r \in Request : Begin(h, r)
           \/ HandlerStep(h) \/ ReleaseFails(h) \/ SettlementNotRecorded(h)
    PROVE  CallsArePending'
<1>0. /\ CallsAreTyped /\ CallsArePending /\ UNCHANGED mode
      /\ ProcessOf \in [Handler -> Process] /\ None \notin Handler
  BY ServiceAssumption DEF ServiceInv, CallInv, Begin, HandlerStep, ReleaseFails,
     SettlementNotRecorded, ServiceUnavailable, Decide, ReleaseNotSubmitted, RecordAttempt,
     Transmit, ObserveSettled, OutcomeUnknown, RecordSettlement, SignReceipt
<1>1. \A g \in Handler \ {h} : /\ handler'[g] = handler[g]
                               /\ InvocationAt(g)' = InvocationAt(g)
  BY CallStepFrame DEF CallFrame, InvocationAt, RequestAt
<1>2. ASSUME \/ handler'[h].pc = "idle"
             \/ /\ mode[ProcessOf[h]] = "serving"
                /\ pending'[ProcessOf[h]][InvocationAt(h)'] = h,
             \A g \in Handler \ {h} : handler[g].pc # "idle" =>
                 pending'[ProcessOf[g]][InvocationAt(g)] = pending[ProcessOf[g]][InvocationAt(g)]
      PROVE  CallsArePending'
  BY <1>0, <1>1, <1>2 DEF CallsArePending
<1>3. ASSUME NEW i \in Invocation, NEW v, pending[ProcessOf[h]][i] \notin Handler \ {h},
             pending' = [pending EXCEPT ![ProcessOf[h]][i] = v]
      PROVE  \A g \in Handler \ {h} : handler[g].pc # "idle" =>
                 pending'[ProcessOf[g]][InvocationAt(g)] = pending[ProcessOf[g]][InvocationAt(g)]
  <2> SUFFICES ASSUME NEW g \in Handler \ {h}, handler[g].pc # "idle"
               PROVE  pending'[ProcessOf[g]][InvocationAt(g)]
                        = pending[ProcessOf[g]][InvocationAt(g)]
    OBVIOUS
  <2>1. pending[ProcessOf[g]][InvocationAt(g)] = g /\ InvocationAt(g) \in Invocation
    BY <1>0, CallOfInvocation DEF CallsArePending
  <2>2. \/ ProcessOf[g] # ProcessOf[h] \/ InvocationAt(g) # i
    BY <1>3, <2>1
  <2>3. pending \in [Process -> [Invocation -> Handler \cup {None}]]
    BY <1>0 DEF CallsAreTyped
  <2> QED BY <1>0, <1>3, <2>1, <2>2, <2>3
<1>4. ASSUME Finish(h), handler[h].pc # "idle"
      PROVE  CallsArePending'
  <2>1. handler'[h].pc = "idle"
    BY <1>0, <1>4 DEF Finish, IdleHandler, CallsAreTyped
  <2>2. InvocationAt(h) \in Invocation /\ pending[ProcessOf[h]][InvocationAt(h)] = h
    BY <1>0, <1>4, CallOfInvocation DEF CallsArePending
  <2> QED BY <1>2, <1>3, <1>4, <2>1, <2>2 DEF Finish
<1>5. ASSUME UNCHANGED pending, handler[h].pc # "idle", handler'[h].request = handler[h].request
      PROVE  CallsArePending'
  BY <1>0, <1>2, <1>5 DEF CallsArePending, InvocationAt, RequestAt
<1>6. ASSUME NEW inv, UNCHANGED pending, handler[h].pc # "idle", GoToReceipt(h, RequestAt(h), inv)
      PROVE  CallsArePending'
  BY <1>0, <1>5, <1>6 DEF GoToReceipt, RequestAt, CallsAreTyped
<1>7. ASSUME NEW pc, UNCHANGED pending, handler[h].pc # "idle", GoTo(h, pc)
      PROVE  CallsArePending'
  BY <1>0, <1>5, <1>7 DEF GoTo, CallsAreTyped
<1>8. ASSUME NEW r \in Request, Begin(h, r)
      PROVE  CallsArePending'
  <2>1. InvocationOf[r] \in Invocation /\ pending[ProcessOf[h]][InvocationOf[r]] = None
        /\ pending' = [pending EXCEPT ![ProcessOf[h]][InvocationOf[r]] = h]
        /\ mode[ProcessOf[h]] = "serving"
    BY <1>8, RequestAssumption DEF Begin
  <2>2. handler'[h].request = r
    <3>1. CASE GoToReceipt(h, r, row[InvocationOf[r]])
      BY <1>0, <3>1 DEF GoToReceipt, CallsAreTyped
    <3>2. CASE handler' = [handler EXCEPT ![h] = [IdleHandler EXCEPT !.pc = "challenge",
                                                                     !.request = r]]
      BY <1>0, <3>2 DEF IdleHandler, CallsAreTyped
    <3> QED BY <1>8, <3>1, <3>2 DEF Begin
  <2>3. pending'[ProcessOf[h]][InvocationAt(h)'] = h
    BY <1>0, <2>1, <2>2 DEF CallsAreTyped, InvocationAt, RequestAt
  <2> QED BY <1>0, <1>2, <1>3, <2>1, <2>3
<1>9. CASE Decide(h)
  BY <1>4, <1>6, <1>7, <1>9 DEF Decide
<1>10. ASSUME NEW a \in Attempt, RecordAttempt(h, a)
       PROVE  CallsArePending'
  <2>1. CASE handler' = [handler EXCEPT ![h].pc = "recorded", ![h].attempt = a]
    BY <1>0, <1>5, <1>10, <2>1 DEF RecordAttempt, CallsAreTyped
  <2> QED BY <1>7, <1>10, <2>1 DEF RecordAttempt
<1>11. CASE Transmit(h) \/ ObserveSettled(h)
  BY <1>7, <1>11 DEF Transmit, ObserveSettled
<1>12. CASE RecordSettlement(h)
  BY <1>4, <1>6, <1>12 DEF RecordSettlement
<1>13. CASE \/ ServiceUnavailable(h) \/ ReleaseNotSubmitted(h) \/ ReleaseFails(h)
            \/ OutcomeUnknown(h) \/ SettlementNotRecorded(h) \/ SignReceipt(h)
  BY <1>4, <1>13 DEF ServiceUnavailable, ReleaseNotSubmitted, ReleaseFails, OutcomeUnknown,
     SettlementNotRecorded, SignReceipt
<1> QED BY <1>8, <1>9, <1>10, <1>11, <1>12, <1>13 DEF HandlerStep

-----------------------------------------------------------------------------
(* The steps of a reconciliation run.                                      *)

\* The history read by a lookup has every transfer that landed.
LEMMA RecentIsEverything ==
    ASSUME SingleAuthority, ChainIsTyped, HistoryIsComplete, NEW a \in Attempt
    PROVE  a \in Recent <=> Landed(a)
<1> DEFINE n == Len(history)
<1>1. history \in [1..n -> Attempt] /\ n \in Nat /\ DOMAIN history = 1..n
  BY DEF ChainIsTyped
<1>2. history \in Injection(1..n, Attempt)
  <2>1. \A k, l \in DOMAIN history : history[k] = history[l] => k = l
    BY DEF HistoryIsComplete
  <2>2. IsInjective(history)
    BY <2>1, Zenon DEF IsInjective
  <2> HIDE DEF n
  <2> QED BY <1>1, <2>2 DEF Injection
<1>3. IsFiniteSet(1..n) /\ Cardinality(1..n) = n
  <2>1. n \in Nat
    BY <1>1
  <2> HIDE DEF n
  <2> QED BY <2>1, FS_Interval
<1>4. Cardinality(1..n) <= Cardinality(Attempt) /\ Cardinality(Attempt) \in Nat
  BY <1>2, FS_Injection, FS_CardinalityType DEF SingleAuthority
<1>5. n <= HistoryLimit
  BY <1>1, <1>3, <1>4, ServiceAssumption DEF SingleAuthority
<1>6. \A k \in 1..n : k + HistoryLimit > n
  BY <1>1, <1>5, ServiceAssumption
<1>7. Recent = {history[k] : k \in 1..n}
  BY <1>1, <1>6 DEF Recent
<1> QED BY <1>1, <1>7 DEF HistoryIsComplete

\* What every step of run p leaves to the calls.
RunFrame(p) ==
    /\ \A i \in Invocation : /\ RowStep(i)
                             /\ row[i].state = "RESERVED" => row'[i] = row[i]
    /\ mode' \in {mode, [mode EXCEPT ![p] = "serving"]}
    /\ UNCHANGED <<pending, handler, chainVars>>

\* A step of one run that leaves rows and calls alone disturbs nothing.
LEMMA RunFrameKeeps ==
    ASSUME ServiceInv, NEW p \in Process, RunFrame(p)
    PROVE  CoverInv' /\ CallsArePending' /\ CallsOwnTheirRows' /\ HistoryIsComplete'
<1> USE DEF RunFrame, chainVars
<1>0. CallInv /\ CoverInv /\ CallsAreTyped
  BY DEF ServiceInv, CallInv
<1>1. CoverStep
  BY <1>0 DEF CoverStep, TransferStep, CallInv, ChainIsTyped
<1>2. CallsArePending'
  <2>1. \A q \in Process : mode[q] = "serving" => mode'[q] = "serving"
    BY <1>0 DEF CallsAreTyped
  <2>2. \A h \in Handler : ProcessOf[h] \in Process
    BY ServiceAssumption
  <2> QED BY <2>1, <2>2 DEF ServiceInv, CallsArePending, InvocationAt, RequestAt
<1>3. ASSUME NEW h \in Handler
      PROVE  OwnsItsRow(h)'
  <2>1. OwnsItsRow(h) /\ InvocationAt(h)' = InvocationAt(h)
    BY DEF ServiceInv, CallsOwnTheirRows, InvocationAt, RequestAt
  <2>2. CASE handler[h].pc \in {"reserved", "recorded", "sent", "paid"}
    <3>1. InvocationAt(h) \in Invocation /\ row[InvocationAt(h)].state = "RESERVED"
      BY <1>0, <2>1, <2>2, CallOfInvocation DEF OwnsItsRow
    <3> QED BY <2>1, <2>2, <3>1 DEF OwnsItsRow
  <2> QED BY <2>1, <2>2 DEF OwnsItsRow
<1>4. HistoryIsComplete'
  BY DEF ServiceInv, HistoryIsComplete, Landed
<1> QED BY <1>0, <1>1, <1>2, <1>3, <1>4, CoverStepKeeps DEF CallsOwnTheirRows

\* What step p of the run leaves to the run itself.
RunGoesOn == ListedRowsStayBlocked' /\ VerdictsAreTrue'

\* A run that goes on to its next row, or ends, needs only its queue.
LEMMA NextItemKeeps ==
    ASSUME SingleAuthority, ServiceInv, NEW p \in Process,
           recon'[p].pc \notin {"height", "resolve"},
           \A item \in recon'[p].queue :
              /\ item \in recon[p].queue
              /\ row'[item[1]] = row[item[1]]
    PROVE  RunGoesOn
<1>1. StaysBlocked(p)' /\ IsTrue(p)'
  BY DEF ServiceInv, ListedRowsStayBlocked, StaysBlocked, IsTrue
<1> QED BY <1>1 DEF SingleAuthority, RunGoesOn, ListedRowsStayBlocked, VerdictsAreTrue

\* The rows are listed (listReconciliationRequired).
LEMMA ReconcileStartKeeps ==
    ASSUME SingleAuthority, ServiceInv, NEW p \in Process, ReconcileStart(p)
    PROVE  RunGoesOn
<1>1. recon'[p].pc = "next"
      /\ recon'[p].queue = {<<i, row[i].attempt>> :
                              i \in {j \in InState({"RECONCILIATION_REQUIRED"}) :
                                       row[j].attempt # None}}
  BY DEF ReconcileStart, IdleRecon, ServiceInv, CallInv, RunsAreTyped
<1>2. row' = row
  BY DEF ReconcileStart, storeVars
<1>3. \A item \in recon'[p].queue : /\ row'[item[1]].state = "RECONCILIATION_REQUIRED"
                                    /\ row'[item[1]].attempt = item[2]
  BY <1>1, <1>2 DEF InState
<1>4. StaysBlocked(p)' /\ IsTrue(p)'
  BY <1>1, <1>3 DEF StaysBlocked, IsTrue
<1> QED BY <1>4 DEF SingleAuthority, RunGoesOn, ListedRowsStayBlocked, VerdictsAreTrue

\* A lookup begins (#lookup).
LEMMA ReadHistoryKeeps ==
    ASSUME SingleAuthority, ServiceInv, NEW p \in Process,
           NEW i \in Invocation, NEW a \in Attempt, ReadHistory(p, i, a)
    PROVE  RunGoesOn
<1>1. /\ recon'[p].queue = recon[p].queue \ {<<i, a>>}
      /\ recon'[p].invocation = i /\ recon'[p].attempt = a /\ recon'[p].since = height
      /\ a \notin Recent => recon'[p].pc = "height"
      /\ a \in Recent => recon'[p].pc = "resolve"
      /\ a \in Recent => recon'[p].verdict =
                            IF transfer[a].status = "settled" THEN "confirmed" ELSE "failed_onchain"
  BY DEF ReadHistory, ServiceInv, CallInv, RunsAreTyped
<1>2. <<i, a>> \in recon[p].queue /\ row' = row /\ height' = height /\ transfer' = transfer
  BY DEF ReadHistory, storeVars, chainVars
<1>3. StaysBlocked(p)'
  <2>1. \A item \in recon[p].queue : \E j \in Invocation, b \in Attempt : item = <<j, b>>
    BY DEF ServiceInv, CallInv, RunsAreTyped
  <2>2. StaysBlocked(p)
    BY DEF ServiceInv, ListedRowsStayBlocked
  <2>3. \A item \in recon[p].queue : item[1] = i => item = <<i, a>>
    BY <1>2, <2>1, <2>2 DEF StaysBlocked
  <2> QED BY <1>1, <1>2, <2>2, <2>3 DEF StaysBlocked
<1>4. IsTrue(p)'
  <2>1. a \in Recent <=> Landed(a)
    BY RecentIsEverything DEF ServiceInv, CallInv
  <2>2. height \in Nat /\ LookupBlocks \in Nat
    BY ServiceAssumption DEF ServiceInv, CallInv, ChainIsTyped
  <2> QED BY <1>1, <1>2, <2>1, <2>2 DEF IsTrue, Landed
<1> QED BY <1>3, <1>4 DEF SingleAuthority, RunGoesOn, ListedRowsStayBlocked, VerdictsAreTrue

\* Expired by the margin now is expired when the lookup began.
LEMMA ReadHeightKeeps ==
    ASSUME SingleAuthority, ServiceInv, NEW p \in Process, ReadHeight(p)
    PROVE  RunGoesOn
<1>0. row' = row /\ height' = height /\ transfer' = transfer /\ recon[p].pc = "height"
  BY DEF ReadHeight, InRecon, storeVars, chainVars
<1>1. CASE NextItem(p)
  <2>1. recon'[p].pc = "next" /\ recon'[p].queue = recon[p].queue
    BY <1>1 DEF NextItem, IdleRecon, ServiceInv, CallInv, RunsAreTyped
  <2> QED BY <1>0, <2>1, NextItemKeeps
<1>2. CASE /\ height > transfer[recon[p].attempt].lastValid + Margin
           /\ recon' = [recon EXCEPT ![p].pc = "resolve", ![p].verdict = "expired"]
  <2> DEFINE a == recon[p].attempt
  <2>1. /\ recon'[p].pc = "resolve" /\ recon'[p].verdict = "expired"
        /\ recon'[p].invocation = recon[p].invocation /\ recon'[p].attempt = a
        /\ recon'[p].queue = recon[p].queue
    BY <1>2 DEF ServiceInv, CallInv, RunsAreTyped
  <2>2. StaysBlocked(p)'
    BY <1>0, <2>1 DEF ServiceInv, ListedRowsStayBlocked, StaysBlocked
  <2>3. a \in Attempt /\ recon[p].since \in Nat
    BY <1>0 DEF ServiceInv, CallInv, RunsAreTyped
  <2>4. /\ height \in Nat /\ transfer[a].lastValid \in Nat /\ Margin \in Nat
        /\ LookupBlocks \in Nat /\ LookupBlocks <= Margin
    BY <2>3, ServiceAssumption DEF ServiceInv, CallInv, ChainIsTyped, SingleAuthority
  <2>5. /\ height <= recon[p].since + LookupBlocks
        /\ Landed(a) => transfer[a].lastValid >= recon[p].since
    BY <1>0 DEF ServiceInv, VerdictsAreTrue, IsTrue
  <2>6. ~Landed(a) /\ height > transfer[a].lastValid
    <3> HIDE DEF a
    <3> QED BY <1>2, <2>3, <2>4, <2>5 DEF a
  <2>7. IsTrue(p)'
    BY <1>0, <2>1, <2>6 DEF IsTrue, Landed
  <2> QED BY <2>2, <2>7 DEF SingleAuthority, RunGoesOn, ListedRowsStayBlocked, VerdictsAreTrue
<1> QED BY <1>1, <1>2 DEF ReadHeight

\* A lookup that fails or is inconclusive leaves its row to a later run.
LEMMA LookupFailsKeeps ==
    ASSUME SingleAuthority, ServiceInv, NEW p \in Process, LookupFails(p)
    PROVE  RunGoesOn
<1>0. row' = row
  BY DEF LookupFails, storeVars
<1>1. CASE NextItem(p)
  <2>1. recon'[p].pc = "next" /\ recon'[p].queue = recon[p].queue
    BY <1>1 DEF NextItem, IdleRecon, ServiceInv, CallInv, RunsAreTyped
  <2> QED BY <1>0, <2>1, NextItemKeeps
<1>2. ASSUME NEW item \in recon[p].queue, recon[p].pc = "next",
             recon' = [recon EXCEPT ![p].queue = @ \ {item}]
      PROVE  RunGoesOn
  <2>1. recon'[p].pc = "next" /\ recon'[p].queue = recon[p].queue \ {item}
    BY <1>2 DEF ServiceInv, CallInv, RunsAreTyped
  <2> QED BY <1>0, <2>1, NextItemKeeps
<1> QED BY <1>1, <1>2 DEF LookupFails, InRecon

\* A verdict moves a row that nothing else has moved since it was listed, to
\* where its attempt's fate puts it (resolveReconciliation).
LEMMA ResolveKeeps ==
    ASSUME SingleAuthority, ServiceInv, NEW p \in Process, Resolve(p)
    PROVE  RunFrame(p) /\ RunGoesOn
<1> DEFINE i == recon[p].invocation
           a == recon[p].attempt
<1>0. /\ recon[p].pc = "resolve" /\ UNCHANGED <<mode, pending, handler, chainVars>>
      /\ row \in [Invocation -> Row]
      /\ i \in Invocation /\ a \in Attempt /\ a # None
      /\ StaysBlocked(p) /\ IsTrue(p)
      /\ \A item \in recon[p].queue : item[1] \in Invocation
  BY NoneAssumption DEF Resolve, InRecon, ServiceInv, CallInv, StoreInv, StoreTypeOK, RunsAreTyped,
     ListedRowsStayBlocked, VerdictsAreTrue
<1>1. /\ row[i].state = "RECONCILIATION_REQUIRED" /\ row[i].attempt = a /\ row[i] \in Row
      /\ \A item \in recon[p].queue : item[1] # i
  BY <1>0 DEF StaysBlocked
<1>2. ASSUME \A j \in Invocation : j # i => row'[j] = row[j],
             RowStep(i), recon'[p].pc \in {"next", "receipt"}, recon'[p].queue = recon[p].queue
      PROVE  RunFrame(p) /\ RunGoesOn
  <2>1. ASSUME NEW j \in Invocation
        PROVE  RowStep(j)
    <3>1. CASE j = i
      BY <1>2, <3>1
    <3>2. CASE j # i
      BY <1>2, <3>2 DEF RowStep, SameRequest
    <3> QED BY <3>1, <3>2
  <2>2. RunFrame(p)
    BY <1>0, <1>1, <1>2, <2>1 DEF RunFrame
  <2> QED BY <1>0, <1>1, <1>2, <2>2, NextItemKeeps
<1>3. ASSUME NextItem(p)
      PROVE  recon'[p].pc = "next" /\ recon'[p].queue = recon[p].queue
  BY <1>3 DEF NextItem, IdleRecon, ServiceInv, CallInv, RunsAreTyped
<1>4. CASE /\ recon[p].verdict = "confirmed" /\ ResolveConfirmed(i, a)
           /\ recon' = [recon EXCEPT ![p].pc = "receipt", ![p].receipt = ReceiptOf(row'[i])]
  <2>1. transfer[a].status = "settled"
    BY <1>0, <1>4 DEF IsTrue
  <2>2. /\ \A j \in Invocation : j # i => row'[j] = row[j]
        /\ row'[i].state = "CONFIRMED" /\ SameRequest(i) /\ row'[i].transaction = a
    BY <1>0, <1>1, <1>4 DEF ResolveConfirmed, SameRequest, Row
  <2>3. RowStep(i)
    BY <1>0, <1>1, <2>1, <2>2 DEF RowStep, Holding
  <2>4. recon'[p].pc = "receipt" /\ recon'[p].queue = recon[p].queue
    BY <1>4 DEF ServiceInv, CallInv, RunsAreTyped
  <2> QED BY <1>2, <2>2, <2>3, <2>4
<1>5. CASE /\ recon[p].verdict \in {"failed_onchain", "expired"} /\ ResolveFailed(i)
           /\ NextItem(p)
  <2>1. /\ height \in Nat /\ transfer[a].lastValid \in Nat
    BY <1>0 DEF ServiceInv, CallInv, ChainIsTyped
  <2>2. ~Live(a)
    <3> HIDE DEF a
    <3> QED BY <1>0, <1>5, <2>1 DEF IsTrue, Live, a
  <2>3. /\ \A j \in Invocation : j # i => row'[j] = row[j]
        /\ row'[i].state = "FAILED" /\ SameRequest(i)
    BY <1>0, <1>1, <1>5 DEF ResolveFailed, SameRequest, Row
  <2>4. RowStep(i)
    BY <1>1, <2>2, <2>3 DEF RowStep, Holding
  <2> QED BY <1>2, <1>3, <1>5, <2>3, <2>4
<1> QED BY <1>0, <1>1, <1>4, <1>5 DEF Resolve

\* A stored receipt changes nothing else of its row.
LEMMA ReconcileReceiptKeeps ==
    ASSUME SingleAuthority, ServiceInv, NEW p \in Process, ReconcileReceipt(p)
    PROVE  RunFrame(p) /\ RunGoesOn
<1> DEFINE i == recon[p].invocation
<1>0. /\ recon[p].pc = "receipt" /\ UNCHANGED <<mode, pending, handler, chainVars>>
      /\ row \in [Invocation -> Row] /\ i \in Invocation /\ StaysBlocked(p)
      /\ \A item \in recon[p].queue : item[1] \in Invocation
  BY DEF ReconcileReceipt, InRecon, ServiceInv, CallInv, StoreInv, StoreTypeOK, RunsAreTyped,
     ListedRowsStayBlocked
<1>1. /\ row[i].state \in {"DENIED", "CONFIRMED"}
      /\ \A j \in Invocation : j # i => row'[j] = row[j]
      /\ row'[i].state = row[i].state /\ row'[i].transaction = row[i].transaction
      /\ SameRequest(i)
  BY <1>0 DEF ReconcileReceipt, AttachReceipt, SameRequest, Row
<1>2. \A j \in Invocation : RowStep(j)
  BY <1>1 DEF RowStep, SameRequest
<1>3. recon'[p].pc = "next" /\ recon'[p].queue = recon[p].queue
  BY DEF ReconcileReceipt, NextItem, IdleRecon, ServiceInv, CallInv, RunsAreTyped
<1>4. \A item \in recon[p].queue : row'[item[1]] = row[item[1]]
  BY <1>0, <1>1 DEF StaysBlocked
<1>5. RunFrame(p)
  BY <1>0, <1>1, <1>2 DEF RunFrame
<1> QED BY <1>3, <1>4, <1>5, NextItemKeeps

\* Whatever a run does, it leaves the calls and itself what they rely on.
LEMMA RunStepKeeps ==
    ASSUME SingleAuthority, ServiceInv, NEW p \in Process, ReconcileStep(p) \/ ReconcileAborts(p)
    PROVE  RunFrame(p) /\ RunGoesOn
<1>1. ASSUME UNCHANGED <<row, pending, handler, chainVars>>,
             mode' \in {mode, [mode EXCEPT ![p] = "serving"]}
      PROVE  RunFrame(p)
  BY <1>1 DEF RunFrame, RowStep, SameRequest
<1>2. CASE ReconcileStart(p)
  BY <1>1, <1>2, ReconcileStartKeeps DEF ReconcileStart, storeVars
<1>3. ASSUME NEW i \in Invocation, NEW a \in Attempt, ReadHistory(p, i, a)
      PROVE  RunFrame(p) /\ RunGoesOn
  BY <1>1, <1>3, ReadHistoryKeeps DEF ReadHistory, storeVars
<1>4. CASE ReadHeight(p)
  BY <1>1, <1>4, ReadHeightKeeps DEF ReadHeight, storeVars
<1>5. CASE LookupFails(p)
  BY <1>1, <1>5, LookupFailsKeeps DEF LookupFails, storeVars
<1>6. CASE ReconcileEnd(p) \/ ReconcileAborts(p)
  <2>1. recon'[p].pc = "idle" /\ recon'[p].queue = {}
    BY <1>6 DEF ReconcileEnd, ReconcileAborts, EndRun, IdleRecon, ServiceInv, CallInv, RunsAreTyped
  <2> QED BY <1>1, <1>6, <2>1, NextItemKeeps DEF ReconcileEnd, ReconcileAborts, EndRun, storeVars
<1> QED
  BY <1>2, <1>3, <1>4, <1>5, <1>6, ResolveKeeps, ReconcileReceiptKeeps DEF ReconcileStep

-----------------------------------------------------------------------------
(* The chain, crashes and restarts.                                        *)

\* A transfer lands while it is valid: during a lookup it is still valid when
\* the lookup began.
LEMMA LandKeeps ==
    ASSUME ServiceInv, CallInv', NEW a \in Attempt, NEW status \in {"settled", "failed"},
           Land(a, status)
    PROVE  CoverStep /\ ServiceInv'
<1>0. /\ transfer[a].status = "sent" /\ height <= transfer[a].lastValid
      /\ transfer'[a].status = status /\ transfer'[a].request = transfer[a].request
      /\ transfer'[a].lastValid = transfer[a].lastValid
      /\ \A b \in Attempt : b # a => transfer'[b] = transfer[b]
      /\ UNCHANGED <<row, mode, pending, handler, recon, height>>
      /\ CallsAreTyped /\ RunsAreTyped
  BY DEF Land, ServiceInv, CallInv, ChainIsTyped, storeVars, processVars
<1>1. CoverStep
  BY <1>0 DEF CoverStep, RowStep, SameRequest, TransferStep, ServiceInv, CallInv, ChainIsTyped
<1>2. CallsArePending'
  BY <1>0 DEF ServiceInv, CallsArePending, InvocationAt, RequestAt
<1>3. ASSUME NEW h \in Handler
      PROVE  OwnsItsRow(h)'
  <2>1. OwnsItsRow(h) /\ InvocationAt(h)' = InvocationAt(h)
    BY <1>0 DEF ServiceInv, CallsOwnTheirRows, InvocationAt, RequestAt
  <2>2. handler[h].pc \in {"recorded", "sent", "paid"} => handler[h].attempt \in Attempt
    BY <1>0 DEF CallsAreTyped
  <2> QED BY <1>0, <2>1, <2>2 DEF OwnsItsRow
<1>4. HistoryIsComplete'
  <2>1. /\ history \in Seq(Attempt) /\ history' = Append(history, a)
        /\ HistoryIsComplete /\ ~Landed(a)
    BY <1>0 DEF ServiceInv, CallInv, ChainIsTyped, Land, Landed
  <2>2. /\ DOMAIN history = 1..Len(history) /\ Len(history) \in Nat
        /\ DOMAIN history' = 1..(Len(history) + 1) /\ history'[Len(history) + 1] = a
        /\ \A k \in DOMAIN history : history'[k] = history[k]
    BY <2>1
  <2>3. \A k \in DOMAIN history : history[k] # a
    BY <2>1 DEF HistoryIsComplete
  <2>4. \A b \in Attempt : Landed(b)' <=> Landed(b) \/ b = a
    BY <1>0, <2>1 DEF Landed
  <2>5. \A b \in Attempt : Landed(b)' <=> \E k \in DOMAIN history' : history'[k] = b
    BY <2>1, <2>2, <2>4 DEF HistoryIsComplete
  <2>6. \A k, l \in DOMAIN history' : history'[k] = history'[l] => k = l
    BY <2>1, <2>2, <2>3 DEF HistoryIsComplete
  <2> QED BY <2>5, <2>6 DEF HistoryIsComplete
<1>5. ListedRowsStayBlocked'
  BY <1>0 DEF ServiceInv, ListedRowsStayBlocked, StaysBlocked
<1>6. ASSUME NEW p \in Process
      PROVE  IsTrue(p)'
  <2>1. IsTrue(p) /\ recon'[p] = recon[p]
    BY <1>0 DEF ServiceInv, VerdictsAreTrue
  <2>2. CASE recon[p].pc \in {"height", "resolve"}
    <3> DEFINE b == recon[p].attempt
    <3>1. b \in Attempt /\ (recon[p].pc = "height" => recon[p].since \in Nat)
          /\ height \in Nat /\ transfer[a].lastValid \in Nat
      BY <1>0, <2>2 DEF RunsAreTyped, ServiceInv, CallInv, ChainIsTyped
    <3>2. CASE b # a
      BY <1>0, <2>1, <3>1, <3>2 DEF IsTrue, Landed
    <3>3. CASE b = a
      BY <1>0, <2>1, <3>1, <3>3 DEF IsTrue, Landed
    <3> QED BY <3>2, <3>3
  <2> QED BY <2>1, <2>2 DEF IsTrue
<1> QED
  BY <1>1, <1>2, <1>3, <1>4, <1>5, <1>6, CoverStepKeeps
  DEF ServiceInv, CallsOwnTheirRows, VerdictsAreTrue

\* A block is produced: a lookup ends before LookupBlocks have passed.
LEMMA TickKeeps ==
    ASSUME ServiceInv, CallInv', Tick
    PROVE  CoverStep /\ ServiceInv'
<1>0. /\ height \in Nat /\ height' = height + 1
      /\ UNCHANGED <<row, mode, pending, handler, recon, transfer, history>>
      /\ RunsAreTyped
  BY DEF Tick, ServiceInv, CallInv, ChainIsTyped, storeVars, processVars
<1>1. CoverStep
  BY <1>0 DEF CoverStep, RowStep, SameRequest, TransferStep
<1>2. CallsArePending' /\ CallsOwnTheirRows' /\ HistoryIsComplete' /\ ListedRowsStayBlocked'
  <2>1. CallsArePending' /\ CallsOwnTheirRows'
    BY <1>0 DEF ServiceInv, CallsArePending, InvocationAt, RequestAt, CallsOwnTheirRows, OwnsItsRow
  <2>2. HistoryIsComplete' /\ ListedRowsStayBlocked'
    BY <1>0 DEF ServiceInv, HistoryIsComplete, Landed, ListedRowsStayBlocked, StaysBlocked
  <2> QED BY <2>1, <2>2
<1>3. ASSUME NEW p \in Process
      PROVE  IsTrue(p)'
  <2>1. IsTrue(p) /\ recon'[p] = recon[p]
    BY <1>0 DEF ServiceInv, VerdictsAreTrue
  <2>2. recon[p].since \in Nat /\ LookupBlocks \in Nat
    BY <1>0, ServiceAssumption DEF RunsAreTyped
  <2>3. CASE recon[p].pc = "height"
    <3>1. height < recon[p].since + LookupBlocks
      BY <2>3 DEF Tick
    <3> QED BY <1>0, <2>1, <2>2, <2>3, <3>1 DEF IsTrue, Landed
  <2>4. CASE recon[p].pc = "resolve"
    <3>1. transfer[recon[p].attempt].lastValid \in Nat
      BY <2>4 DEF ServiceInv, CallInv, ChainIsTyped, RunsAreTyped
    <3> QED BY <1>0, <2>1, <2>4, <3>1 DEF IsTrue
  <2> QED BY <2>1, <2>3, <2>4 DEF IsTrue
<1> QED BY <1>1, <1>2, <1>3, CoverStepKeeps DEF ServiceInv, VerdictsAreTrue

\* A crash loses the calls and the run, and nothing they wrote.
LEMMA CrashKeeps ==
    ASSUME SingleAuthority, ServiceInv, CallInv', NEW p \in Process, Crash(p)
    PROVE  CoverStep /\ ServiceInv'
<1>0. /\ \A h \in Handler : handler'[h].pc = "idle"
      /\ \A q \in Process : recon'[q].pc = "idle" /\ recon'[q].queue = {}
      /\ UNCHANGED <<row, height, transfer, history>>
  BY ServiceAssumption
  DEF SingleAuthority, Crash, IdleHandler, IdleRecon, ServiceInv, CallInv, RunsAreTyped,
      storeVars, chainVars
<1>1. CoverStep
  BY <1>0 DEF CoverStep, RowStep, SameRequest, TransferStep, ServiceInv, CallInv, ChainIsTyped
<1>2. CallsArePending' /\ CallsOwnTheirRows' /\ ListedRowsStayBlocked' /\ VerdictsAreTrue'
  BY <1>0 DEF CallsArePending, CallsOwnTheirRows, OwnsItsRow, ListedRowsStayBlocked, StaysBlocked,
     VerdictsAreTrue, IsTrue
<1>3. HistoryIsComplete'
  BY <1>0 DEF ServiceInv, HistoryIsComplete, Landed
<1> QED BY <1>1, <1>2, <1>3, CoverStepKeeps DEF ServiceInv

\* Recovery runs when no call is in progress, and releases only rows without
\* an attempt (recoverInterruptedInvocations).
LEMMA RestartKeeps ==
    ASSUME SingleAuthority, ServiceInv, CallInv', NEW p \in Process, Restart(p)
    PROVE  CoverStep /\ ServiceInv'
<1>0. /\ row \in [Invocation -> Row] /\ mode[p] = "down" /\ RecoverInterrupted
      /\ UNCHANGED <<pending, handler, recon, height, transfer, history>>
  BY DEF Restart, ServiceInv, CallInv, StoreInv, StoreTypeOK, chainVars
<1>1. \A h \in Handler : handler[h].pc = "idle"
  BY <1>0, ServiceAssumption DEF SingleAuthority, ServiceInv, CallsArePending
<1>2. ASSUME NEW i \in Invocation
      PROVE  RowStep(i) /\ (row[i].state # "RESERVED" => row'[i] = row[i])
  <2>1. CASE row[i].state = "RESERVED" /\ row[i].attempt # None
    <3>1. row'[i] = [row[i] EXCEPT !.state = "RECONCILIATION_REQUIRED"]
      BY <1>0, <2>1 DEF RecoverInterrupted, WithAttempt, WithoutAttempt
    <3> QED BY <1>0, <2>1, <3>1 DEF RowStep, SameRequest, Row
  <2>2. CASE row[i].state = "RESERVED" /\ row[i].attempt = None
    <3>1. row'[i] = [row[i] EXCEPT !.state = "FAILED"]
      BY <1>0, <2>2 DEF RecoverInterrupted, WithAttempt, WithoutAttempt
    <3> QED BY <1>0, <2>2, <3>1 DEF RowStep, SameRequest, Row, Holding
  <2>3. CASE row[i].state # "RESERVED"
    <3>1. row'[i] = row[i]
      BY <1>0, <2>3 DEF RecoverInterrupted, WithAttempt, WithoutAttempt
    <3> QED BY <3>1 DEF RowStep, SameRequest
  <2> QED BY <2>1, <2>2, <2>3
<1>3. CoverStep
  BY <1>0, <1>2 DEF CoverStep, TransferStep, ServiceInv, CallInv, ChainIsTyped
<1>4. CallsArePending' /\ CallsOwnTheirRows'
  BY <1>0, <1>1 DEF CallsArePending, CallsOwnTheirRows, OwnsItsRow
<1>5. HistoryIsComplete' /\ VerdictsAreTrue'
  BY <1>0 DEF ServiceInv, HistoryIsComplete, Landed, VerdictsAreTrue, IsTrue
<1>6. ASSUME NEW q \in Process
      PROVE  StaysBlocked(q)'
  <2>1. /\ StaysBlocked(q)
        /\ \A item \in recon[q].queue : item[1] \in Invocation
        /\ recon[q].pc \in {"height", "resolve"} => recon[q].invocation \in Invocation
    BY DEF ServiceInv, ListedRowsStayBlocked, CallInv, RunsAreTyped
  <2> QED BY <1>0, <1>2, <2>1 DEF StaysBlocked
<1> QED
  BY <1>3, <1>4, <1>5, <1>6, CoverStepKeeps DEF ServiceInv, ListedRowsStayBlocked

-----------------------------------------------------------------------------
(* The theorems.                                                           *)

\* An empty store covers an empty chain.
LEMMA ServiceInvInit == ServiceInit => ServiceInv
<1> SUFFICES ASSUME ServiceInit
             PROVE  ServiceInv
  OBVIOUS
<1>1. CallInv
  BY CallInvInit
<1>2. CoverInv
  BY DEF ServiceInit, StoreInit, CoverInv, TransfersAreSigned, RowsNameTheirTransfers,
     PaymentsAreCovered, ConfirmedWasSettled, BlockedRowsCanBeResolved, InState, AbsentRow,
     Unsigned, Live
<1>3. HistoryIsComplete
  BY DEF ServiceInit, HistoryIsComplete, Landed, Unsigned
<1>4. CallsArePending /\ CallsOwnTheirRows /\ ListedRowsStayBlocked /\ VerdictsAreTrue
  BY DEF ServiceInit, CallsArePending, CallsOwnTheirRows, OwnsItsRow, IdleHandler,
     ListedRowsStayBlocked, StaysBlocked, VerdictsAreTrue, IsTrue, IdleRecon
<1> QED BY <1>1, <1>2, <1>3, <1>4 DEF ServiceInv

\* Every step keeps the invariant, and moves a payment only under a hold.
LEMMA ServiceInvStep ==
    ASSUME SingleAuthority, ServiceInv, [ServiceNext]_serviceVars
    PROVE  CoverStep /\ ServiceInv'
<1>0. CallInv'
  BY CallInvStep DEF ServiceInv
<1>1. ASSUME NEW h \in Handler,
             \/ \E r \in Request : Begin(h, r)
             \/ HandlerStep(h) \/ ReleaseFails(h) \/ SettlementNotRecorded(h)
      PROVE  CoverStep /\ ServiceInv'
  <2>1. CallFrame(h)
    BY <1>1, CallStepFrame
  <2>2. CallsArePending'
    BY <1>1, CallKeepsPending
  <2> QED BY <1>0, <2>1, <2>2, CallFrameKeeps DEF ServiceInv, CallFrame
<1>2. ASSUME NEW p \in Process, ReconcileStep(p) \/ ReconcileAborts(p)
      PROVE  CoverStep /\ ServiceInv'
  <2>1. RunFrame(p) /\ RunGoesOn
    BY <1>2, RunStepKeeps
  <2>2. CoverStep
    BY <2>1 DEF RunFrame, chainVars, CoverStep, TransferStep, ServiceInv, CallInv, ChainIsTyped
  <2> QED BY <1>0, <2>1, <2>2, RunFrameKeeps DEF ServiceInv, RunGoesOn
<1>3. CASE UNCHANGED serviceVars
  <2>1. /\ row' = row /\ mode' = mode /\ pending' = pending /\ handler' = handler
        /\ recon' = recon /\ height' = height /\ transfer' = transfer /\ history' = history
        /\ height \in Nat
    BY <1>3 DEF serviceVars, storeVars, processVars, chainVars, ServiceInv, CallInv, ChainIsTyped
  <2>2. CoverStep
    BY <2>1 DEF CoverStep, RowStep, SameRequest, TransferStep
  <2>3. CallsArePending' /\ CallsOwnTheirRows'
    BY <2>1 DEF ServiceInv, CallsArePending, InvocationAt, RequestAt, CallsOwnTheirRows, OwnsItsRow
  <2>4. HistoryIsComplete' /\ ListedRowsStayBlocked'
    BY <2>1 DEF ServiceInv, HistoryIsComplete, Landed, ListedRowsStayBlocked, StaysBlocked
  <2>5. VerdictsAreTrue'
    <3>1. ASSUME NEW p \in Process
          PROVE  IsTrue(p)' <=> IsTrue(p)
      <4>1. (transfer[recon[p].attempt])' = transfer[recon[p].attempt]
        BY <2>1
      <4>2. (recon[p])' = recon[p] /\ Landed(recon[p].attempt)' = Landed(recon[p].attempt)
        BY <2>1 DEF Landed
      <4> QED BY <2>1, <4>1, <4>2 DEF IsTrue
    <3> QED BY <3>1 DEF ServiceInv, VerdictsAreTrue
  <2> QED BY <1>0, <2>2, <2>3, <2>4, <2>5, CoverStepKeeps DEF ServiceInv
<1> QED
  BY <1>0, <1>1, <1>2, <1>3, LandKeeps, TickKeeps, CrashKeeps, RestartKeeps DEF ServiceNext

\* So with one authority process it always holds.
LEMMA ServiceInvAlways == SingleAuthority /\ ServiceSpec => []ServiceInv
<1>1. SingleAuthority /\ ServiceInit => SingleAuthority /\ ServiceInv
  BY ServiceInvInit
<1>2. SingleAuthority /\ ServiceInv /\ [ServiceNext]_serviceVars => (SingleAuthority /\ ServiceInv)'
  BY ServiceInvStep DEF SingleAuthority
<1> QED BY <1>1, <1>2, PTL DEF ServiceSpec

\* Money that left, or may still leave, belongs to a row that holds or has
\* spent its amount and names the transfer: one process never releases what
\* can still settle (#pay, recovery, the "expired" verdict).
THEOREM PaymentsCorrect == SingleAuthority /\ ServiceSpec => []PaymentsAreCovered
<1>1. ServiceInv => PaymentsAreCovered
  BY DEF ServiceInv, CoverInv
<1> QED BY <1>1, ServiceInvAlways, PTL

\* A row is CONFIRMED only by the settlement of the attempt it recorded
\* (confirm, resolveReconciliation).
THEOREM ConfirmationsCorrect == SingleAuthority /\ ServiceSpec => []ConfirmedWasSettled
<1>1. ServiceInv => ConfirmedWasSettled
  BY DEF ServiceInv, CoverInv
<1> QED BY <1>1, ServiceInvAlways, PTL

\* Every blocked row names the attempt that can unblock it.
THEOREM BlockingCorrect == SingleAuthority /\ ServiceSpec => []BlockedRowsCanBeResolved
<1>1. ServiceInv => BlockedRowsCanBeResolved
  BY DEF ServiceInv, CoverInv
<1> QED BY <1>1, ServiceInvAlways, PTL

\* A verdict is applied to the attempt it was reached for, although
\* resolveReconciliation does not compare them.
THEOREM VerdictsCorrect == SingleAuthority /\ ServiceSpec => []VerdictsMatchTheRow
<1>1. ServiceInv => VerdictsMatchTheRow
  BY DEF ServiceInv, ListedRowsStayBlocked, StaysBlocked, VerdictsMatchTheRow
<1> QED BY <1>1, ServiceInvAlways, PTL

\* What the store's contract says of recovery (store/types.ts) is true of one
\* process; with a second one it is not.
THEOREM ReleasesCorrect == SingleAuthority /\ ServiceSpec => []ReleasedNeverTransmitted
<1>1. ServiceInv => ReleasedNeverTransmitted
  BY DEF ServiceInv, CoverInv, PaymentsAreCovered, Live, ReleasedNeverTransmitted
<1> QED BY <1>1, ServiceInvAlways, PTL

\* So is what the retry of a FAILED row relies on when it clears the evidence
\* of the earlier payment (sqlite-store.ts, #writeDecision).
THEOREM FailuresCorrect == SingleAuthority /\ ServiceSpec => []FailedNeverSettled
<1>1. ASSUME ServiceInv, NEW i \in Invocation, row[i].state = "FAILED", row[i].attempt # None,
             transfer[row[i].attempt].status = "settled"
      PROVE  FALSE
  <2> DEFINE a == row[i].attempt
  <2>1. a \in Attempt /\ row[i].fingerprint \in Request /\ InvocationOf[row[i].fingerprint] = i
    BY <1>1, PresentRow DEF ServiceInv, CallInv, StoreInv, StoreTypeOK, Row
  <2>2. transfer[a].request = row[i].fingerprint
    BY <1>1 DEF ServiceInv, CoverInv, RowsNameTheirTransfers
  <2> QED BY <1>1, <2>1, <2>2 DEF ServiceInv, CoverInv, PaymentsAreCovered, Live
<1>2. ServiceInv => FailedNeverSettled
  BY <1>1 DEF FailedNeverSettled, InState
<1> QED BY <1>2, ServiceInvAlways, PTL

-----------------------------------------------------------------------------
(* What a step does to the payments and to what is accounted for.          *)

SettledFor(r) == {a \in Attempt : transfer[a].status = "settled" /\ transfer[a].request = r}

\* The payments of a request are counted: finitely many, each settled.
LEMMA PaymentsType ==
    ASSUME SingleAuthority, NEW r \in Request
    PROVE  /\ Payments[r] = Cardinality(SettledFor(r)) /\ Payments[r] \in Nat
           /\ IsFiniteSet(SettledFor(r))
           /\ Payments[r] > 0 <=> \E a \in Attempt : transfer[a].status = "settled"
                                                     /\ transfer[a].request = r
<1>1. Payments[r] = Cardinality(SettledFor(r))
  BY DEF Payments, SettledFor
<1>2. IsFiniteSet(SettledFor(r))
  BY FS_Subset DEF SettledFor, SingleAuthority
<1>3. Cardinality(SettledFor(r)) \in Nat
      /\ (Cardinality(SettledFor(r)) = 0 <=> SettledFor(r) = {})
  BY <1>2, FS_CardinalityType, FS_EmptySet
<1>4. SettledFor(r) # {} <=> \E a \in Attempt : transfer[a].status = "settled"
                                                /\ transfer[a].request = r
  BY DEF SettledFor
<1> QED BY <1>1, <1>2, <1>3, <1>4

\* Money leaves when a transmitted transfer settles, and at no other step.
LEMMA OnlySettlementPays ==
    ASSUME SingleAuthority, ServiceInv, [ServiceNext]_serviceVars,
           \A a \in Attempt : ~Land(a, "settled")
    PROVE  Payments' = Payments
<1>0. transfer \in [Attempt -> [status : TransferStatus,
                                request : Request \cup {None}, lastValid : Nat]]
  BY DEF ServiceInv, CallInv, ChainIsTyped
<1>1. ASSUME \A a \in Attempt : /\ transfer'[a].status = "settled" <=> transfer[a].status = "settled"
                                /\ transfer[a].status = "settled" =>
                                      transfer'[a].request = transfer[a].request
      PROVE  Payments' = Payments
  <2>1. ASSUME NEW r \in Request
        PROVE  {a \in Attempt : transfer'[a].status = "settled" /\ transfer'[a].request = r}
                 = {a \in Attempt : transfer[a].status = "settled" /\ transfer[a].request = r}
    BY <1>1
  <2> QED BY <2>1 DEF Payments
<1>2. ASSUME NEW h \in Handler,
             \/ \E r \in Request : Begin(h, r)
             \/ HandlerStep(h) \/ ReleaseFails(h) \/ SettlementNotRecorded(h)
      PROVE  Payments' = Payments
  <2>1. CallFrame(h)
    BY <1>2, CallStepFrame
  <2> QED BY <1>1, <2>1 DEF CallFrame, CoverStep, TransferStep, Landed
<1>3. CASE UNCHANGED transfer
  BY <1>1, <1>3
<1>4. ASSUME NEW p \in Process, ReconcileStep(p) \/ ReconcileAborts(p) \/ Crash(p) \/ Restart(p)
      PROVE  UNCHANGED transfer
  BY <1>4 DEF ReconcileStep, ReconcileAborts, Crash, Restart, ReconcileStart, ReadHistory,
     ReadHeight, LookupFails, Resolve, ReconcileReceipt, ReconcileEnd, chainVars
<1>5. ASSUME NEW a \in Attempt, Land(a, "failed")
      PROVE  Payments' = Payments
  <2>1. /\ transfer[a].status = "sent" /\ transfer'[a].status = "failed"
        /\ \A b \in Attempt : b # a => transfer'[b] = transfer[b]
    BY <1>0, <1>5 DEF Land
  <2> QED BY <1>1, <2>1
<1>6. CASE Tick \/ UNCHANGED serviceVars
  BY <1>3, <1>6 DEF Tick, serviceVars
<1> QED BY <1>2, <1>3, <1>4, <1>5, <1>6 DEF ServiceNext

\* One store call confirms at most one invocation.
LEMMA OneConfirmation ==
    ASSUME StoreTypeOK, [StoreNext]_storeVars, NEW i \in Invocation, NEW j \in Invocation, i # j,
           row[i].state # "CONFIRMED", row'[i].state = "CONFIRMED"
    PROVE  row[j].state # "CONFIRMED" => row'[j].state # "CONFIRMED"
<1> USE DEF StoreTypeOK
<1>1. ASSUME NEW k \in Invocation, \A l \in Invocation : l # k => row'[l] = row[l]
      PROVE  row[j].state # "CONFIRMED" => row'[j].state # "CONFIRMED"
  BY <1>1
<1>2. ASSUME NEW r \in Request, ReserveAllowed(r) \/ ReserveDenied(r)
      PROVE  row[j].state # "CONFIRMED" => row'[j].state # "CONFIRMED"
  BY <1>1, <1>2, Decided, RequestType DEF ReserveAllowed, ReserveDenied, InvocationState
<1>3. ASSUME NEW k \in Invocation, NEW a \in Attempt,
             RecordPaymentAttempt(k, a) \/ Confirm(k, a) \/ ResolveConfirmed(k, a)
      PROVE  row[j].state # "CONFIRMED" => row'[j].state # "CONFIRMED"
  BY <1>1, <1>3 DEF RecordPaymentAttempt, Confirm, ResolveConfirmed
<1>4. ASSUME NEW k \in Invocation,
             \/ Fail(k) \/ MarkReconciliationRequired(k) \/ ResolveFailed(k)
             \/ AttachReceipt(k, ReceiptOf(row[k]))
      PROVE  row[j].state # "CONFIRMED" => row'[j].state # "CONFIRMED"
  BY <1>1, <1>4 DEF Fail, MarkReconciliationRequired, ResolveFailed, AttachReceipt
<1>5. CASE RecoverInterrupted
  BY <1>5 DEF RecoverInterrupted, WithAttempt, WithoutAttempt, Row
<1>6. CASE UNCHANGED storeVars
  BY <1>6 DEF storeVars
<1> QED BY <1>2, <1>3, <1>4, <1>5, <1>6 DEF StoreNext

\* A booking is of one request whose money has left, and which is not booked yet.
LEMMA BookingsArePaid ==
    ASSUME SingleAuthority, ServiceInv, CoverStep, [StoreNext]_storeVars
    PROVE  \/ Accounted' = Accounted
           \/ \E r \in Request : /\ Payments[r] > 0 /\ r \notin Accounted
                                 /\ Accounted' = Accounted \cup {r}
<1>0. CallInv /\ StoreInv /\ StoreTypeOK /\ row \in [Invocation -> Row] /\ CoverInv
  BY DEF ServiceInv, CallInv, StoreInv, StoreTypeOK
<1>1. ASSUME NEW i \in Invocation, row[i].state = "CONFIRMED"
      PROVE  row'[i].state = "CONFIRMED" /\ row'[i].fingerprint = row[i].fingerprint
  BY <1>1 DEF CoverStep, RowStep, SameRequest, Holding
<1>2. CASE \A i \in Invocation : row'[i].state = "CONFIRMED" => row[i].state = "CONFIRMED"
  BY <1>1, <1>2 DEF Accounted, InState
<1>3. ASSUME NEW i \in Invocation, row'[i].state = "CONFIRMED", row[i].state # "CONFIRMED"
      PROVE  \E r \in Request : /\ Payments[r] > 0 /\ r \notin Accounted
                                /\ Accounted' = Accounted \cup {r}
  <2> DEFINE r == row[i].fingerprint
             a == row[i].attempt
  <2>1. /\ row[i].state \in Holding /\ row'[i].fingerprint = r
        /\ a # None /\ transfer[a].status = "settled"
    BY <1>3 DEF CoverStep, RowStep, SameRequest
  <2>2. a \in Attempt /\ r \in Request /\ InvocationOf[r] = i
    BY <1>0, <2>1, PresentRow DEF StoreInv, Row, Holding
  <2>3. transfer[a].request = r
    BY <1>0, <2>1 DEF CoverInv, RowsNameTheirTransfers
  <2>4. Payments[r] > 0
    BY <2>1, <2>2, <2>3, PaymentsType
  <2>5. \A j \in Invocation : row[j].state = "CONFIRMED" => InvocationOf[row[j].fingerprint] = j
    BY <1>0, PresentRow DEF StoreInv
  <2>6. r \notin Accounted
    <3>1. ASSUME NEW j \in Invocation, row[j].state = "CONFIRMED", row[j].fingerprint = r
          PROVE  FALSE
      BY <1>3, <2>2, <2>5, <3>1
    <3> QED BY <3>1 DEF Accounted, InState
  <2>7. \A j \in Invocation : j # i => (row'[j].state = "CONFIRMED" <=> row[j].state = "CONFIRMED")
    BY <1>0, <1>1, <1>3, OneConfirmation
  <2>8. Accounted' = Accounted \cup {r}
    <3>1. \A q : q \in Accounted' <=>
                   \E j \in Invocation : row'[j].state = "CONFIRMED" /\ q = row'[j].fingerprint
      BY DEF Accounted, InState
    <3>2. \A q : q \in Accounted <=>
                   \E j \in Invocation : row[j].state = "CONFIRMED" /\ q = row[j].fingerprint
      BY DEF Accounted, InState
    <3> HIDE DEF r
    <3>3. \A q : q \in Accounted' <=> q \in Accounted \/ q = r
      BY <1>1, <1>3, <2>1, <2>7, <3>1, <3>2
    <3> QED BY <3>3
  <2> QED BY <2>2, <2>4, <2>6, <2>8
<1> QED BY <1>2, <1>3

-----------------------------------------------------------------------------
(* Money that leaves is within the total.                                  *)

\* A request whose money has left, or may leave, has its row.
LEMMA PaidRow ==
    ASSUME ServiceInv, NEW a \in Attempt, Live(a), NEW r, transfer[a].request = r
    PROVE  LET i == InvocationOf[r]
           IN /\ r \in Request /\ i \in Invocation
              /\ row[i].fingerprint = r /\ row[i].attempt = a
              /\ row[i].state \in Holding \cup {"CONFIRMED"}
              /\ permit[GrantOfRequest(r)] = PermitOf[r]
<1>1. r \in Request /\ InvocationOf[r] \in Invocation
  BY RequestAssumption DEF ServiceInv, CoverInv, TransfersAreSigned, Live
<1>2. /\ row[InvocationOf[r]].fingerprint = r /\ row[InvocationOf[r]].attempt = a
      /\ row[InvocationOf[r]].state \in Holding \cup {"CONFIRMED"}
  BY DEF ServiceInv, CoverInv, PaymentsAreCovered, Holding
<1>3. permit[GrantOfRequest(r)] = PermitOf[r]
  BY <1>1, <1>2 DEF ServiceInv, CallInv, StoreInv, RowsUseThePinnedPermit, RowGrant, Holding
<1> QED BY <1>1, <1>2, <1>3

\* What has left under a grant, and what leaves now, is within what the rows
\* hold and have spent, and so within the total of the pinned permit.
LEMMA SpentIsCovered ==
    ASSUME SingleAuthority, ServiceInv, NEW a \in Attempt, Live(a),
           transfer[a].status = "sent", NEW r, transfer[a].request = r
    PROVE  Promise!Spent(GrantOfRequest(r)) + Amount[r] <= MaxTotal[PermitOf[r]]
<1> DEFINE g == GrantOfRequest(r)
           i == InvocationOf[r]
           H == Units(g, InState(Holding))
           C == Units(g, InState({"CONFIRMED"}))
           B == Block(i, Amount[r])
           P == {u \in Promise!Paid \X (1..MaxAtomic) :
                    GrantOf[PermitOf[u[1]]] = g /\ u[2] <= Amount[u[1]]}
           f == [u \in P |-> <<InvocationOf[u[1]], u[2]>>]
<1>1. /\ r \in Request /\ i \in Invocation /\ row[i].fingerprint = r /\ row[i].attempt = a
      /\ row[i].state \in Holding \cup {"CONFIRMED"} /\ permit[g] = PermitOf[r]
  BY PaidRow
<1>2. /\ StoreInv /\ g \in Grant /\ PermitOf[r] \in Permit /\ Amount[r] \in 0..MaxAtomic
      /\ Amount[r] \in Nat
  BY <1>1, RequestType DEF ServiceInv, CallInv
<1>3. Committed(g) <= MaxTotal[PermitOf[r]]
  <2>1. PermitOf[r] # None
    BY <1>2, NoneAssumption
  <2> QED BY <1>1, <1>2, <2>1 DEF StoreInv, BudgetNeverExceeded
<1>4. IsFiniteSet(H \cup C) /\ Cardinality(H \cup C) = Committed(g)
  <2>1. H \cap C = {}
    BY DEF Units, InState, Holding
  <2>2. /\ IsFiniteSet(H) /\ IsFiniteSet(C)
        /\ Cardinality(H) \in Nat /\ Cardinality(C) \in Nat
    BY UnitsFinite
  <2>3. IsFiniteSet(H \cup C) /\ Cardinality(H \cup C) = Cardinality(H) + Cardinality(C) - Cardinality({})
    BY <2>1, <2>2, FS_Union
  <2>4. Cardinality(H) = reserved[g] /\ Cardinality(C) = consumed[g]
    BY <1>2 DEF StoreInv, LedgerMatchesRows
  <2> HIDE DEF H, C
  <2> QED BY <2>2, <2>3, <2>4, FS_EmptySet DEF Committed
<1>5. \A u \in Invocation \X (1..MaxAtomic) :
          u \in H \cup C <=> /\ row[u[1]].state \in Holding \cup {"CONFIRMED"}
                             /\ RowGrant(u[1]) = g /\ u[2] <= RowAmount(u[1])
  BY DEF Units, InState
<1>6. B \subseteq H \cup C
  <2> SUFFICES ASSUME NEW n \in 1..Amount[r]
               PROVE  <<i, n>> \in H \cup C
    BY DEF Block
  <2>1. <<i, n>> \in Invocation \X (1..MaxAtomic)
    BY <1>1, <1>2, MaxAtomicAssumption
  <2> HIDE DEF H, C
  <2> QED BY <1>1, <1>5, <2>1 DEF RowGrant, RowAmount
<1>7. /\ IsFiniteSet((H \cup C) \ B)
      /\ Cardinality((H \cup C) \ B) = Committed(g) - Amount[r]
  <2> HIDE DEF H, C, i, g
  <2> QED BY <1>2, <1>4, <1>6, BlockRemoved
<1>8. ASSUME NEW q \in Promise!Paid
      PROVE  /\ q \in Request /\ InvocationOf[q] \in Invocation /\ InvocationOf[q] # i
             /\ row[InvocationOf[q]].fingerprint = q
             /\ row[InvocationOf[q]].state \in Holding \cup {"CONFIRMED"}
  <2>1. q \in Request /\ Payments[q] > 0
    BY DEF Promise!Paid
  <2>2. PICK b \in Attempt : transfer[b].status = "settled" /\ transfer[b].request = q
    BY <2>1, PaymentsType
  <2>3. /\ InvocationOf[q] \in Invocation
        /\ row[InvocationOf[q]].fingerprint = q /\ row[InvocationOf[q]].attempt = b
        /\ row[InvocationOf[q]].state \in Holding \cup {"CONFIRMED"}
    BY <2>2, PaidRow DEF Live
  <2>4. a # b
    BY <2>2
  <2> QED BY <1>1, <2>1, <2>3, <2>4
<1>9. f \in Injection(P, (H \cup C) \ B)
  <2>1. ASSUME NEW u \in P
        PROVE  f[u] \in (H \cup C) \ B
    <3>1. /\ u[1] \in Promise!Paid /\ u[2] \in 1..MaxAtomic
          /\ GrantOfRequest(u[1]) = g /\ u[2] <= Amount[u[1]]
          /\ f[u] = <<InvocationOf[u[1]], u[2]>>
      BY DEF GrantOfRequest
    <3>2. f[u] \in Invocation \X (1..MaxAtomic)
      BY <1>8, <3>1
    <3>3. f[u] \in H \cup C
      <4> HIDE DEF H, C, f, P
      <4> QED BY <1>5, <1>8, <3>1, <3>2 DEF RowGrant, RowAmount
    <3>4. f[u] \notin B
      BY <1>8, <3>1 DEF Block
    <3> QED BY <3>3, <3>4
  <2>2. ASSUME NEW u \in P, NEW v \in P, f[u] = f[v]
        PROVE  u = v
    <3>1. /\ u = <<u[1], u[2]>> /\ u[1] \in Promise!Paid
          /\ v = <<v[1], v[2]>> /\ v[1] \in Promise!Paid
          /\ InvocationOf[u[1]] = InvocationOf[v[1]] /\ u[2] = v[2]
      BY <2>2
    <3>2. u[1] = v[1]
      BY <1>8, <3>1
    <3> QED BY <3>1, <3>2
  <2>3. f \in [P -> (H \cup C) \ B] /\ DOMAIN f = P
    <3> HIDE DEF H, C, B, P
    <3> QED BY <2>1
  <2>4. IsInjective(f)
    <3> HIDE DEF f, P
    <3> QED BY <2>2, <2>3, Zenon DEF IsInjective
  <2> HIDE DEF f, P, H, C, B
  <2> QED BY <2>3, <2>4 DEF Injection
<1>10. IsFiniteSet(P) /\ Cardinality(P) <= Committed(g) - Amount[r]
  <2> HIDE DEF f, P, H, C, B, g
  <2> QED BY <1>7, <1>9, FS_Injection
<1>11. Cardinality(P) \in Nat /\ Committed(g) \in Nat /\ MaxTotal[PermitOf[r]] \in Nat
  <2>1. Committed(g) \in Nat
    BY <1>2 DEF Committed, StoreInv, StoreTypeOK
  <2>2. MaxTotal[PermitOf[r]] \in Nat
    BY <1>1, RequestType
  <2> HIDE DEF P, g
  <2> QED BY <1>10, <2>1, <2>2, FS_CardinalityType
<1>12. Promise!Spent(g) = Cardinality(P)
  <2> HIDE DEF g
  <2> QED BY DEF Promise!Spent, Promise!Cardinality, Cardinality
<1> HIDE DEF P, g
<1> QED BY <1>2, <1>3, <1>10, <1>11, <1>12 DEF g

-----------------------------------------------------------------------------
(* The promise.                                                            *)

\* A settlement is a payment the promise allows: the first of its invocation,
\* under the grant's one permit and within its total.
LEMMA SettlementIsPay ==
    ASSUME SingleAuthority, ServiceInv, NEW a \in Attempt, Land(a, "settled")
    PROVE  \E r \in Request : Promise!Pay(r)
<1> DEFINE r == transfer[a].request
           g == GrantOfRequest(r)
<1>0. /\ transfer[a].status = "sent" /\ height <= transfer[a].lastValid /\ row' = row
      /\ transfer'[a].status = "settled" /\ transfer'[a].request = r
      /\ \A b \in Attempt : b # a => transfer'[b] = transfer[b]
  BY DEF Land, ServiceInv, CallInv, ChainIsTyped, storeVars
<1>1. /\ Live(a) /\ r \in Request /\ row[InvocationOf[r]].attempt = a
      /\ permit[g] = PermitOf[r]
  BY <1>0, PaidRow DEF Live
<1>2. ASSUME NEW b \in Attempt, transfer[b].status = "settled"
      PROVE  /\ InvocationOf[transfer[b].request] # InvocationOf[r]
             /\ permit[GrantOfRequest(transfer[b].request)] = PermitOf[transfer[b].request]
  <2>1. Live(b) /\ b # a
    BY <1>0, <1>2 DEF Live
  <2> QED BY <1>1, <2>1, PaidRow
<1>3. ASSUME NEW q \in Promise!Paid
      PROVE  /\ InvocationOf[q] # InvocationOf[r]
             /\ GrantOf[PermitOf[q]] = GrantOf[PermitOf[r]] => PermitOf[q] = PermitOf[r]
  <2>1. PICK b \in Attempt : transfer[b].status = "settled" /\ transfer[b].request = q
    BY PaymentsType DEF Promise!Paid
  <2> QED BY <1>1, <1>2, <2>1 DEF GrantOfRequest
<1>4. Promise!Spent(GrantOf[PermitOf[r]]) + Amount[r] <= MaxTotal[PermitOf[r]]
  BY <1>0, <1>1, SpentIsCovered DEF GrantOfRequest
<1>5. Payments' = [Payments EXCEPT ![r] = 1]
  <2>1. {b \in Attempt : transfer'[b].status = "settled" /\ transfer'[b].request = r} = {a}
    BY <1>0, <1>2
  <2>2. ASSUME NEW q \in Request, q # r
        PROVE  {b \in Attempt : transfer'[b].status = "settled" /\ transfer'[b].request = q}
                 = {b \in Attempt : transfer[b].status = "settled" /\ transfer[b].request = q}
    BY <1>0, <2>2
  <2>3. Cardinality({a}) = 1
    BY FS_Singleton
  <2>4. Payments \in [Request -> {Payments[q] : q \in Request}] /\ DOMAIN Payments = Request
    BY DEF Payments
  <2>5. DOMAIN Payments' = Request /\ Payments'[r] = 1
        /\ \A q \in Request \ {r} : Payments'[q] = Payments[q]
    BY <1>1, <2>1, <2>2, <2>3 DEF Payments
  <2>6. Payments' = [q \in Request |-> Payments'[q]]
    BY DEF Payments
  <2> HIDE DEF r
  <2> QED BY <2>4, <2>5, <2>6
<1>6. Accounted' = Accounted
  BY <1>0 DEF Accounted, InState
<1>7. Promise!Pay(r)
  BY <1>3, <1>4, <1>5, <1>6 DEF Promise!Pay
<1> QED BY <1>1, <1>7

\* Money leaves at most once for an invocation, within the total signed for
\* one permit per grant, and only money that left is booked, once: whatever
\* calls, crashes, lookups and failing store calls do.
THEOREM PromiseCorrect == SingleAuthority /\ ServiceSpec => PromiseKept
<1>1. ASSUME SingleAuthority, ServiceInit
      PROVE  Promise!Init
  <2>1. \A r \in Request : SettledFor(r) = {}
    BY <1>1 DEF ServiceInit, SettledFor, Unsigned
  <2>2. Payments = [r \in Request |-> 0]
    BY <2>1, FS_EmptySet DEF Payments, SettledFor
  <2>3. Accounted = {}
    BY <1>1 DEF Accounted, InState, ServiceInit, StoreInit, AbsentRow
  <2> QED BY <2>2, <2>3 DEF Promise!Init
<1>2. ASSUME SingleAuthority, ServiceInv, [ServiceNext]_serviceVars
      PROVE  [Promise!Next]_(Promise!promiseVars)
  <2>1. CASE \E a \in Attempt : Land(a, "settled")
    BY <1>2, <2>1, SettlementIsPay DEF Promise!Next
  <2>2. CASE \A a \in Attempt : ~Land(a, "settled")
    <3>1. Payments' = Payments
      BY <1>2, <2>2, OnlySettlementPays
    <3>2. CoverStep /\ [StoreNext]_storeVars
      BY <1>2, ServiceInvStep, StoreSteps DEF ServiceInv
    <3>3. CASE Accounted' = Accounted
      BY <3>1, <3>3 DEF Promise!promiseVars
    <3>4. ASSUME NEW r \in Request, Payments[r] > 0, r \notin Accounted,
                 Accounted' = Accounted \cup {r}
          PROVE  Promise!Next
      BY <3>1, <3>4 DEF Promise!Next, Promise!Account, Promise!Paid
    <3> QED BY <1>2, <3>2, <3>3, <3>4, BookingsArePaid
  <2> QED BY <2>1, <2>2
<1>3. SingleAuthority => SingleAuthority'
  BY DEF SingleAuthority
<1> QED
  BY <1>1, <1>2, <1>3, ServiceInvAlways, PTL DEF ServiceSpec, PromiseKept, Promise!Spec

=============================================================================
