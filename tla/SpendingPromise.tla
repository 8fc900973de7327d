---------------------------- MODULE SpendingPromise ----------------------------
(***************************************************************************)
(* What the authority promises the human who signed a permit: the money of *)
(* an invocation leaves at most once, a grant is spent under one permit    *)
(* and within its total, and all money that left is accounted for.         *)
(*                                                                         *)
(* The contract of src/apps/authority/src/store/types.ts, of the payment   *)
(* provider interface, and of docs/payments-x402-sandbox.md, with no       *)
(* store, process or chain in it.                                          *)
(***************************************************************************)
EXTENDS Integers, FiniteSets

CONSTANTS Request, InvocationOf, PermitOf, GrantOf, MaxTotal, Amount, MaxAtomic

VARIABLES
    payments,   \* payments[r]: how often request r's money has left
    accounted   \* the requests recorded as paid

promiseVars == <<payments, accounted>>

Paid == {r \in Request : payments[r] > 0}

\* The units that left under grant g: a sum of amounts as the size of a set.
Spent(g) == Cardinality({u \in Paid \X (1..MaxAtomic) :
                            GrantOf[PermitOf[u[1]]] = g /\ u[2] <= Amount[u[1]]})

Init ==
    /\ payments = [r \in Request |-> 0]
    /\ accounted = {}

Pay(r) ==
    LET g == GrantOf[PermitOf[r]]
    IN /\ \A q \in Paid : /\ InvocationOf[q] # InvocationOf[r]
                          /\ GrantOf[PermitOf[q]] = g => PermitOf[q] = PermitOf[r]
       /\ Spent(g) + Amount[r] <= MaxTotal[PermitOf[r]]
       /\ payments' = [payments EXCEPT ![r] = 1]
       /\ UNCHANGED accounted

\* Only money that left is accounted for, and never the same money again.
Account(r) ==
    /\ r \in Paid \ accounted
    /\ accounted' = accounted \cup {r}
    /\ UNCHANGED payments

Next == \E r \in Request : Pay(r) \/ Account(r)

Spec == Init /\ [][Next]_promiseVars

\* All money that left is accounted for in the end.
FairSpec == Spec /\ \A r \in Request : WF_promiseVars(Account(r))

=============================================================================
