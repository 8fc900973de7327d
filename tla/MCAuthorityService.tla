-------------------------- MODULE MCAuthorityService --------------------------
(***************************************************************************)
(* One grant and two requests under one permit, which exceed its total     *)
(* together: only one can hold or spend its amount at a time.              *)
(***************************************************************************)
EXTENDS AuthorityService, TLC

CONSTANTS g1, p1, i1, i2, r1, r1b, r2, a1, a2, a3, A, B, h1, h2

MCGrantOf == p1 :> g1
MCMaxTotal == p1 :> 3
MCTightTotal == p1 :> 2
MCMaxPerCall == p1 :> 2
Of(f) == [r \in Request |-> f[r]]
MCInvocationOf == Of(r1 :> i1 @@ r1b :> i1 @@ r2 :> i2)
MCPermitOf == [r \in Request |-> p1]
MCAmount == Of(r1 :> 1 @@ r1b :> 2 @@ r2 :> 2)
OneProcess == [h \in Handler |-> A]
TwoProcesses == [h \in Handler |-> IF h = h1 THEN A ELSE B]

AttemptSymmetry == Permutations(Attempt)

=============================================================================
