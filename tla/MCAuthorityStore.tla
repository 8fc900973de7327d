--------------------------- MODULE MCAuthorityStore ---------------------------
(***************************************************************************)
(* A store with two grants: g1 is claimed by two permits with different    *)
(* totals, and i1 by two requests with different fingerprints.             *)
(***************************************************************************)
EXTENDS AuthorityStore, TLC

CONSTANTS g1, g2, p1, p2, p3, i1, i2, i3, i4, r1, r1b, r2, r3, r4, a1

MCGrantOf == p1 :> g1 @@ p2 :> g1 @@ p3 :> g2
MCMaxTotal == p1 :> 3 @@ p2 :> 4 @@ p3 :> 2
MCMaxPerCall == p1 :> 2 @@ p2 :> 4 @@ p3 :> 2
MCInvocationOf == r1 :> i1 @@ r1b :> i1 @@ r2 :> i2 @@ r3 :> i3 @@ r4 :> i4
MCPermitOf == r1 :> p1 @@ r1b :> p2 @@ r2 :> p1 @@ r3 :> p1 @@ r4 :> p3
MCAmount == r1 :> 2 @@ r1b :> 4 @@ r2 :> 1 @@ r3 :> 1 @@ r4 :> 2

=============================================================================
