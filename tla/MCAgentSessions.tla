---------------------------- MODULE MCAgentSessions ----------------------------
(***************************************************************************)
(* Three sessions in turn where two fit, two ids, two requests in flight.  *)
(***************************************************************************)
EXTENDS AgentSessions, TLC

SessionSymmetry == Permutations(Session) \cup Permutations(Invocation) \cup Permutations(Demo)

=============================================================================
