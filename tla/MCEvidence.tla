------------------------------- MODULE MCEvidence -------------------------------
(* The purchase of MCEvidenceTrail, within the bounds the theorems about its *)
(* verdicts assume.                                                          *)
EXTENDS MCEvidenceTrail, EvidenceTrailProofs

ASSUME VerdictAssumption == WithinBounds /\ Service # None

=============================================================================
