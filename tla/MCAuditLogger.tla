--------------------------- MODULE MCAuditLogger ---------------------------
(* Instances of AuditLogger for TLC: the constants are in the .cfg files.  *)
EXTENDS AuditLogger, TLC

CONSTANTS c1, c2

Symmetry == Permutations(Callers)
=============================================================================
