----------------------------- MODULE MCMCPClient -----------------------------
(* Instances of MCPClient for TLC.                                         *)
EXTENDS MCPClient, TLC

CONSTANTS c1, c2, nothing

MCCalls == {c1, c2}
MCSymmetry == Permutations(MCCalls)

Good == [status |-> TRUE, parses |-> TRUE, version |-> TRUE, id |-> TRUE,
         result |-> "data", error |-> FALSE]

\* A response in order, one for each check that fails alone, and the mixtures
\* whose verdict depends on the order of the checks.
MCForms == {
  Good,
  [Good EXCEPT !.status = FALSE, !.result = "absent"],
  [Good EXCEPT !.parses = FALSE],
  [Good EXCEPT !.version = FALSE],
  [Good EXCEPT !.id = FALSE],
  [Good EXCEPT !.result = "absent"],
  [Good EXCEPT !.result = "odd"],
  [Good EXCEPT !.result = "null"],
  [Good EXCEPT !.result = "null", !.error = TRUE],
  [Good EXCEPT !.result = "absent", !.error = TRUE]}
==============================================================================
