----------------------------- MODULE MCSessions -----------------------------
(* Instances of Sessions for TLC: the constants are in the .cfg files.     *)
EXTENDS Sessions, TLC

CONSTANTS h1, h2, alice, bob

Symmetry == Permutations(Handlers) \cup Permutations(Clients)
=============================================================================
