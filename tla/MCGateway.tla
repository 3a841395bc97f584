------------------------------- MODULE MCGateway -------------------------------
(* Instances of Gateway for TLC.                                           *)
EXTENDS Gateway

CONSTANTS h1, h2, alice, bob, read, write, path, etc

MCLength == etc :> 1
MCTools == {read, write}

Rule(name, action, tool, limit) ==
  [name |-> name, action |-> action, tools |-> {tool}, toolset |-> NoToolset,
   args |-> << >>, limit |-> limit]
File(rules) ==
  [wellFormed |-> TRUE, version |-> "1", toolsets |-> << >>, rules |-> rules]

\* Reading allowed and limited; then writing allowed, and reading listed but
\* denied.
MCFirst == File(<<Rule("reads", "allow", read, [max |-> 1, window |-> 1, per |-> ""])>>)
MCSecond ==
  File(<<Rule("writes", "allow", write, NoLimit), Rule("hidden", "allow", read, NoLimit),
         Rule("no reads", "deny", read, NoLimit)>>)
ASSUME FilesAssumption == Valid(MCFirst) /\ Valid(MCSecond)

MCFirstPolicy == Compile(MCFirst)
MCPolicies == {MCFirstPolicy, Compile(MCSecond)}
MCSymmetry == Permutations({h1, h2}) \cup Permutations({alice, bob})
==============================================================================
