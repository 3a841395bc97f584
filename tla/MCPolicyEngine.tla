---------------------------- MODULE MCPolicyEngine ----------------------------
(* Instances of PolicyEngine for TLC.                                      *)
EXTENDS PolicyEngine

CONSTANTS h1, h2, alice, bob, path, etc

MCHandlers == {h1, h2}
MCLength == etc :> 1
MCClients == {<<alice>>, <<bob>>}
MCTools == {<<"read">>}
MCSymmetry == Permutations(MCHandlers) \cup Permutations({alice, bob})
MCArgs == {<< >>}

Limit(max, window, per) == [max |-> max, window |-> window, per |-> per]
AllowRule(name, tools, limit) ==
  [name |-> name, action |-> "allow", tools |-> tools, toolset |-> NoToolset,
   args |-> << >>, limit |-> limit]
File(rules) ==
  [wellFormed |-> TRUE, version |-> "1", toolsets |-> << >>, rules |-> rules]

\* A limit per client; then the same rule with another limit, behind a second
\* rule whose limit all clients share.
MCFiles == {
  File(<<AllowRule(<<"mine">>, {<<"read">>}, Limit(1, 2, "client"))>>),
  File(<<AllowRule(<<"ours">>, MCTools, Limit(2, 2, "")),
         AllowRule(<<"mine">>, {<<"read">>}, Limit(2, 2, "client"))>>)}
ASSUME FilesAssumption == \A f \in MCFiles : Valid(f)

MCPolicies == {Compile(f) : f \in MCFiles}
==============================================================================
