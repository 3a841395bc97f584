---------------------------- MODULE MCPolicyReload ----------------------------
(* Instances of PolicyReload for TLC.                                      *)
EXTENDS PolicyReload

CONSTANTS etc, home, long, number, read, write, path

MCLength == (etc :> 1) @@ (home :> 1) @@ (long :> 2)

AnyString == [match |-> NoRegex, notMatch |-> NoRegex, oneOf |-> {}, maxLen |-> 0]
OnPath(validator) == path :> validator

Rule(name, action, tools, toolset, args) ==
  [name |-> name, action |-> action, tools |-> tools, toolset |-> toolset,
   args |-> args, limit |-> NoLimit]

\* The rules of the test fixtures and of examples/policy, and mistakes.
MCMenu == {
  Rule("reads", "allow", {}, "read_only", << >>),
  Rule("guard", "deny", {read}, NoToolset, OnPath([AnyString EXCEPT !.notMatch = {etc}])),
  Rule("deny", "deny", {write}, NoToolset, << >>),
  Rule("short", "allow", {read, write}, NoToolset, OnPath([AnyString EXCEPT !.maxLen = 1])),
  Rule("home", "allow", {write}, NoToolset,
       OnPath([AnyString EXCEPT !.match = {home, long}, !.oneOf = {home}])),
  Rule("typo", "allow", {write}, NoToolset, OnPath([AnyString EXCEPT !.match = BadRegex])),
  [Rule("limit", "deny", {read}, NoToolset, << >>) EXCEPT
     !.limit = [max |-> 1, window |-> 1, per |-> ""]]}

MCToolsets == "read_only" :> {read}

MCCalls ==
  [tool : {read, write}, args : {<< >>} \cup {path :> v : v \in {etc, home, long, number}}]
==============================================================================
