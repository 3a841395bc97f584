---------------------------- MODULE UpstreamCall ----------------------------
(***************************************************************************)
(* What a caller of the upstream HTTP client may count on, whatever the    *)
(* network and the upstream do.  A call is sent once and runs at most      *)
(* once, perhaps after its caller has given up; it succeeds only when it   *)
(* has run, and what it returns is the result of that very call.           *)
(*                                                                         *)
(* MCPClient implements it.  Gateway's Forward uses a call in this sense:  *)
(* whatever the answer, the upstream may or may not have run the call.     *)
(***************************************************************************)
CONSTANTS
  Calls,     \* the calls callers make
  Nothing    \* the result of a call that has none

VARIABLES
  stage,     \* stage[c]: "new", "pending", "ok" or "failed"
  runs,      \* runs[c]: how often the upstream has run c
  result     \* result[c]: the call whose result c returned

callVars == <<stage, runs, result>>

Init ==
  /\ stage = [c \in Calls |-> "new"]
  /\ runs = [c \in Calls |-> 0]
  /\ result = [c \in Calls |-> Nothing]

Issue(c) ==
  /\ stage[c] = "new"
  /\ stage' = [stage EXCEPT ![c] = "pending"]
  /\ UNCHANGED <<runs, result>>

\* The upstream does what the call asks, once, and possibly too late.
Run(c) ==
  /\ stage[c] # "new"
  /\ runs[c] = 0
  /\ runs' = [runs EXCEPT ![c] = 1]
  /\ UNCHANGED <<stage, result>>

Succeed(c) ==
  /\ stage[c] = "pending"
  /\ runs[c] = 1
  /\ stage' = [stage EXCEPT ![c] = "ok"]
  /\ result' = [result EXCEPT ![c] = c]
  /\ UNCHANGED runs

Fail(c) ==
  /\ stage[c] = "pending"
  /\ stage' = [stage EXCEPT ![c] = "failed"]
  /\ UNCHANGED <<runs, result>>

Next == \E c \in Calls : Issue(c) \/ Run(c) \/ Succeed(c) \/ Fail(c)

Spec == Init /\ [][Next]_callVars
=============================================================================
