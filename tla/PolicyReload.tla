----------------------------- MODULE PolicyReload -----------------------------
(***************************************************************************)
(* The policy file, its reload on SIGHUP (cmd/mcpshield/main.go) and the   *)
(* policy the engine holds (internal/policy/engine.go).  Somebody edits    *)
(* the file and sends the signal; the reload goroutine reads the file,     *)
(* compiles it and swaps the result in.  Serve puts it into the process.   *)
(*                                                                         *)
(* The file is a list of rules taken from a menu.  A name with an          *)
(* underscore is a deliberate bug.                                         *)
(***************************************************************************)
EXTENDS PolicyRules

CONSTANTS
  Menu,      \* the rules a file may hold
  Additions, \* those somebody adds to it while the server runs
  Toolsets,  \* the toolsets of every file: name -> set of tools
  Nothing,   \* no policy, and no rule list
  Calls,     \* the calls the properties ask about: [tool, args]
  MaxRules   \* bound: rules in a file

ASSUME MaxRulesAssumption == MaxRules \in Nat
ASSUME MenuAssumption == Additions \subseteq Menu

VARIABLES
  hasFile,  \* policy_file is configured
  rules,    \* the rules in the file
  pending,  \* sighupCh, of capacity 1, holds a signal
  loading,  \* what the reload goroutine has read: a rule list, or Nothing
  policy,   \* the engine's policy, Nothing before the first
  \* History, read by the properties and by no guard:
  swapped,  \* the rule list policy was compiled from, or Nothing
  told      \* a signal came after the last edit

reloadVars == <<hasFile, rules, pending, loading, policy, swapped, told>>

FileOf(list) ==
  [wellFormed |-> TRUE, version |-> "1", toolsets |-> Toolsets, rules |-> list]

\* The rule lists a file may hold.
Lists == UNION {[1..n -> Menu] : n \in 0..MaxRules}
\* No policy is not a policy, nor is it a list.
ASSUME NothingAssumption ==
  \A list \in Lists :
    /\ list # Nothing
    /\ Valid(FileOf(list)) => Compile(FileOf(list)) # Nothing

\* A running server: without a policy_file the engine has no policy.
ReloadInit ==
  /\ hasFile \in BOOLEAN
  /\ rules = << >>
  /\ pending = FALSE
  /\ loading = Nothing
  /\ policy = IF hasFile THEN Compile(FileOf(rules)) ELSE Nothing
  /\ swapped = IF hasFile THEN rules ELSE Nothing
  /\ told = FALSE

-----------------------------------------------------------------------------
(* The operator of the gateway.                                            *)

AddRule(rule) ==
  /\ hasFile
  /\ Len(rules) < MaxRules
  /\ rules' = Append(rules, rule)
  /\ told' = FALSE
  /\ UNCHANGED <<hasFile, pending, loading, policy, swapped>>

DropRule ==
  /\ rules # << >>
  /\ rules' = Tail(rules)
  /\ told' = FALSE
  /\ UNCHANGED <<hasFile, pending, loading, policy, swapped>>

Delivered_Unbuffered == loading = Nothing
\* The channel has room for one signal; signal.Notify drops the others.
Delivered == TRUE

Sighup ==
  /\ pending' = (pending \/ Delivered)
  /\ told' = TRUE
  /\ UNCHANGED <<hasFile, rules, loading, policy, swapped>>

-----------------------------------------------------------------------------
(* The reload goroutine.                                                   *)

\* "SIGHUP received but policy_file is not configured"
IgnoreSignal ==
  /\ pending /\ ~hasFile
  /\ pending' = FALSE
  /\ UNCHANGED <<hasFile, rules, loading, policy, swapped, told>>

\* It takes the signal and reads the file after it.
ReadFile ==
  /\ pending /\ hasFile /\ loading = Nothing
  /\ pending' = FALSE
  /\ loading' = rules
  /\ UNCHANGED <<hasFile, rules, policy, swapped, told>>

\* policy.LoadFromFile returns no error.
Loadable(file) == Valid(file)

\* policyEngine.Swap(compiled)
SwapPolicy ==
  /\ loading # Nothing /\ Loadable(FileOf(loading))
  /\ policy' = Compile(FileOf(loading))
  /\ swapped' = loading
  /\ loading' = Nothing
  /\ UNCHANGED <<hasFile, rules, pending, told>>

\* "policy reload failed; keeping previous policy"
KeepPolicy ==
  /\ loading # Nothing /\ ~Loadable(FileOf(loading))
  /\ loading' = Nothing
  /\ UNCHANGED <<hasFile, rules, pending, policy, swapped, told>>

Reload == IgnoreSignal \/ ReadFile \/ SwapPolicy \/ KeepPolicy

EditFile == (\E rule \in Additions : AddRule(rule)) \/ DropRule

ReloadNext == EditFile \/ Sighup \/ Reload

ReloadSpec == ReloadInit /\ [][ReloadNext]_reloadVars

-----------------------------------------------------------------------------
(* Properties.                                                             *)

\* What the engine answers with policy p, Nothing denying everything.
Permits(p, call) == p # Nothing /\ Evaluate(p, call).action = "allow"

\* What a file permits, said of its rules alone: some allow rule covers the
\* tool, every rule that covers it has all its validators pass, and a deny
\* rule has some.
Permitted(file, call) ==
  LET covering == {i \in DOMAIN file.rules : call.tool \in Covers(file, file.rules[i])}
  IN  /\ \E i \in covering : file.rules[i].action = "allow"
      /\ \A i \in covering :
           /\ ~AnyArgFails(file.rules[i].args, call.args)
           /\ file.rules[i].action = "deny" => DOMAIN file.rules[i].args # {}

\* The engine permits exactly what the file it was compiled from permits, so
\* a rejected file, or none, never widens what is permitted.
PolicyMeansFile ==
  /\ policy = Nothing <=> swapped = Nothing
  /\ policy # Nothing => Valid(FileOf(swapped))
  /\ \A call \in Calls :
       Permits(policy, call) <=> swapped # Nothing /\ Permitted(FileOf(swapped), call)

\* "Rules are evaluated top-to-bottom. First match wins.": the first rule of
\* the file that covers the tool and whose validators decide the call.
Matches(file, i, call) ==
  /\ call.tool \in Covers(file, file.rules[i])
  /\ IF file.rules[i].action = "allow"
     THEN ~AnyArgFails(file.rules[i].args, call.args)
     ELSE DOMAIN file.rules[i].args = {} \/ AnyArgFails(file.rules[i].args, call.args)

FirstMatch(file, call) ==
  LET matching == {i \in DOMAIN file.rules : Matches(file, i, call)}
  IN  /\ matching # {}
      /\ file.rules[CHOOSE i \in matching : \A j \in matching : i <= j].action = "allow"

FirstMatchWins ==
  policy # Nothing =>
    \A call \in Calls : Permits(policy, call) <=> FirstMatch(FileOf(swapped), call)
=============================================================================
