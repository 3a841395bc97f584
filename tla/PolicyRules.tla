------------------------------ MODULE PolicyRules ------------------------------
(***************************************************************************)
(* Policy files and what they mean: compile and evaluate of                *)
(* internal/policy/loader.go and the argument validators of validator.go.  *)
(* No state: PolicyReload and PolicyEngine build on these operators.       *)
(*                                                                         *)
(* A file is a record of what the YAML decoder yields, a rule a record     *)
(* with the fields of ruleConfig.  A regular expression is the set of      *)
(* strings it matches, a string a value with a length.                     *)
(***************************************************************************)
EXTENDS Integers, Sequences, FiniteSets, SequencesExt

CONSTANTS
  Length,     \* Length[s]: bytes of the argument string s
  NoRegex,    \* no match, or no not_match, in a validator
  BadRegex,   \* an expression regexp.Compile refuses
  NoToolset,  \* a rule without toolset
  NoLimit,    \* a rule without rate_limit
  NoName      \* the empty string as a rule name

ASSUME LengthAssumption == \A s \in DOMAIN Length : Length[s] \in Nat

Strings == DOMAIN Length

-----------------------------------------------------------------------------
(* Argument validators.                                                    *)

\* newCompiledArgValidator
Compilable(validator) ==
  validator.match # BadRegex /\ validator.notMatch # BadRegex

\* Validate: only a string can pass.
Passes(validator, value) ==
  /\ value \in Strings
  /\ validator.match # NoRegex => value \in validator.match
  /\ validator.notMatch # NoRegex => value \notin validator.notMatch
  /\ validator.oneOf # {} => value \in validator.oneOf
  /\ validator.maxLen > 0 => Length[value] <= validator.maxLen

\* anyArgFails: a missing argument fails too.
AnyArgFails(validators, args) ==
  \E a \in DOMAIN validators : a \notin DOMAIN args \/ ~Passes(validators[a], args[a])

-----------------------------------------------------------------------------
(* compile.                                                                *)

\* The rate_limit of an allow rule; time.ParseDuration yields 0 here for what
\* it cannot parse.
LimitValid(rule) ==
  rule.limit # NoLimit =>
    /\ rule.action = "allow"
    /\ rule.limit.max > 0 /\ rule.limit.window > 0
    /\ rule.limit.per \in {"", "global", "client"}

RuleValid(file, rule) ==
  /\ rule.name # NoName
  /\ rule.action \in {"allow", "deny"}
  /\ rule.tools # {} \/ rule.toolset # NoToolset
  /\ rule.toolset # NoToolset => rule.toolset \in DOMAIN file.toolsets
  /\ \A a \in DOMAIN rule.args : Compilable(rule.args[a])
  /\ LimitValid(rule)

\* LoadFromBytes returns no error.
Valid(file) ==
  /\ file.wellFormed /\ file.version = "1"
  /\ \A i \in DOMAIN file.rules : RuleValid(file, file.rules[i])
  /\ \A i, j \in DOMAIN file.rules :
       i # j => file.rules[i].name # file.rules[j].name

Covers(file, rule) ==
  rule.tools \cup (IF rule.toolset = NoToolset THEN {} ELSE file.toolsets[rule.toolset])

CompiledLimit(rule) ==
  IF rule.limit = NoLimit THEN NoLimit
  ELSE [rule.limit EXCEPT !.per = IF @ = "" THEN "global" ELSE @]

CompileRule(file, rule) ==
  [name |-> rule.name, tools |-> Covers(file, rule), args |-> rule.args,
   limit |-> CompiledLimit(rule)]

\* The loop appends every rule to the allow rules or to the deny rules.
OfAction(file, action) ==
  FoldLeft(LAMBDA compiled, rule :
             IF rule.action = action THEN Append(compiled, CompileRule(file, rule)) ELSE compiled,
           << >>, file.rules)

\* The tools of all allow rules: what tools/list shows.
Surface(allowRules) == UNION {allowRules[i].tools : i \in DOMAIN allowRules}

Compile(file) ==
  [surface |-> Surface(OfAction(file, "allow")),
   allow |-> OfAction(file, "allow"), deny |-> OfAction(file, "deny")]

-----------------------------------------------------------------------------
(* evaluate.                                                               *)

Decision(action, rule) == [action |-> action, rule |-> rule]

Denies_OnMatch(rule, call) ==
  call.tool \in rule.tools /\ (DOMAIN rule.args = {} \/ ~AnyArgFails(rule.args, call.args))

\* A deny rule applies when it has no validators or one of them fails.
Denies(rule, call) ==
  call.tool \in rule.tools /\ (DOMAIN rule.args = {} \/ AnyArgFails(rule.args, call.args))

Covering(rules, call) == {i \in DOMAIN rules : call.tool \in rules[i].tools}

Refusing_First(rules, call) ==
  {i \in Covering(rules, call) :
     /\ \A j \in Covering(rules, call) : i <= j
     /\ AnyArgFails(rules[i].args, call.args)}

\* Every allow rule that covers the tool has to accept the arguments.
Refusing(rules, call) ==
  {i \in Covering(rules, call) : AnyArgFails(rules[i].args, call.args)}

Evaluate(policy, call) ==
  LET denying  == {i \in DOMAIN policy.deny : Denies(policy.deny[i], call)}
      refusing == Refusing(policy.allow, call)
  IN  IF call.tool \notin policy.surface THEN Decision("deny", NoName)
      ELSE IF denying # {} THEN Decision("deny", policy.deny[Min(denying)].name)
      ELSE IF refusing # {} THEN Decision("deny", policy.allow[Min(refusing)].name)
      ELSE Decision("allow", NoName)
=============================================================================
