-------------------------------- MODULE Limiter --------------------------------
(***************************************************************************)
(* What the rate limits of a policy mean: the part of Evaluate             *)
(* (internal/policy/engine.go) that asks them and Allow of ratelimit.go,   *)
(* as operators on buckets.  PolicyEngine runs them concurrently, Replay   *)
(* one call after the other.                                               *)
(*                                                                         *)
(* A name or a client id is a sequence of the parts between its colons,    *)
(* so that a bucket's key is what fmt.Sprintf makes of them.  A name with  *)
(* an underscore is a deliberate bug.                                      *)
(***************************************************************************)
EXTENDS PolicyRules

KeyOf_NoClient(rule, client, tool) == <<rule.limit.per>> \o rule.name \o tool

\* "global:rule:tool" or "client:id:rule:tool"
KeyOf(rule, client, tool) ==
  IF rule.limit.per = "client"
  THEN <<"client">> \o client \o rule.name \o tool
  ELSE <<"global">> \o rule.name \o tool

\* The allow rules with a limit that cover the tool, in order.
LimitedRules(p, tool) ==
  FoldLeft(LAMBDA limited, rule :
             IF tool \in rule.tools /\ rule.limit # NoLimit THEN Append(limited, rule) ELSE limited,
           << >>, p.allow)

\* A window that has expired is replaced by one that starts now.
Rotated(bucket, window, now) == [start |-> now, count |-> 0]

Current_Slots(bucket, window, now) ==
  IF now \div window # bucket.start \div window THEN Rotated(bucket, window, now) ELSE bucket

\* The bucket as Allow sees it at time now.
Current(bucket, window, now) ==
  IF now - bucket.start >= window THEN Rotated(bucket, window, now) ELSE bucket

Exhausted_OffByOne(bucket, max) == bucket.count > max
Exhausted(bucket, max) == bucket.count >= max

-----------------------------------------------------------------------------
(* Calls that come one after the other.                                    *)

NoBuckets == << >>

BucketAt(buckets, key, now) ==
  IF key \in DOMAIN buckets THEN buckets[key] ELSE [start |-> now, count |-> 0]

Stored(buckets, key, bucket) ==
  [k \in DOMAIN buckets \cup {key} |-> IF k = key THEN bucket ELSE buckets[k]]

\* The limits of one rule are asked, unless a rule before it has refused.
\* soFar is [buckets, allowed].
Asked(soFar, rule, client, tool, now) ==
  LET key    == KeyOf(rule, client, tool)
      bucket == Current(BucketAt(soFar.buckets, key, now), rule.limit.window, now)
      full   == Exhausted(bucket, rule.limit.max)
      after  == IF full THEN bucket ELSE [bucket EXCEPT !.count = @ + 1]
  IN  IF ~soFar.allowed THEN soFar
      ELSE [buckets |-> Stored(soFar.buckets, key, after), allowed |-> ~full]

\* Evaluate: the buckets after the call and whether it is allowed.
EvaluateIn(policy, buckets, client, call, now) ==
  IF Evaluate(policy, call).action # "allow" THEN [buckets |-> buckets, allowed |-> FALSE]
  ELSE FoldLeft(LAMBDA soFar, rule : Asked(soFar, rule, client, call.tool, now),
                [buckets |-> buckets, allowed |-> TRUE], LimitedRules(policy, call.tool))
=============================================================================
