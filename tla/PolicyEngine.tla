----------------------------- MODULE PolicyEngine -----------------------------
(***************************************************************************)
(* The policy engine with its rate limiter (internal/policy/engine.go and  *)
(* ratelimit.go).  Handlers evaluate calls concurrently: each loads the    *)
(* policy once, reads the clock once, and then takes a token from the      *)
(* bucket of every limited allow rule that covers the tool, in the order   *)
(* of the rules, while policies are swapped and windows rotate.            *)
(*                                                                         *)
(* A name with an underscore is a deliberate bug.                          *)
(***************************************************************************)
EXTENDS Limiter

CONSTANTS
  Handlers,   \* requests evaluated at the same time
  Clients,    \* client ids
  Tools,      \* tool names
  Args,       \* the arguments a call may have
  Policies,   \* the compiled policies that may be swapped in
  MaxStall,   \* longest time between a handler's clock reading and its decision
  MaxClock,   \* bound: the last instant
  MaxCalls    \* bound: calls evaluated in a behaviour

ASSUME HandlersAssumption == IsFiniteSet(Handlers)
ASSUME NamesAssumption == \A name \in Clients \cup Tools : DOMAIN name = 1..Len(name)
ASSUME BoundsAssumption == MaxStall \in Nat /\ MaxClock \in Nat /\ MaxCalls \in Nat

\* compile lists the allow rules, accepts no limit without a positive measure
\* and a positive window, and knows two kinds.
ASSUME CompiledAssumption ==
  \A p \in Policies :
    /\ Len(p.allow) \in Nat /\ DOMAIN p.allow = 1..Len(p.allow)
    /\ \A i \in DOMAIN p.allow : p.allow[i].limit # NoLimit =>
         /\ p.allow[i].limit.max \in Nat \ {0} /\ p.allow[i].limit.window \in Nat \ {0}
         /\ p.allow[i].limit.per \in {"global", "client"}

\* What a handler may still have to ask.
LimitedRule == UNION {Range(LimitedRules(p, tool)) : p \in Policies, tool \in Tools}

VARIABLES
  clock,    \* the time timeNow returns
  policy,   \* YAMLPolicyEngine.policy
  pc,       \* pc[h]: where handler h is
  job,      \* job[h]: the caller and the tool, the clock reading, and the limited
            \* rules still to be asked
  buckets,  \* fixedWindowLimiter.buckets: key -> [start, count]
  calls,    \* calls begun so far
  \* History, read by the properties and by no guard:
  grants    \* the tokens given: who asked for what, under which limit, when,
            \* the start of the window it counts in, and a number

vars == <<clock, policy, pc, job, buckets, calls, grants>>

NoJob == [client |-> << >>, tool |-> << >>, now |-> 0, rules |-> << >>]

Put(key, bucket) ==
  [k \in DOMAIN buckets \cup {key} |-> IF k = key THEN bucket ELSE buckets[k]]

-----------------------------------------------------------------------------
Init ==
  /\ clock = 0
  /\ policy \in Policies
  /\ pc = [h \in Handlers |-> "idle"]
  /\ job = [h \in Handlers |-> NoJob]
  /\ buckets = << >>
  /\ calls = 0
  /\ grants = {}

Done(h) ==
  /\ pc' = [pc EXCEPT ![h] = "idle"]
  /\ job' = [job EXCEPT ![h] = NoJob]

\* Evaluate loads the policy, decides by the rules, and reads the clock.  A
\* call the rules deny, or allow without a limit, ends here.
Begin(h, client, call) ==
  /\ pc[h] = "idle"
  /\ calls < MaxCalls
  /\ calls' = calls + 1
  /\ LET limited == LimitedRules(policy, call.tool)
     IN  IF Evaluate(policy, call).action = "allow" /\ limited # << >>
         THEN /\ pc' = [pc EXCEPT ![h] = "bucket"]
              /\ job' = [job EXCEPT ![h] =
                   [client |-> client, tool |-> call.tool, now |-> clock, rules |-> limited]]
         ELSE UNCHANGED <<pc, job>>
  /\ UNCHANGED <<clock, policy, buckets, grants>>

LoadOrStore_Stores(h) ==
  /\ pc[h] = "bucket"
  /\ LET key == KeyOf(Head(job[h].rules), job[h].client, job[h].tool)
     IN  buckets' = Put(key, [start |-> job[h].now, count |-> 0])
  /\ pc' = [pc EXCEPT ![h] = "allow"]
  /\ UNCHANGED <<clock, policy, job, calls, grants>>

\* buckets.LoadOrStore: a new bucket's window starts at the handler's time.
LoadOrStore(h) ==
  /\ pc[h] = "bucket"
  /\ LET key == KeyOf(Head(job[h].rules), job[h].client, job[h].tool)
     IN  buckets' = IF key \in DOMAIN buckets THEN buckets
                    ELSE Put(key, [start |-> job[h].now, count |-> 0])
  /\ pc' = [pc EXCEPT ![h] = "allow"]
  /\ UNCHANGED <<clock, policy, job, calls, grants>>

\* The bucket's mutex is held.  After the last rule the call is allowed.
Granted(h) ==
  LET rule   == Head(job[h].rules)
      key    == KeyOf(rule, job[h].client, job[h].tool)
      bucket == Current(buckets[key], rule.limit.window, job[h].now)
  IN  /\ pc[h] = "allow"
      /\ ~Exhausted(bucket, rule.limit.max)
      /\ buckets' = Put(key, [bucket EXCEPT !.count = @ + 1])
      /\ grants' = grants \cup
           {[client |-> job[h].client, rule |-> rule.name, tool |-> job[h].tool,
             limit |-> rule.limit, at |-> clock, window |-> bucket.start,
             n |-> Cardinality({g \in grants : g.at = clock})]}
      /\ IF Len(job[h].rules) > 1
         THEN /\ job' = [job EXCEPT ![h].rules = Tail(@)]
              /\ pc' = [pc EXCEPT ![h] = "bucket"]
         ELSE Done(h)
      /\ UNCHANGED <<clock, policy, calls>>

\* "rate limit exceeded"; tokens the call took from earlier rules stay taken.
Limited(h) ==
  LET rule   == Head(job[h].rules)
      key    == KeyOf(rule, job[h].client, job[h].tool)
      bucket == Current(buckets[key], rule.limit.window, job[h].now)
  IN  /\ pc[h] = "allow"
      /\ Exhausted(bucket, rule.limit.max)
      /\ buckets' = Put(key, bucket)
      /\ pc' = [pc EXCEPT ![h] = "limited"]
      /\ UNCHANGED <<clock, policy, job, calls, grants>>

\* The denial is returned.
Deny(h) ==
  /\ pc[h] = "limited"
  /\ Done(h)
  /\ UNCHANGED <<clock, policy, buckets, calls, grants>>

Swap(p) ==
  /\ policy' = p
  /\ UNCHANGED <<clock, pc, job, buckets, calls, grants>>

\* Time passes, but no handler takes longer than MaxStall.
Tick ==
  /\ clock < MaxClock
  /\ \A h \in Handlers : pc[h] # "idle" => clock - job[h].now < MaxStall
  /\ clock' = clock + 1
  /\ UNCHANGED <<policy, pc, job, buckets, calls, grants>>

Next ==
  \/ \E h \in Handlers, client \in Clients, call \in [tool : Tools, args : Args] :
       Begin(h, client, call)
  \/ \E h \in Handlers : LoadOrStore(h) \/ Granted(h) \/ Limited(h) \/ Deny(h)
  \/ \E p \in Policies : Swap(p)
  \/ Tick

Spec == Init /\ [][Next]_vars

-----------------------------------------------------------------------------
TypeOK ==
  /\ clock \in 0..MaxClock
  /\ policy \in Policies
  /\ pc \in [Handlers -> {"idle", "bucket", "allow", "limited"}]
  /\ \A h \in Handlers :
       /\ job[h].now \in 0..clock
       /\ pc[h] # "idle" => job[h].rules # << >>
  /\ \A k \in DOMAIN buckets : buckets[k] \in [start : 0..clock, count : Nat]
  /\ calls \in 0..MaxCalls
  /\ \A g \in grants : g.window <= g.at /\ g.at <= clock

\* What a limit counts: a rule and a tool and, when it is per client, a caller.
SameBudget(g, limit, rule, tool, client) ==
  /\ g.limit.per = limit.per /\ g.rule = rule /\ g.tool = tool
  /\ limit.per = "client" => g.client = client

\* The tokens of g's budget granted after instant t, up to g.
Since(t, g) ==
  {f \in grants : /\ SameBudget(f, g.limit, g.rule, g.tool, g.client)
                  /\ t < f.at /\ f.at <= g.at}

\* The most generous max and the shortest window of the limits in use.
MostGenerous == Max({g.limit.max : g \in grants})
Shortest == Min({g.limit.window : g \in grants})

\* Handlers that race to create a bucket, that arrive with a clock reading
\* older than the window, or that cross a Swap lose no token and count none
\* twice: a bucket's count is the tokens its window has given.
\* (ratelimit.go: LoadOrStore and the mutex)
CountExact ==
  \A k \in DOMAIN buckets :
    buckets[k].count =
      Cardinality({g \in grants : /\ KeyOf([name |-> g.rule, limit |-> g.limit], g.client, g.tool) = k
                                  /\ g.window = buckets[k].start})

\* A fixed window admits at most two windows' worth of calls in any stretch of
\* time of a window's length less the longest stall, however late a handler
\* comes to the bucket with its reading of the clock.
RateBounded ==
  \A g \in grants :
    Cardinality(Since(g.at - (Shortest - MaxStall), g)) <= 2 * MostGenerous

\* A call is refused only on its own account: when a handler reports "rate
\* limit exceeded", that very rule, tool and (for a limit per client) caller
\* has been given its full measure within the last window.  No other caller,
\* tool or rule uses up its tokens.
DenialEarned ==
  \A h \in Handlers : pc[h] = "limited" =>
    LET rule == Head(job[h].rules)
        own  == {g \in grants : SameBudget(g, rule.limit, rule.name, job[h].tool, job[h].client)}
    IN  Cardinality({g \in own : g.window > job[h].now - rule.limit.window}) >= rule.limit.max

\* A window only ever moves forward, and within a window tokens are not given
\* back: a handler that was overtaken does not reopen a window that is over.
WindowsAdvance ==
  [][\A k \in DOMAIN buckets :
       /\ k \in DOMAIN buckets'
       /\ buckets'[k].start >= buckets[k].start
       /\ buckets'[k].start = buckets[k].start => buckets'[k].count >= buckets[k].count]_vars
=============================================================================
