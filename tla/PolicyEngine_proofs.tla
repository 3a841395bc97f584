-------------------------- MODULE PolicyEngine_proofs --------------------------
(***************************************************************************)
(* Proofs about PolicyEngine, for any handlers, clients, tools, policies   *)
(* and stalls.                                                             *)
(*                                                                         *)
(* The argument: a window that opens is later than every window its bucket *)
(* had before, so no token counts in it yet; and a token that is given is  *)
(* a new one, because it is numbered among the tokens of its instant.      *)
(***************************************************************************)
EXTENDS PolicyEngine, FiniteSetTheorems, SequenceTheorems, TLAPS

\* The bucket a token came from, and the one handler h asks now.
KeyOfGrant(g) == KeyOf([name |-> g.rule, limit |-> g.limit], g.client, g.tool)
KeyOfJob(h) == KeyOf(Head(job[h].rules), job[h].client, job[h].tool)

At(t) == {g \in grants : g.at = t}
Counted(k, start) == {g \in grants : KeyOfGrant(g) = k /\ g.window = start}

JobsTyped ==
  /\ job \in [Handlers -> [client : Clients \cup {<< >>}, tool : Tools \cup {<< >>},
                           now : Nat, rules : Seq(LimitedRule)]]
  /\ \A h \in Handlers : pc[h] = "allow" => KeyOfJob(h) \in DOMAIN buckets

\* Every token came from a bucket that is there, from its window or one before.
GrantsPast ==
  \A g \in grants :
    /\ KeyOfGrant(g) \in DOMAIN buckets
    /\ g.window \in Nat /\ g.window <= buckets[KeyOfGrant(g)].start
    /\ g.at \in Nat /\ g.n \in Nat /\ g.n < Cardinality(At(g.at))

IInv == TypeOK /\ IsFiniteSet(grants) /\ JobsTyped /\ GrantsPast /\ CountExact

-----------------------------------------------------------------------------
(* The limits of a policy.                                                 *)

\* The step of the loop over the allow rules.
LimitedNext(tool, b, c, limited, rule) ==
  IF tool \in rule.tools /\ rule.limit # NoLimit THEN Append(limited, rule) ELSE limited
Limiting == INSTANCE Folding WITH Op <- LimitedNext

LimitInOrder(r) ==
  /\ r.limit.max \in Nat \ {0} /\ r.limit.window \in Nat \ {0}
  /\ r.limit.per \in {"global", "client"}

\* The first n allow rules that have a limit.
WithLimit(p, n) == {p.allow[i] : i \in {j \in 1..n : p.allow[j].limit # NoLimit}}

\* The loop gathers some of them.
LEMMA LimitedOnes ==
  ASSUME NEW p, NEW n \in Nat, DOMAIN p.allow = 1..n, NEW tool
  PROVE  LimitedRules(p, tool) \in Seq(WithLimit(p, n))
<1> DEFINE A == p.allow
           limited == LimitedRules(p, tool)
           K == {i \in 1..n : tool \in A[i].tools /\ A[i].limit # NoLimit}
           T == WithLimit(p, n)
<1>1. \A i \in K : A[i] \in T
  BY DEF WithLimit
<1>2. limited = Limiting!Folded(tool, 0, 0, << >>, A)
  BY DEF LimitedRules, LimitedNext, Limiting!Folded, FoldLeft, MapThenFoldSet,
         Limiting!FoldLeft, Limiting!MapThenFoldSet, Max, Limiting!Max
<1>3. Limiting!Unfolds(tool, 0, 0, << >>, n, A)
  BY Limiting!FoldSteps
<1>4. PICK f : /\ f[0] = << >>
               /\ \A i \in 1..n : f[i] = LimitedNext(tool, 0, 0, f[i - 1], A[i])
               /\ f[n] = Limiting!Folded(tool, 0, 0, << >>, A)
  BY <1>3 DEF Limiting!Unfolds
<1>5. \A i \in 1..n : f[i] = IF i \in K THEN Append(f[i - 1], A[i]) ELSE f[i - 1]
  BY <1>4 DEF LimitedNext
<1> HIDE DEF K, T, A, limited
<1>6. Limiting!Gathers(K, A, T, n, f)
  <2>1. n \in 0..n
    OBVIOUS
  <2> QED BY <1>1, <1>4, <1>5, <2>1, Limiting!Gathered
<1>7. limited \in Seq(T)
  BY <1>2, <1>4, <1>6 DEF Limiting!Gathers
<1> QED BY <1>7 DEF T, limited

LEMMA LimitsOfPolicy ==
  ASSUME NEW p \in Policies, NEW tool \in Tools, NEW limited, limited = LimitedRules(p, tool)
  PROVE  /\ limited \in Seq(Range(limited)) /\ Range(limited) \subseteq LimitedRule
         /\ \A r \in Range(limited) : LimitInOrder(r)
<1>1. PICK n \in Nat : n = Len(p.allow) /\ DOMAIN p.allow = 1..n
  BY CompiledAssumption
<1>2. limited \in Seq(WithLimit(p, n))
  BY <1>1, LimitedOnes
<1>3. \A r \in WithLimit(p, n) : LimitInOrder(r)
  BY <1>1, CompiledAssumption DEF WithLimit, LimitInOrder
<1>4. Range(limited) \subseteq WithLimit(p, n) /\ limited \in Seq(Range(limited))
  BY <1>2 DEF Range
<1>5. Range(limited) \subseteq LimitedRule
  BY DEF LimitedRule
<1> QED BY <1>3, <1>4, <1>5

\* What a handler has to ask are lists of limits that are in order.
LEMMA LimitsInOrder ==
  /\ \A p \in Policies, tool \in Tools : LimitedRules(p, tool) \in Seq(LimitedRule)
  /\ \A r \in LimitedRule : /\ r.limit.max \in Nat \ {0} /\ r.limit.window \in Nat \ {0}
                            /\ r.limit.per \in {"global", "client"}
<1>1. ASSUME NEW p \in Policies, NEW tool \in Tools
      PROVE  LimitedRules(p, tool) \in Seq(LimitedRule)
  <2>1. PICK limited : limited = LimitedRules(p, tool)
    OBVIOUS
  <2>2. limited \in Seq(Range(limited)) /\ Range(limited) \subseteq LimitedRule
    BY <2>1, LimitsOfPolicy
  <2>3. limited \in Seq(LimitedRule)
    BY <2>2
  <2> QED BY <2>1, <2>3
<1>2. ASSUME NEW r \in LimitedRule PROVE LimitInOrder(r)
  <2>1. PICK p \in Policies, tool \in Tools : r \in Range(LimitedRules(p, tool))
    BY DEF LimitedRule
  <2>2. PICK limited : limited = LimitedRules(p, tool)
    OBVIOUS
  <2> QED BY <2>1, <2>2, LimitsOfPolicy
<1> QED BY <1>1, <1>2 DEF LimitInOrder

-----------------------------------------------------------------------------
LEMMA InitIInv == Init => IInv
<1> SUFFICES ASSUME Init PROVE IInv
  OBVIOUS
<1>1. TypeOK
  <2>1. clock \in 0..MaxClock /\ calls \in 0..MaxCalls
    BY BoundsAssumption DEF Init
  <2>2. \A h \in Handlers : job[h].now \in 0..clock /\ pc[h] = "idle"
    BY DEF Init, NoJob
  <2> QED BY <2>1, <2>2 DEF Init, TypeOK
<1>2. IsFiniteSet(grants) /\ GrantsPast /\ CountExact
  BY FS_EmptySet DEF Init, GrantsPast, CountExact
<1>3. JobsTyped
  BY DEF Init, JobsTyped, NoJob
<1> QED BY <1>1, <1>2, <1>3 DEF IInv

LEMMA JobTyped ==
  ASSUME IInv, NEW h \in Handlers, pc[h] # "idle"
  PROVE  /\ job[h].rules \in Seq(LimitedRule) /\ job[h].rules # << >>
         /\ Head(job[h].rules) \in LimitedRule
         /\ Head(job[h].rules).limit.window \in Nat \ {0}
         /\ job[h].now \in Nat /\ job[h].now <= clock
<1>1. job[h].rules \in Seq(LimitedRule) /\ job[h].rules # << >>
  BY DEF IInv, TypeOK, JobsTyped
<1>2. Head(job[h].rules) \in LimitedRule
  BY <1>1
<1>3. job[h].now \in 0..clock /\ clock \in Nat
  BY DEF IInv, TypeOK
<1> QED BY <1>1, <1>2, <1>3, LimitsInOrder

\* f is the table with bucket b at key.
IsPut(f, key, b) ==
  /\ DOMAIN f = DOMAIN buckets \cup {key}
  /\ f[key] = b
  /\ \A k \in DOMAIN buckets \ {key} : f[k] = buckets[k]

\* Put changes one bucket and forgets none.
LEMMA PutFacts ==
  ASSUME NEW key, NEW b
  PROVE  IsPut(Put(key, b), key, b)
BY DEF Put, IsPut

\* A window that expired is replaced by a later one.
LEMMA CurrentFacts ==
  ASSUME NEW b, b.start \in Nat, NEW window \in Nat \ {0}, NEW now \in Nat
  PROVE  \/ Current(b, window, now) = b
         \/ Current(b, window, now) = [start |-> now, count |-> 0] /\ b.start < now
BY DEF Current, Rotated

LEMMA GrantsOf ==
  ASSUME IInv, NEW k, NEW start
  PROVE  IsFiniteSet(Counted(k, start)) /\ Cardinality(Counted(k, start)) \in Nat
<1>1. Counted(k, start) \subseteq grants
  BY DEF Counted
<1> QED BY <1>1, FS_Subset, FS_CardinalityType DEF IInv

LEMMA CountIs ==
  ASSUME IInv, NEW k \in DOMAIN buckets
  PROVE  buckets[k].count = Cardinality(Counted(k, buckets[k].start))
BY DEF IInv, CountExact, Counted, KeyOfGrant

\* Nothing counts yet in a bucket that is new or in a window that opens.
LEMMA NothingCounts ==
  ASSUME IInv, NEW k, NEW start \in Nat,
         k \in DOMAIN buckets => buckets[k].start < start
  PROVE  Cardinality(Counted(k, start)) = 0
<1>1. \A h \in DOMAIN buckets : buckets[h].start \in Nat
  BY DEF IInv, TypeOK
<1>2. Counted(k, start) = {}
  BY <1>1 DEF Counted, IInv, GrantsPast
<1> QED BY <1>2, FS_EmptySet

-----------------------------------------------------------------------------
(* The steps.                                                              *)

\* Steps that leave the buckets and the tokens alone.
LEMMA QuietStep ==
  ASSUME IInv, UNCHANGED <<buckets, grants>>, TypeOK', JobsTyped'
  PROVE  IInv'
BY DEF IInv, GrantsPast, CountExact, KeyOfGrant, At

\* The other handlers, when the step of h keeps every bucket.
LEMMA JobsStay ==
  ASSUME IInv, NEW h \in Handlers,
         \A o \in Handlers \ {h} : pc'[o] = pc[o] /\ job'[o] = job[o],
         job' \in [Handlers -> [client : Clients \cup {<< >>}, tool : Tools \cup {<< >>},
                                now : Nat, rules : Seq(LimitedRule)]],
         DOMAIN buckets \subseteq DOMAIN buckets',
         pc'[h] = "allow" => KeyOfJob(h)' \in DOMAIN buckets'
  PROVE  JobsTyped'
BY DEF IInv, JobsTyped, KeyOfJob

LEMMA BeginStep ==
  ASSUME IInv, NEW h \in Handlers, NEW client \in Clients,
         NEW call \in [tool : Tools, args : Args], Begin(h, client, call)
  PROVE  IInv'
<1> DEFINE limited == LimitedRules(policy, call.tool)
           new == [client |-> client, tool |-> call.tool, now |-> clock, rules |-> limited]
<1>1. UNCHANGED <<buckets, grants, clock, policy>> /\ pc[h] = "idle"
      /\ calls < MaxCalls /\ calls' = calls + 1
  BY DEF Begin
<1>2. \/ UNCHANGED <<pc, job>>
      \/ /\ pc' = [pc EXCEPT ![h] = "bucket"] /\ job' = [job EXCEPT ![h] = new]
         /\ limited # << >>
  BY DEF Begin
<1>3. policy \in Policies /\ call.tool \in Tools
  BY DEF IInv, TypeOK
<1>4. limited \in Seq(LimitedRule)
  BY <1>3, LimitsInOrder
<1>5. clock \in Nat /\ clock \in 0..clock /\ calls' \in 0..MaxCalls
  BY <1>1, BoundsAssumption DEF IInv, TypeOK
<1> HIDE DEF limited
<1>6. TypeOK'
  <2>1. pc' \in [Handlers -> {"idle", "bucket", "allow", "limited"}]
    BY <1>2 DEF IInv, TypeOK
  <2>2. ASSUME NEW o \in Handlers
        PROVE  job'[o].now \in 0..clock' /\ (pc'[o] # "idle" => job'[o].rules # << >>)
    <3>1. /\ job[o].now \in 0..clock' /\ (pc[o] # "idle" => job[o].rules # << >>)
          /\ o \in DOMAIN pc /\ o \in DOMAIN job
      BY <1>1 DEF IInv, TypeOK, JobsTyped
    <3>2. CASE UNCHANGED <<pc, job>>
      BY <3>1, <3>2
    <3>3. CASE /\ pc' = [pc EXCEPT ![h] = "bucket"] /\ job' = [job EXCEPT ![h] = new]
               /\ limited # << >>
      <4>1. CASE o = h
        <5>1. job'[o] = new
          BY <3>1, <3>3, <4>1
        <5>2. new.now = clock /\ new.rules = limited
          OBVIOUS
        <5> QED BY <5>1, <5>2, <3>3, <1>1, <1>5
      <4>2. CASE o # h
        <5>1. job'[o] = job[o] /\ pc'[o] = pc[o]
          BY <3>1, <3>3, <4>2
        <5> QED BY <5>1, <3>1
      <4> QED BY <4>1, <4>2
    <3> QED BY <1>2, <3>2, <3>3
  <2> QED BY <1>1, <1>5, <2>1, <2>2 DEF IInv, TypeOK
<1>7. JobsTyped'
  <2>1. new \in [client : Clients \cup {<< >>}, tool : Tools \cup {<< >>},
                 now : Nat, rules : Seq(LimitedRule)]
    BY <1>3, <1>4, <1>5
  <2> HIDE DEF new
  <2>2. /\ pc \in [Handlers -> {"idle", "bucket", "allow", "limited"}]
        /\ job \in [Handlers -> [client : Clients \cup {<< >>}, tool : Tools \cup {<< >>},
                                 now : Nat, rules : Seq(LimitedRule)]]
    BY DEF IInv, TypeOK, JobsTyped
  <2>3. CASE UNCHANGED <<pc, job>>
    BY <1>1, <2>3 DEF IInv, JobsTyped, KeyOfJob
  <2>4. CASE pc' = [pc EXCEPT ![h] = "bucket"] /\ job' = [job EXCEPT ![h] = new]
    <3>1. job' \in [Handlers -> [client : Clients \cup {<< >>}, tool : Tools \cup {<< >>},
                                 now : Nat, rules : Seq(LimitedRule)]]
      BY <2>1, <2>2, <2>4
    <3>2. \A o \in Handlers \ {h} : pc'[o] = pc[o] /\ job'[o] = job[o]
      BY <2>2, <2>4
    <3>3. pc'[h] = "bucket" /\ DOMAIN buckets \subseteq DOMAIN buckets'
      BY <1>1, <2>2, <2>4
    <3> QED BY <3>1, <3>2, <3>3, JobsStay
  <2> QED BY <1>2, <2>3, <2>4
<1> QED BY <1>1, <1>6, <1>7, QuietStep

\* What the buckets and the tokens look like when h has asked a bucket.
LEMMA StoreStep ==
  ASSUME IInv, NEW h \in Handlers, LoadOrStore(h)
  PROVE  IInv'
<1> DEFINE key == KeyOfJob(h)
           new == [start |-> job[h].now, count |-> 0]
<1>1. /\ buckets' = IF key \in DOMAIN buckets THEN buckets ELSE Put(key, new)
      /\ pc[h] = "bucket" /\ pc' = [pc EXCEPT ![h] = "allow"]
      /\ UNCHANGED <<clock, policy, job, calls, grants>>
  BY DEF LoadOrStore, KeyOfJob
<1>2. job[h].now \in Nat /\ job[h].now \in 0..clock
  BY <1>1 DEF IInv, TypeOK
<1> HIDE DEF key
<1>3. /\ DOMAIN buckets' = DOMAIN buckets \cup {key}
      /\ \A k \in DOMAIN buckets : buckets'[k] = buckets[k]
      /\ key \notin DOMAIN buckets => buckets'[key] = new
  <2>1. CASE key \in DOMAIN buckets
    BY <1>1, <2>1
  <2>2. CASE key \notin DOMAIN buckets
    <3>1. buckets' = Put(key, new)
      BY <1>1, <2>2
    <3> HIDE DEF new
    <3>2. IsPut(buckets', key, new)
      BY <3>1, PutFacts, Zenon
    <3> QED BY <2>2, <3>2 DEF IsPut
  <2> QED BY <2>1, <2>2
<1>4. TypeOK'
  BY <1>1, <1>2, <1>3 DEF IInv, TypeOK
<1>5. JobsTyped'
  <2>1. KeyOfJob(h)' = key
    BY <1>1 DEF key, KeyOfJob
  <2>2. pc \in [Handlers -> {"idle", "bucket", "allow", "limited"}]
    BY DEF IInv, TypeOK
  <2> QED BY <1>1, <1>3, <2>1, <2>2, JobsStay DEF IInv, JobsTyped
<1>6. GrantsPast'
  BY <1>1, <1>3 DEF IInv, GrantsPast, At
<1>7. CountExact'
  <2> SUFFICES ASSUME NEW k \in DOMAIN buckets'
               PROVE  buckets'[k].count = Cardinality(Counted(k, buckets'[k].start))
    BY <1>1 DEF CountExact, Counted, KeyOfGrant
  <2>1. CASE k \in DOMAIN buckets
    BY <2>1, <1>3, CountIs
  <2>2. CASE k \notin DOMAIN buckets
    BY <2>2, <1>2, <1>3, NothingCounts
  <2> QED BY <2>1, <2>2
<1> QED BY <1>1, <1>4, <1>5, <1>6, <1>7 DEF IInv

\* What Granted and Limited find in the bucket they ask.
Fits(key, b, now) ==
  /\ key \in DOMAIN buckets
  /\ b \in [start : 0..clock, count : Nat]
  /\ buckets[key].start <= b.start
  /\ b = buckets[key] \/ b = [start |-> now, count |-> 0]
  /\ b.start = buckets[key].start => b.count = buckets[key].count
  /\ b.count = Cardinality(Counted(key, b.start))

LEMMA Found ==
  ASSUME IInv, NEW h \in Handlers, pc[h] = "allow"
  PROVE  Fits(KeyOfJob(h),
              Current(buckets[KeyOfJob(h)], Head(job[h].rules).limit.window, job[h].now),
              job[h].now)
<1> DEFINE key == KeyOfJob(h)
           window == Head(job[h].rules).limit.window
           b == Current(buckets[key], window, job[h].now)
<1>1. key \in DOMAIN buckets
  BY DEF IInv, JobsTyped
<1>2. buckets[key] \in [start : 0..clock, count : Nat] /\ clock \in Nat
  BY <1>1, BoundsAssumption DEF IInv, TypeOK
<1>3. window \in Nat \ {0} /\ job[h].now \in Nat /\ job[h].now <= clock
  BY JobTyped
<1>4. buckets[key].count = Cardinality(Counted(key, buckets[key].start))
  BY <1>1, CountIs
<1> HIDE DEF key, window
<1>5. \/ b = buckets[key]
      \/ b = [start |-> job[h].now, count |-> 0] /\ buckets[key].start < job[h].now
  BY <1>2, <1>3, CurrentFacts
<1> HIDE DEF b
<1>6. ASSUME b = buckets[key] PROVE Fits(key, b, job[h].now)
  <2>1. buckets[key].start <= b.start
    BY <1>2, <1>6
  <2> QED BY <1>1, <1>2, <1>4, <1>6, <2>1 DEF Fits
<1>7. ASSUME b = [start |-> job[h].now, count |-> 0], buckets[key].start < job[h].now
      PROVE  Fits(key, b, job[h].now)
  <2>1. b.start = job[h].now /\ b.count = 0
    BY <1>7
  <2>2. Cardinality(Counted(key, job[h].now)) = 0
    BY <1>1, <1>3, <1>7, NothingCounts
  <2>3. b.start \in 0..clock /\ buckets[key].start <= b.start /\ b.start # buckets[key].start
    BY <1>2, <1>3, <1>7, <2>1
  <2>4. b \in [start : 0..clock, count : Nat]
    BY <1>7, <2>3
  <2> QED BY <1>1, <1>7, <2>1, <2>2, <2>3, <2>4 DEF Fits
<1> QED BY <1>5, <1>6, <1>7 DEF key, window, b

\* h has asked its bucket and put b back, without a token.
LEMMA LimitedStep ==
  ASSUME IInv, NEW h \in Handlers, Limited(h)
  PROVE  IInv'
<1> DEFINE key == KeyOfJob(h)
           b == Current(buckets[key], Head(job[h].rules).limit.window, job[h].now)
<1>1. /\ pc[h] = "allow" /\ pc' = [pc EXCEPT ![h] = "limited"]
      /\ buckets' = Put(key, b)
      /\ UNCHANGED <<clock, policy, job, calls, grants>>
  BY DEF Limited, KeyOfJob
<1>2. Fits(key, b, job[h].now)
  BY <1>1, Found
<1> HIDE DEF key, b
<1>3. /\ DOMAIN buckets' = DOMAIN buckets
      /\ buckets'[key] = b
      /\ \A k \in DOMAIN buckets \ {key} : buckets'[k] = buckets[k]
  <2>1. IsPut(buckets', key, b)
    BY <1>1, PutFacts, Zenon
  <2>2. key \in DOMAIN buckets
    BY <1>2 DEF Fits
  <2> QED BY <2>1, <2>2 DEF IsPut
<1>4. TypeOK'
  BY <1>1, <1>2, <1>3 DEF IInv, TypeOK, Fits
<1>5. JobsTyped'
  <2>1. pc \in [Handlers -> {"idle", "bucket", "allow", "limited"}]
    BY DEF IInv, TypeOK
  <2> QED BY <1>1, <1>3, <2>1, JobsStay DEF IInv, JobsTyped
<1>6. GrantsPast'
  <2>1. \A g \in grants : g.window <= buckets'[KeyOfGrant(g)].start
    <3> SUFFICES ASSUME NEW g \in grants PROVE g.window <= buckets'[KeyOfGrant(g)].start
      OBVIOUS
    <3>1. /\ KeyOfGrant(g) \in DOMAIN buckets /\ g.window \in Nat
          /\ g.window <= buckets[KeyOfGrant(g)].start
          /\ buckets[KeyOfGrant(g)].start \in Nat
      BY DEF IInv, GrantsPast, TypeOK
    <3>2. CASE KeyOfGrant(g) = key
      <4>1. buckets[key].start <= b.start /\ b.start \in Nat
        BY <1>2 DEF Fits
      <4> QED BY <1>3, <3>1, <3>2, <4>1
    <3>3. CASE KeyOfGrant(g) # key
      BY <1>3, <3>1, <3>3
    <3> QED BY <3>2, <3>3
  <2> QED BY <1>1, <1>3, <2>1 DEF IInv, GrantsPast, At
<1>7. CountExact'
  <2> SUFFICES ASSUME NEW k \in DOMAIN buckets
               PROVE  buckets'[k].count = Cardinality(Counted(k, buckets'[k].start))
    BY <1>1, <1>3 DEF CountExact, Counted, KeyOfGrant
  <2>1. CASE k = key
    BY <2>1, <1>2, <1>3 DEF Fits
  <2>2. CASE k # key
    BY <2>2, <1>3, CountIs
  <2> QED BY <2>1, <2>2
<1> QED BY <1>1, <1>4, <1>5, <1>6, <1>7 DEF IInv

\* h gets a token: it is a new one, and it is counted where it was taken.
LEMMA GrantedStep ==
  ASSUME IInv, NEW h \in Handlers, Granted(h)
  PROVE  IInv'
<1> DEFINE rule == Head(job[h].rules)
           key == KeyOfJob(h)
           b == Current(buckets[key], rule.limit.window, job[h].now)
           after == [b EXCEPT !.count = @ + 1]
           token == [client |-> job[h].client, rule |-> rule.name, tool |-> job[h].tool,
                     limit |-> rule.limit, at |-> clock, window |-> b.start,
                     n |-> Cardinality({g \in grants : g.at = clock})]
<1>1. /\ pc[h] = "allow"
      /\ buckets' = Put(key, after) /\ grants' = grants \cup {token}
      /\ \/ /\ Len(job[h].rules) > 1
            /\ job' = [job EXCEPT ![h].rules = Tail(@)] /\ pc' = [pc EXCEPT ![h] = "bucket"]
         \/ pc' = [pc EXCEPT ![h] = "idle"] /\ job' = [job EXCEPT ![h] = NoJob]
      /\ UNCHANGED <<clock, policy, calls>>
  BY DEF Granted, KeyOfJob, Done
<1>2. Fits(key, b, job[h].now)
  BY <1>1, Found
<1>3. KeyOfGrant(token) = key /\ token.at = clock /\ token.window = b.start
      /\ token.n = Cardinality(At(clock))
  BY DEF KeyOfGrant, KeyOfJob, KeyOf, At
<1>4. after.start = b.start /\ after.count = b.count + 1
  <2>1. b \in [start : 0..clock, count : Nat]
    BY <1>2 DEF Fits
  <2> HIDE DEF b
  <2> QED BY <2>1
<1> HIDE DEF key, b, after, token, rule
<1>5. b.start \in 0..clock /\ clock \in Nat /\ b.count \in Nat
  BY <1>2, BoundsAssumption DEF Fits, IInv, TypeOK
<1>6. /\ DOMAIN buckets' = DOMAIN buckets
      /\ buckets'[key] = after
      /\ \A k \in DOMAIN buckets \ {key} : buckets'[k] = buckets[k]
  <2>1. IsPut(buckets', key, after)
    BY <1>1, PutFacts, Zenon
  <2>2. key \in DOMAIN buckets
    BY <1>2 DEF Fits
  <2> QED BY <2>1, <2>2 DEF IsPut
<1>7. TypeOK'
  <2>1. after \in [start : 0..clock, count : Nat]
    BY <1>2, <1>5 DEF after, Fits
  <2>2. \A k \in DOMAIN buckets' : buckets'[k] \in [start : 0..clock, count : Nat]
    BY <1>6, <2>1 DEF IInv, TypeOK
  <2>3. pc' \in [Handlers -> {"idle", "bucket", "allow", "limited"}]
    BY <1>1 DEF IInv, TypeOK
  <2>4. ASSUME NEW o \in Handlers
        PROVE  job'[o].now \in 0..clock /\ (pc'[o] # "idle" => job'[o].rules # << >>)
    <3>1. /\ job[o].now \in 0..clock /\ (pc[o] # "idle" => job[o].rules # << >>)
          /\ o \in DOMAIN pc /\ o \in DOMAIN job
          /\ job[o] \in [client : Clients \cup {<< >>}, tool : Tools \cup {<< >>},
                         now : Nat, rules : Seq(LimitedRule)]
      BY DEF IInv, TypeOK, JobsTyped
    <3>2. CASE o # h
      <4>1. job'[o] = job[o] /\ pc'[o] = pc[o]
        BY <1>1, <3>1, <3>2
      <4> QED BY <3>1, <4>1
    <3>3. CASE o = h /\ pc'[h] = "idle" /\ job'[h] = NoJob
      BY <3>3, <1>5 DEF NoJob
    <3>4. CASE o = h /\ job'[h] = [job[h] EXCEPT !.rules = Tail(@)] /\ Len(job[h].rules) > 1
      <4>1. job'[o].now = job[o].now /\ job'[o].rules = Tail(job[o].rules)
        BY <3>1, <3>4
      <4>2. job[o].rules \in Seq(LimitedRule) /\ Len(job[o].rules) > 1
        BY <3>1, <3>4
      <4>3. Tail(job[o].rules) # << >>
        <5>1. \A q \in Seq(LimitedRule) : Len(q) > 1 => Len(Tail(q)) = Len(q) - 1
          OBVIOUS
        <5>2. Len(Tail(job[o].rules)) > 0
          BY <4>2, <5>1
        <5> QED BY <5>2
      <4> QED BY <3>1, <4>1, <4>3
    <3>5. CASE o = h
      BY <1>1, <3>1, <3>3, <3>4, <3>5
    <3> QED BY <3>2, <3>5
  <2>5. \A g \in grants' : g.window <= g.at /\ g.at <= clock
    BY <1>1, <1>3, <1>5 DEF IInv, TypeOK
  <2> QED BY <1>1, <2>2, <2>3, <2>4, <2>5 DEF IInv, TypeOK
<1>8. JobsTyped'
  <2>1. /\ pc \in [Handlers -> {"idle", "bucket", "allow", "limited"}]
        /\ job \in [Handlers -> [client : Clients \cup {<< >>}, tool : Tools \cup {<< >>},
                                 now : Nat, rules : Seq(LimitedRule)]]
    BY DEF IInv, TypeOK, JobsTyped
  <2>2. NoJob \in [client : Clients \cup {<< >>}, tool : Tools \cup {<< >>},
                   now : Nat, rules : Seq(LimitedRule)]
    BY DEF NoJob
  <2>3. Len(job[h].rules) > 1 => Tail(job[h].rules) \in Seq(LimitedRule)
    BY <2>1
  <2> DEFINE J == [client : Clients \cup {<< >>}, tool : Tools \cup {<< >>},
                   now : Nat, rules : Seq(LimitedRule)]
  <2>4. job' \in [Handlers -> J]
    <3>1. job \in [Handlers -> J] /\ job[h] \in J /\ NoJob \in J
      BY <2>1, <2>2
    <3>2. Tail(job[h].rules) \in Seq(LimitedRule) => [job[h] EXCEPT !.rules = Tail(@)] \in J
      BY <3>1
    <3> HIDE DEF J
    <3>3. \/ job' = [job EXCEPT ![h] = NoJob]
          \/ /\ job' = [job EXCEPT ![h] = [job[h] EXCEPT !.rules = Tail(@)]]
             /\ Len(job[h].rules) > 1
      BY <1>1
    <3>4. \A j \in J : [job EXCEPT ![h] = j] \in [Handlers -> J]
      BY <3>1
    <3> QED BY <2>3, <3>1, <3>2, <3>3, <3>4
  <2> QED BY <1>1, <1>6, <2>1, <2>4, JobsStay
<1>9. token \notin grants /\ IsFiniteSet(grants) /\ IsFiniteSet(grants')
  <2>1. \A g \in grants : g.n < Cardinality(At(g.at))
    BY DEF IInv, GrantsPast
  <2>2. Cardinality(At(clock)) \in Nat
    BY FS_Subset, FS_CardinalityType DEF IInv, At
  <2>3. token \notin grants
    BY <1>3, <2>1, <2>2
  <2> QED BY <1>1, <2>3, FS_AddElement DEF IInv
<1> DEFINE AtNow(t) == {g \in grants' : g.at = t}
           CountedNow(k, start) == {g \in grants' : KeyOfGrant(g) = k /\ g.window = start}
<1>10. GrantsPast'
  <2>1. ASSUME NEW g \in grants'
        PROVE  g.n \in Nat /\ g.n < Cardinality(AtNow(g.at))
    <3>1. CASE g = token
      <4>1. AtNow(clock) = At(clock) \cup {token} /\ token \notin At(clock) /\ IsFiniteSet(At(clock))
        BY <1>1, <1>3, <1>9, FS_Subset DEF At
      <4>2. Cardinality(AtNow(clock)) = Cardinality(At(clock)) + 1 /\ Cardinality(At(clock)) \in Nat
        BY <4>1, FS_AddElement, FS_CardinalityType
      <4> QED BY <3>1, <4>2, <1>3
    <3>2. CASE g \in grants
      <4>1. At(g.at) \subseteq AtNow(g.at) /\ IsFiniteSet(AtNow(g.at))
        BY <1>1, <1>9, FS_Subset DEF At
      <4>2. /\ Cardinality(At(g.at)) <= Cardinality(AtNow(g.at))
            /\ Cardinality(At(g.at)) \in Nat /\ Cardinality(AtNow(g.at)) \in Nat
        BY <4>1, FS_Subset, FS_CardinalityType
      <4>3. g.n < Cardinality(At(g.at)) /\ g.n \in Nat
        BY <3>2 DEF IInv, GrantsPast
      <4> HIDE DEF AtNow
      <4> QED BY <4>2, <4>3
    <3> QED BY <1>1, <3>1, <3>2
  <2>2. ASSUME NEW g \in grants'
        PROVE  /\ KeyOfGrant(g) \in DOMAIN buckets' /\ g.at \in Nat
               /\ g.window \in Nat /\ g.window <= buckets'[KeyOfGrant(g)].start
    <3>1. CASE g = token
      BY <3>1, <1>2, <1>3, <1>4, <1>5, <1>6 DEF Fits
    <3>2. CASE g \in grants
      <4>1. /\ KeyOfGrant(g) \in DOMAIN buckets /\ g.window \in Nat /\ g.at \in Nat
            /\ g.window <= buckets[KeyOfGrant(g)].start
            /\ buckets[KeyOfGrant(g)].start \in Nat
        BY <3>2 DEF IInv, GrantsPast, TypeOK
      <4>2. CASE KeyOfGrant(g) = key
        <5>1. buckets[key].start <= b.start
          BY <1>2 DEF Fits
        <5> QED BY <1>4, <1>5, <1>6, <4>1, <4>2, <5>1
      <4>3. CASE KeyOfGrant(g) # key
        BY <1>6, <4>1, <4>3
      <4> QED BY <4>2, <4>3
    <3> QED BY <1>1, <3>1, <3>2
  <2> QED BY <1>1, <1>3, <2>1, <2>2 DEF GrantsPast, At
<1>11. CountExact'
  <2> SUFFICES ASSUME NEW k \in DOMAIN buckets
               PROVE  buckets'[k].count = Cardinality(CountedNow(k, buckets'[k].start))
    BY <1>6 DEF CountExact, KeyOfGrant
  <2>1. CASE k = key
    <3>1. CountedNow(key, b.start) = Counted(key, b.start) \cup {token} /\ token \notin Counted(key, b.start)
      BY <1>1, <1>3, <1>9 DEF Counted
    <3>2. Cardinality(CountedNow(key, b.start)) = Cardinality(Counted(key, b.start)) + 1
      BY <3>1, GrantsOf, FS_AddElement
    <3>3. Cardinality(Counted(key, b.start)) = b.count
      BY <1>2 DEF Fits
    <3> HIDE DEF CountedNow
    <3> QED BY <2>1, <3>2, <3>3, <1>4, <1>6
  <2>2. CASE k # key
    <3>1. CountedNow(k, buckets[k].start) = Counted(k, buckets[k].start)
      BY <1>1, <1>3, <2>2 DEF Counted
    <3> HIDE DEF CountedNow
    <3> QED BY <2>2, <3>1, <1>6, CountIs
  <2> QED BY <2>1, <2>2
<1> QED BY <1>7, <1>8, <1>9, <1>10, <1>11 DEF IInv

LEMMA StepIInv == IInv /\ [Next]_vars => IInv'
<1> SUFFICES ASSUME IInv, [Next]_vars PROVE IInv'
  OBVIOUS
<1>1. ASSUME NEW h \in Handlers, Deny(h) PROVE IInv'
  <2>1. /\ pc' = [pc EXCEPT ![h] = "idle"] /\ job' = [job EXCEPT ![h] = NoJob]
        /\ UNCHANGED <<clock, policy, buckets, calls, grants>>
    BY <1>1 DEF Deny, Done
  <2>2. TypeOK'
    <3>1. pc' \in [Handlers -> {"idle", "bucket", "allow", "limited"}]
      BY <2>1 DEF IInv, TypeOK
    <3>2. ASSUME NEW o \in Handlers
          PROVE  job'[o].now \in 0..clock /\ (pc'[o] # "idle" => job'[o].rules # << >>)
      <4>1. /\ job[o].now \in 0..clock /\ (pc[o] # "idle" => job[o].rules # << >>)
            /\ o \in DOMAIN pc /\ o \in DOMAIN job /\ clock \in Nat
        BY BoundsAssumption DEF IInv, TypeOK, JobsTyped
      <4>2. CASE o = h
        BY <2>1, <4>1, <4>2 DEF NoJob
      <4>3. CASE o # h
        BY <2>1, <4>1, <4>3
      <4> QED BY <4>2, <4>3
    <3> QED BY <2>1, <3>1, <3>2 DEF IInv, TypeOK
  <2>3. JobsTyped'
    <3>1. /\ pc \in [Handlers -> {"idle", "bucket", "allow", "limited"}]
          /\ NoJob \in [client : Clients \cup {<< >>}, tool : Tools \cup {<< >>},
                        now : Nat, rules : Seq(LimitedRule)]
      BY DEF IInv, TypeOK, NoJob
    <3> QED BY <2>1, <3>1, JobsStay DEF IInv, JobsTyped
  <2> QED BY <2>1, <2>2, <2>3, QuietStep
<1>2. ASSUME NEW p \in Policies, Swap(p) PROVE IInv'
  <2>1. policy' \in Policies /\ UNCHANGED <<clock, pc, job, buckets, calls, grants>>
    BY <1>2 DEF Swap
  <2>2. TypeOK' /\ JobsTyped'
    BY <2>1 DEF IInv, TypeOK, JobsTyped, KeyOfJob
  <2> QED BY <2>1, <2>2, QuietStep
<1>3. CASE Tick
  <2>1. clock < MaxClock /\ clock' = clock + 1 /\ UNCHANGED <<policy, pc, job, buckets, calls, grants>>
    BY <1>3 DEF Tick
  <2>2. clock \in Nat /\ clock' \in 0..MaxClock /\ \A t \in 0..clock : t \in 0..clock'
    BY <2>1, BoundsAssumption DEF IInv, TypeOK
  <2>3. \A k \in DOMAIN buckets : buckets[k] \in [start : 0..clock', count : Nat]
    BY <2>2 DEF IInv, TypeOK
  <2>4. \A g \in grants : g.window <= g.at /\ g.at <= clock'
    <3> SUFFICES ASSUME NEW g \in grants PROVE g.window <= g.at /\ g.at <= clock'
      OBVIOUS
    <3>1. g.window <= g.at /\ g.at <= clock /\ g.at \in Nat
      BY DEF IInv, TypeOK, GrantsPast
    <3> QED BY <2>1, <2>2, <3>1
  <2>5. TypeOK'
    BY <2>1, <2>2, <2>3, <2>4 DEF IInv, TypeOK
  <2>6. JobsTyped'
    BY <2>1 DEF IInv, JobsTyped, KeyOfJob
  <2> QED BY <2>1, <2>5, <2>6, QuietStep
<1>4. CASE UNCHANGED vars
  <2>1. UNCHANGED <<clock, policy, pc, job, buckets, calls, grants>>
    BY <1>4 DEF vars
  <2>2. TypeOK' /\ JobsTyped'
    BY <2>1 DEF IInv, TypeOK, JobsTyped, KeyOfJob
  <2> QED BY <2>1, <2>2, QuietStep
<1> QED BY <1>1, <1>2, <1>3, <1>4, BeginStep, StoreStep, GrantedStep, LimitedStep DEF Next

LEMMA InvariantIInv == Spec => []IInv
<1> QED BY InitIInv, StepIInv, PTL DEF Spec

\* How one bucket may change.
LEMMA BucketsMove ==
  ASSUME IInv, [Next]_vars, NEW k \in DOMAIN buckets
  PROVE  /\ k \in DOMAIN buckets'
         /\ buckets'[k].start >= buckets[k].start
         /\ buckets'[k].start = buckets[k].start => buckets'[k].count >= buckets[k].count
<1>1. buckets[k] \in [start : 0..clock, count : Nat] /\ clock \in Nat
  BY BoundsAssumption DEF IInv, TypeOK
<1>2. CASE buckets' = buckets
  BY <1>1, <1>2
<1>3. ASSUME NEW h \in Handlers, LoadOrStore(h), buckets' # buckets
      PROVE  k \in DOMAIN buckets' /\ buckets'[k] = buckets[k]
  <2>1. KeyOfJob(h) \notin DOMAIN buckets
        /\ buckets' = Put(KeyOfJob(h), [start |-> job[h].now, count |-> 0])
    BY <1>3 DEF LoadOrStore, KeyOfJob
  <2> QED BY <2>1 DEF Put
<1>4. ASSUME NEW h \in Handlers, Granted(h) \/ Limited(h)
      PROVE  /\ k \in DOMAIN buckets'
             /\ buckets'[k].start >= buckets[k].start
             /\ buckets'[k].start = buckets[k].start => buckets'[k].count >= buckets[k].count
  <2> DEFINE key == KeyOfJob(h)
             b == Current(buckets[key], Head(job[h].rules).limit.window, job[h].now)
             after == [b EXCEPT !.count = @ + 1]
  <2>1. pc[h] = "allow" /\ (buckets' = Put(key, b) \/ buckets' = Put(key, after))
    BY <1>4 DEF Granted, Limited, KeyOfJob
  <2>2. Fits(key, b, job[h].now)
    BY <2>1, Found
  <2> HIDE DEF key, b
  <2>3. b.start \in Nat /\ b.count \in Nat /\ buckets[key].start <= b.start
        /\ (b.start = buckets[key].start => b.count = buckets[key].count)
        /\ after.start = b.start /\ after.count = b.count + 1
    BY <2>2, <1>1 DEF Fits
  <2> HIDE DEF after
  <2>6. \A x : /\ DOMAIN Put(key, x) = DOMAIN buckets \cup {key}
               /\ Put(key, x)[key] = x
               /\ k # key => Put(key, x)[k] = buckets[k]
    BY DEF Put
  <2>4. CASE k = key
    <3>1. k \in DOMAIN buckets' /\ (buckets'[k] = b \/ buckets'[k] = after)
      BY <2>1, <2>4, <2>6
    <3> QED BY <1>1, <2>3, <2>4, <3>1
  <2>5. CASE k # key
    <3>1. k \in DOMAIN buckets' /\ buckets'[k] = buckets[k]
      BY <2>1, <2>5, <2>6
    <3> QED BY <1>1, <3>1
  <2> QED BY <2>4, <2>5
<1>5. \/ buckets' = buckets
      \/ \E h \in Handlers : LoadOrStore(h) \/ Granted(h) \/ Limited(h)
  BY DEF Next, Begin, Deny, Swap, Tick, vars
<1> QED BY <1>1, <1>2, <1>3, <1>4, <1>5

-----------------------------------------------------------------------------
(* The theorems.                                                           *)

\* The variables have their types, and a call that is still being judged has a
\* limit left to ask.
THEOREM TypeCorrect == Spec => []TypeOK
<1>1. IInv => TypeOK
  BY DEF IInv
<1> QED BY <1>1, InvariantIInv, PTL

\* Whoever races to create a bucket, however late its reading of the clock is,
\* and whatever policy is swapped in between: a bucket counts the tokens its
\* window has given.  (LoadOrStore and the mutex in ratelimit.go)
THEOREM CountIsExact == Spec => []CountExact
<1>1. IInv => CountExact
  BY DEF IInv
<1> QED BY <1>1, InvariantIInv, PTL

\* Windows move forward and tokens are not given back.
THEOREM WindowsOnlyAdvance == Spec => WindowsAdvance
<1>1. IInv /\ [Next]_vars =>
        [\A k \in DOMAIN buckets :
           /\ k \in DOMAIN buckets'
           /\ buckets'[k].start >= buckets[k].start
           /\ buckets'[k].start = buckets[k].start => buckets'[k].count >= buckets[k].count]_vars
  BY BucketsMove
<1> QED BY <1>1, InvariantIInv, PTL DEF Spec, WindowsAdvance

-----------------------------------------------------------------------------
(* Whose tokens a denial speaks of.  KeyOf joins names with colons, so two  *)
(* budgets may share a bucket when names have colons of their own; these    *)
(* results are about names that have none.                                  *)

PlainNames ==
  \A name \in Clients \cup Tools \cup {r.name : r \in LimitedRule} : \E x : name = <<x>>

\* Everybody at work and every token has a caller, a tool and a limited rule.
Named ==
  /\ \A h \in Handlers : pc[h] # "idle" => job[h].client \in Clients /\ job[h].tool \in Tools
  /\ \A g \in grants :
       /\ g.client \in Clients /\ g.tool \in Tools
       /\ \E r \in LimitedRule : g.rule = r.name /\ g.limit = r.limit

\* The key of names that have one part each.
LEMMA JoinedOne ==
  ASSUME NEW S, NEW s \in Seq(S), NEW t \in Seq(S), Len(t) = 1
  PROVE  /\ s \o t \in Seq(S) /\ Len(s \o t) = Len(s) + 1
         /\ (s \o t)[Len(s) + 1] = t[1]
         /\ \A i \in 1..Len(s) : (s \o t)[i] = s[i]
<1> DEFINE j == s \o t
           n == Len(s)
<1>1. j \in Seq(S)
  BY ConcatProperties
<1>2. Len(j) = n + Len(t)
  BY ConcatProperties
<1>3. \A i \in 1 .. n + Len(t) : j[i] = IF i <= n THEN s[i] ELSE t[i - n]
  BY ConcatProperties
<1>4. n \in Nat
  OBVIOUS
<1> HIDE DEF j, n
<1>5. j[n + 1] = t[1]
  <2>1. PICK i \in 1..n + Len(t) : i = n + 1
    BY <1>4
  <2>2. i - n = 1 /\ ~(i <= n)
    BY <1>4, <2>1
  <2> QED BY <1>3, <2>1, <2>2
<1>6. \A i \in 1..n : j[i] = s[i]
  BY <1>3, <1>4
<1>7. Len(j) = n + 1
  BY <1>2, <1>4
<1> QED BY <1>1, <1>5, <1>6, <1>7 DEF j, n

Joined3(k, a, b, c) == k = a \o b \o c
Joined4(k, a, b, c, d) == k = a \o b \o c \o d

LEMMA JoinedThree ==
  ASSUME NEW S, NEW a \in Seq(S), NEW b \in Seq(S), NEW c \in Seq(S),
         Len(a) = 1, Len(b) = 1, Len(c) = 1, NEW k, Joined3(k, a, b, c)
  PROVE  Len(k) = 3 /\ k[2] = b[1] /\ k[3] = c[1]
<1> DEFINE two == a \o b
           three == two \o c
<1>1. two \in Seq(S) /\ Len(two) = Len(a) + 1 /\ two[Len(a) + 1] = b[1]
  BY JoinedOne
<1> HIDE DEF two
<1>2. two \in Seq(S) /\ Len(two) = 2 /\ two[2] = b[1]
  BY <1>1
<1>3. /\ three \in Seq(S) /\ Len(three) = Len(two) + 1 /\ three[Len(two) + 1] = c[1]
      /\ \A i \in 1..Len(two) : three[i] = two[i]
  <2>1. two \in Seq(S)
    BY <1>2
  <2> QED BY <2>1, JoinedOne
<1> HIDE DEF three
<1>4. three \in Seq(S) /\ Len(three) = 3 /\ three[2] = b[1] /\ three[3] = c[1]
  BY <1>2, <1>3
<1>5. k = three
  BY DEF Joined3, three, two
<1> QED BY <1>4, <1>5

LEMMA JoinedFour ==
  ASSUME NEW S, NEW a \in Seq(S), NEW b \in Seq(S), NEW c \in Seq(S), NEW d \in Seq(S),
         Len(a) = 1, Len(b) = 1, Len(c) = 1, Len(d) = 1, NEW k, Joined4(k, a, b, c, d)
  PROVE  Len(k) = 4 /\ k[2] = b[1] /\ k[3] = c[1] /\ k[4] = d[1]
<1> DEFINE two == a \o b
           three == two \o c
           four == three \o d
<1>1. two \in Seq(S) /\ Len(two) = Len(a) + 1 /\ two[Len(a) + 1] = b[1]
  BY JoinedOne
<1>2. k = four
  BY DEF Joined4
<1> HIDE DEF two
<1>3. two \in Seq(S) /\ Len(two) = 2 /\ two[2] = b[1]
  BY <1>1
<1>4. /\ three \in Seq(S) /\ Len(three) = Len(two) + 1 /\ three[Len(two) + 1] = c[1]
      /\ \A i \in 1..Len(two) : three[i] = two[i]
  <2>1. two \in Seq(S)
    BY <1>3
  <2> QED BY <2>1, JoinedOne
<1> HIDE DEF three
<1>5. three \in Seq(S) /\ Len(three) = 3 /\ three[2] = b[1] /\ three[3] = c[1]
  BY <1>3, <1>4
<1>6. /\ Len(four) = Len(three) + 1 /\ four[Len(three) + 1] = d[1]
      /\ \A i \in 1..Len(three) : four[i] = three[i]
  <2>1. three \in Seq(S)
    BY <1>5
  <2> QED BY <2>1, JoinedOne
<1> HIDE DEF four
<1> QED BY <1>2, <1>5, <1>6

LEMMA KeyParts ==
  ASSUME NEW r \in LimitedRule, NEW S, NEW client \in Seq(S), NEW tool \in Seq(S),
         r.name \in Seq(S), {"client", "global"} \subseteq S,
         Len(r.name) = 1, Len(client) = 1, Len(tool) = 1, NEW k, k = KeyOf(r, client, tool)
  PROVE  /\ r.limit.per = "client" =>
              Len(k) = 4 /\ k[2] = client[1] /\ k[3] = r.name[1] /\ k[4] = tool[1]
         /\ r.limit.per = "global" =>
              Len(k) = 3 /\ k[2] = r.name[1] /\ k[3] = tool[1]
<1> DEFINE cl == <<"client">>
           gl == <<"global">>
<1>0. cl \in Seq(S) /\ gl \in Seq(S) /\ Len(cl) = 1 /\ Len(gl) = 1
  OBVIOUS
<1>1. CASE r.limit.per = "client"
  <2>1. Joined4(k, cl, client, r.name, tool)
    BY <1>1 DEF KeyOf, Joined4
  <2> HIDE DEF cl
  <2>2. Len(k) = 4 /\ k[2] = client[1] /\ k[3] = r.name[1] /\ k[4] = tool[1]
    BY <1>0, <2>1, JoinedFour
  <2> QED BY <1>1, <2>2
<1>2. CASE r.limit.per = "global"
  <2>1. Joined3(k, gl, r.name, tool)
    BY <1>2 DEF KeyOf, Joined3
  <2> HIDE DEF gl
  <2>2. Len(k) = 3 /\ k[2] = r.name[1] /\ k[3] = tool[1]
    BY <1>0, <2>1, JoinedThree
  <2> QED BY <1>2, <2>2
<1> QED BY <1>1, <1>2, LimitsInOrder

LEMMA KeysDiffer ==
  ASSUME PlainNames,
         NEW r \in LimitedRule, NEW c \in Clients, NEW t \in Tools,
         NEW s \in LimitedRule, NEW d \in Clients, NEW u \in Tools,
         KeyOf(r, c, t) = KeyOf(s, d, u)
  PROVE  /\ r.limit.per = s.limit.per /\ r.name = s.name /\ t = u
         /\ r.limit.per = "client" => c = d
<1>1. PICK rn, cn, tn, sn, dn, un :
        r.name = <<rn>> /\ c = <<cn>> /\ t = <<tn>> /\ s.name = <<sn>> /\ d = <<dn>> /\ u = <<un>>
  BY DEF PlainNames
<1> DEFINE S == {rn, cn, tn, sn, dn, un, "client", "global"}
           k == KeyOf(r, c, t)
           l == KeyOf(s, d, u)
<1>2. /\ \A q \in {r.name, c, t, s.name, d, u} : q \in Seq(S) /\ Len(q) = 1
      /\ r.name[1] = rn /\ c[1] = cn /\ t[1] = tn /\ s.name[1] = sn /\ d[1] = dn /\ u[1] = un
      /\ {"client", "global"} \subseteq S
  BY <1>1
<1> HIDE DEF S
<1>3. /\ r.limit.per = "client" => Len(k) = 4 /\ k[2] = cn /\ k[3] = rn /\ k[4] = tn
      /\ r.limit.per = "global" => Len(k) = 3 /\ k[2] = rn /\ k[3] = tn
  BY <1>2, KeyParts
<1>4. /\ s.limit.per = "client" => Len(l) = 4 /\ l[2] = dn /\ l[3] = sn /\ l[4] = un
      /\ s.limit.per = "global" => Len(l) = 3 /\ l[2] = sn /\ l[3] = un
  BY <1>2, KeyParts
<1>5. k = l /\ r.limit.per \in {"global", "client"} /\ s.limit.per \in {"global", "client"}
  BY LimitsInOrder
<1> HIDE DEF k, l
<1>6. r.limit.per = s.limit.per /\ rn = sn /\ tn = un /\ (r.limit.per = "client" => cn = dn)
  BY <1>3, <1>4, <1>5
<1> QED BY <1>1, <1>6

LEMMA InitNamed == Init => Named
BY DEF Init, Named

LEMMA StepNamed == IInv /\ Named /\ [Next]_vars => Named'
<1> SUFFICES ASSUME IInv, Named, [Next]_vars PROVE Named'
  OBVIOUS
<1> /\ pc \in [Handlers -> {"idle", "bucket", "allow", "limited"}]
    /\ job \in [Handlers -> [client : Clients \cup {<< >>}, tool : Tools \cup {<< >>},
                             now : Nat, rules : Seq(LimitedRule)]]
  BY DEF IInv, TypeOK, JobsTyped
<1>1. ASSUME NEW h \in Handlers, NEW client \in Clients,
             NEW call \in [tool : Tools, args : Args], Begin(h, client, call)
      PROVE  Named'
  <2>1. grants' = grants
    BY <1>1 DEF Begin
  <2>2. ASSUME NEW o \in Handlers, pc'[o] # "idle"
        PROVE  \/ job'[o].client = client /\ job'[o].tool = call.tool
               \/ job'[o] = job[o] /\ pc[o] # "idle"
    BY <1>1, <2>2 DEF Begin
  <2> QED BY <2>1, <2>2 DEF Named
<1>2. ASSUME NEW h \in Handlers, LoadOrStore(h) \/ Limited(h) \/ Deny(h) PROVE Named'
  <2>1. grants' = grants
    BY <1>2 DEF LoadOrStore, Limited, Deny
  <2>2. ASSUME NEW o \in Handlers, pc'[o] # "idle"
        PROVE  job'[o] = job[o] /\ pc[o] # "idle"
    <3>1. CASE LoadOrStore(h)
      BY <2>2, <3>1 DEF LoadOrStore
    <3>2. CASE Limited(h)
      BY <2>2, <3>2 DEF Limited
    <3>3. CASE Deny(h)
      BY <2>2, <3>3 DEF Deny, Done
    <3> QED BY <1>2, <3>1, <3>2, <3>3
  <2> QED BY <2>1, <2>2 DEF Named
<1>3. ASSUME NEW h \in Handlers, Granted(h) PROVE Named'
  <2>1. PICK w, n : grants' = grants \cup
          {[client |-> job[h].client, rule |-> Head(job[h].rules).name, tool |-> job[h].tool,
            limit |-> Head(job[h].rules).limit, at |-> clock, window |-> w, n |-> n]}
    BY <1>3 DEF Granted
  <2>2. /\ pc[h] = "allow"
        /\ \/ job' = [job EXCEPT ![h].rules = Tail(@)] /\ pc' = [pc EXCEPT ![h] = "bucket"]
           \/ pc' = [pc EXCEPT ![h] = "idle"] /\ job' = [job EXCEPT ![h] = NoJob]
    BY <1>3 DEF Granted, Done
  <2>3. Head(job[h].rules) \in LimitedRule /\ job[h].client \in Clients /\ job[h].tool \in Tools
    BY <2>2, JobTyped DEF Named
  <2>4. \A g \in grants' : /\ g.client \in Clients /\ g.tool \in Tools
                           /\ \E r \in LimitedRule : g.rule = r.name /\ g.limit = r.limit
    BY <2>1, <2>3 DEF Named
  <2>5. ASSUME NEW o \in Handlers, pc'[o] # "idle"
        PROVE  job'[o].client \in Clients /\ job'[o].tool \in Tools
    <3>1. CASE o # h
      <4>1. job'[o] = job[o] /\ pc'[o] = pc[o]
        BY <2>2, <3>1
      <4> QED BY <2>5, <4>1 DEF Named
    <3>2. CASE o = h
      <4>1. pc'[h] # "idle"
        BY <2>5, <3>2
      <4>2. job' = [job EXCEPT ![h].rules = Tail(@)]
        BY <2>2, <4>1
      <4>3. job'[h].client = job[h].client /\ job'[h].tool = job[h].tool
        BY <4>2
      <4> QED BY <2>3, <3>2, <4>3
    <3> QED BY <3>1, <3>2
  <2> QED BY <2>4, <2>5 DEF Named
<1>4. CASE Tick \/ (\E p \in Policies : Swap(p)) \/ UNCHANGED vars
  BY <1>4 DEF Tick, Swap, vars, Named
<1> QED BY <1>1, <1>2, <1>3, <1>4 DEF Next

\* The tokens of the budget that h asked last, within the last window.
Own(h) ==
  {g \in grants :
     /\ SameBudget(g, Head(job[h].rules).limit, Head(job[h].rules).name, job[h].tool, job[h].client)
     /\ g.window > job[h].now - Head(job[h].rules).limit.window}

LEMMA DenialMeans ==
  DenialEarned <=>
    \A h \in Handlers : pc[h] = "limited" =>
      Cardinality(Own(h)) >= Head(job[h].rules).limit.max
<1>1. ASSUME NEW h \in Handlers
      PROVE  Own(h) = {g \in {f \in grants : SameBudget(f, Head(job[h].rules).limit,
                                 Head(job[h].rules).name, job[h].tool, job[h].client)} :
                         g.window > job[h].now - Head(job[h].rules).limit.window}
  BY DEF Own
<1> QED BY <1>1 DEF DenialEarned

\* A bucket that is exhausted has given its whole measure to this budget.
LEMMA FullMeasure ==
  ASSUME PlainNames, IInv, Named, NEW h \in Handlers, Limited(h)
  PROVE  Cardinality(Own(h)) >= Head(job[h].rules).limit.max
<1> DEFINE rule == Head(job[h].rules)
           key == KeyOfJob(h)
           b == Current(buckets[key], rule.limit.window, job[h].now)
<1>1. pc[h] = "allow" /\ Exhausted(b, rule.limit.max)
  BY DEF Limited, KeyOfJob
<1>2. Fits(key, b, job[h].now)
  BY <1>1, Found
<1>3. rule \in LimitedRule /\ job[h].client \in Clients /\ job[h].tool \in Tools /\ job[h].now \in Nat
  BY <1>1, JobTyped DEF Named
<1>4. rule.limit.max \in Nat \ {0} /\ rule.limit.window \in Nat \ {0}
  BY <1>3, LimitsInOrder
<1>5. b.start \in Nat /\ b.start > job[h].now - rule.limit.window
  <2>1. buckets[key].start \in Nat
    BY <1>2, BoundsAssumption DEF Fits, IInv, TypeOK
  <2>2. CASE job[h].now - buckets[key].start >= rule.limit.window
    <3>1. b = [start |-> job[h].now, count |-> 0]
      BY <2>2 DEF Current, Rotated
    <3> QED BY <3>1, <1>3, <1>4
  <2>3. CASE ~(job[h].now - buckets[key].start >= rule.limit.window)
    <3>1. b = buckets[key]
      BY <2>3 DEF Current
    <3> QED BY <3>1, <2>1, <2>3, <1>3, <1>4
  <2> QED BY <2>2, <2>3
<1>6. Counted(key, b.start) \subseteq Own(h)
  <2> SUFFICES ASSUME NEW g \in grants, KeyOfGrant(g) = key, g.window = b.start
               PROVE  g \in Own(h)
    BY DEF Counted
  <2>1. PICK r \in LimitedRule : g.rule = r.name /\ g.limit = r.limit
    BY DEF Named
  <2>2. KeyOf(r, g.client, g.tool) = KeyOf(rule, job[h].client, job[h].tool)
    BY <2>1 DEF KeyOfGrant, KeyOfJob, KeyOf
  <2>3. /\ r.limit.per = rule.limit.per /\ r.name = rule.name /\ g.tool = job[h].tool
        /\ r.limit.per = "client" => g.client = job[h].client
    BY <2>2, <1>3, KeysDiffer DEF Named
  <2> QED BY <2>1, <2>3, <1>5 DEF Own, SameBudget
<1>7. IsFiniteSet(Own(h))
  BY FS_Subset DEF Own, IInv
<1>8. /\ Cardinality(Counted(key, b.start)) <= Cardinality(Own(h))
      /\ Cardinality(Counted(key, b.start)) \in Nat /\ Cardinality(Own(h)) \in Nat
  BY <1>6, <1>7, FS_Subset, FS_CardinalityType
<1>9. b.count >= rule.limit.max /\ b.count = Cardinality(Counted(key, b.start))
  BY <1>1, <1>2 DEF Exhausted, Fits
<1> HIDE DEF key, b, rule
<1>10. Cardinality(Own(h)) >= rule.limit.max
  BY <1>4, <1>8, <1>9
<1> QED BY <1>10 DEF rule

LEMMA StepDenial ==
  ASSUME PlainNames, IInv, Named, DenialEarned, [Next]_vars
  PROVE  DenialEarned'
<1> DEFINE OwnNow(h) ==
      {g \in grants' :
         /\ SameBudget(g, Head(job'[h].rules).limit, Head(job'[h].rules).name, job'[h].tool, job'[h].client)
         /\ g.window > job'[h].now - Head(job'[h].rules).limit.window}
<1>1. SUFFICES ASSUME NEW h \in Handlers, pc'[h] = "limited"
               PROVE  Cardinality(OwnNow(h)) >= Head(job'[h].rules).limit.max
  BY DEF DenialEarned
<1> /\ pc \in [Handlers -> {"idle", "bucket", "allow", "limited"}]
    /\ job \in [Handlers -> [client : Clients \cup {<< >>}, tool : Tools \cup {<< >>},
                             now : Nat, rules : Seq(LimitedRule)]]
  BY DEF IInv, TypeOK, JobsTyped
<1>2. /\ job'[h] = job[h] /\ grants \subseteq grants'
      /\ pc[h] = "limited" \/ Limited(h)
  <2>1. ASSUME NEW o \in Handlers, NEW client \in Clients,
               NEW call \in [tool : Tools, args : Args], Begin(o, client, call)
        PROVE  job'[h] = job[h] /\ grants' = grants /\ pc[h] = "limited"
    <3>1. o # h
      BY <1>1, <2>1 DEF Begin
    <3> QED BY <1>1, <2>1, <3>1 DEF Begin
  <2>2. ASSUME NEW o \in Handlers, LoadOrStore(o)
        PROVE  job'[h] = job[h] /\ grants' = grants /\ pc[h] = "limited"
    BY <1>1, <2>2 DEF LoadOrStore
  <2>3. ASSUME NEW o \in Handlers, Limited(o)
        PROVE  job'[h] = job[h] /\ grants' = grants /\ (pc[h] = "limited" \/ Limited(h))
    BY <1>1, <2>3 DEF Limited
  <2>4. ASSUME NEW o \in Handlers, Deny(o)
        PROVE  job'[h] = job[h] /\ grants' = grants /\ pc[h] = "limited"
    BY <1>1, <2>4 DEF Deny, Done
  <2>5. ASSUME NEW o \in Handlers, Granted(o)
        PROVE  job'[h] = job[h] /\ grants \subseteq grants' /\ pc[h] = "limited"
    BY <1>1, <2>5 DEF Granted, Done
  <2>6. CASE Tick \/ (\E p \in Policies : Swap(p)) \/ UNCHANGED vars
    BY <1>1, <2>6 DEF Tick, Swap, vars
  <2> QED BY <2>1, <2>2, <2>3, <2>4, <2>5, <2>6 DEF Next
<1>3. Cardinality(Own(h)) >= Head(job[h].rules).limit.max
  BY <1>2, DenialMeans, FullMeasure
<1>4. Own(h) \subseteq OwnNow(h)
  BY <1>2 DEF Own
<1>5. IsFiniteSet(grants')
  BY StepIInv DEF IInv
<1>6. IsFiniteSet(OwnNow(h))
  BY <1>5, FS_Subset
<1>7. /\ Cardinality(Own(h)) <= Cardinality(OwnNow(h))
      /\ Cardinality(Own(h)) \in Nat /\ Cardinality(OwnNow(h)) \in Nat
  BY <1>4, <1>6, FS_Subset, FS_CardinalityType
<1>8. Head(job[h].rules).limit.max \in Nat
  <2>1. pc[h] # "idle"
    BY <1>2 DEF Limited
  <2> QED BY <2>1, JobTyped, LimitsInOrder
<1> HIDE DEF OwnNow
<1> QED BY <1>2, <1>3, <1>7, <1>8

\* A denial speaks of the caller's own tokens: when names have no colons, "rate
\* limit exceeded" is returned only after that rule, tool and, for a limit per
\* client, caller has been given its full measure within the last window.
THEOREM DenialIsEarned == PlainNames => (Spec => []DenialEarned)
<1> SUFFICES ASSUME PlainNames PROVE Spec => []DenialEarned
  OBVIOUS
<1>1. Init => Named /\ DenialEarned
  BY InitNamed DEF Init, DenialEarned
<1>2. IInv /\ Named /\ DenialEarned /\ [Next]_vars => Named' /\ DenialEarned'
  BY StepNamed, StepDenial
<1> QED BY <1>1, <1>2, InvariantIInv, PTL DEF Spec
-----------------------------------------------------------------------------
(* The rate limiter keeps its promise: RateBounded.                        *)
(*                                                                         *)
(* The argument: two windows of one bucket start at least Shortest apart,  *)
(* and no token is given for a window more than MaxStall after the next    *)
(* one has begun.  So the tokens of a stretch of Shortest - MaxStall come  *)
(* from two windows, and each gave at most MostGenerous of them.           *)

\* No handler at work is slower than it may be.
Recent == \A h \in Handlers : pc[h] # "idle" => clock - job[h].now <= MaxStall

Measures(G) == {g.limit.max : g \in G}
Windows(G) == {g.limit.window : g \in G}

HasMax(S) == Max(S) \in S /\ \A x \in S : x <= Max(S)
HasMin(S) == Min(S) \in S /\ \A x \in S : Min(S) <= x

\* The limits of the tokens given so far have a largest max and a least window.
Extremes == grants # {} => HasMax(Measures(grants)) /\ HasMin(Windows(grants))

\* What a token f has to do with a later window of its bucket that starts at s.
Gap(f, s, least) == f.window < s => least <= s - f.window /\ f.at <= s + MaxStall

Spaced ==
  \A f \in grants :
    /\ Gap(f, buckets[KeyOfGrant(f)].start, Shortest)
    /\ \A g \in grants : KeyOfGrant(f) = KeyOfGrant(g) => Gap(f, g.window, Shortest)

\* No window has given more than the most generous limit allows.
Filled == \A g \in grants : Cardinality(Counted(KeyOfGrant(g), g.window)) <= MostGenerous

RateInv == Named /\ Recent /\ Extremes /\ Spaced /\ Filled

-----------------------------------------------------------------------------
(* Numbers.                                                                *)

LEMMA MaxGrows ==
  ASSUME NEW S \in SUBSET Nat, NEW x \in Nat, S = {} \/ HasMax(S)
  PROVE  HasMax(S \cup {x}) /\ (S # {} => Max(S) <= Max(S \cup {x}))
<1> DEFINE T == S \cup {x}
<1>1. PICK m \in T : \A y \in T : m >= y
  <2>1. CASE S = {}
    BY <2>1
  <2>2. CASE HasMax(S) /\ x <= Max(S)
    BY <2>2 DEF HasMax
  <2>3. CASE HasMax(S) /\ ~(x <= Max(S))
    <3>1. Max(S) \in Nat /\ \A y \in S : y <= Max(S) /\ y \in Nat
      BY <2>3 DEF HasMax
    <3> QED BY <2>3, <3>1
  <2> QED BY <2>1, <2>2, <2>3
<1>2. Max(T) \in T /\ \A y \in T : Max(T) >= y
  BY <1>1 DEF Max
<1> HIDE DEF T
<1>3. T \subseteq Nat
  BY DEF T
<1>4. HasMax(T)
  BY <1>2, <1>3 DEF HasMax
<1>5. S # {} => Max(S) \in T
  BY DEF HasMax, T
<1> QED BY <1>4, <1>5 DEF HasMax, T

LEMMA MinShrinks ==
  ASSUME NEW S \in SUBSET Nat, NEW x \in Nat, S = {} \/ HasMin(S)
  PROVE  HasMin(S \cup {x}) /\ (S # {} => Min(S \cup {x}) <= Min(S))
<1> DEFINE T == S \cup {x}
<1>1. PICK m \in T : \A y \in T : m <= y
  <2>1. CASE S = {}
    BY <2>1
  <2>2. CASE HasMin(S) /\ Min(S) <= x
    BY <2>2 DEF HasMin
  <2>3. CASE HasMin(S) /\ ~(Min(S) <= x)
    <3>1. Min(S) \in Nat /\ \A y \in S : Min(S) <= y /\ y \in Nat
      BY <2>3 DEF HasMin
    <3> QED BY <2>3, <3>1
  <2> QED BY <2>1, <2>2, <2>3
<1>2. Min(T) \in T /\ \A y \in T : Min(T) <= y
  BY <1>1 DEF Min
<1> HIDE DEF T
<1>4. HasMin(T)
  BY <1>2 DEF HasMin
<1>5. S # {} => Min(S) \in T
  BY DEF HasMin, T
<1> QED BY <1>4, <1>5 DEF HasMin, T

\* A limit that has given a token counts in whole tokens and whole instants.
LEMMA LimitOf ==
  ASSUME Named, NEW g \in grants
  PROVE  g.limit.max \in Nat \ {0} /\ g.limit.window \in Nat \ {0}
BY LimitsInOrder DEF Named

LEMMA LimitSets ==
  ASSUME Named
  PROVE  Measures(grants) \in SUBSET Nat /\ Windows(grants) \in SUBSET Nat
BY LimitOf DEF Measures, Windows

LEMMA Bounds ==
  ASSUME Named, Extremes, NEW g \in grants
  PROVE  /\ Shortest \in Nat /\ MostGenerous \in Nat
         /\ Shortest <= g.limit.window /\ g.limit.max <= MostGenerous
<1>1. Shortest = Min(Windows(grants)) /\ MostGenerous = Max(Measures(grants))
  BY DEF Shortest, MostGenerous, Windows, Measures
<1>2. g.limit.window \in Windows(grants) /\ g.limit.max \in Measures(grants)
  BY DEF Windows, Measures
<1>3. HasMax(Measures(grants)) /\ HasMin(Windows(grants))
  BY DEF Extremes
<1> QED BY <1>1, <1>2, <1>3, LimitSets DEF HasMax, HasMin

-----------------------------------------------------------------------------
(* From the invariant to the promise.                                      *)

LEMMA SameBucket ==
  ASSUME NEW f, NEW g, SameBudget(f, g.limit, g.rule, g.tool, g.client)
  PROVE  KeyOfGrant(f) = KeyOfGrant(g)
BY DEF SameBudget, KeyOfGrant, KeyOf

\* Tokens of one budget within the stretch come from two windows at most.
LEMMA TwoWindows ==
  ASSUME IInv, RateInv, NEW g \in grants,
         NEW t, t = g.at - (Shortest - MaxStall),
         NEW a \in Since(t, g), NEW b \in Since(t, g), NEW c \in Since(t, g),
         a.window < b.window
  PROVE  ~(b.window < c.window)
<1> SUFFICES ASSUME b.window < c.window PROVE FALSE
  OBVIOUS
<1>1. a \in grants /\ b \in grants /\ c \in grants /\ t < a.at /\ c.at <= g.at
  BY DEF Since
<1>2. KeyOfGrant(a) = KeyOfGrant(b) /\ KeyOfGrant(b) = KeyOfGrant(c)
  BY SameBucket DEF Since
<1>3. Gap(a, b.window, Shortest) /\ Gap(b, c.window, Shortest)
  BY <1>1, <1>2 DEF RateInv, Spaced
<1>4. c.window <= c.at
  BY <1>1 DEF IInv, TypeOK
<1>5. /\ a.at \in Nat /\ a.window \in Nat /\ b.window \in Nat
      /\ c.at \in Nat /\ c.window \in Nat /\ g.at \in Nat
  BY <1>1 DEF IInv, GrantsPast
<1>6. Shortest \in Nat /\ MaxStall \in Nat
  BY Bounds, BoundsAssumption DEF RateInv
<1>7. a.at <= b.window + MaxStall /\ Shortest <= c.window - b.window
  BY <1>3 DEF Gap
<1> HIDE DEF Gap
<1> QED BY <1>1, <1>4, <1>5, <1>6, <1>7

LEMMA SinceIsSmall ==
  ASSUME IInv, RateInv, NEW g \in grants,
         NEW t, t = g.at - (Shortest - MaxStall)
  PROVE  Cardinality(Since(t, g)) <= 2 * MostGenerous
<1> DEFINE k == KeyOfGrant(g)
           S == Since(t, g)
           C(w) == Counted(k, w)
<1>1. MostGenerous \in Nat
  BY Bounds DEF RateInv
<1>2. \A f \in S : f \in grants /\ KeyOfGrant(f) = k /\ f \in C(f.window) /\ f.window \in Nat
  <2> SUFFICES ASSUME NEW f \in S
               PROVE  f \in grants /\ KeyOfGrant(f) = k /\ f \in C(f.window) /\ f.window \in Nat
    OBVIOUS
  <2>1. f \in grants /\ SameBudget(f, g.limit, g.rule, g.tool, g.client)
    BY DEF Since
  <2>2. KeyOfGrant(f) = k
    BY <2>1, SameBucket
  <2>3. f.window \in Nat
    BY <2>1 DEF IInv, GrantsPast
  <2> QED BY <2>1, <2>2, <2>3 DEF Counted
<1>3. ASSUME NEW f \in S
      PROVE  /\ IsFiniteSet(C(f.window)) /\ Cardinality(C(f.window)) \in Nat
             /\ Cardinality(C(f.window)) <= MostGenerous
  <2>1. Cardinality(Counted(KeyOfGrant(f), f.window)) <= MostGenerous
    BY <1>2 DEF RateInv, Filled
  <2> QED BY <1>2, <2>1, GrantsOf
<1> HIDE DEF C
<1>4. \A a, b, c \in S : a.window < b.window => ~(b.window < c.window)
  BY TwoWindows
<1> HIDE DEF S, k
<1>5. CASE S = {}
  <2>1. Cardinality(S) = 0
    BY <1>5, FS_EmptySet
  <2> QED BY <1>1, <2>1 DEF S
<1>6. CASE S # {}
  <2>1. PICK a, b \in S : \A f \in S : f.window \in {a.window, b.window}
    <3>1. PICK a \in S : TRUE
      BY <1>6
    <3>2. CASE \A f \in S : f.window = a.window
      BY <3>1, <3>2
    <3>3. CASE ~(\A f \in S : f.window = a.window)
      <4>1. PICK b \in S : b.window # a.window
        BY <3>3
      <4>2. \A f \in S : f.window \in {a.window, b.window}
        BY <1>2, <1>4, <3>1, <4>1
      <4> QED BY <4>2
    <3> QED BY <3>2, <3>3
  <2> DEFINE U == C(a.window) \cup C(b.window)
             I == C(a.window) \cap C(b.window)
  <2>2. S \subseteq U
    BY <1>2, <2>1
  <2>3. IsFiniteSet(U) /\ IsFiniteSet(I)
    BY <1>3, FS_Union, FS_Subset
  <2>4. Cardinality(U) = Cardinality(C(a.window)) + Cardinality(C(b.window)) - Cardinality(I)
    BY <1>3, FS_Union
  <2>5. Cardinality(I) \in Nat /\ Cardinality(U) \in Nat
    BY <2>3, FS_CardinalityType
  <2>6. Cardinality(S) <= Cardinality(U) /\ Cardinality(S) \in Nat
    BY <2>2, <2>3, FS_Subset, FS_CardinalityType
  <2>7. /\ Cardinality(C(a.window)) \in Nat /\ Cardinality(C(a.window)) <= MostGenerous
        /\ Cardinality(C(b.window)) \in Nat /\ Cardinality(C(b.window)) <= MostGenerous
    BY <1>3
  <2> HIDE DEF U, I
  <2>8. Cardinality(S) <= 2 * MostGenerous
    BY <1>1, <2>4, <2>5, <2>6, <2>7
  <2> QED BY <2>8 DEF S
<1> QED BY <1>5, <1>6

LEMMA RateInvBounds == IInv /\ RateInv => RateBounded
BY SinceIsSmall DEF RateBounded

-----------------------------------------------------------------------------
(* The steps.                                                              *)

LEMMA InitRateInv == Init => RateInv
BY InitNamed DEF Init, RateInv, Recent, Extremes, Spaced, Filled

LEMMA StepRecent ==
  ASSUME IInv, Recent, [Next]_vars
  PROVE  Recent'
<1> /\ pc \in [Handlers -> {"idle", "bucket", "allow", "limited"}]
    /\ job \in [Handlers -> [client : Clients \cup {<< >>}, tool : Tools \cup {<< >>},
                             now : Nat, rules : Seq(LimitedRule)]]
    /\ clock \in Nat /\ MaxStall \in Nat
  BY BoundsAssumption DEF IInv, TypeOK, JobsTyped
<1>1. ASSUME NEW h \in Handlers, NEW client \in Clients,
             NEW call \in [tool : Tools, args : Args], Begin(h, client, call)
      PROVE  Recent'
  <2> DEFINE new == [client |-> client, tool |-> call.tool, now |-> clock,
                     rules |-> LimitedRules(policy, call.tool)]
  <2>1. clock' = clock /\ (UNCHANGED <<pc, job>> \/ (/\ pc' = [pc EXCEPT ![h] = "bucket"]
                                                    /\ job' = [job EXCEPT ![h] = new]))
    BY <1>1 DEF Begin
  <2>2. new.now = clock
    OBVIOUS
  <2> HIDE DEF new
  <2>3. \A o \in Handlers : (job'[o].now = job[o].now /\ pc'[o] = pc[o]) \/ job'[o].now = clock
    BY <2>1, <2>2
  <2>4. clock - clock <= MaxStall
    OBVIOUS
  <2> QED BY <2>1, <2>3, <2>4 DEF Recent
<1>2. ASSUME NEW h \in Handlers, LoadOrStore(h) \/ Limited(h) \/ Deny(h) PROVE Recent'
  <2>1. clock' = clock /\ pc[h] \in {"bucket", "allow", "limited"}
    BY <1>2 DEF LoadOrStore, Limited, Deny
  <2>2. \/ job' = job /\ \E at \in {"allow", "limited"} : pc' = [pc EXCEPT ![h] = at]
        \/ pc' = [pc EXCEPT ![h] = "idle"] /\ job' = [job EXCEPT ![h] = NoJob]
    BY <1>2 DEF LoadOrStore, Limited, Deny, Done
  <2>3. CASE job' = job /\ \E at \in {"allow", "limited"} : pc' = [pc EXCEPT ![h] = at]
    BY <2>1, <2>3 DEF Recent
  <2>4. CASE pc' = [pc EXCEPT ![h] = "idle"] /\ job' = [job EXCEPT ![h] = NoJob]
    BY <2>1, <2>4 DEF Recent
  <2> QED BY <2>2, <2>3, <2>4
<1>3. ASSUME NEW h \in Handlers, Granted(h) PROVE Recent'
  <2>1. /\ clock' = clock /\ pc[h] = "allow"
        /\ \/ job' = [job EXCEPT ![h].rules = Tail(@)] /\ pc' = [pc EXCEPT ![h] = "bucket"]
           \/ pc' = [pc EXCEPT ![h] = "idle"] /\ job' = [job EXCEPT ![h] = NoJob]
    BY <1>3 DEF Granted, Done
  <2> QED BY <2>1 DEF Recent
<1>4. CASE Tick
  <2>1. \A h \in Handlers : job[h].now \in Nat
    OBVIOUS
  <2> QED BY <1>4, <2>1 DEF Tick, Recent
<1>5. CASE (\E p \in Policies : Swap(p)) \/ UNCHANGED vars
  BY <1>5 DEF Swap, vars, Recent
<1> QED BY <1>1, <1>2, <1>3, <1>4, <1>5 DEF Next

\* Without a new token no bucket that gave one moves.
LEMMA NoGrant ==
  ASSUME IInv, [Next]_vars, ~ \E h \in Handlers : Granted(h), NEW k \in DOMAIN buckets
  PROVE  grants' = grants /\ buckets'[k].start = buckets[k].start
<1>1. CASE UNCHANGED <<buckets, grants>>
  BY <1>1
<1>2. ASSUME NEW h \in Handlers, LoadOrStore(h)
      PROVE  grants' = grants /\ buckets'[k] = buckets[k]
  BY <1>2 DEF LoadOrStore, Put
<1>3. ASSUME NEW h \in Handlers, Limited(h)
      PROVE  grants' = grants /\ buckets'[k] = buckets[k]
  <2> DEFINE key == KeyOfJob(h)
             max == Head(job[h].rules).limit.max
             b == Current(buckets[key], Head(job[h].rules).limit.window, job[h].now)
  <2>1. pc[h] = "allow" /\ buckets' = Put(key, b) /\ grants' = grants /\ Exhausted(b, max)
    BY <1>3 DEF Limited, KeyOfJob
  <2>2. Fits(key, b, job[h].now)
    BY <2>1, Found
  <2>3. max \in Nat \ {0}
    BY <2>1, JobTyped, LimitsInOrder
  <2> HIDE DEF key, b, max
  <2>4. b = buckets[key]
    BY <2>1, <2>2, <2>3 DEF Fits, Exhausted
  <2> QED BY <2>1, <2>4 DEF Put
<1> QED BY <1>1, <1>2, <1>3 DEF Next, Begin, Deny, Swap, Tick, vars

LEMMA QuietRate ==
  ASSUME IInv, Extremes, Spaced, Filled, [Next]_vars, ~ \E h \in Handlers : Granted(h)
  PROVE  Extremes' /\ Spaced' /\ Filled'
<1>1. CASE grants' = grants
  <2>1. Extremes' /\ Filled'
    BY <1>1 DEF Extremes, Filled, Counted, MostGenerous
  <2>2. \A f \in grants : buckets'[KeyOfGrant(f)].start = buckets[KeyOfGrant(f)].start
    BY NoGrant DEF IInv, GrantsPast
  <2>3. Spaced'
    BY <1>1, <2>2 DEF Spaced, Shortest, Gap
  <2> QED BY <2>1, <2>3
<1>2. grants' = grants
  <2>1. \A h \in Handlers : LoadOrStore(h) \/ Limited(h) => grants' = grants
    BY DEF LoadOrStore, Limited
  <2> QED BY <2>1 DEF Next, Begin, Deny, Swap, Tick, vars
<1> QED BY <1>1, <1>2
\* A token opens a window or is counted in the one that is there.
LEMMA GrantRate ==
  ASSUME IInv, RateInv, NEW h \in Handlers, Granted(h), IInv', Named'
  PROVE  Extremes' /\ Spaced' /\ Filled'
<1> DEFINE rule == Head(job[h].rules)
           key == KeyOfJob(h)
           b == Current(buckets[key], rule.limit.window, job[h].now)
           after == [b EXCEPT !.count = @ + 1]
           token == [client |-> job[h].client, rule |-> rule.name, tool |-> job[h].tool,
                     limit |-> rule.limit, at |-> clock, window |-> b.start,
                     n |-> Cardinality({g \in grants : g.at = clock})]
           max == rule.limit.max
           window == rule.limit.window
<1>1. /\ pc[h] = "allow" /\ ~Exhausted(b, max) /\ clock' = clock
      /\ buckets' = Put(key, after) /\ grants' = grants \cup {token}
  BY DEF Granted, KeyOfJob
<1>2. Fits(key, b, job[h].now)
  BY <1>1, Found
<1>3. /\ KeyOfGrant(token) = key /\ token.at = clock /\ token.window = b.start
      /\ token.limit.max = max /\ token.limit.window = window
  BY DEF KeyOfGrant, KeyOfJob, KeyOf
<1>4. max \in Nat \ {0} /\ window \in Nat \ {0} /\ job[h].now \in Nat /\ job[h].now <= clock
  BY <1>1, JobTyped, LimitsInOrder
<1>5. /\ clock \in Nat /\ MaxStall \in Nat /\ b.start \in Nat /\ b.start <= clock
      /\ b.count \in Nat /\ buckets[key].start \in Nat
  <2>1. clock \in Nat /\ MaxStall \in Nat
    BY BoundsAssumption DEF IInv, TypeOK
  <2>2. key \in DOMAIN buckets /\ b \in [start : 0..clock, count : Nat]
    BY <1>2 DEF Fits
  <2>3. buckets[key] \in [start : 0..clock, count : Nat]
    BY <2>2 DEF IInv, TypeOK
  <2> HIDE DEF b, key
  <2> QED BY <2>1, <2>2, <2>3
<1>6. clock - job[h].now <= MaxStall
  BY <1>1 DEF RateInv, Recent
<1>7. \/ b.start = buckets[key].start
      \/ b.start = job[h].now /\ window <= job[h].now - buckets[key].start
  BY DEF Current, Rotated
<1>8. after.start = b.start
  <2>1. b \in [start : 0..clock, count : Nat]
    BY <1>2 DEF Fits
  <2> HIDE DEF b
  <2> QED BY <2>1
<1>9. \A g \in grants : /\ g.window \in Nat /\ g.at \in Nat /\ g.at <= clock
                         /\ KeyOfGrant(g) \in DOMAIN buckets
                         /\ g.window <= buckets[KeyOfGrant(g)].start
  BY DEF IInv, GrantsPast, TypeOK
<1> HIDE DEF key, b, after, token, rule, max, window
<1>10. /\ buckets'[key] = after
       /\ \A k \in DOMAIN buckets \ {key} : buckets'[k] = buckets[k]
  <2>1. IsPut(buckets', key, after)
    BY <1>1, PutFacts, Zenon
  <2> QED BY <2>1 DEF IsPut
<1> DEFINE least == Min(Windows(grants'))
           most == Max(Measures(grants'))
<1>11. /\ HasMin(Windows(grants')) /\ HasMax(Measures(grants'))
       /\ grants # {} => Shortest \in Nat /\ least <= Shortest
       /\ grants # {} => MostGenerous \in Nat /\ MostGenerous <= most
       /\ least \in Nat /\ least <= window /\ most \in Nat /\ max <= most
  <2>1. Windows(grants') = Windows(grants) \cup {window}
    BY <1>1, <1>3 DEF Windows
  <2>2. Measures(grants') = Measures(grants) \cup {max}
    BY <1>1, <1>3 DEF Measures
  <2>3. Windows(grants) \in SUBSET Nat /\ Measures(grants) \in SUBSET Nat
    BY LimitSets DEF RateInv
  <2>4. /\ Windows(grants) = {} \/ HasMin(Windows(grants))
        /\ Measures(grants) = {} \/ HasMax(Measures(grants))
        /\ grants # {} => Windows(grants) # {} /\ Measures(grants) # {}
    BY DEF RateInv, Extremes, Windows, Measures
  <2>5. /\ HasMin(Windows(grants'))
        /\ grants # {} => least <= Min(Windows(grants))
    BY <1>4, <2>1, <2>3, <2>4, MinShrinks
  <2>6. /\ HasMax(Measures(grants'))
        /\ grants # {} => Max(Measures(grants)) <= most
    BY <1>4, <2>2, <2>3, <2>4, MaxGrows
  <2>7. Shortest = Min(Windows(grants)) /\ MostGenerous = Max(Measures(grants))
    BY DEF Shortest, MostGenerous, Windows, Measures
  <2>8. grants # {} => Shortest \in Nat /\ MostGenerous \in Nat
    BY Bounds DEF RateInv
  <2>9. least \in Nat /\ least <= window
    BY <1>4, <2>1, <2>3, <2>5 DEF HasMin
  <2>10. most \in Nat /\ max <= most
    BY <1>4, <2>2, <2>3, <2>6 DEF HasMax
  <2> QED BY <2>5, <2>6, <2>7, <2>8, <2>9, <2>10
<1>12. Shortest' = least /\ MostGenerous' = most
  BY DEF Shortest, MostGenerous, Windows, Measures
<1>13. Extremes'
  BY <1>11 DEF Extremes, Windows, Measures
<1> HIDE DEF least, most
\* The new start of a bucket, for a token that was there before.
<1>14. ASSUME NEW f \in grants, NEW s \in Nat, Gap(f, s, Shortest)
       PROVE  Gap(f, s, least)
  <2>1. f.window \in Nat /\ Shortest \in Nat /\ least <= Shortest /\ least \in Nat
    BY <1>9, <1>11
  <2> QED BY <1>14, <2>1 DEF Gap
<1>15. ASSUME NEW f \in grants, KeyOfGrant(f) = key
       PROVE  Gap(f, b.start, least)
  <2>1. CASE b.start = buckets[key].start
    <3>1. Gap(f, b.start, Shortest)
      BY <1>15, <2>1 DEF RateInv, Spaced
    <3> QED BY <1>5, <1>14, <3>1
  <2>2. CASE b.start = job[h].now /\ window <= job[h].now - buckets[key].start
    <3>1. f.window <= buckets[key].start /\ f.at <= clock /\ f.window \in Nat /\ f.at \in Nat
      BY <1>9, <1>15
    <3>2. least <= window /\ least \in Nat
      BY <1>11
    <3>3. least <= b.start - f.window
      BY <1>4, <1>5, <2>2, <3>1, <3>2
    <3>4. f.at <= b.start + MaxStall
      BY <1>4, <1>5, <1>6, <2>2, <3>1
    <3> QED BY <3>3, <3>4 DEF Gap
  <2> QED BY <1>7, <2>1, <2>2
\* The token itself is in the latest window of its bucket.
<1>16. ASSUME NEW s \in Nat, s <= b.start PROVE Gap(token, s, least)
  BY <1>3, <1>5, <1>16 DEF Gap
<1>17. Spaced'
  <2>1. ASSUME NEW f \in grants' PROVE Gap(f, buckets'[KeyOfGrant(f)].start, least)
    <3>1. CASE f = token
      BY <3>1, <1>3, <1>5, <1>8, <1>10, <1>16
    <3>2. CASE f \in grants /\ KeyOfGrant(f) = key
      BY <3>2, <1>8, <1>10, <1>15
    <3>3. CASE f \in grants /\ KeyOfGrant(f) # key
      <4>1. buckets'[KeyOfGrant(f)].start = buckets[KeyOfGrant(f)].start
        BY <3>3, <1>9, <1>10
      <4>2. buckets[KeyOfGrant(f)].start \in Nat
        BY <3>3, <1>9, <1>5 DEF IInv, TypeOK
      <4>3. Gap(f, buckets[KeyOfGrant(f)].start, Shortest)
        BY <3>3 DEF RateInv, Spaced
      <4> QED BY <3>3, <4>1, <4>2, <4>3, <1>14
    <3> QED BY <1>1, <3>1, <3>2, <3>3
  <2>2. ASSUME NEW f \in grants', NEW g \in grants', KeyOfGrant(f) = KeyOfGrant(g)
        PROVE  Gap(f, g.window, least)
    <3>1. CASE f = token /\ g = token
      BY <3>1, <1>3, <1>5, <1>16
    <3>2. CASE f = token /\ g \in grants
      <4>1. g.window \in Nat /\ g.window <= buckets[key].start /\ buckets[key].start <= b.start
        BY <2>2, <3>2, <1>2, <1>3, <1>9 DEF Fits
      <4>2. g.window <= b.start
        BY <4>1, <1>5
      <4> QED BY <3>2, <4>1, <4>2, <1>16
    <3>3. CASE f \in grants /\ g = token
      BY <2>2, <3>3, <1>3, <1>15
    <3>4. CASE f \in grants /\ g \in grants
      <4>1. Gap(f, g.window, Shortest)
        BY <2>2, <3>4 DEF RateInv, Spaced
      <4> QED BY <3>4, <4>1, <1>9, <1>14
    <3> QED BY <1>1, <3>1, <3>2, <3>3, <3>4
  <2>3. \A f \in grants' :
          /\ Gap(f, buckets'[KeyOfGrant(f)].start, least)
          /\ \A g \in grants' : KeyOfGrant(f) = KeyOfGrant(g) => Gap(f, g.window, least)
    BY <2>1, <2>2
  <2> HIDE DEF least
  <2> QED BY <2>3, <1>12 DEF Spaced, Gap
<1>18. Filled'
  <2> DEFINE CountedNow(k, start) == {g \in grants' : KeyOfGrant(g) = k /\ g.window = start}
  <2>1. ASSUME NEW g \in grants'
        PROVE  Cardinality(CountedNow(KeyOfGrant(g), g.window)) <= most
    <3>1. CASE KeyOfGrant(g) = key /\ g.window = b.start
      <4>1. CountedNow(key, b.start) = Counted(key, b.start) \cup {token}
        BY <1>1, <1>3 DEF Counted
      <4>2. /\ Cardinality(CountedNow(key, b.start)) <= Cardinality(Counted(key, b.start)) + 1
            /\ Cardinality(CountedNow(key, b.start)) \in Nat
        <5>1. IsFiniteSet(Counted(key, b.start)) /\ Cardinality(Counted(key, b.start)) \in Nat
          BY GrantsOf
        <5>2. CASE token \in Counted(key, b.start)
          <6>1. CountedNow(key, b.start) = Counted(key, b.start)
            BY <4>1, <5>2
          <6> HIDE DEF CountedNow
          <6> QED BY <5>1, <6>1
        <5>3. CASE token \notin Counted(key, b.start)
          <6>1. Cardinality(CountedNow(key, b.start)) = Cardinality(Counted(key, b.start)) + 1
            BY <4>1, <5>1, <5>3, FS_AddElement
          <6> HIDE DEF CountedNow
          <6> QED BY <5>1, <6>1
        <5> QED BY <5>2, <5>3
      <4>3. Cardinality(Counted(key, b.start)) = b.count /\ ~(b.count >= max)
        BY <1>1, <1>2 DEF Fits, Exhausted
      <4>4. max <= most /\ most \in Nat
        BY <1>11
      <4> HIDE DEF CountedNow
      <4>5. Cardinality(CountedNow(key, b.start)) <= most
        BY <1>4, <1>5, <4>2, <4>3, <4>4
      <4> QED BY <3>1, <4>5
    <3>2. CASE ~(KeyOfGrant(g) = key /\ g.window = b.start)
      <4>1. g \in grants
        BY <1>1, <1>3, <3>2
      <4>2. CountedNow(KeyOfGrant(g), g.window) = Counted(KeyOfGrant(g), g.window)
        BY <1>1, <1>3, <3>2 DEF Counted
      <4>3. Cardinality(Counted(KeyOfGrant(g), g.window)) <= MostGenerous
        BY <4>1 DEF RateInv, Filled
      <4>4. /\ Cardinality(Counted(KeyOfGrant(g), g.window)) \in Nat
            /\ MostGenerous \in Nat /\ MostGenerous <= most /\ most \in Nat
        BY <4>1, <1>11, GrantsOf
      <4> HIDE DEF CountedNow
      <4> QED BY <4>2, <4>3, <4>4
    <3> QED BY <3>1, <3>2
  <2> QED BY <2>1, <1>12 DEF Filled, Counted
<1> QED BY <1>13, <1>17, <1>18

LEMMA StepRateInv == IInv /\ RateInv /\ [Next]_vars => RateInv'
<1> SUFFICES ASSUME IInv, RateInv, [Next]_vars PROVE RateInv'
  OBVIOUS
<1>1. Named' /\ Recent' /\ IInv'
  BY StepNamed, StepRecent, StepIInv DEF RateInv
<1>2. Extremes' /\ Spaced' /\ Filled'
  <2>1. CASE \E h \in Handlers : Granted(h)
    BY <1>1, <2>1, GrantRate
  <2>2. CASE ~ \E h \in Handlers : Granted(h)
    BY <2>2, QuietRate DEF RateInv
  <2> QED BY <2>1, <2>2
<1> QED BY <1>1, <1>2 DEF RateInv

-----------------------------------------------------------------------------
\* In any stretch of time of the shortest window less the longest stall, a rule
\* admits at most two windows' worth of calls to a tool (and, when the limit is
\* per client, of a caller), whatever policies are swapped in meanwhile.
\* (Allow in ratelimit.go: the window restarts at the handler's own reading)
THEOREM RateIsBounded == Spec => []RateBounded
<1>1. Init => RateInv
  BY InitRateInv
<1>2. IInv /\ RateInv /\ [Next]_vars => RateInv'
  BY StepRateInv
<1>3. IInv /\ RateInv => RateBounded
  BY RateInvBounds
<1> QED BY <1>1, <1>2, <1>3, InvariantIInv, PTL DEF Spec
=============================================================================
