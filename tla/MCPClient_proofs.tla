--------------------------- MODULE MCPClient_proofs ---------------------------
(***************************************************************************)
(* Proofs about MCPClient, for any set of calls, any limit, any length of  *)
(* response and any set of response forms.                                 *)
(*                                                                         *)
(* The argument: an id is handed out once, so a response that carries the  *)
(* id of c answers c's request; a result exists only once its call has     *)
(* run; and a request is on the wire only until it has run.                *)
(***************************************************************************)
EXTENDS MCPClient, FiniteSetTheorems, TLAPS

\* A request runs once, and only after it has been posted.
RunsOnce ==
  \A c \in Calls :
    /\ runs[c] \in {0, 1}
    /\ c \in wire => runs[c] = 0
    /\ pc[c] = "new" => runs[c] = 0 /\ c \notin wire

\* A response that holds a result answers a call that has run, and a call has
\* returned a result only of its own.
ResultsOwned ==
  \A c \in Calls :
    /\ pc[c] = "reading" =>
         /\ pc[reply[c].of] # "new"
         /\ reply[c].result # "absent" => runs[reply[c].of] > 0
    /\ verdict[c] # "none" <=> pc[c] = "done"
    /\ verdict[c] = "ok" => reply[c].of = c /\ runs[c] > 0

IInv == TypeOK /\ RunsOnce /\ ResultsOwned

-----------------------------------------------------------------------------
(* Lemmas.                                                                 *)

LEMMA Ids ==
  ASSUME TypeOK, NEW c \in Calls, NEW d \in Calls, pc[c] # "new", id[c] = id[d]
  PROVE  c = d
BY DEF TypeOK

\* The calls with verdict v, when one more call gets a verdict.
LEMMA OneMoreVerdict ==
  ASSUME NEW c \in Calls, verdict \in [Calls -> Verdicts], NEW v,
         NEW w, verdict' = [verdict EXCEPT ![c] = w], verdict[c] # v
  PROVE  LET before == Cardinality({d \in Calls : verdict[d] = v})
             after  == Cardinality({d \in Calls : verdict'[d] = v})
         IN  /\ before \in Nat
             /\ w = v => after = before + 1
             /\ w # v => after = before
<1> DEFINE Old == {d \in Calls : verdict[d] = v}
<1>1. IsFiniteSet(Old)
  BY CallsAssumption, FS_Subset
<1>2. Cardinality(Old) \in Nat
  BY <1>1, FS_CardinalityType
<1>3. ASSUME w = v PROVE Cardinality({d \in Calls : verdict'[d] = v}) = Cardinality(Old) + 1
  <2>1. {d \in Calls : verdict'[d] = v} = Old \cup {c} /\ c \notin Old
    BY <1>3
  <2> QED BY <1>1, <2>1, FS_AddElement
<1>4. ASSUME w # v PROVE Cardinality({d \in Calls : verdict'[d] = v}) = Cardinality(Old)
  <2>1. {d \in Calls : verdict'[d] = v} = Old
    BY <1>4
  <2> QED BY <2>1
<1> QED BY <1>2, <1>3, <1>4

\* What Return leaves of the parts of TypeOK that are about verdicts.
LEMMA ReturnTyped ==
  ASSUME TypeOK, NEW c \in Calls, NEW v \in Verdicts, v # "none",
         verdict[c] = "none", Return(c, v)
  PROVE  verdict' \in [Calls -> Verdicts] /\ CountsExact'
<1>1. verdict' = [verdict EXCEPT ![c] = v] /\ verdict \in [Calls -> Verdicts]
  BY DEF Return, TypeOK
<1>2. verdict[c] # "protocol" /\ verdict[c] # "too large"
  OBVIOUS
<1> DEFINE Before == Cardinality({d \in Calls : verdict[d] = "protocol"})
           BeforeL == Cardinality({d \in Calls : verdict[d] = "too large"})
<1>3. /\ Before \in Nat
      /\ v = "protocol" => Cardinality({d \in Calls : verdict'[d] = "protocol"}) = Before + 1
      /\ v # "protocol" => Cardinality({d \in Calls : verdict'[d] = "protocol"}) = Before
  BY <1>1, <1>2, OneMoreVerdict
<1>4. /\ BeforeL \in Nat
      /\ v = "too large" => Cardinality({d \in Calls : verdict'[d] = "too large"}) = BeforeL + 1
      /\ v # "too large" => Cardinality({d \in Calls : verdict'[d] = "too large"}) = BeforeL
  BY <1>1, <1>2, OneMoreVerdict
<1> HIDE DEF Before, BeforeL
<1>5. counts'.protocol = Before + (IF v = "protocol" THEN 1 ELSE 0)
  BY DEF Return, TypeOK, CountsExact, Before
<1>6. counts'.tooLarge = BeforeL + (IF v = "too large" THEN 1 ELSE 0)
  BY DEF Return, TypeOK, CountsExact, BeforeL
<1>7. /\ v = "protocol" => counts'.protocol = Before + 1
      /\ v # "protocol" => counts'.protocol = Before
  <2>1. Before + 0 = Before
    BY <1>3
  <2> QED BY <1>5, <2>1
<1>8. /\ v = "too large" => counts'.tooLarge = BeforeL + 1
      /\ v # "too large" => counts'.tooLarge = BeforeL
  <2>1. BeforeL \in Nat
    BY <1>4
  <2>2. BeforeL + 0 = BeforeL
    BY <2>1
  <2> QED BY <1>6, <2>2
<1>9. verdict' \in [Calls -> Verdicts]
  BY <1>1
<1> QED BY <1>3, <1>4, <1>7, <1>8, <1>9 DEF CountsExact

LEMMA JudgedVerdict ==
  ASSUME NEW c, NEW r, NEW got, NEW n
  PROVE  Judged(c, r, got, n) \in Verdicts \ {"none", "http"}
BY DEF Judged, Verdicts

\* What is accepted passed every check.
LEMMA Accepted ==
  ASSUME NEW c, NEW r, NEW got, NEW n, Judged(c, r, got, n) = "ok"
  PROVE  /\ r.status /\ ~(n > MaxResponseBytes) /\ Decodes(r, got) /\ NothingFollows(r, got)
         /\ AnswersRequest(c, r) /\ OneOfTwo(r) /\ ~r.error
BY DEF Judged

-----------------------------------------------------------------------------
(* Every action keeps the invariant and is a step of UpstreamCall.         *)

LEMMA SendStep ==
  ASSUME IInv, NEW c \in Calls, Send(c)
  PROVE  IInv' /\ Promise!Issue(c)
<1> USE DEF IInv
<1>1. /\ pc[c] = "new" /\ pc' = [pc EXCEPT ![c] = "sent"]
      /\ nextID' = nextID + 1 /\ id' = [id EXCEPT ![c] = nextID + 1]
      /\ wire' = wire \cup {c}
      /\ UNCHANGED <<runs, reply, verdict, counts>>
  BY DEF Send, FreshID
<1>2. TypeOK'
  <2>1. \A d \in Calls : id'[d] = IF d = c THEN nextID + 1 ELSE id[d]
    BY <1>1 DEF TypeOK
  <2>2. \A d \in Calls : pc'[d] = IF d = c THEN "sent" ELSE pc[d]
    BY <1>1 DEF TypeOK
  <2>7. nextID \in Nat /\ \A d \in Calls : id[d] \in 0..nextID
    BY DEF TypeOK
  <2>3. nextID' \in Nat /\ id' \in [Calls -> 0..nextID'] /\ id'[c] # 0
    <3>1. nextID' \in Nat /\ nextID + 1 # 0
      BY <1>1, <2>7
    <3>2. \A d \in Calls : id'[d] \in 0..nextID'
      BY <1>1, <2>1, <2>7
    <3> QED BY <1>1, <2>1, <3>1, <3>2 DEF TypeOK
  <2>4. \A d \in Calls : pc'[d] = "new" <=> id'[d] = 0
    BY <2>1, <2>2, <2>3 DEF TypeOK
  <2>5. \A d, e \in Calls : id'[d] = id'[e] /\ id'[d] # 0 => d = e
    <3>1. \A d \in Calls : id[d] # nextID + 1
      BY <2>7
    <3>2. \A d, e \in Calls : id[d] = id[e] /\ id[d] # 0 => d = e
      BY DEF TypeOK
    <3> QED BY <2>1, <3>1, <3>2
  <2>6. pc' \in [Calls -> {"new", "done"} \cup Waiting] /\ wire' \subseteq Calls
    BY <1>1 DEF TypeOK, Waiting
  <2>8. CountsExact'
    BY <1>1 DEF TypeOK, CountsExact
  <2>9. \A d \in Calls : pc'[d] = "reading" => reply'[d].of \in Calls
    BY <1>1, <2>2 DEF TypeOK
  <2>10. /\ runs' \in [Calls -> Nat] /\ DOMAIN reply' = Calls
         /\ verdict' \in [Calls -> Verdicts]
    BY <1>1 DEF TypeOK
  <2> QED BY <2>3, <2>4, <2>5, <2>6, <2>8, <2>9, <2>10 DEF TypeOK
<1>3. RunsOnce'
  BY <1>1 DEF TypeOK, RunsOnce
<1>4. ResultsOwned'
  BY <1>1 DEF TypeOK, ResultsOwned, Waiting
<1>5. Promise!Issue(c)
  BY <1>1 DEF TypeOK, ResultsOwned, Promise!Issue, Waiting
<1> QED BY <1>2, <1>3, <1>4, <1>5

LEMMA GiveUpStep ==
  ASSUME IInv, NEW c \in Calls, GiveUp(c)
  PROVE  IInv' /\ Promise!Fail(c)
<1> USE DEF IInv
<1>1. /\ pc[c] = "sent" /\ pc' = [pc EXCEPT ![c] = "done"]
      /\ verdict' = [verdict EXCEPT ![c] = "http"]
      /\ UNCHANGED <<nextID, id, wire, runs, reply>>
      /\ Return(c, "http") /\ verdict[c] = "none"
  BY DEF GiveUp, Return, ResultsOwned
<1>2. verdict' \in [Calls -> Verdicts] /\ CountsExact'
  BY <1>1, ReturnTyped DEF Verdicts
<1>3. TypeOK'
  BY <1>1, <1>2 DEF TypeOK, Waiting
<1>4. RunsOnce'
  BY <1>1 DEF TypeOK, RunsOnce
<1>5. ResultsOwned'
  BY <1>1 DEF TypeOK, ResultsOwned, Waiting
<1>6. Promise!Fail(c)
  BY <1>1 DEF TypeOK, ResultsOwned, Promise!Fail, Waiting
<1> QED BY <1>3, <1>4, <1>5, <1>6

LEMMA ReadStep ==
  ASSUME IInv, NEW c \in Calls, NEW got, Read(c, got)
  PROVE  IInv' /\ (Promise!Succeed(c) \/ Promise!Fail(c))
<1> USE DEF IInv
<1>1. PICK n \in Counted(reply[c], got) : Return(c, Judged(c, reply[c], got, n))
  BY DEF Read
<1> DEFINE v == Judged(c, reply[c], got, n)
<1>2. v \in Verdicts /\ v # "none"
  BY JudgedVerdict
<1>3. /\ pc[c] = "reading" /\ pc' = [pc EXCEPT ![c] = "done"]
      /\ verdict' = [verdict EXCEPT ![c] = v]
      /\ reply' = [reply EXCEPT ![c] = IF verdict'[c] = "ok" THEN [of |-> @.of] ELSE NoReply]
      /\ UNCHANGED <<nextID, id, wire, runs>>
      /\ verdict[c] = "none" /\ reply[c].of \in Calls /\ pc[c] # "new"
  BY <1>1 DEF Read, Return, ResultsOwned, TypeOK
<1>4. verdict' \in [Calls -> Verdicts] /\ CountsExact'
  BY <1>1, <1>2, <1>3, ReturnTyped
<1>5. v = "ok" => reply[c].of = c /\ runs[c] > 0
  <2> SUFFICES ASSUME v = "ok" PROVE reply[c].of = c /\ runs[c] > 0
    OBVIOUS
  <2>1. id[reply[c].of] = id[c] /\ reply[c].result # "absent"
    BY Accepted DEF AnswersRequest, OneOfTwo
  <2>2. reply[c].of = c
    BY <1>3, <2>1, Ids
  <2> QED BY <1>3, <2>1, <2>2 DEF ResultsOwned
<1>6. verdict'[c] = v /\ (v = "ok" => reply'[c].of = c)
  BY <1>2, <1>3, <1>5 DEF TypeOK
<1>7. TypeOK'
  BY <1>3, <1>4 DEF TypeOK, Waiting
<1>8. RunsOnce'
  BY <1>3 DEF TypeOK, RunsOnce
<1>9. ResultsOwned'
  <2>1. \A d \in Calls \ {c} : pc'[d] = pc[d] /\ reply'[d] = reply[d] /\ verdict'[d] = verdict[d]
    BY <1>3 DEF TypeOK
  <2>2. \A d \in Calls : pc[d] # "new" => pc'[d] # "new"
    BY <1>3 DEF TypeOK
  <2>3. pc'[c] = "done" /\ (v = "ok" => runs[c] > 0)
    BY <1>3, <1>5 DEF TypeOK
  <2>4. \A d \in Calls \ {c} : pc[d] = "reading" => reply[d].of \in Calls
    BY DEF TypeOK
  <2> HIDE DEF v
  <2> QED BY <1>2, <1>3, <1>6, <2>1, <2>2, <2>3, <2>4 DEF ResultsOwned
<1>10. ASSUME v = "ok" PROVE Promise!Succeed(c)
  <2>1. runs[c] = 1 /\ runs' = runs
    BY <1>3, <1>5, <1>10 DEF RunsOnce
  <2>2. verdict' = [verdict EXCEPT ![c] = "ok"] /\ reply'[c].of = c
    BY <1>3, <1>6, <1>10
  <2>3. \A d \in Calls \ {c} : pc'[d] = pc[d] /\ reply'[d] = reply[d] /\ verdict'[d] = verdict[d]
    BY <1>3 DEF TypeOK
  <2>4. pc'[c] = "done" /\ verdict'[c] = "ok"
    BY <1>3, <2>2 DEF TypeOK
  <2> HIDE DEF v
  <2>5. \A d \in Calls \ {c} : (pc'[d] = pc[d]) /\ (verdict'[d] = verdict[d]) /\ (reply'[d] = reply[d])
    BY <2>3
  <2>6. pc[c] \in Waiting /\ pc'[c] \notin Waiting /\ pc'[c] # "new" /\ verdict'[c] = "ok"
    BY <1>3, <2>4 DEF Waiting
  <2>7. runs[c] = 1 /\ runs' = runs /\ reply'[c].of = c
    BY <2>1, <2>2
  <2> DEFINE S(p, w) == IF p \in Waiting THEN "pending" ELSE IF p = "new" THEN "new"
                        ELSE IF w = "ok" THEN "ok" ELSE "failed"
             R(w, q) == IF w = "ok" THEN q.of ELSE Nothing
             stage   == [d \in Calls |-> S(pc[d], verdict[d])]
             result  == [d \in Calls |-> R(verdict[d], reply[d])]
             stageN  == [d \in Calls |-> S(pc'[d], verdict'[d])]
             resultN == [d \in Calls |-> R(verdict'[d], reply'[d])]
  <2>8. stage[c] = "pending" /\ stageN[c] = "ok" /\ resultN[c] = c
    BY <2>6, <2>7
  <2>9. \A d \in Calls \ {c} : stageN[d] = stage[d] /\ resultN[d] = result[d]
    BY <2>5
  <2>10. stageN = [stage EXCEPT ![c] = "ok"] /\ resultN = [result EXCEPT ![c] = c]
    <3> HIDE DEF S, R
    <3> QED BY <2>8, <2>9
  <2> QED BY <2>7, <2>8, <2>10 DEF Promise!Succeed
<1>11. ASSUME v # "ok" PROVE Promise!Fail(c)
  BY <1>3, <1>6, <1>11 DEF TypeOK, ResultsOwned, Promise!Fail, Waiting
<1> QED BY <1>7, <1>8, <1>9, <1>10, <1>11

LEMMA RunStep ==
  ASSUME IInv, NEW c \in Calls, Run(c)
  PROVE  IInv' /\ Promise!Run(c)
<1> USE DEF IInv
<1>1. /\ c \in wire /\ wire' = wire \ {c} /\ runs' = [runs EXCEPT ![c] = 1]
      /\ UNCHANGED <<pc, nextID, id, reply, verdict, counts>>
      /\ runs[c] = 0 /\ pc[c] # "new"
  <2>1. /\ c \in wire /\ wire' = wire \ {c} /\ runs' = [runs EXCEPT ![c] = runs[c] + 1]
        /\ UNCHANGED <<pc, nextID, id, reply, verdict, counts>>
    BY DEF Run
  <2>2. runs[c] = 0 /\ pc[c] # "new"
    BY <2>1 DEF RunsOnce
  <2>3. runs[c] + 1 = 1
    BY <2>2
  <2> QED BY <2>1, <2>2, <2>3
<1>2. TypeOK'
  BY <1>1 DEF TypeOK, CountsExact
<1>3. RunsOnce'
  BY <1>1 DEF TypeOK, RunsOnce
<1>4. ResultsOwned'
  <2>1. \A d \in Calls : runs[d] > 0 => runs'[d] > 0
    BY <1>1 DEF TypeOK
  <2> QED BY <1>1, <2>1 DEF TypeOK, ResultsOwned
<1>5. Promise!Run(c)
  BY <1>1 DEF Promise!Run, TypeOK, Waiting
<1> QED BY <1>2, <1>3, <1>4, <1>5

LEMMA RespondStep ==
  ASSUME IInv, NEW c \in Calls, NEW d \in Calls, NEW form \in Forms, NEW l \in Lengths,
         Respond(c, d, form, l)
  PROVE  IInv' /\ UNCHANGED Promise!callVars
<1> USE DEF IInv
<1> DEFINE r == [of |-> d,
        status |-> form.status, parses |-> form.parses, version |-> form.version,
        id |-> form.id, result |-> form.result, error |-> form.error,
        size |-> l.size, total |-> l.total, junk |-> l.junk]
<1>1. /\ pc[c] = "sent" /\ pc[d] # "new" /\ (r.result # "absent" => runs[d] > 0)
      /\ r.of = d
      /\ reply' = [reply EXCEPT ![c] = r] /\ pc' = [pc EXCEPT ![c] = "reading"]
      /\ UNCHANGED <<nextID, id, wire, runs, verdict, counts>>
      /\ verdict[c] = "none"
  BY DEF Respond, ResultsOwned
<1> HIDE DEF r
<1>2. TypeOK'
  BY <1>1 DEF TypeOK, CountsExact, Waiting
<1>3. RunsOnce'
  BY <1>1 DEF TypeOK, RunsOnce
<1>4. ResultsOwned'
  BY <1>1 DEF TypeOK, ResultsOwned
<1>5. \A e \in Calls : verdict[e] = "ok" => reply'[e] = reply[e]
  BY <1>1 DEF TypeOK
<1>6. UNCHANGED Promise!callVars
  BY <1>1, <1>5 DEF Promise!callVars, TypeOK, Waiting
<1> QED BY <1>2, <1>3, <1>4, <1>6

-----------------------------------------------------------------------------
(* The theorems.                                                           *)

LEMMA InitIInv == Init => IInv /\ Promise!Init
<1> SUFFICES ASSUME Init PROVE IInv /\ Promise!Init
  OBVIOUS
<1>1. CountsExact
  <2>1. {c \in Calls : verdict[c] = "protocol"} = {} /\ {c \in Calls : verdict[c] = "too large"} = {}
    BY DEF Init
  <2> QED BY <2>1, FS_EmptySet DEF Init, CountsExact
<1>2. TypeOK
  BY <1>1 DEF Init, TypeOK, Waiting, Verdicts
<1>3. RunsOnce /\ ResultsOwned
  BY DEF Init, RunsOnce, ResultsOwned
<1>4. Promise!Init
  BY DEF Init, Promise!Init, Waiting
<1> QED BY <1>2, <1>3, <1>4 DEF IInv

LEMMA StepIInv == IInv /\ [Next]_vars => IInv' /\ [Promise!Next]_(Promise!callVars)
<1> SUFFICES ASSUME IInv, [Next]_vars PROVE IInv' /\ [Promise!Next]_(Promise!callVars)
  OBVIOUS
<1>1. ASSUME NEW c \in Calls, Send(c) PROVE IInv' /\ Promise!Next
  BY <1>1, SendStep DEF Promise!Next
<1>2. ASSUME NEW c \in Calls, GiveUp(c) PROVE IInv' /\ Promise!Next
  BY <1>2, GiveUpStep DEF Promise!Next
<1>3. ASSUME NEW c \in Calls, NEW got, Read(c, got) PROVE IInv' /\ Promise!Next
  BY <1>3, ReadStep DEF Promise!Next
<1>4. ASSUME NEW c \in Calls, Run(c) PROVE IInv' /\ Promise!Next
  BY <1>4, RunStep DEF Promise!Next
<1>5. ASSUME NEW c \in Calls, NEW d \in Calls, NEW form \in Forms, NEW l \in Lengths,
             Respond(c, d, form, l)
      PROVE  IInv' /\ UNCHANGED Promise!callVars
  BY <1>5, RespondStep
<1>6. CASE UNCHANGED vars
  <2>1. UNCHANGED <<pc, nextID, id, wire, runs, reply, verdict, counts>>
    BY <1>6 DEF vars
  <2>2. TypeOK /\ CountsExact /\ RunsOnce /\ ResultsOwned
    BY DEF IInv, TypeOK
  <2>3. CountsExact'
    BY <2>1, <2>2 DEF CountsExact
  <2>4. TypeOK'
    BY <2>1, <2>2, <2>3 DEF TypeOK
  <2>5. RunsOnce'
    BY <2>1, <2>2 DEF RunsOnce
  <2>6. ResultsOwned'
    BY <2>1, <2>2 DEF ResultsOwned
  <2>7. UNCHANGED Promise!callVars
    BY <2>1 DEF Promise!callVars
  <2> QED BY <2>4, <2>5, <2>6, <2>7 DEF IInv
<1>7. CASE Next
  <2>1. ASSUME NEW c \in Calls, ReadWhole(c) \/ ReadCut(c) PROVE \E got : Read(c, got)
    BY <2>1 DEF ReadWhole, ReadCut
  <2> QED BY <1>1, <1>2, <1>3, <1>4, <1>5, <1>7, <2>1 DEF Next
<1> QED BY <1>6, <1>7

\* The variables have their types, no two calls share an id, and each response
\* that was rejected for its form or its size is counted in its metric, once.
THEOREM TypeCorrect == Spec => []TypeOK
<1>1. Init => IInv
  BY InitIInv
<1>2. IInv /\ [Next]_vars => IInv'
  BY StepIInv
<1>3. IInv => TypeOK
  BY DEF IInv
<1> QED BY <1>1, <1>2, <1>3, PTL DEF Spec

\* The client implements UpstreamCall: for any number of calls and any network,
\* a call runs at most once and a caller gets its own result or an error.
THEOREM ImplementsPromise == Spec => PromiseSpec
<1>1. Init => IInv /\ Promise!Init
  BY InitIInv
<1>2. IInv /\ [Next]_vars => IInv' /\ [Promise!Next]_(Promise!callVars)
  BY StepIInv
<1> QED BY <1>1, <1>2, PTL DEF Spec, PromiseSpec, Promise!Spec

-----------------------------------------------------------------------------
(* What the limit means.                                                   *)

\* The response a call is reading has lengths that fit together.
Measured ==
  \A c \in Calls : pc[c] = "reading" =>
    LET r == reply[c]
    IN  /\ r.size \in Nat \ {0} /\ r.total \in Nat /\ r.junk \in Nat
        /\ r.size <= r.total /\ r.junk <= r.total

LEMMA StepMeasured == IInv /\ Measured /\ [Next]_vars => Measured'
<1> SUFFICES ASSUME IInv, Measured, [Next]_vars PROVE Measured'
  OBVIOUS
<1> /\ DOMAIN reply = Calls /\ pc \in [Calls -> {"new", "done"} \cup Waiting]
  BY DEF IInv, TypeOK
<1>1. ASSUME NEW c \in Calls, Send(c) \/ GiveUp(c) \/ Run(c) PROVE Measured'
  BY <1>1 DEF Send, GiveUp, Return, Run, Measured
<1>2. ASSUME NEW c \in Calls, NEW got, Read(c, got) PROVE Measured'
  <2>1. /\ pc' = [pc EXCEPT ![c] = "done"]
        /\ \A d \in Calls \ {c} : reply'[d] = reply[d]
    BY <1>2 DEF Read, Return
  <2> QED BY <2>1 DEF Measured
<1>3. ASSUME NEW c \in Calls, NEW d \in Calls, NEW form \in Forms, NEW l \in Lengths,
             Respond(c, d, form, l)
      PROVE  Measured'
  <2>1. /\ l.size \in Nat \ {0} /\ l.total \in Nat /\ l.junk \in Nat
        /\ l.size <= l.total /\ l.junk <= l.total
    BY SizeAssumption DEF Lengths
  <2>2. /\ reply'[c].size = l.size /\ reply'[c].total = l.total /\ reply'[c].junk = l.junk
        /\ \A e \in Calls \ {c} : reply'[e] = reply[e] /\ pc'[e] = pc[e]
    BY <1>3 DEF Respond
  <2> QED BY <2>1, <2>2 DEF Measured
<1>4. CASE UNCHANGED vars
  BY <1>4 DEF vars, Measured
<1>5. CASE Next
  <2>1. ASSUME NEW c \in Calls, ReadWhole(c) \/ ReadCut(c) PROVE \E got : Read(c, got)
    BY <2>1 DEF ReadWhole, ReadCut
  <2> QED BY <1>1, <1>2, <1>3, <1>5, <2>1 DEF Next
<1> QED BY <1>4, <1>5

LEMMA ReadableIs ==
  ASSUME NEW got \in Nat
  PROVE  /\ Readable(got) \in Nat /\ Limit = MaxResponseBytes + 1
         /\ got <= Limit => Readable(got) = got
         /\ got >= Limit => Readable(got) = Limit
<1>1. Limit \in Nat /\ Limit = MaxResponseBytes + 1
  BY SizeAssumption DEF Limit
<1>2. \A x \in {got, Limit} : (\A y \in {got, Limit} : x <= y) =>
         (got <= Limit => x = got) /\ (got >= Limit => x = Limit)
  BY <1>1
<1>3. \E x \in {got, Limit} : \A y \in {got, Limit} : x <= y
  BY <1>1
<1>4. /\ Min({got, Limit}) \in {got, Limit}
      /\ \A y \in {got, Limit} : Min({got, Limit}) <= y
  BY <1>3 DEF Min
<1> QED BY <1>1, <1>2, <1>4 DEF Readable

\* How many bytes the counter may have seen of a response whose form is given.
LEMMA CountedIs ==
  ASSUME NEW r, NEW got \in Nat, r.size \in Nat \ {0}, NEW n \in Counted(r, got)
  PROVE  /\ n \in Nat /\ n <= Readable(got)
         /\ Decodes(r, got) => r.size <= n
         /\ r.parses => n = Readable(got) \/ r.size <= n
<1>1. Readable(got) \in Nat
  BY ReadableIs
<1> QED BY <1>1 DEF Counted, Decodes

\* A response that call should return.
InOrder(c, r) ==
  /\ r.status /\ r.parses /\ r.version /\ r.id /\ r.of = c
  /\ r.result \in {"null", "data"} /\ ~r.error /\ r.junk = 0

\* The response of c is read and judged.
LEMMA JudgedHonestly ==
  ASSUME IInv, Measured, NEW c \in Calls, NEW got \in 0..reply[c].total, pc[c] = "reading",
         NEW n \in Counted(reply[c], got), verdict'[c] = Judged(c, reply[c], got, n)
  PROVE  LET r == reply[c]
         IN  /\ got = r.total /\ r.status /\ r.parses =>
                  (r.size > MaxResponseBytes => verdict'[c] = "too large")
             /\ InOrder(c, r) /\ got = r.total /\ r.total <= MaxResponseBytes => verdict'[c] = "ok"
             /\ verdict'[c] = "too large" => r.total > MaxResponseBytes
             /\ verdict'[c] = "ok" => /\ r.size <= MaxResponseBytes
                                     /\ r.junk \notin 1..MaxResponseBytes + 1
<1> DEFINE r == reply[c]
           max == MaxResponseBytes
           top == Readable(got)
<1>1. /\ r.size \in Nat \ {0} /\ r.total \in Nat /\ r.junk \in Nat
      /\ r.size <= r.total /\ r.junk <= r.total /\ got \in Nat /\ got <= r.total
  BY DEF Measured
<1>2. max \in Nat \ {0}
  BY SizeAssumption
<1>3. /\ top \in Nat /\ Limit = max + 1
      /\ got <= Limit => top = got
      /\ got >= Limit => top = Limit
  BY <1>1, ReadableIs
<1>4. /\ n \in Nat /\ n <= top
      /\ Decodes(r, got) => r.size <= n
      /\ r.parses => n = top \/ r.size <= n
  BY <1>1, CountedIs
<1> HIDE DEF r, max, top
<1>5. ASSUME got = r.total, r.status, r.parses, r.size > max PROVE verdict'[c] = "too large"
  <2>1. n > max
    BY <1>1, <1>2, <1>3, <1>4, <1>5
  <2> QED BY <1>5, <2>1 DEF Judged, r, max
<1>6. ASSUME InOrder(c, r), got = r.total, r.total <= max
      PROVE  verdict'[c] = "ok"
  <2>1. top = got
    BY <1>1, <1>2, <1>3, <1>6
  <2>2. ~(n > max) /\ r.size <= top
    BY <1>1, <1>2, <1>4, <1>6, <2>1
  <2>3. Decodes(r, got)
    BY <1>6, <2>2 DEF InOrder, Decodes, top
  <2>4. NothingFollows(r, got)
    BY <1>6 DEF InOrder, NothingFollows
  <2>5. AnswersRequest(c, r) /\ OneOfTwo(r)
    BY <1>6 DEF InOrder, AnswersRequest, OneOfTwo
  <2>6. Judged(c, r, got, n) = "ok"
    BY <1>6, <2>2, <2>3, <2>4, <2>5 DEF InOrder, Judged, max
  <2> QED BY <2>6 DEF r
<1>7. ASSUME verdict'[c] = "too large" PROVE r.total > max
  <2>1. n > max
    BY <1>7 DEF Judged, r, max
  <2> QED BY <1>1, <1>2, <1>3, <1>4, <2>1
<1>8. ASSUME verdict'[c] = "ok" PROVE r.size <= max /\ r.junk \notin 1..max + 1
  <2>1. /\ ~(n > max) /\ Decodes(r, got) /\ NothingFollows(r, got)
    BY <1>8, Accepted DEF r, max
  <2>2. r.size <= max
    BY <1>1, <1>2, <1>4, <2>1
  <2>3. /\ got = r.total \/ got >= Limit
        /\ r.junk = 0 \/ r.junk > top
    BY <2>1 DEF NothingFollows, top
  <2>4. r.junk \notin 1..max + 1
    BY <1>1, <1>2, <1>3, <2>3
  <2> QED BY <2>2, <2>4
<1>9. got = r.total /\ r.status /\ r.parses => (r.size > max => verdict'[c] = "too large")
  BY <1>5, Zenon
<1>11. InOrder(c, r) /\ got = r.total /\ r.total <= max => verdict'[c] = "ok"
  BY <1>6
<1>10. /\ verdict'[c] = "too large" => r.total > max
       /\ verdict'[c] = "ok" => r.size <= max /\ r.junk \notin 1..max + 1
  BY <1>7, <1>8
<1> QED BY <1>9, <1>10, <1>11 DEF r, max

\* A step that ends the reading of c reads c's response.
LEMMA OnlyReadEnds ==
  ASSUME IInv, Measured, [Next]_vars, NEW c \in Calls, pc[c] = "reading", pc'[c] = "done"
  PROVE  \E got \in 0..reply[c].total : Read(c, got)
<1> /\ pc \in [Calls -> {"new", "done"} \cup Waiting]
  BY DEF IInv, TypeOK
<1>1. ASSUME NEW d \in Calls, Send(d) \/ GiveUp(d) \/ Run(d) PROVE FALSE
  BY <1>1 DEF Send, GiveUp, Return, Run
<1>2. ASSUME NEW d \in Calls, NEW e \in Calls, NEW form \in Forms, NEW l \in Lengths,
             Respond(d, e, form, l)
      PROVE  FALSE
  BY <1>2 DEF Respond
<1>3. ASSUME NEW d \in Calls, ReadWhole(d) \/ ReadCut(d)
      PROVE  \E got \in 0..reply[c].total : Read(c, got)
  <2>1. pc[d] = "reading" /\ pc' = [pc EXCEPT ![d] = "done"]
    BY <1>3 DEF ReadWhole, ReadCut, Read, Return
  <2>2. d = c
    BY <2>1
  <2>3. reply[c].total \in Nat
    BY DEF Measured
  <2> QED BY <1>3, <2>2, <2>3 DEF ReadWhole, ReadCut
<1>4. ~ UNCHANGED vars
  BY DEF vars
<1> QED BY <1>1, <1>2, <1>3, <1>4 DEF Next

\* The limit means the same whatever chunks a response comes in, for any limit
\* and any length.  (byteCountReader in mcp_http_client.go)
THEOREM TheLimitIsHonest == Spec => LimitHonest
<1> DEFINE Honest(c) ==
      LET r       == reply[c]
          inOrder == /\ r.status /\ r.parses /\ r.version /\ r.id /\ r.of = c
                     /\ r.result \in {"null", "data"} /\ ~r.error /\ r.junk = 0
      IN  /\ ReadWhole(c) /\ r.status /\ r.parses =>
                (r.size > MaxResponseBytes => verdict'[c] = "too large")
          /\ ReadWhole(c) /\ inOrder /\ r.total <= MaxResponseBytes => verdict'[c] = "ok"
          /\ verdict'[c] = "too large" => r.total > MaxResponseBytes
          /\ verdict'[c] = "ok" => /\ r.size <= MaxResponseBytes
                                  /\ r.junk \notin 1..MaxResponseBytes + 1
<1>1. Init => IInv /\ Measured
  BY InitIInv DEF Init, Measured
<1>2. IInv /\ Measured /\ [Next]_vars => IInv' /\ Measured'
  BY StepIInv, StepMeasured
<1>3. ASSUME IInv, Measured, [Next]_vars, NEW c \in Calls, pc[c] = "reading", pc'[c] = "done"
      PROVE  Honest(c)
  <2>1. verdict \in [Calls -> Verdicts] /\ reply[c].total \in Nat
    BY <1>3 DEF IInv, TypeOK, Measured
  <2>2. ASSUME NEW got, Read(c, got)
        PROVE  \E n \in Counted(reply[c], got) : verdict'[c] = Judged(c, reply[c], got, n)
    BY <2>1, <2>2 DEF Read, Return
  <2>3. PICK got \in 0..reply[c].total : Read(c, got)
    BY <1>3, OnlyReadEnds
  <2>4. PICK n \in Counted(reply[c], got) : verdict'[c] = Judged(c, reply[c], got, n)
    BY <2>2, <2>3
  <2>5. /\ verdict'[c] = "too large" => reply[c].total > MaxResponseBytes
        /\ verdict'[c] = "ok" => /\ reply[c].size <= MaxResponseBytes
                                /\ reply[c].junk \notin 1..MaxResponseBytes + 1
    BY <1>3, <2>4, JudgedHonestly
  <2>6. ASSUME ReadWhole(c)
        PROVE  \E n2 \in Counted(reply[c], reply[c].total) :
                 verdict'[c] = Judged(c, reply[c], reply[c].total, n2)
    BY <2>2, <2>6 DEF ReadWhole
  <2>7. reply[c].total \in 0..reply[c].total
    BY <2>1
  <2>8. ASSUME ReadWhole(c)
        PROVE  LET r == reply[c]
               IN  /\ r.status /\ r.parses =>
                        (r.size > MaxResponseBytes => verdict'[c] = "too large")
                   /\ InOrder(c, r) /\ r.total <= MaxResponseBytes => verdict'[c] = "ok"
    BY <1>3, <2>6, <2>7, <2>8, JudgedHonestly
  <2> QED BY <2>5, <2>8 DEF InOrder
<1>4. IInv /\ Measured /\ [Next]_vars =>
        [\A c \in Calls : pc[c] = "reading" /\ pc'[c] = "done" => Honest(c)]_vars
  BY <1>3
<1> QED BY <1>1, <1>2, <1>4, PTL DEF Spec, LimitHonest
=============================================================================
