---------------------------- MODULE Gateway_proofs ----------------------------
(***************************************************************************)
(* Proofs about Gateway, for any number of handlers, clients, tools,       *)
(* policies, requests, sessions and reloads, in every mode of the log.     *)
(***************************************************************************)
EXTENDS Gateway, FiniteSetTheorems, TLAPS

Steps == {"idle", "initialize", "resolve", "list", "filter", "evaluate", "forward",
          "upstream", "log", "reply"}
Methods == {"initialize", "notifications/initialized", "tools/list", "tools/call"}
Codes == {"none", "result", "no_content", "session_error", "upstream_error",
          "policy_denied", "rate_limited"}
Request ==
  [n : Nat, method : Methods \cup {"none"}, client : Clients \cup {NoClient}, session : Nat,
   call : [tool : Tools \cup {""}, args : {<< >>}], todo : SUBSET Tools, listed : SUBSET Tools,
   event : Nat, logged : {"nothing", "accepted", "dropped", "refused"}, code : Codes]

Typed ==
  /\ server \in {"running", "draining", "closing", "closed"} /\ failClosed \in BOOLEAN
  /\ policy \in Policies
  /\ issued \in Nat /\ arrived \in Nat /\ clock \in Nat
  /\ pc \in [Handlers -> Steps] /\ req \in [Handlers -> Request]
  /\ inForce \in [Handlers -> SUBSET Policies]
  /\ DOMAIN events = 1..clock /\ DOMAIN answers \subseteq 1..arrived
  /\ DOMAIN published \subseteq 1..issued
  /\ queue \in Seq(Nat)
  /\ counted \in [{"allow", "deny"} -> Nat]

\* What Log has taken, wherever it is now.
Taken == Range(queue) \cup rows \cup reported

\* Requests have numbers of their own, which have no answer yet; those that
\* open a session have an id of their own, which nobody has been told.
Opener(h) == pc[h] # "idle" /\ req[h].method = "initialize"
Apart ==
  /\ \A h \in Handlers : pc[h] # "idle" =>
       /\ req[h].n \in 1..arrived /\ req[h].n \notin DOMAIN answers
       /\ req[h].method \in Methods
       /\ pc[h] = "initialize" => req[h].method = "initialize"
       /\ pc[h] \in Deciding => req[h].method # "initialize"
  /\ \A g, h \in Handlers : g # h /\ pc[g] # "idle" /\ pc[h] # "idle" => req[g].n # req[h].n
  /\ \A h \in Handlers : Opener(h) =>
       req[h].session \in 1..issued /\ req[h].session \notin DOMAIN published
  /\ \A g, h \in Handlers : g # h /\ Opener(g) /\ Opener(h) => req[g].session # req[h].session

\* A session in the table, or of a handler past resolveSession, is its
\* client's, who has been told it.
HasSession(h) == req[h].session \in DOMAIN published /\ published[req[h].session] = req[h].client
Owned ==
  /\ \A s \in DOMAIN sessions : s \in DOMAIN published /\ published[s] = sessions[s]
  /\ \A h \in Handlers : pc[h] \in Deciding \ {"resolve"} => HasSession(h)

\* The event of a handler in or after Log says what its request and its answer
\* say; Log has it, has taken it, or has refused it.
Says(code, decision) ==
  /\ decision \in {"allow", "deny"}
  /\ code \in Audited => (decision = "allow" <=> code \in {"result", "upstream_error"})
Recorded ==
  /\ held \cup Taken \cup refused \subseteq 1..clock
  /\ held \cap (Taken \cup refused) = {} /\ Taken \cap refused = {}
  /\ held = {req[h].event : h \in {g \in Handlers : pc[g] = "log"}}
  /\ \A h \in Handlers : pc[h] \in {"log", "reply"} =>
       /\ req[h].event \in 1..clock
       /\ LET e == events[req[h].event]
          IN  /\ e.n = req[h].n /\ e.action = req[h].method
              /\ e.session = req[h].session /\ e.client = req[h].client
              /\ Says(req[h].code, e.decision)
  /\ \A h \in Handlers : pc[h] = "reply" =>
       /\ req[h].logged \in {"accepted", "dropped"} => req[h].event \in Taken
       /\ req[h].logged \notin {"accepted", "dropped"} => req[h].logged = "refused" /\ failClosed

\* A session's first event, and that its caller has had the answer.
Opening(f, session, client) ==
  /\ Opens(f, session, client)
  /\ events[f].n \in DOMAIN answers
  /\ failClosed => answers[events[f].n].logged = "accepted"
Opened ==
  /\ \A s \in DOMAIN published : \E f \in 1..clock : Opening(f, s, published[s])
  /\ \A e \in 1..clock :
       events[e].action # "initialize" /\ events[e].outcome # "session" =>
         \E f \in 1..(e - 1) : Opening(f, events[e].session, events[e].client)

\* A handler that decides knows the policy in force; one that forwards found
\* one that allows its call.
Known ==
  /\ \A h \in Handlers : pc[h] \in Deciding => policy \in inForce[h]
  /\ \A h \in Handlers : pc[h] = "forward" =>
       \E p \in inForce[h] : Evaluate(p, req[h].call).action = "allow"

\* A call that was handed over: a policy allowed it, its session was its
\* caller's, and its handler waits or has submitted the event.
Lawful(x) ==
  /\ \E p \in x.inForce : Evaluate(p, x.call).action = "allow"
  /\ x.session \in DOMAIN published /\ published[x.session] = x.client
  /\ Submitted(x) \/ Awaited(x)
Handed == executed \subseteq forwarded /\ \A x \in forwarded : Lawful(x)

IInv ==
  /\ Typed /\ Apart /\ Owned /\ Recorded /\ Opened /\ Known /\ Handed
  /\ AnswersLogged /\ CountsAgree /\ ListingHonest /\ ClosedLast

-----------------------------------------------------------------------------
LEMMA NoRequestTyped == NoRequest \in Request
BY DEF NoRequest, Request, Methods, Codes, NoCall, None

LEMMA InitIInv == Init => IInv
<1> SUFFICES ASSUME Init PROVE IInv
  OBVIOUS
<1>1. Typed
  BY NoRequestTyped, PolicyAssumption DEF Init, Typed, Steps, Trail!Init
<1>2. Apart /\ Owned /\ Opened /\ Known
  BY DEF Init, Apart, Opener, Owned, Opened, Known, Deciding, Trail!Init
<1>3. Recorded
  BY DEF Init, Recorded, Taken, Range, Trail!Init
<1>4. AnswersLogged /\ Handed /\ ClosedLast
  BY DEF Init, AnswersLogged, Handed, ClosedLast
<1>6. CountsAgree
  <2>1. CountedIn("allow") = {} /\ CountedIn("deny") = {}
    BY DEF Init, CountedIn
  <2>2. DOMAIN counted = {"allow", "deny"} /\ \A d \in DOMAIN counted : counted[d] = 0
    BY DEF Init
  <2> QED BY <2>1, <2>2, FS_EmptySet DEF CountsAgree
<1>5. ListingHonest
  BY DEF Init, ListingHonest, NoRequest
<1> QED BY <1>1, <1>2, <1>3, <1>4, <1>5, <1>6 DEF IInv

-----------------------------------------------------------------------------
(* What the steps of a handler have in common.                             *)

\* A request that is admitted.
LEMMA InputTyped ==
  ASSUME NEW in \in Inputs, Admitted(in)
  PROVE  /\ in.method \in Methods /\ in.client \in Clients
         /\ in.call \in [tool : Tools \cup {""}, args : {<< >>}]
         /\ in.method # "initialize" => in.session \in DOMAIN published \cup {None}
<1> DEFINE calls == {[tool |-> tool, args |-> << >>] : tool \in Tools} \cup {NoCall}
<1>1. NoCall \in calls /\ \A call \in calls : call \in [tool : Tools \cup {""}, args : {<< >>}]
  <2>1. ASSUME NEW tool \in Tools
        PROVE  [tool |-> tool, args |-> << >>] \in [tool : Tools \cup {""}, args : {<< >>}]
    OBVIOUS
  <2>2. NoCall \in [tool : Tools \cup {""}, args : {<< >>}]
    BY DEF NoCall
  <2> DEFINE T == [tool : Tools \cup {""}, args : {<< >>}]
  <2> HIDE DEF T
  <2>3. \A tool \in Tools : [tool |-> tool, args |-> << >>] \in T
    BY <2>1 DEF T
  <2>4. NoCall \in T
    BY <2>2 DEF T
  <2>5. \A call \in calls : call \in T
    BY <2>3, <2>4
  <2> QED BY <2>5 DEF T
<1>2. \/ \E c \in Clients, m \in Methods \cup {"other"}, s \in DOMAIN published \cup {None}, call \in calls :
           in = Input(c, m, s, call) /\ (m = "initialize" => s = None)
      \/ \E c \in Clients \cup {NoClient} : in = Input(c, "other", None, NoCall)
      \/ in.flaw # "none"
  <2>1. \/ \E c \in Clients : in = Input(c, "initialize", None, NoCall)
        \/ \E c \in Clients, s \in DOMAIN published, m \in {"tools/list", "notifications/initialized"} :
             in = Input(c, m, s, NoCall)
        \/ \E c \in Clients : in = Input(c, "notifications/initialized", None, NoCall)
        \/ \E c \in Clients, s \in DOMAIN published, call \in calls : in = Input(c, "tools/call", s, call)
        \/ \E c \in Clients : in = Input(c, "tools/call", None, NoCall)
        \/ \E c \in Clients \cup {NoClient} : in = Input(c, "other", None, NoCall)
        \/ \E f \in {"too_large", "parse_error", "invalid_request"} :
             in = [Input(NoClient, "other", None, NoCall) EXCEPT !.flaw = f]
    BY SMTT(30) DEF Inputs
  <2>2. ASSUME NEW f \in {"too_large", "parse_error", "invalid_request"},
               in = [Input(NoClient, "other", None, NoCall) EXCEPT !.flaw = f]
        PROVE  in.flaw # "none"
    BY <2>2 DEF Input
  <2>3. NoCall \in calls
    BY <1>1
  <2> HIDE DEF calls
  <2> QED BY <2>1, <2>2, <2>3 DEF Methods
<1>3. ASSUME NEW c, NEW m, NEW s, NEW call, in = Input(c, m, s, call)
      PROVE  /\ in.method = m /\ in.client = c /\ in.session = s /\ in.call = call
             /\ in.notification <=> m = "notifications/initialized"
  BY <1>3 DEF Input
<1> HIDE DEF calls
<1>4. ASSUME NEW c \in Clients, NEW m \in Methods \cup {"other"}, NEW s \in DOMAIN published \cup {None},
             NEW call \in calls, in = Input(c, m, s, call)
      PROVE  m \in Methods
  BY <1>3, <1>4 DEF Admitted, Methods
<1>5. ASSUME NEW c, in = Input(c, "other", None, NoCall)
      PROVE  FALSE
  BY <1>3, <1>5 DEF Admitted
<1>6. in.flaw = "none"
  BY DEF Admitted
<1>7. PICK c \in Clients, m \in Methods \cup {"other"}, s \in DOMAIN published \cup {None}, call \in calls :
        in = Input(c, m, s, call)
  BY <1>2, <1>5, <1>6
<1>8. in.method = m /\ in.client = c /\ in.session = s /\ in.call = call
  BY <1>3, <1>7
<1> QED BY <1>1, <1>4, <1>7, <1>8

\* Submit, with what holds whenever a handler calls it.
Submits(h, decision, outcome, code) ==
  /\ pc[h] \in Deciding \cup {"initialize"}
  /\ Submit(h, decision, outcome, code)
  /\ pc[h] = "initialize" \/ outcome = "session" \/ HasSession(h)
  /\ code \in Codes /\ Says(code, decision)
  /\ pc[h] = "upstream" => decision = "allow"
  /\ \A s \in DOMAIN sessions' : s \in DOMAIN sessions /\ sessions'[s] = sessions[s]
  /\ UNCHANGED <<server, failClosed, policy, issued, published, counted, answers, forwarded,
                 executed, bounds>>

\* A step from one point of a handler to another before it submits its event.
Moves(h, step) ==
  /\ pc[h] \in Deciding \ {"upstream"} /\ step \in Deciding \ {"resolve"}
  /\ pc' = [pc EXCEPT ![h] = step]
  /\ HasSession(h)
  /\ req' \in [Handlers -> Request]
  /\ \A g \in Handlers : g # h => req'[g] = req[g]
  /\ req'[h].n = req[h].n /\ req'[h].method = req[h].method
  /\ req'[h].client = req[h].client /\ req'[h].session = req[h].session
  /\ req'[h].call = req[h].call
  /\ UNCHANGED <<server, failClosed, tables, counted, trail, events, answers, executed, inForce, bounds>>
  /\ forwarded \subseteq forwarded'

\* What Submit does, in parts.
LEMMA SubmitFacts ==
  ASSUME Typed, NEW h \in Handlers, NEW decision, NEW outcome, NEW code,
         Submits(h, decision, outcome, code)
  PROVE  /\ pc' = [pc EXCEPT ![h] = "log"]
         /\ inForce' = [inForce EXCEPT ![h] = {}]
         /\ req' \in [Handlers -> Request]
         /\ \A g \in Handlers : g # h => req'[g] = req[g]
         /\ req'[h].n = req[h].n /\ req'[h].method = req[h].method
         /\ req'[h].client = req[h].client /\ req'[h].session = req[h].session
         /\ req'[h].event = clock + 1 /\ req'[h].code = code /\ req'[h].listed = {}
         /\ clock' = clock + 1 /\ held' = held \cup {clock + 1}
         /\ UNCHANGED <<queue, rows, reported, refused>>
         /\ DOMAIN events' = 1..(clock + 1)
         /\ \A e \in 1..clock : events'[e] = events[e]
         /\ events'[clock + 1] =
              [n |-> req[h].n, action |-> req[h].method, client |-> req[h].client,
               session |-> req[h].session, decision |-> decision, outcome |-> outcome]
<1>1. /\ pc' = [pc EXCEPT ![h] = "log"] /\ inForce' = [inForce EXCEPT ![h] = {}]
      /\ clock' = clock + 1 /\ held' = held \cup {clock + 1}
      /\ UNCHANGED <<queue, rows, reported, refused>>
  BY DEF Submits, Submit, Go, Trail!Submit
<1>2. req' = [req EXCEPT ![h] = [req[h] EXCEPT !.event = clock + 1, !.code = code, !.call = NoCall, !.listed = {}]]
  BY DEF Submits, Submit
<1>3. req[h] \in Request /\ clock + 1 \in Nat /\ code \in Codes
  BY DEF Typed, Submits
<1>4. NoCall \in [tool : Tools \cup {""}, args : {<< >>}]
  BY DEF NoCall
<1> DEFINE r == [req[h] EXCEPT !.event = clock + 1, !.code = code, !.call = NoCall, !.listed = {}]
<1>5. /\ r \in Request
      /\ r.n = req[h].n /\ r.method = req[h].method /\ r.client = req[h].client
      /\ r.session = req[h].session /\ r.event = clock + 1 /\ r.code = code /\ r.listed = {}
  BY <1>3, <1>4 DEF Request
<1>6. req \in [Handlers -> Request] /\ req' = [req EXCEPT ![h] = r]
  BY <1>2 DEF Typed
<1> HIDE DEF r
<1>7. /\ req' \in [Handlers -> Request] /\ req'[h] = r
      /\ \A g \in Handlers : g # h => req'[g] = req[g]
  BY <1>5, <1>6
<1>8. /\ DOMAIN events' = 1..(clock + 1)
      /\ \A e \in 1..clock : events'[e] = events[e]
      /\ events'[clock + 1] =
              [n |-> req[h].n, action |-> req[h].method, client |-> req[h].client,
               session |-> req[h].session, decision |-> decision, outcome |-> outcome]
  BY DEF Submits, Submit, With, Typed
<1> QED BY <1>1, <1>5, <1>7, <1>8

\* What becomes of Opened in a step that keeps the events and the answers there
\* are, and takes nothing back that Log has taken.
Keeps ==
  /\ \A e \in 1..clock : events'[e] = events[e]
  /\ DOMAIN answers \subseteq DOMAIN answers'
  /\ \A n \in DOMAIN answers : answers'[n] = answers[n]
  /\ (held' \cup refused') \cap (1..clock) \subseteq held \cup refused
  /\ failClosed' = failClosed
  /\ clock' \in Nat /\ clock' >= clock
  /\ DOMAIN events' = 1..clock'

LEMMA OpeningStays ==
  ASSUME Typed, Keeps, NEW f \in 1..clock, NEW s, NEW c, Opening(f, s, c)
  PROVE  Opening(f, s, c)'
BY DEF Typed, Keeps, Opening, Opens

LEMMA EventsStayOpened ==
  ASSUME Typed, Keeps, Opened
  PROVE  \A e \in 1..clock :
           events'[e].action # "initialize" /\ events'[e].outcome # "session" =>
             \E f \in 1..(e - 1) : Opening(f, events[e].session, events[e].client)'
<1> SUFFICES ASSUME NEW e \in 1..clock, events'[e].action # "initialize", events'[e].outcome # "session"
             PROVE  \E f \in 1..(e - 1) : Opening(f, events[e].session, events[e].client)'
  OBVIOUS
<1>1. events'[e] = events[e]
  BY DEF Keeps
<1>2. PICK f \in 1..(e - 1) : Opening(f, events[e].session, events[e].client)
  BY <1>1 DEF Opened
<1>3. f \in 1..clock
  BY DEF Typed
<1>4. Opening(f, events[e].session, events[e].client)'
  BY <1>1, <1>2, <1>3 DEF Typed, Keeps, Opening, Opens
<1> QED BY <1>4

LEMMA AnswersStayAudited ==
  ASSUME Typed, Keeps, NEW n \in DOMAIN answers, AnswersLogged,
         Taken \subseteq Taken', answers[n].code \in Audited
  PROVE  LET a == answers'[n]
         IN  /\ a.event \in DOMAIN events' /\ events'[a.event].n = n
             /\ events'[a.event].decision = "allow" <=> a.code \in {"result", "upstream_error"}
             /\ a.event \in Range(queue') \cup rows' \cup reported'
             /\ failClosed' => a.logged = "accepted"
BY DEF Typed, Keeps, AnswersLogged, Taken

\* A handler that waits goes on waiting, or submits its event.
StillAwaited ==
  \A h \in Handlers : pc[h] = "upstream" =>
    \/ pc'[h] = "upstream" /\ req'[h].n = req[h].n
    \/ \E e \in DOMAIN events' : events'[e].n = req[h].n /\ events'[e].decision = "allow"

LEMMA LawfulStays ==
  ASSUME Typed, Keeps, StillAwaited, NEW x, Lawful(x),
         \A s \in DOMAIN published : s \in DOMAIN published' /\ published'[s] = published[s]
  PROVE  Lawful(x)'
<1>1. /\ \E p \in x.inForce : Evaluate(p, x.call).action = "allow"
      /\ x.session \in DOMAIN published' /\ published'[x.session] = x.client
  BY DEF Lawful
<1>2. CASE Submitted(x)
  <2>1. PICK e \in 1..clock : events[e].n = x.n /\ events[e].decision = "allow"
    BY <1>2 DEF Submitted, Typed
  <2>2. e \in DOMAIN events' /\ events'[e] = events[e]
    BY <2>1 DEF Keeps, Typed
  <2>3. Submitted(x)'
    BY <2>1, <2>2 DEF Submitted
  <2> QED BY <1>1, <2>3 DEF Lawful
<1>3. CASE Awaited(x)
  <2>1. PICK h \in Handlers : pc[h] = "upstream" /\ req[h].n = x.n
    BY <1>3 DEF Awaited
  <2>2. Submitted(x)' \/ Awaited(x)'
    BY <2>1 DEF StillAwaited, Submitted, Awaited
  <2> QED BY <1>1, <2>2 DEF Lawful
<1> QED BY <1>2, <1>3 DEF Lawful

LEMMA HandedStays ==
  ASSUME Typed, Keeps, StillAwaited, Handed, UNCHANGED <<forwarded, executed>>,
         \A s \in DOMAIN published : s \in DOMAIN published' /\ published'[s] = published[s]
  PROVE  Handed'
<1>1. ASSUME NEW x \in forwarded
      PROVE  Lawful(x)'
  BY LawfulStays DEF Handed
<1> QED BY <1>1 DEF Handed

\* The counters stay as right as they are while no request is answered that
\* they should count.
LEMMA CountsStay ==
  ASSUME Typed, Keeps, AnswersLogged, CountsAgree, UNCHANGED counted,
         \A n \in DOMAIN answers' : n \in DOMAIN answers \/ answers'[n].code \notin Audited
  PROVE  CountsAgree'
<1>1. ASSUME NEW d
      PROVE  CountedIn(d)' = CountedIn(d)
  <2>1. ASSUME NEW n \in DOMAIN answers, answers[n].code \in Audited
        PROVE  answers'[n] = answers[n] /\ events'[answers[n].event] = events[answers[n].event]
    BY <2>1 DEF Typed, Keeps, AnswersLogged
  <2> QED BY <2>1 DEF CountedIn, Keeps
<1> QED BY <1>1 DEF CountsAgree

-----------------------------------------------------------------------------
(* A handler submits its event.                                            *)

LEMMA SubmitKeeps ==
  ASSUME IInv, NEW h \in Handlers, NEW decision, NEW outcome, NEW code,
         Submits(h, decision, outcome, code)
  PROVE  /\ Typed' /\ Apart' /\ Owned' /\ Recorded' /\ Opened' /\ Known'
         /\ AnswersLogged' /\ Handed' /\ CountsAgree' /\ ListingHonest' /\ ClosedLast' /\ Keeps
<1> /\ Typed /\ Apart /\ Owned /\ Recorded /\ Opened /\ Known
    /\ Handed /\ AnswersLogged /\ CountsAgree /\ ListingHonest /\ ClosedLast
  BY DEF IInv
<1>1. /\ pc' = [pc EXCEPT ![h] = "log"]
      /\ inForce' = [inForce EXCEPT ![h] = {}]
      /\ req' \in [Handlers -> Request]
      /\ \A g \in Handlers : g # h => req'[g] = req[g]
      /\ req'[h].n = req[h].n /\ req'[h].method = req[h].method
      /\ req'[h].client = req[h].client /\ req'[h].session = req[h].session
      /\ req'[h].event = clock + 1 /\ req'[h].code = code /\ req'[h].listed = {}
  <2>1. pc' = [pc EXCEPT ![h] = "log"] /\ inForce' = [inForce EXCEPT ![h] = {}]
    BY DEF Submits, Submit, Go
  <2>2. req' \in [Handlers -> Request] /\ \A g \in Handlers : g # h => req'[g] = req[g]
    BY SubmitFacts
  <2>3. /\ req'[h].n = req[h].n /\ req'[h].method = req[h].method
        /\ req'[h].client = req[h].client /\ req'[h].session = req[h].session
    BY SubmitFacts
  <2>4. req'[h].event = clock + 1
    BY SubmitFacts
  <2>5. req'[h].code = code
    <3>1. req' = [req EXCEPT ![h] = [req[h] EXCEPT !.event = clock + 1, !.code = code,
                                                   !.call = NoCall, !.listed = {}]]
      BY DEF Submits, Submit
    <3>2. req \in [Handlers -> Request] /\ "code" \in DOMAIN req[h]
      BY DEF Typed, Request
    <3>3. req'[h] = [req[h] EXCEPT !.event = clock + 1, !.code = code, !.call = NoCall, !.listed = {}]
      BY <3>1, <3>2
    <3> QED BY <3>2, <3>3
  <2>6. req'[h].listed = {}
    BY SubmitFacts
  <2> QED BY <2>1, <2>2, <2>3, <2>4, <2>5, <2>6
<1>2. /\ clock' = clock + 1 /\ held' = held \cup {clock + 1}
      /\ UNCHANGED <<queue, rows, reported, refused>>
      /\ DOMAIN events' = 1..(clock + 1)
      /\ \A e \in 1..clock : events'[e] = events[e]
      /\ events'[clock + 1] =
           [n |-> req[h].n, action |-> req[h].method, client |-> req[h].client,
            session |-> req[h].session, decision |-> decision, outcome |-> outcome]
  BY SubmitFacts
<1>3. /\ pc[h] \in Deciding \cup {"initialize"}
      /\ pc[h] = "initialize" \/ outcome = "session" \/ HasSession(h)
      /\ Says(code, decision)
      /\ \A s \in DOMAIN sessions' : s \in DOMAIN sessions /\ sessions'[s] = sessions[s]
      /\ UNCHANGED <<server, failClosed, policy, issued, published, counted, answers, forwarded,
                     executed, arrived, fatal>>
      /\ pc[h] = "upstream" => decision = "allow"
  BY DEF Submits, bounds
<1>4. pc' \in [Handlers -> Steps] /\ pc'[h] = "log" /\ \A g \in Handlers : g # h => pc'[g] = pc[g]
  BY <1>1 DEF Typed, Steps
<1>5. Typed'
  BY <1>1, <1>2, <1>3, <1>4 DEF Typed
<1>6. Apart'
  BY <1>1, <1>3, <1>4 DEF Apart, Opener, Deciding
<1>7. Owned'
  BY <1>1, <1>3, <1>4 DEF Owned, HasSession, Deciding
<1>8. Keeps
  BY <1>2, <1>3 DEF Keeps, Typed, Recorded
<1>9. Recorded'
  <2>1. Taken' = Taken
    BY <1>2 DEF Taken
  <2>2. held' \cup Taken' \cup refused' \subseteq 1..clock'
    BY <1>2, <2>1 DEF Recorded, Typed
  <2>3. held' \cap (Taken' \cup refused') = {} /\ Taken' \cap refused' = {}
    BY <1>2, <2>1 DEF Recorded, Typed
  <2>4. pc[h] # "log"
    BY <1>3 DEF Deciding
  <2>5. held' = {req'[g].event : g \in {i \in Handlers : pc'[i] = "log"}}
    <3>1. {i \in Handlers : pc'[i] = "log"} = {i \in Handlers : pc[i] = "log"} \cup {h}
      BY <1>4
    <3> QED BY <1>1, <1>2, <2>4, <3>1 DEF Recorded
  <2>6. ASSUME NEW g \in Handlers, pc'[g] \in {"log", "reply"}
        PROVE  /\ req'[g].event \in 1..clock'
               /\ events'[req'[g].event].n = req'[g].n /\ events'[req'[g].event].action = req'[g].method
               /\ events'[req'[g].event].session = req'[g].session
               /\ events'[req'[g].event].client = req'[g].client
               /\ Says(req'[g].code, events'[req'[g].event].decision)
    BY <1>1, <1>2, <1>3, <1>4, <2>6 DEF Recorded, Typed
  <2>7. ASSUME NEW g \in Handlers, pc'[g] = "reply"
        PROVE  /\ req'[g].logged \in {"accepted", "dropped"} => req'[g].event \in Taken'
               /\ req'[g].logged \notin {"accepted", "dropped"} => req'[g].logged = "refused" /\ failClosed'
    BY <1>1, <1>3, <1>4, <2>1, <2>7 DEF Recorded
  <2> QED BY <2>2, <2>3, <2>5, <2>6, <2>7 DEF Recorded
<1>10. Opened'
  <2>1. ASSUME NEW s \in DOMAIN published
        PROVE  \E f \in 1..clock' : Opening(f, s, published[s])'
    <3>1. PICK f \in 1..clock : Opening(f, s, published[s])
      BY DEF Opened
    <3>2. published'[s] = published[s]
      BY <1>3
    <3>3. ASSUME NEW c, c = published[s]
          PROVE  Opening(f, s, c)'
      BY <1>8, <3>1, <3>3, OpeningStays
    <3>4. Opening(f, s, published[s])'
      BY <3>2, <3>3 DEF Opening, Opens
    <3> QED BY <1>2, <3>4 DEF Typed
  <2>2. ASSUME req[h].method # "initialize", outcome # "session"
        PROVE  \E f \in 1..clock : Opening(f, req[h].session, req[h].client)'
    <3>1. HasSession(h)
      BY <1>3, <2>2 DEF Apart
    <3>2. PICK f \in 1..clock : Opening(f, req[h].session, req[h].client)
      BY <3>1 DEF Opened, HasSession
    <3>3. Opening(f, req[h].session, req[h].client)'
      BY <1>1, <1>8, <3>2 DEF Typed, Keeps, Opening, Opens
    <3> QED BY <3>3
  <2>3. ASSUME NEW e \in 1..clock', events'[e].action # "initialize", events'[e].outcome # "session"
        PROVE  \E f \in 1..(e - 1) : Opening(f, events[e].session, events[e].client)'
    <3>1. CASE e \in 1..clock
      BY <1>8, <2>3, <3>1, EventsStayOpened
    <3>2. CASE e = clock + 1
      <4>1. req[h].method # "initialize" /\ outcome # "session"
        BY <1>2, <2>3, <3>2
      <4>2. PICK f \in 1..clock : Opening(f, req[h].session, req[h].client)'
        BY <2>2, <4>1
      <4>3. Opening(f, events[e].session, events[e].client)'
        BY <1>1, <1>2, <3>2, <4>2 DEF Opening, Opens
      <4> QED BY <3>2, <4>2, <4>3 DEF Typed
    <3> QED BY <1>2, <3>1, <3>2 DEF Typed
  <2> QED BY <1>3, <2>1, <2>3 DEF Opened
<1>11. Known'
  BY <1>1, <1>3, <1>4 DEF Known, Deciding, Typed
<1>12. AnswersLogged'
  <2>1. Taken \subseteq Taken'
    BY <1>2 DEF Taken
  <2> QED BY <1>3, <1>8, <2>1, AnswersStayAudited DEF AnswersLogged
<1>13. ListingHonest'
  BY <1>1 DEF ListingHonest, Typed
<1>14. ClosedLast'
  BY <1>2, <1>3, <1>4 DEF ClosedLast, Deciding
<1>15. StillAwaited
  <2>1. ASSUME pc[h] = "upstream"
        PROVE  \E e \in DOMAIN events' : events'[e].n = req[h].n /\ events'[e].decision = "allow"
    <3>1. clock + 1 \in DOMAIN events'
      BY <1>2 DEF Typed
    <3> QED BY <1>2, <1>3, <2>1, <3>1
  <2> QED BY <1>1, <1>4, <2>1 DEF StillAwaited
<1>16. Handed'
  BY <1>3, <1>8, <1>15, HandedStays
<1>17. CountsAgree'
  BY <1>3, <1>8, CountsStay
<1> QED BY <1>5, <1>6, <1>7, <1>8, <1>9, <1>10, <1>11, <1>12, <1>13, <1>14, <1>16, <1>17

-----------------------------------------------------------------------------
(* A handler goes on, and Log returns.                                     *)

\* When the events, the answers and the sessions stay, so does Opened.
LEMMA StayOpened ==
  ASSUME Typed, Opened, Keeps, UNCHANGED <<clock, published>>
  PROVE  Opened'
<1>1. ASSUME NEW s \in DOMAIN published
      PROVE  \E f \in 1..clock' : Opening(f, s, published[s])'
  <2>1. PICK f \in 1..clock : Opening(f, s, published[s])
    BY DEF Opened
  <2>2. ASSUME NEW c, c = published[s]
        PROVE  Opening(f, s, c)'
    BY <2>1, <2>2, OpeningStays
  <2>3. Opening(f, s, published[s])'
    BY <2>2 DEF Opening, Opens
  <2> QED BY <2>3
<1>2. \A e \in 1..clock :
        events'[e].action # "initialize" /\ events'[e].outcome # "session" =>
          \E f \in 1..(e - 1) : Opening(f, events[e].session, events[e].client)'
  BY EventsStayOpened
<1> QED BY <1>1, <1>2 DEF Opened

LEMMA MoveKeeps ==
  ASSUME IInv, NEW h \in Handlers, NEW step, Moves(h, step),
         step = "forward" => Evaluate(policy, req[h].call).action = "allow",
         \A tool \in req'[h].listed : tool \in req[h].listed \/ tool \in policy.surface,
         \A x \in forwarded' : x \in forwarded \/ Lawful(x)'
  PROVE  IInv'
<1> /\ Typed /\ Apart /\ Owned /\ Recorded /\ Opened /\ Known
    /\ Handed /\ AnswersLogged /\ CountsAgree /\ ListingHonest /\ ClosedLast
  BY DEF IInv
<1>1. /\ pc[h] \in Deciding \ {"upstream"} /\ step \in Deciding \ {"resolve"}
      /\ pc' = [pc EXCEPT ![h] = step]
      /\ HasSession(h)
      /\ req' \in [Handlers -> Request] /\ \A g \in Handlers : g # h => req'[g] = req[g]
      /\ req'[h].n = req[h].n /\ req'[h].method = req[h].method
      /\ req'[h].client = req[h].client /\ req'[h].session = req[h].session
      /\ req'[h].call = req[h].call
  BY DEF Moves
<1>2. UNCHANGED <<server, failClosed, policy, sessions, issued, published, clock, held, queue, rows,
                  reported, refused, events, inForce, counted, answers, executed, arrived, fatal>>
      /\ forwarded \subseteq forwarded'
  BY DEF Moves, trail, tables, bounds
<1>3. pc' \in [Handlers -> Steps] /\ pc'[h] = step /\ \A g \in Handlers : g # h => pc'[g] = pc[g]
  BY <1>1 DEF Typed, Steps, Deciding
<1>4. Typed'
  BY <1>1, <1>2, <1>3 DEF Typed
<1>5. Apart'
  BY <1>1, <1>2, <1>3 DEF Apart, Opener, Deciding
<1>6. Owned'
  BY <1>1, <1>2, <1>3 DEF Owned, HasSession, Deciding
<1>7. Keeps
  BY <1>2 DEF Keeps, Typed
<1>8. Recorded'
  <2>1. Taken' = Taken
    BY <1>2 DEF Taken
  <2>2. pc[h] \notin {"log", "reply"} /\ step \notin {"log", "reply"}
    BY <1>1 DEF Deciding
  <2>3. {i \in Handlers : pc'[i] = "log"} = {i \in Handlers : pc[i] = "log"}
    BY <1>3, <2>2
  <2>4. held' = {req'[g].event : g \in {i \in Handlers : pc'[i] = "log"}}
    BY <1>1, <1>2, <2>2, <2>3 DEF Recorded
  <2> QED BY <1>1, <1>2, <1>3, <2>1, <2>2, <2>4 DEF Recorded
<1>9. Opened'
  BY <1>2, <1>7, StayOpened
<1>10. Known'
  BY <1>1, <1>2, <1>3 DEF Known, Deciding
<1>11. AnswersLogged' /\ CountsAgree'
  BY <1>2, <1>7, CountsStay DEF AnswersLogged
<1>12. ListingHonest'
  BY <1>1, <1>2 DEF ListingHonest, Known
<1>13. ClosedLast'
  BY <1>1, <1>2, <1>3 DEF ClosedLast, Deciding
<1>14. Handed'
  <2>1. StillAwaited
    BY <1>1, <1>3 DEF StillAwaited
  <2>2. ASSUME NEW x \in forwarded
        PROVE  Lawful(x)'
    BY <1>2, <1>7, <2>1, LawfulStays DEF Handed
  <2> QED BY <1>2, <2>2 DEF Handed
<1> QED BY <1>4, <1>5, <1>6, <1>8, <1>9, <1>10, <1>11, <1>12, <1>13, <1>14 DEF IInv

LEMMA ReturnKeeps ==
  ASSUME IInv, NEW h \in Handlers, server # "closed", LogAccepts(h) \/ LogDrops(h) \/ LogRefuses(h)
  PROVE  IInv'
<1> /\ Typed /\ Apart /\ Owned /\ Recorded /\ Opened /\ Known
    /\ Handed /\ AnswersLogged /\ CountsAgree /\ ListingHonest /\ ClosedLast
  BY DEF IInv
<1>1. PICK logged \in {"accepted", "dropped", "refused"} :
        /\ Returned(h, logged)
        /\ logged = "accepted" => server \in {"running", "draining"} /\ Trail!Accept(req[h].event)
        /\ logged = "dropped" => Trail!Drop(req[h].event)
        /\ logged = "refused" => failClosed /\ Trail!Refuse(req[h].event)
  BY DEF LogAccepts, LogDrops, LogRefuses
<1>2. pc[h] = "log" /\ pc' = [pc EXCEPT ![h] = "reply"] /\ req' = [req EXCEPT ![h].logged = logged]
  BY <1>1 DEF Returned, Go
<1>3. UNCHANGED <<server, failClosed, policy, sessions, issued, published, counted, events, inForce,
                  answers, forwarded, executed, arrived, fatal>>
  BY <1>1 DEF Returned, tables, history, bounds
<1>4. /\ pc' \in [Handlers -> Steps] /\ pc'[h] = "reply"
      /\ \A g \in Handlers : g # h => pc'[g] = pc[g]
  BY <1>2 DEF Typed, Steps
<1>5. /\ req' \in [Handlers -> Request] /\ req'[h].logged = logged
      /\ \A g \in Handlers : g # h => req'[g] = req[g]
      /\ \A g \in Handlers :
           /\ req'[g].n = req[g].n /\ req'[g].method = req[g].method /\ req'[g].code = req[g].code
           /\ req'[g].client = req[g].client /\ req'[g].session = req[g].session
           /\ req'[g].call = req[g].call /\ req'[g].listed = req[g].listed
           /\ req'[g].event = req[g].event
  <2> DEFINE r == [req[h] EXCEPT !.logged = logged]
  <2>1. req[h] \in Request /\ req \in [Handlers -> Request]
    BY DEF Typed
  <2>2. /\ r \in Request /\ r.logged = logged
        /\ r.n = req[h].n /\ r.method = req[h].method /\ r.code = req[h].code
        /\ r.client = req[h].client /\ r.session = req[h].session
        /\ r.call = req[h].call /\ r.listed = req[h].listed /\ r.event = req[h].event
    BY <2>1 DEF Request
  <2>3. req' = [req EXCEPT ![h] = r]
    BY <1>2
  <2> HIDE DEF r
  <2>4. req' \in [Handlers -> Request] /\ req'[h] = r /\ \A g \in Handlers : g # h => req'[g] = req[g]
    BY <2>1, <2>2, <2>3
  <2> QED BY <2>2, <2>4
<1> DEFINE e == req[h].event
<1>6. e \in held /\ e \in 1..clock
  BY <1>2 DEF Recorded
<1>7. /\ clock' = clock /\ held' = held \ {e} /\ rows' = rows
      /\ logged = "accepted" => queue' = Append(queue, e) /\ UNCHANGED <<reported, refused>>
      /\ logged = "dropped" => reported' = reported \cup {e} /\ UNCHANGED <<queue, refused>>
      /\ logged = "refused" => refused' = refused \cup {e} /\ UNCHANGED <<queue, reported>> /\ failClosed
  BY <1>1 DEF Trail!Accept, Trail!Drop, Trail!Refuse
<1>8. /\ queue' \in Seq(Nat)
      /\ Taken' = IF logged = "refused" THEN Taken ELSE Taken \cup {e}
      /\ refused' = IF logged = "refused" THEN refused \cup {e} ELSE refused
  <2>1. CASE logged = "accepted"
    <3>1. queue \in Seq(Nat) /\ e \in Nat
      BY <1>6 DEF Typed
    <3>2. Append(queue, e) \in Seq(Nat) /\ Range(Append(queue, e)) = Range(queue) \cup {e}
      <4>1. /\ Append(queue, e) \in Seq(Nat) /\ Len(Append(queue, e)) = Len(queue) + 1
            /\ \A i \in 1..Len(queue) : Append(queue, e)[i] = queue[i]
            /\ Append(queue, e)[Len(queue) + 1] = e
            /\ DOMAIN Append(queue, e) = 1..Len(queue) + 1 /\ DOMAIN queue = 1..Len(queue)
        BY <3>1
      <4> QED BY <3>1, <4>1 DEF Range
    <3> QED BY <1>7, <2>1, <3>2 DEF Taken
  <2>2. CASE logged # "accepted"
    BY <1>1, <1>7, <2>2 DEF Taken, Typed
  <2> QED BY <2>1, <2>2
<1> HIDE DEF e
<1>9. Typed'
  BY <1>3, <1>4, <1>5, <1>7, <1>8 DEF Typed
<1>10. Apart'
  BY <1>2, <1>3, <1>4, <1>5 DEF Apart, Opener, Deciding
<1>11. Owned'
  BY <1>3, <1>4, <1>5 DEF Owned, HasSession, Deciding
<1>12. Keeps
  BY <1>3, <1>6, <1>7, <1>8 DEF Keeps, Typed
<1>13. Recorded'
  <2>1. /\ held' \cup Taken' \cup refused' \subseteq 1..clock'
        /\ held' \cap (Taken' \cup refused') = {} /\ Taken' \cap refused' = {}
    BY <1>6, <1>7, <1>8 DEF Recorded
  <2>2. held' = {req'[g].event : g \in {i \in Handlers : pc'[i] = "log"}}
    <3>1. {i \in Handlers : pc'[i] = "log"} = {i \in Handlers : pc[i] = "log"} \ {h}
      BY <1>4
    <3>2. ASSUME NEW g \in Handlers, g # h, pc[g] = "log"
          PROVE  req[g].event # e
      BY <1>2, <3>2 DEF Recorded, Apart, e
    <3>3. {req[g].event : g \in {i \in Handlers : pc[i] = "log"} \ {h}}
            = {req[g].event : g \in {i \in Handlers : pc[i] = "log"}} \ {e}
      BY <3>2 DEF e
    <3>4. {req'[g].event : g \in {i \in Handlers : pc[i] = "log"} \ {h}}
            = {req[g].event : g \in {i \in Handlers : pc[i] = "log"} \ {h}}
      BY <1>5
    <3>5. held = {req[g].event : g \in {i \in Handlers : pc[i] = "log"}}
      BY DEF Recorded
    <3> QED BY <1>7, <3>1, <3>3, <3>4, <3>5
  <2>3. ASSUME NEW g \in Handlers, pc'[g] \in {"log", "reply"}
        PROVE  pc[g] \in {"log", "reply"}
    BY <1>2, <1>4, <2>3
  <2>4. ASSUME NEW g \in Handlers, pc'[g] = "reply"
        PROVE  /\ req'[g].logged \in {"accepted", "dropped"} => req'[g].event \in Taken'
               /\ req'[g].logged \notin {"accepted", "dropped"} => req'[g].logged = "refused" /\ failClosed'
    <3>1. CASE g = h
      BY <1>1, <1>3, <1>5, <1>7, <1>8, <3>1 DEF e
    <3>2. CASE g # h
      BY <1>3, <1>4, <1>5, <1>8, <2>4, <3>2 DEF Recorded
    <3> QED BY <3>1, <3>2
  <2>5. ASSUME NEW g \in Handlers, pc'[g] \in {"log", "reply"}
        PROVE  /\ req'[g].event \in 1..clock'
               /\ events'[req'[g].event].n = req'[g].n /\ events'[req'[g].event].action = req'[g].method
               /\ events'[req'[g].event].session = req'[g].session
               /\ events'[req'[g].event].client = req'[g].client
               /\ Says(req'[g].code, events'[req'[g].event].decision)
    BY <1>3, <1>5, <1>7, <2>3, <2>5 DEF Recorded
  <2> QED BY <2>1, <2>2, <2>4, <2>5 DEF Recorded
<1>14. Opened'
  BY <1>3, <1>7, <1>12, StayOpened
<1>15. Known'
  BY <1>3, <1>4, <1>5 DEF Known, Deciding
<1>16. AnswersLogged' /\ Handed' /\ CountsAgree' /\ ListingHonest'
  <2>1. Taken \subseteq Taken'
    BY <1>8
  <2>2. AnswersLogged'
    BY <1>3, <1>12, <2>1, AnswersStayAudited DEF AnswersLogged
  <2>3. StillAwaited
    BY <1>2, <1>4, <1>5 DEF StillAwaited
  <2>4. Handed'
    BY <1>3, <1>12, <2>3, HandedStays
  <2>5. CountsAgree'
    BY <1>3, <1>12, CountsStay
  <2>6. ListingHonest'
    BY <1>3, <1>5 DEF ListingHonest
  <2> QED BY <2>2, <2>4, <2>5, <2>6
<1>17. ClosedLast'
  BY <1>2, <1>3, <1>7, <1>8, <1>1 DEF ClosedLast
<1> QED BY <1>9, <1>10, <1>11, <1>13, <1>14, <1>15, <1>16, <1>17 DEF IInv

-----------------------------------------------------------------------------
(* A request arrives, and a handler returns.                               *)

LEMMA ArriveKeeps ==
  ASSUME IInv, NEW h \in Handlers, NEW in \in Inputs, Arrive(h, in)
  PROVE  IInv'
<1> /\ Typed /\ Apart /\ Owned /\ Recorded /\ Opened /\ Known
    /\ Handed /\ AnswersLogged /\ CountsAgree /\ ListingHonest /\ ClosedLast
  BY DEF IInv
<1>1. /\ server = "running" /\ pc[h] = "idle" /\ Admitted(in)
      /\ arrived' = arrived + 1
      /\ pc' = [pc EXCEPT ![h] = IF in.method = "initialize" THEN "initialize" ELSE "resolve"]
      /\ issued' = IF in.method = "initialize" THEN issued + 1 ELSE issued
      /\ inForce' = [inForce EXCEPT ![h] = IF in.method = "initialize" THEN {} ELSE {policy}]
      /\ UNCHANGED <<server, failClosed, policy, sessions, published, clock, held, queue, rows,
                     reported, refused, counted, events, answers, forwarded, executed, fatal>>
  BY DEF Arrive, Go, trail
<1> DEFINE id == IF in.method = "initialize" THEN issued' ELSE in.session
           r == [NoRequest EXCEPT !.n = arrived + 1, !.method = in.method, !.client = in.client,
                                  !.call = in.call, !.session = id]
<1>2. req' = [req EXCEPT ![h] = r]
  BY DEF Arrive
<1>3. /\ in.method \in Methods /\ in.client \in Clients
      /\ in.call \in [tool : Tools \cup {""}, args : {<< >>}]
      /\ in.method # "initialize" => in.session \in DOMAIN published \cup {None}
  BY <1>1, InputTyped
<1>4. id \in Nat
  <2>1. CASE in.method = "initialize"
    BY <1>1, <2>1 DEF Typed
  <2>2. CASE in.method # "initialize"
    <3>1. DOMAIN published \subseteq Nat /\ None \in Nat
      BY DEF Typed, None
    <3>2. in.session \in Nat
      BY <1>3, <2>2, <3>1
    <3> QED BY <2>2, <3>2
  <2> QED BY <2>1, <2>2
<1> HIDE DEF id
<1>5. r.n = arrived + 1 /\ r.method = in.method /\ r.session = id /\ r.listed = {}
  BY DEF NoRequest
<1>6. r \in Request
  <2>1. NoRequest \in Request
    BY NoRequestTyped
  <2>2. arrived + 1 \in Nat
    BY DEF Typed
  <2>3. in.client \in Clients \cup {NoClient}
    BY <1>3
  <2> QED BY <1>3, <1>4, <2>1, <2>2, <2>3 DEF Request
<1> HIDE DEF r
<1>7. /\ req' \in [Handlers -> Request] /\ req'[h] = r
      /\ \A g \in Handlers : g # h => req'[g] = req[g]
  BY <1>2, <1>6 DEF Typed
<1>8. /\ pc' \in [Handlers -> Steps]
      /\ pc'[h] = IF in.method = "initialize" THEN "initialize" ELSE "resolve"
      /\ \A g \in Handlers : g # h => pc'[g] = pc[g]
  BY <1>1 DEF Typed, Steps
<1>9. /\ inForce' \in [Handlers -> SUBSET Policies]
      /\ in.method # "initialize" => inForce'[h] = {policy}
      /\ \A g \in Handlers : g # h => inForce'[g] = inForce[g]
  BY <1>1 DEF Typed
<1>10. Typed'
  BY <1>1, <1>7, <1>8, <1>9 DEF Typed
<1>11. Apart'
  <2>1. ASSUME NEW g \in Handlers, pc'[g] # "idle"
        PROVE  /\ req'[g].n \in 1..arrived' /\ req'[g].n \notin DOMAIN answers'
               /\ req'[g].method \in Methods
               /\ pc'[g] = "initialize" => req'[g].method = "initialize"
               /\ pc'[g] \in Deciding => req'[g].method # "initialize"
    <3>1. CASE g = h
      <4>1. arrived + 1 \in 1..arrived' /\ arrived + 1 \notin DOMAIN answers'
        BY <1>1 DEF Typed
      <4> QED BY <1>3, <1>5, <1>7, <1>8, <3>1, <4>1 DEF Deciding
    <3>2. CASE g # h
      BY <1>1, <1>7, <1>8, <2>1, <3>2 DEF Apart, Typed
    <3> QED BY <3>1, <3>2
  <2>2. ASSUME NEW g \in Handlers, NEW i \in Handlers, g # i, pc'[g] # "idle", pc'[i] # "idle"
        PROVE  req'[g].n # req'[i].n
    BY <1>5, <1>7, <1>8, <2>2 DEF Apart, Typed
  <2>3. ASSUME NEW g \in Handlers, pc'[g] # "idle", req'[g].method = "initialize"
        PROVE  req'[g].session \in 1..issued' /\ req'[g].session \notin DOMAIN published'
    <3>1. CASE g = h
      BY <1>1, <1>5, <1>7, <2>3, <3>1 DEF Typed, id
    <3>2. CASE g # h
      BY <1>1, <1>7, <1>8, <2>3, <3>2 DEF Apart, Opener, Typed
    <3> QED BY <3>1, <3>2
  <2>4. ASSUME NEW g \in Handlers, NEW i \in Handlers, g # i, pc'[g] # "idle", pc'[i] # "idle",
               req'[g].method = "initialize", req'[i].method = "initialize"
        PROVE  req'[g].session # req'[i].session
    <3>1. in.method = "initialize" => id = issued + 1
      BY <1>1 DEF id
    <3>2. ASSUME NEW j \in Handlers, j # h, pc'[j] # "idle", req'[j].method = "initialize"
          PROVE  req'[j] = req[j] /\ Opener(j) /\ req[j].session \in 1..issued /\ req[j].session # issued + 1
      BY <1>7, <1>8, <3>2 DEF Apart, Opener, Typed
    <3>3. \A j \in {g, i} : j = h => in.method = "initialize" /\ req'[j].session = id
      BY <1>5, <1>7, <2>4
    <3>4. CASE g = h
      BY <2>4, <3>1, <3>2, <3>3, <3>4
    <3>5. CASE i = h
      BY <2>4, <3>1, <3>2, <3>3, <3>5
    <3>6. CASE g # h /\ i # h
      BY <2>4, <3>2, <3>6 DEF Apart
    <3> QED BY <3>4, <3>5, <3>6
  <2> QED BY <2>1, <2>2, <2>3, <2>4 DEF Apart, Opener
<1>12. Owned'
  BY <1>1, <1>7, <1>8 DEF Owned, HasSession, Deciding
<1>13. Keeps
  BY <1>1 DEF Keeps, Typed
<1>14. Recorded'
  <2>1. Taken' = Taken
    BY <1>1 DEF Taken
  <2>2. {i \in Handlers : pc'[i] = "log"} = {i \in Handlers : pc[i] = "log"}
    BY <1>1, <1>8
  <2>3. held' = {req'[g].event : g \in {i \in Handlers : pc'[i] = "log"}}
    BY <1>1, <1>7, <2>2 DEF Recorded
  <2> QED BY <1>1, <1>7, <1>8, <2>1, <2>3 DEF Recorded
<1>15. Opened'
  BY <1>1, <1>13, StayOpened
<1>16. Known'
  BY <1>1, <1>7, <1>8, <1>9 DEF Known, Deciding
<1>17. AnswersLogged' /\ Handed' /\ CountsAgree'
  <2>1. StillAwaited
    BY <1>1, <1>7, <1>8 DEF StillAwaited
  <2>2. Handed'
    BY <1>1, <1>13, <2>1, HandedStays
  <2>3. CountsAgree'
    BY <1>1, <1>13, CountsStay
  <2> QED BY <1>1, <2>2, <2>3 DEF AnswersLogged
<1>18. ListingHonest'
  BY <1>5, <1>7, <1>9 DEF ListingHonest
<1>19. ClosedLast'
  BY <1>1 DEF ClosedLast
<1> QED BY <1>10, <1>11, <1>12, <1>14, <1>15, <1>16, <1>17, <1>18, <1>19 DEF IInv

\* What every handler that returns leaves behind.
LEMMA DoneKeeps ==
  ASSUME IInv, NEW h \in Handlers, Done(h), pc[h] \notin {"idle", "upstream"},
         UNCHANGED <<server, failClosed, policy, issued, clock, queue, rows, reported, refused,
                     events, forwarded, executed, arrived, fatal>>, counted' \in [{"allow", "deny"} -> Nat],
         held' = IF pc[h] = "log" THEN held \ {req[h].event} ELSE held,
         \/ UNCHANGED answers
         \/ \E code, logged, event : Answer(req[h].n, code, logged, event),
         \A s \in DOMAIN published : s \in DOMAIN published' /\ published'[s] = published[s],
         DOMAIN published' \subseteq DOMAIN published \cup
                                    (IF Opener(h) THEN {req[h].session} ELSE {}),
         \A s \in DOMAIN sessions' : s \in DOMAIN published' /\ published'[s] = sessions'[s]
  PROVE  Typed' /\ Apart' /\ Owned' /\ Recorded' /\ Keeps /\ Known' /\ Handed'
         /\ ListingHonest' /\ ClosedLast'
<1> /\ Typed /\ Apart /\ Owned /\ Recorded /\ Opened /\ Known
    /\ Handed /\ AnswersLogged /\ CountsAgree /\ ListingHonest /\ ClosedLast
  BY DEF IInv
<1>1. /\ pc' \in [Handlers -> Steps] /\ pc'[h] = "idle"
      /\ \A g \in Handlers : g # h => pc'[g] = pc[g]
  BY DEF Done, Typed, Steps
<1>2. /\ req' \in [Handlers -> Request] /\ req'[h] = NoRequest
      /\ \A g \in Handlers : g # h => req'[g] = req[g]
  BY NoRequestTyped DEF Done, Typed
<1>3. /\ inForce' \in [Handlers -> SUBSET Policies]
      /\ \A g \in Handlers : g # h => inForce'[g] = inForce[g]
  BY DEF Done, Typed
<1>4. req[h].n \in 1..arrived /\ req[h].n \notin DOMAIN answers
  BY DEF Apart
<1>5. /\ DOMAIN answers \subseteq DOMAIN answers' /\ DOMAIN answers' \subseteq DOMAIN answers \cup {req[h].n}
      /\ \A n \in DOMAIN answers : answers'[n] = answers[n]
  BY <1>4 DEF Answer, With
<1>6. DOMAIN published' \subseteq 1..issued'
  BY DEF Typed, Apart
<1>7. Typed'
  BY <1>1, <1>2, <1>3, <1>4, <1>5, <1>6 DEF Typed
<1>8. Apart'
  <2>1. ASSUME NEW g \in Handlers, pc'[g] # "idle"
        PROVE  g # h /\ pc'[g] = pc[g] /\ req'[g] = req[g] /\ req[g].n # req[h].n
    BY <1>1, <1>2, <2>1 DEF Apart
  <2>2. ASSUME NEW g \in Handlers, Opener(g)'
        PROVE  Opener(g) /\ g # h /\ req[g].session \notin DOMAIN published'
    BY <1>1, <1>2, <2>1, <2>2 DEF Apart, Opener
  <2>3. \A g \in Handlers : Opener(g)' =>
          req'[g].session \in 1..issued' /\ req'[g].session \notin DOMAIN published'
    BY <1>2, <2>2 DEF Apart
  <2>4. \A g, i \in Handlers : g # i /\ Opener(g)' /\ Opener(i)' => req'[g].session # req'[i].session
    BY <1>2, <2>2 DEF Apart
  <2>5. \A g \in Handlers : pc'[g] # "idle" =>
          /\ req'[g].n \in 1..arrived' /\ req'[g].n \notin DOMAIN answers'
          /\ req'[g].method \in Methods
          /\ pc'[g] = "initialize" => req'[g].method = "initialize"
          /\ pc'[g] \in Deciding => req'[g].method # "initialize"
    BY <1>5, <2>1 DEF Apart
  <2>6. \A g, i \in Handlers : g # i /\ pc'[g] # "idle" /\ pc'[i] # "idle" => req'[g].n # req'[i].n
    BY <2>1 DEF Apart
  <2> QED BY <2>3, <2>4, <2>5, <2>6 DEF Apart
<1>9. Owned'
  BY <1>1, <1>2 DEF Owned, HasSession, Deciding
<1>10. Keeps
  BY <1>5 DEF Keeps, Typed, Recorded
<1>11. Recorded'
  <2>1. Taken' = Taken
    BY DEF Taken
  <2>2. held' \cup Taken' \cup refused' \subseteq 1..clock'
        /\ held' \cap (Taken' \cup refused') = {} /\ Taken' \cap refused' = {}
    BY <2>1 DEF Recorded
  <2>3. held' = {req'[g].event : g \in {i \in Handlers : pc'[i] = "log"}}
    <3>1. {i \in Handlers : pc'[i] = "log"} = {i \in Handlers : pc[i] = "log"} \ {h}
      BY <1>1
    <3>2. {req'[g].event : g \in {i \in Handlers : pc[i] = "log"} \ {h}}
            = {req[g].event : g \in {i \in Handlers : pc[i] = "log"} \ {h}}
      BY <1>2
    <3>3. held = {req[g].event : g \in {i \in Handlers : pc[i] = "log"}}
      BY DEF Recorded
    <3>4. CASE pc[h] = "log"
      <4>1. ASSUME NEW g \in Handlers, g # h, pc[g] = "log"
            PROVE  req[g].event # req[h].event
        BY <3>4, <4>1 DEF Recorded, Apart
      <4>2. {req[g].event : g \in {i \in Handlers : pc[i] = "log"} \ {h}}
              = {req[g].event : g \in {i \in Handlers : pc[i] = "log"}} \ {req[h].event}
        BY <4>1
      <4> QED BY <3>1, <3>2, <3>3, <3>4, <4>2
    <3>5. CASE pc[h] # "log"
      BY <3>1, <3>2, <3>3, <3>5
    <3> QED BY <3>4, <3>5
  <2>4. ASSUME NEW g \in Handlers, pc'[g] \in {"log", "reply"}
        PROVE  g # h /\ pc'[g] = pc[g] /\ req'[g] = req[g]
    BY <1>1, <1>2, <2>4
  <2>5. ASSUME NEW g \in Handlers, pc'[g] \in {"log", "reply"}
        PROVE  /\ req'[g].event \in 1..clock'
               /\ events'[req'[g].event].n = req'[g].n /\ events'[req'[g].event].action = req'[g].method
               /\ events'[req'[g].event].session = req'[g].session
               /\ events'[req'[g].event].client = req'[g].client
               /\ Says(req'[g].code, events'[req'[g].event].decision)
    BY <2>4, <2>5 DEF Recorded
  <2>6. ASSUME NEW g \in Handlers, pc'[g] = "reply"
        PROVE  /\ req'[g].logged \in {"accepted", "dropped"} => req'[g].event \in Taken'
               /\ req'[g].logged \notin {"accepted", "dropped"} => req'[g].logged = "refused" /\ failClosed'
    BY <2>1, <2>4, <2>6 DEF Recorded
  <2> QED BY <2>2, <2>3, <2>5, <2>6 DEF Recorded
<1>12. Known'
  BY <1>1, <1>2, <1>3 DEF Known, Deciding
<1>13. Handed'
  <2>1. StillAwaited
    BY <1>1, <1>2 DEF StillAwaited
  <2> QED BY <1>10, <2>1, HandedStays
<1>14. ListingHonest'
  BY <1>2, <1>3 DEF ListingHonest, NoRequest
<1>15. ClosedLast'
  BY <1>1 DEF ClosedLast
<1> QED BY <1>7, <1>8, <1>9, <1>10, <1>11, <1>12, <1>13, <1>14, <1>15

LEMMA BadParamsKeeps ==
  ASSUME IInv, NEW h \in Handlers, BadParams(h)
  PROVE  IInv'
<1> /\ Typed /\ Apart /\ Owned /\ Recorded /\ Opened /\ AnswersLogged /\ CountsAgree
  BY DEF IInv
<1>1. /\ pc[h] = "evaluate" /\ Done(h)
      /\ Answer(req[h].n, "invalid_params", "nothing", None)
      /\ UNCHANGED <<server, failClosed, policy, sessions, issued, published, clock, held, queue, rows,
                     reported, refused, counted, events, forwarded, executed, arrived, fatal>>
  BY DEF BadParams, tables, trail, bounds
<1>2. /\ Typed' /\ Apart' /\ Owned' /\ Recorded' /\ Keeps /\ Known' /\ Handed'
      /\ ListingHonest' /\ ClosedLast'
  BY <1>1, DoneKeeps DEF Owned, Typed
<1>3. Opened'
  BY <1>1, <1>2, StayOpened
<1>4. AnswersLogged'
  <2> SUFFICES ASSUME NEW n \in DOMAIN answers', answers'[n].code \in Audited
               PROVE  /\ answers'[n].event \in DOMAIN events' /\ events'[answers'[n].event].n = n
                      /\ events'[answers'[n].event].decision = "allow"
                           <=> answers'[n].code \in {"result", "upstream_error"}
                      /\ answers'[n].event \in Range(queue') \cup rows' \cup reported'
                      /\ failClosed' => answers'[n].logged = "accepted"
    BY DEF AnswersLogged
  <2>1. n # req[h].n /\ n \in DOMAIN answers /\ answers'[n] = answers[n]
    BY <1>1 DEF Answer, With, Audited
  <2>2. Taken \subseteq Taken'
    BY <1>1 DEF Taken
  <2> QED BY <1>2, <2>1, <2>2, AnswersStayAudited
<1>5. CountsAgree'
  <2>1. \A n \in DOMAIN answers' : n \in DOMAIN answers \/ answers'[n].code \notin Audited
    BY <1>1 DEF Answer, With, Audited
  <2> QED BY <1>1, <1>2, <2>1, CountsStay
<1> QED BY <1>2, <1>3, <1>4, <1>5 DEF IInv

LEMMA PanicKeeps ==
  ASSUME IInv, NEW h \in Handlers, LogPanics(h)
  PROVE  IInv'
<1> /\ Typed /\ Apart /\ Owned /\ Recorded /\ Opened /\ AnswersLogged /\ CountsAgree
  BY DEF IInv
<1>1. /\ pc[h] = "log" /\ Done(h) /\ held' = held \ {req[h].event}
      /\ UNCHANGED <<server, failClosed, policy, sessions, issued, published, clock, queue, rows,
                     reported, refused, counted, events, answers, forwarded, executed, arrived, fatal>>
  BY DEF LogPanics, tables, bounds
<1>2. /\ Typed' /\ Apart' /\ Owned' /\ Recorded' /\ Keeps /\ Known' /\ Handed'
      /\ ListingHonest' /\ ClosedLast'
  BY <1>1, DoneKeeps DEF Owned, Typed
<1>3. Opened'
  BY <1>1, <1>2, StayOpened
<1>4. AnswersLogged'
  BY <1>1 DEF AnswersLogged
<1>5. CountsAgree'
  BY <1>1, <1>2, CountsStay
<1> QED BY <1>2, <1>3, <1>4, <1>5 DEF IInv

\* The answer repeats the event, and an initialize that is answered has opened
\* its session in the log first.
LEMMA ReplyKeeps ==
  ASSUME IInv, NEW h \in Handlers, Reply(h)
  PROVE  IInv'
<1> /\ Typed /\ Apart /\ Owned /\ Recorded /\ Opened /\ AnswersLogged /\ CountsAgree
  BY DEF IInv
<1>1. /\ pc[h] = "reply" /\ Done(h)
      /\ UNCHANGED <<server, failClosed, policy, issued, clock, held, queue, rows,
                     reported, refused, events, forwarded, executed, arrived, fatal>>
  BY DEF Reply, trail, bounds
<1> DEFINE n == req[h].n
           e == req[h].event
           code == IF LogFailed(h) THEN "audit_failed" ELSE req[h].code
           binds == ~LogFailed(h) /\ req[h].method = "initialize"
<1>2. /\ Answer(n, code, req[h].logged, e)
      /\ IF binds
         THEN /\ sessions' = With(sessions, req[h].session, req[h].client)
              /\ published' = With(published, req[h].session, req[h].client)
         ELSE UNCHANGED <<sessions, published>>
      /\ counted' = IF LogFailed(h) THEN counted
                    ELSE [d \in DOMAIN counted |-> IF d = CountedAs(h) THEN counted[d] + 1 ELSE counted[d]]
  BY DEF Reply
<1>3. binds => Opener(h) /\ req[h].session \notin DOMAIN published
  BY <1>1 DEF Apart, Opener
<1> HIDE DEF binds
<1>4. /\ \A s \in DOMAIN published : s \in DOMAIN published' /\ published'[s] = published[s]
      /\ DOMAIN published' \subseteq DOMAIN published \cup (IF Opener(h) THEN {req[h].session} ELSE {})
      /\ \A s \in DOMAIN sessions' : s \in DOMAIN published' /\ published'[s] = sessions'[s]
  BY <1>2, <1>3 DEF With, Owned
<1>5. /\ Typed' /\ Apart' /\ Owned' /\ Recorded' /\ Keeps /\ Known' /\ Handed'
      /\ ListingHonest' /\ ClosedLast'
  <2>1. \E c, logged, event : Answer(req[h].n, c, logged, event)
    BY <1>2
  <2>2. held' = IF pc[h] = "log" THEN held \ {req[h].event} ELSE held
    BY <1>1
  <2>3. counted' \in [{"allow", "deny"} -> Nat]
    BY <1>2 DEF Typed
  <2> QED BY <1>1, <1>4, <2>1, <2>2, <2>3, DoneKeeps
<1>6. /\ answers'[n] = [code |-> code, logged |-> req[h].logged, event |-> e] /\ n \in DOMAIN answers'
      /\ \A i \in DOMAIN answers' : i # n => i \in DOMAIN answers /\ answers'[i] = answers[i]
  BY <1>2 DEF Answer, With
<1>7. /\ e \in 1..clock /\ events[e].n = n /\ events[e].action = req[h].method
      /\ events[e].session = req[h].session /\ events[e].client = req[h].client
      /\ Says(req[h].code, events[e].decision)
  BY <1>1 DEF Recorded
<1>8. ~LogFailed(h) => e \in Taken /\ (failClosed => req[h].logged = "accepted")
  BY <1>1 DEF Recorded, LogFailed
<1>9. Taken' = Taken /\ events' = events /\ clock' = clock /\ failClosed' = failClosed
  BY <1>1 DEF Taken
<1> HIDE DEF n, e
<1>10. Opened'
  <2>1. ASSUME NEW s \in DOMAIN published
        PROVE  \E f \in 1..clock' : Opening(f, s, published[s])'
    <3>1. PICK f \in 1..clock : Opening(f, s, published[s])
      BY DEF Opened
    <3>2. ASSUME NEW c, c = published[s]
          PROVE  Opening(f, s, c)'
      BY <1>5, <3>1, <3>2, OpeningStays
    <3>3. Opening(f, s, published[s])'
      BY <1>4, <3>2 DEF Opening, Opens
    <3> QED BY <1>9, <3>3
  <2>2. ASSUME binds, NEW s, s = req[h].session, NEW f, f = e
        PROVE  Opening(f, s, published[s])'
    <3>1. e \notin held \cup refused /\ (failClosed => req[h].logged = "accepted")
      BY <1>8, <2>2 DEF Recorded, binds
    <3>2. events'[f].n \in DOMAIN answers' /\ answers'[events'[f].n].logged = req[h].logged
      BY <1>6, <1>7, <1>9, <2>2
    <3>3. published'[s] = req[h].client
      BY <1>2, <2>2 DEF With
    <3>4. /\ events'[f].action = "initialize" /\ events'[f].session = s
          /\ events'[f].client = published'[s]
      BY <1>7, <1>9, <2>2, <3>3 DEF binds
    <3>5. Opens(f, s, published[s])'
      BY <1>1, <2>2, <3>1, <3>4 DEF Opens
    <3> QED BY <1>9, <3>1, <3>2, <3>5 DEF Opening
  <2>3. ASSUME NEW s \in DOMAIN published'
        PROVE  \E f \in 1..clock' : Opening(f, s, published[s])'
    <3>1. CASE s \in DOMAIN published
      BY <2>1, <3>1
    <3>2. CASE s \notin DOMAIN published
      <4>1. binds /\ s = req[h].session
        BY <1>2, <3>2 DEF With
      <4>2. ASSUME NEW f, f = e
            PROVE  Opening(f, s, published[s])'
        BY <2>2, <4>1, <4>2
      <4> QED BY <1>7, <1>9, <4>2
    <3> QED BY <3>1, <3>2
  <2>4. \A i \in 1..clock :
          events'[i].action # "initialize" /\ events'[i].outcome # "session" =>
            \E f \in 1..(i - 1) : Opening(f, events[i].session, events[i].client)'
    BY <1>5, EventsStayOpened
  <2> QED BY <1>9, <2>3, <2>4 DEF Opened
<1>11. AnswersLogged'
  <2> SUFFICES ASSUME NEW i \in DOMAIN answers', answers'[i].code \in Audited
               PROVE  /\ answers'[i].event \in DOMAIN events' /\ events'[answers'[i].event].n = i
                      /\ events'[answers'[i].event].decision = "allow"
                           <=> answers'[i].code \in {"result", "upstream_error"}
                      /\ answers'[i].event \in Range(queue') \cup rows' \cup reported'
                      /\ failClosed' => answers'[i].logged = "accepted"
    BY DEF AnswersLogged
  <2>1. CASE i = n
    <3>1. ~LogFailed(h) /\ answers'[i].code = req[h].code /\ answers'[i].event = e
          /\ answers'[i].logged = req[h].logged
      BY <1>6, <2>1 DEF Audited
    <3>2. e \in Range(queue') \cup rows' \cup reported'
      BY <1>8, <1>9, <3>1 DEF Taken
    <3>3. events[e].decision = "allow" <=> req[h].code \in {"result", "upstream_error"}
      BY <1>7, <3>1 DEF Says
    <3> QED BY <1>7, <1>8, <1>9, <2>1, <3>1, <3>2, <3>3 DEF Typed
  <2>2. CASE i # n
    <3>1. i \in DOMAIN answers /\ answers'[i] = answers[i]
      BY <1>6, <2>2
    <3> QED BY <1>5, <1>9, <3>1, AnswersStayAudited
  <2> QED BY <2>1, <2>2
<1>12. CountsAgree'
  <2>1. CASE LogFailed(h)
    <3>1. \A i \in DOMAIN answers' : i \in DOMAIN answers \/ answers'[i].code \notin Audited
      BY <1>6, <2>1 DEF Audited
    <3> QED BY <1>2, <1>5, <2>1, <3>1, CountsStay
  <2>2. CASE ~LogFailed(h)
    <3>1. n \notin DOMAIN answers
      BY <1>1 DEF Apart, n
    <3>2. ASSUME NEW d \in {"allow", "deny"}
          PROVE  CountedIn(d)' = CountedIn(d) \cup (IF CountedAs(h) = d THEN {n} ELSE {})
      <4>1. n \in CountedIn(d)' <=> CountedAs(h) = d
        BY <1>6, <1>7, <1>9, <2>2, <3>2 DEF CountedIn, CountedAs, Says, Audited
      <4>2. ASSUME NEW i, i # n
            PROVE  i \in CountedIn(d)' <=> i \in CountedIn(d)
        <5>1. i \in DOMAIN answers' <=> i \in DOMAIN answers
          BY <1>5, <1>6, <4>2 DEF Keeps
        <5>2. i \in DOMAIN answers' => answers'[i] = answers[i]
          BY <1>6, <4>2
        <5> QED BY <1>9, <5>1, <5>2 DEF CountedIn
      <4>3. n \notin CountedIn(d)
        BY <3>1 DEF CountedIn
      <4> QED BY <4>1, <4>2, <4>3
    <3>3. ASSUME NEW d \in {"allow", "deny"}
          PROVE  counted'[d] = Cardinality(CountedIn(d)')
      <4>1. IsFiniteSet(CountedIn(d)) /\ n \notin CountedIn(d)
        <5>1. CountedIn(d) \subseteq 1..arrived /\ n \notin CountedIn(d)
          BY <3>1 DEF CountedIn, Typed
        <5>2. IsFiniteSet(1..arrived)
          BY FS_Interval DEF Typed
        <5> QED BY <5>1, <5>2, FS_Subset
      <4>2. counted[d] = Cardinality(CountedIn(d))
        BY DEF CountsAgree, Typed
      <4>3. counted'[d] = IF d = CountedAs(h) THEN counted[d] + 1 ELSE counted[d]
        BY <1>2, <2>2 DEF Typed
      <4>4. Cardinality(CountedIn(d) \cup {n}) = Cardinality(CountedIn(d)) + 1
        BY <4>1, FS_AddElement
      <4> QED BY <3>2, <4>2, <4>3, <4>4
    <3> QED BY <1>5, <3>3 DEF CountsAgree, Typed
  <2> QED BY <2>1, <2>2
<1> QED BY <1>5, <1>10, <1>11, <1>12 DEF IInv

-----------------------------------------------------------------------------
(* The writer and the server.                                              *)

LEMMA WriteKeeps ==
  ASSUME IInv, Write
  PROVE  IInv'
<1> /\ Typed /\ Apart /\ Owned /\ Recorded /\ Opened /\ Known
    /\ Handed /\ AnswersLogged /\ CountsAgree /\ ListingHonest /\ ClosedLast
  BY DEF IInv
<1>1. UNCHANGED <<server, failClosed, policy, sessions, issued, published, pc, req, counted, events,
                  answers, forwarded, executed, inForce, arrived, fatal>>
  BY DEF Write, tables, history
<1>0. PICK k \in 1..Len(queue) : Trail!Record(k) \/ Trail!Lose(k)
  BY DEF Write
<1>2. /\ queue' = SubSeq(queue, k + 1, Len(queue)) /\ UNCHANGED <<clock, held, refused>>
      /\ \/ rows' = rows \cup Range(SubSeq(queue, 1, k)) /\ reported' = reported
         \/ reported' = reported \cup Range(SubSeq(queue, 1, k)) /\ rows' = rows
  <2>1. CASE Trail!Record(k)
    BY <2>1 DEF Trail!Record, Trail!Dequeue, Trail!Range, Range
  <2>2. CASE Trail!Lose(k)
    BY <2>2 DEF Trail!Lose, Trail!Dequeue, Trail!Range, Range
  <2> QED BY <1>0, <2>1, <2>2
<1>3. /\ queue' \in Seq(Nat)
      /\ Range(queue) = Range(SubSeq(queue, 1, k)) \cup Range(queue')
  <2> DEFINE a == SubSeq(queue, 1, k)
             b == SubSeq(queue, k + 1, Len(queue))
  <2>1. queue \in Seq(Nat) /\ Len(queue) \in Nat /\ k \in 1..Len(queue)
    BY DEF Typed
  <2>2. /\ a \in Seq(Nat) /\ Len(a) = k /\ \A i \in 1..k : a[i] = queue[i]
        /\ DOMAIN a = 1..k
    BY <2>1
  <2>3. /\ b \in Seq(Nat) /\ Len(b) = Len(queue) - k /\ DOMAIN b = 1..(Len(queue) - k)
        /\ \A i \in 1..(Len(queue) - k) : b[i] = queue[i + k]
    BY <2>1
  <2>4. DOMAIN queue = 1..Len(queue)
    BY <2>1
  <2> HIDE DEF a, b
  <2>5. ASSUME NEW i \in 1..Len(queue)
        PROVE  queue[i] \in Range(a) \cup Range(b)
    <3>1. CASE i <= k
      BY <2>1, <2>2, <3>1 DEF Range
    <3>2. CASE i > k
      <4>1. i - k \in 1..(Len(queue) - k) /\ (i - k) + k = i
        BY <2>1, <3>2
      <4>2. b[i - k] = queue[i] /\ i - k \in DOMAIN b
        BY <2>3, <4>1, Zenon
      <4> QED BY <4>2 DEF Range
    <3> QED BY <2>1, <3>1, <3>2
  <2>6. Range(a) \cup Range(b) \subseteq Range(queue)
    <3>1. ASSUME NEW i \in 1..(Len(queue) - k)
          PROVE  b[i] \in Range(queue)
      <4>1. i + k \in DOMAIN queue /\ b[i] = queue[i + k]
        BY <2>1, <2>3, <2>4
      <4> QED BY <4>1 DEF Range
    <3>2. ASSUME NEW i \in 1..k
          PROVE  a[i] \in Range(queue)
      <4>1. i \in DOMAIN queue /\ a[i] = queue[i]
        BY <2>1, <2>2, <2>4
      <4> QED BY <4>1 DEF Range
    <3>3. Range(a) = {a[i] : i \in 1..k} /\ Range(b) = {b[i] : i \in 1..(Len(queue) - k)}
      BY <2>2, <2>3 DEF Range
    <3> QED BY <3>1, <3>2, <3>3
  <2>7. Range(queue) = Range(a) \cup Range(b)
    BY <2>4, <2>5, <2>6 DEF Range
  <2>8. queue' = b
    BY <1>2 DEF b
  <2> QED BY <2>3, <2>7, <2>8 DEF a
<1>4. Taken' = Taken
  BY <1>2, <1>3 DEF Taken
<1>5. Typed'
  BY <1>1, <1>2, <1>3 DEF Typed
<1>6. Keeps
  BY <1>1, <1>2 DEF Keeps, Typed
<1>7. Recorded'
  BY <1>1, <1>2, <1>4 DEF Recorded
<1>8. Apart' /\ Owned' /\ Known' /\ ListingHonest'
  BY <1>1 DEF Apart, Opener, Owned, HasSession, Known, ListingHonest
<1>9. Opened'
  BY <1>1, <1>2, <1>6, StayOpened
<1>10. AnswersLogged'
  <2>1. Taken \subseteq Taken'
    BY <1>4
  <2> QED BY <1>1, <1>6, <2>1, AnswersStayAudited DEF AnswersLogged
<1>11. ClosedLast'
  <2>1. server # "closed"
    BY <1>2 DEF ClosedLast
  <2> QED BY <1>1, <1>2, <2>1 DEF ClosedLast
<1>12. Handed' /\ CountsAgree'
  <2>1. StillAwaited
    BY <1>1 DEF StillAwaited
  <2> QED BY <1>1, <1>6, <2>1, HandedStays, CountsStay
<1> QED BY <1>5, <1>7, <1>8, <1>9, <1>10, <1>11, <1>12 DEF IInv

\* Steps of the server: they touch neither the log nor a request.
LEMMA ServerKeeps ==
  ASSUME IInv, \/ \E p \in Policies : Swap(p)
               \/ Shutdown \/ CloseAudit \/ ServerError \/ Exit
  PROVE  IInv'
<1> /\ Typed /\ Apart /\ Owned /\ Recorded /\ Opened /\ Known
    /\ Handed /\ AnswersLogged /\ CountsAgree /\ ListingHonest /\ ClosedLast
  BY DEF IInv
<1>1. UNCHANGED <<failClosed, sessions, issued, published, pc, req, clock, held, queue, rows, reported,
                  refused, counted, events, answers, forwarded, executed, arrived>>
  BY DEF Swap, Shutdown, CloseAudit, ServerError, Exit, Serving, tables, trail, history
<1>2. \/ UNCHANGED <<policy, inForce>>
      \/ /\ server \in {"running", "draining"} /\ server' = server /\ policy' \in Policies
         /\ inForce' = [h \in Handlers |->
                          IF pc[h] \in Deciding THEN inForce[h] \cup {policy'} ELSE inForce[h]]
  BY DEF Swap, Shutdown, CloseAudit, ServerError, Exit, Serving, tables, history
<1>3. /\ server' \in {"running", "draining", "closing", "closed"}
      /\ inForce' \in [Handlers -> SUBSET Policies] /\ policy' \in Policies
  <2>1. server' \in {"running", "draining", "closing", "closed"}
    BY DEF Swap, Shutdown, CloseAudit, ServerError, Exit, Serving, Typed
  <2>2. inForce' \in [Handlers -> SUBSET Policies] /\ policy' \in Policies
    BY <1>2 DEF Typed
  <2> QED BY <2>1, <2>2
<1>4. /\ \A h \in Handlers : inForce[h] \subseteq inForce'[h]
      /\ \A h \in Handlers : pc[h] \in Deciding => policy' \in inForce'[h]
  BY <1>2 DEF Known, Typed
<1>5. Typed'
  BY <1>1, <1>3 DEF Typed
<1>6. Keeps
  BY <1>1 DEF Keeps, Typed
<1>7. Apart' /\ Owned' /\ AnswersLogged'
  BY <1>1 DEF Apart, Opener, Owned, HasSession, AnswersLogged
<1>8. Recorded'
  BY <1>1 DEF Recorded, Taken
<1>9. Opened'
  BY <1>1, <1>6, StayOpened
<1>10. Known'
  BY <1>1, <1>4 DEF Known
<1>11. ListingHonest'
  BY <1>1, <1>4 DEF ListingHonest
<1>12. ClosedLast'
  <2>1. CASE \E p \in Policies : Swap(p)
    BY <1>1, <2>1 DEF ClosedLast, Swap
  <2>2. CASE Shutdown
    BY <1>1, <2>2 DEF ClosedLast, Shutdown, Serving
  <2>3. CASE CloseAudit
    <3>1. held = {}
      BY <2>3 DEF CloseAudit, Quiet, Recorded
    <3> QED BY <1>1, <2>3, <3>1 DEF ClosedLast, CloseAudit, Quiet, Serving
  <2>4. CASE ServerError
    BY <1>1, <2>4 DEF ClosedLast, ServerError, Serving
  <2>5. CASE Exit
    BY <1>1, <2>5 DEF ClosedLast, Exit, Serving
  <2> QED BY <2>1, <2>2, <2>3, <2>4, <2>5
<1>13. Handed' /\ CountsAgree'
  <2>1. StillAwaited
    BY <1>1 DEF StillAwaited
  <2> QED BY <1>1, <1>6, <2>1, HandedStays, CountsStay
<1> QED BY <1>5, <1>7, <1>8, <1>9, <1>10, <1>11, <1>12, <1>13 DEF IInv

-----------------------------------------------------------------------------
(* The actions of a handler, one after the other.                          *)

\* A step that submits an event.
LEMMA SubmitsOnly ==
  ASSUME IInv, NEW h \in Handlers, NEW decision, NEW outcome, NEW code,
         Submits(h, decision, outcome, code)
  PROVE  IInv'
BY SubmitKeeps DEF IInv

LEMMA InitializeKeeps ==
  ASSUME IInv, NEW h \in Handlers, HandleInitialize(h)
  PROVE  IInv'
<1>1. Submits(h, "allow", "ok", "result")
  BY DEF HandleInitialize, Submits, others, tables, Codes, Says, bounds
<1> QED BY <1>1, SubmitsOnly

LEMMA ResolveKeeps ==
  ASSUME IInv, NEW h \in Handlers, ResolveSession(h)
  PROVE  IInv'
<1>1. HasSession(h) /\ pc[h] = "resolve" /\ pc[h] \in Deciding
  BY DEF IInv, Owned, ResolveSession, Resolves, HasSession, Deciding
<1>2. CASE req[h].method = "notifications/initialized"
  <2>1. Submit(h, "allow", "ok", "no_content") /\ UNCHANGED others
    BY <1>2 DEF ResolveSession
  <2>2. Submits(h, "allow", "ok", "no_content")
    BY <1>1, <2>1 DEF Submits, others, tables, Codes, Says, Audited, bounds
  <2> QED BY <2>1, <2>2, SubmitsOnly
<1>3. CASE req[h].method # "notifications/initialized"
  <2> DEFINE step == IF req[h].method = "tools/list" THEN "list" ELSE "evaluate"
  <2>1. pc' = [pc EXCEPT ![h] = step] /\ UNCHANGED <<req, trail, events, inForce>> /\ UNCHANGED others
    BY <1>3 DEF ResolveSession, Go
  <2>2. step \in Deciding \ {"resolve"} /\ step # "forward"
    BY DEF Deciding
  <2> HIDE DEF step
  <2>3. Moves(h, step)
    BY <1>1, <2>1, <2>2 DEF Moves, IInv, Typed, others
  <2>4. req' = req /\ forwarded' = forwarded
    BY <2>1 DEF others
  <2> QED BY <2>2, <2>3, <2>4, MoveKeeps
<1> QED BY <1>2, <1>3

LEMMA RejectKeeps ==
  ASSUME IInv, NEW h \in Handlers, RejectSession(h)
  PROVE  IInv'
<1>1. \A s \in DOMAIN sessions' : s \in DOMAIN sessions /\ sessions'[s] = sessions[s]
  BY DEF RejectSession, Restrict
<1>2. Submits(h, "deny", "session", "session_error")
  BY <1>1 DEF RejectSession, Submits, Codes, Says, Deciding, bounds
<1> QED BY <1>2, SubmitsOnly

LEMMA ListKeeps ==
  ASSUME IInv, NEW h \in Handlers,
         ListTools(h) \/ ListFails(h) \/ FilterTool(h) \/ ListFiltered(h)
  PROVE  IInv'
<1>0. /\ pc[h] \in {"list", "filter"} /\ pc[h] \in Deciding /\ UNCHANGED others
      /\ Typed /\ req[h] \in Request
  BY DEF ListTools, ListFails, FilterTool, ListFiltered, Deciding, IInv, Typed
<1>1. HasSession(h)
  BY <1>0 DEF IInv, Owned
<1>2. CASE ListTools(h)
  <2> DEFINE r == [req[h] EXCEPT !.todo = Tools]
  <2>1. r \in Request /\ r.n = req[h].n /\ r.method = req[h].method /\ r.client = req[h].client
        /\ r.session = req[h].session /\ r.call = req[h].call /\ r.listed = req[h].listed
    BY <1>0 DEF Request
  <2>2. req' = [req EXCEPT ![h] = r] /\ pc' = [pc EXCEPT ![h] = "filter"]
        /\ UNCHANGED <<trail, events, inForce>>
    BY <1>2 DEF ListTools, Go
  <2> HIDE DEF r
  <2>3. req' \in [Handlers -> Request] /\ req'[h] = r /\ \A g \in Handlers : g # h => req'[g] = req[g]
    BY <1>0, <2>1, <2>2 DEF Typed
  <2>4. Moves(h, "filter")
    BY <1>0, <1>1, <2>1, <2>2, <2>3 DEF Moves, Deciding, others
  <2>5. forwarded' = forwarded
    BY <1>0 DEF others
  <2> QED BY <2>1, <2>3, <2>4, <2>5, MoveKeeps
<1>3. CASE ListFails(h)
  <2>1. Submits(h, "allow", "error", "upstream_error")
    BY <1>0, <1>1, <1>3 DEF ListFails, Submits, others, tables, Codes, Says, bounds
  <2> QED BY <1>0, <2>1, SubmitsOnly
<1>4. CASE FilterTool(h)
  <2> DEFINE tool == CHOOSE t \in req[h].todo : TRUE
             listed == IF Shown(tool) THEN req[h].listed \cup {tool} ELSE req[h].listed
             r == [req[h] EXCEPT !.todo = req[h].todo \ {tool}, !.listed = listed]
  <2>1. req' = [req EXCEPT ![h].todo = req[h].todo \ {tool}, ![h].listed = listed]
    BY <1>4 DEF FilterTool
  <2>2. tool \in req[h].todo /\ tool \in Tools
    BY <1>0, <1>4 DEF FilterTool, Request
  <2>3. listed \subseteq Tools /\ \A t \in listed : t \in req[h].listed \/ t \in policy.surface
    BY <1>0, <2>2 DEF Request, Shown
  <2> HIDE DEF tool, listed
  <2>4. r \in Request /\ r.n = req[h].n /\ r.method = req[h].method /\ r.client = req[h].client
        /\ r.session = req[h].session /\ r.call = req[h].call /\ r.listed = listed
    BY <1>0, <2>3 DEF Request
  <2>5. req' = [req EXCEPT ![h] = r]
    BY <1>0, <2>1 DEF Typed
  <2>6. pc' = pc /\ pc[h] = "filter" /\ UNCHANGED <<trail, events, inForce>>
    BY <1>4 DEF FilterTool
  <2>7. pc' = [pc EXCEPT ![h] = "filter"]
    BY <1>0, <2>6 DEF Typed
  <2> HIDE DEF r
  <2>8. req' \in [Handlers -> Request] /\ req'[h] = r /\ \A g \in Handlers : g # h => req'[g] = req[g]
    BY <1>0, <2>4, <2>5 DEF Typed
  <2>9. Moves(h, "filter")
    BY <1>0, <1>1, <2>4, <2>6, <2>7, <2>8 DEF Moves, Deciding, others
  <2>10. forwarded' = forwarded
    BY <1>0 DEF others
  <2> QED BY <2>3, <2>4, <2>8, <2>9, <2>10, MoveKeeps
<1>5. CASE ListFiltered(h)
  <2>1. Submits(h, "allow", "ok", "result")
    BY <1>0, <1>1, <1>5 DEF ListFiltered, Submits, others, tables, Codes, Says, bounds
  <2> QED BY <1>0, <2>1, SubmitsOnly
<1> QED BY <1>2, <1>3, <1>4, <1>5

LEMMA EvaluateKeeps ==
  ASSUME IInv, NEW h \in Handlers, EvaluateAllows(h) \/ EvaluateDenies(h)
  PROVE  IInv'
<1>1. pc[h] = "evaluate" /\ pc[h] \in Deciding /\ UNCHANGED others
  BY DEF EvaluateAllows, EvaluateDenies, Deciding
<1>2. HasSession(h)
  BY <1>1 DEF IInv, Owned
<1>3. CASE EvaluateAllows(h)
  <2>1. /\ Evaluate(policy, req[h].call).action = "allow"
        /\ pc' = [pc EXCEPT ![h] = "forward"] /\ UNCHANGED <<req, trail, events, inForce>>
    BY <1>3 DEF EvaluateAllows, Permitted, Go
  <2>2. Moves(h, "forward")
    BY <1>1, <1>2, <2>1 DEF Moves, Deciding, IInv, Typed, others
  <2>3. req' = req /\ forwarded' = forwarded
    BY <1>1, <2>1 DEF others
  <2> QED BY <2>1, <2>2, <2>3, MoveKeeps
<1>4. CASE EvaluateDenies(h)
  <2>1. PICK code \in {"policy_denied", "rate_limited"} : Submit(h, "deny", "ok", code)
    BY <1>4 DEF EvaluateDenies
  <2>2. Submits(h, "deny", "ok", code)
    BY <1>1, <1>2, <2>1 DEF Submits, others, tables, Codes, Says, bounds
  <2> QED BY <1>1, <2>2, SubmitsOnly
<1> QED BY <1>3, <1>4

\* The call is handed over: a policy the handler knew allows it, its session is
\* its caller's, and the handler waits.
LEMMA ForwardKeeps ==
  ASSUME IInv, NEW h \in Handlers, Forward(h)
  PROVE  IInv'
<1> DEFINE x == [n |-> req[h].n, client |-> req[h].client, session |-> req[h].session,
                 call |-> req[h].call, inForce |-> inForce[h]]
<1>1. /\ pc[h] = "forward" /\ pc' = [pc EXCEPT ![h] = "upstream"]
      /\ forwarded' = forwarded \cup {x}
      /\ UNCHANGED <<server, failClosed, tables, counted, req, trail, events, answers, executed,
                     inForce, bounds>>
  BY DEF Forward, Go
<1>2. HasSession(h) /\ \E p \in inForce[h] : Evaluate(p, req[h].call).action = "allow"
  BY <1>1 DEF IInv, Owned, Known, Deciding
<1>3. Moves(h, "upstream")
  BY <1>1, <1>2 DEF Moves, Deciding, IInv, Typed
<1>4. Lawful(x)'
  <2>1. pc'[h] = "upstream" /\ req' = req /\ published' = published
    BY <1>1 DEF IInv, Typed, tables
  <2>2. /\ x.n = req[h].n /\ x.inForce = inForce[h] /\ x.call = req[h].call
        /\ x.session = req[h].session /\ x.client = req[h].client
        /\ UNCHANGED <<x.n, x.inForce, x.call, x.session, x.client>>
    BY <1>1, <2>1
  <2> HIDE DEF x
  <2>3. Awaited(x)'
    BY <2>1, <2>2 DEF Awaited
  <2> QED BY <1>2, <2>1, <2>2, <2>3 DEF Lawful, HasSession
<1>5. \A y \in forwarded' : y \in forwarded \/ Lawful(y)'
  <2> SUFFICES ASSUME NEW y \in forwarded', y \notin forwarded PROVE Lawful(y)'
    OBVIOUS
  <2>1. y = x /\ y = x'
    BY <1>1
  <2> HIDE DEF x
  <2> QED BY <1>4, <2>1 DEF Lawful, Submitted, Awaited
<1>6. req' = req
  BY <1>1
<1> QED BY <1>3, <1>5, <1>6, MoveKeeps

\* ToolsCall fails at once, or returns: the event says that the call was allowed.
LEMMA ReturnsKeep ==
  ASSUME IInv, NEW h \in Handlers,
         ForwardFails(h) \/ \E outcome \in {"ok", "error"} : ToolReturns(h, outcome)
  PROVE  IInv'
<1>1. PICK outcome \in {"ok", "error"} :
        Submit(h, "allow", outcome, IF outcome = "ok" THEN "result" ELSE "upstream_error")
  BY DEF ForwardFails, ToolReturns
<1>2. pc[h] \in {"forward", "upstream"} /\ pc[h] \in Deciding /\ UNCHANGED others
  BY DEF ForwardFails, ToolReturns, Deciding
<1>3. HasSession(h)
  BY <1>2 DEF IInv, Owned
<1>4. Submits(h, "allow", outcome, IF outcome = "ok" THEN "result" ELSE "upstream_error")
  BY <1>1, <1>2, <1>3 DEF Submits, others, tables, Codes, Says, bounds
<1> QED BY <1>4, SubmitsOnly

\* An upstream runs a call: the call was handed over, and nothing else changes.
LEMMA RunToolKeeps ==
  ASSUME IInv, RunTool
  PROVE  IInv'
<1> /\ Typed /\ Apart /\ Owned /\ Recorded /\ Opened /\ Known
    /\ Handed /\ AnswersLogged /\ CountsAgree /\ ListingHonest /\ ClosedLast
  BY DEF IInv
<1>1. /\ UNCHANGED <<server, failClosed, policy, sessions, issued, published, pc, req, counted, clock,
                     held, queue, rows, reported, refused, events, answers, forwarded, inForce,
                     arrived, fatal>>
      /\ executed' \subseteq forwarded
  BY DEF RunTool, tables, trail, bounds, Handed
<1>2. Keeps
  BY <1>1 DEF Typed, Keeps
<1>3. Typed' /\ Apart' /\ Owned' /\ Known'
  BY <1>1 DEF Typed, Apart, Opener, Owned, HasSession, Known
<1>4. Recorded'
  BY <1>1 DEF Recorded, Taken
<1>5. Opened'
  BY <1>1, <1>2, StayOpened
<1>6. Handed'
  <2>1. StillAwaited
    BY <1>1 DEF StillAwaited
  <2>2. ASSUME NEW x \in forwarded
        PROVE  Lawful(x)'
    BY <1>1, <1>2, <2>1, LawfulStays DEF Handed
  <2> QED BY <1>1, <2>2 DEF Handed
<1>7. CountsAgree'
  BY <1>1, <1>2, CountsStay
<1>8. AnswersLogged' /\ ListingHonest' /\ ClosedLast'
  BY <1>1 DEF AnswersLogged, ListingHonest, ClosedLast
<1> QED BY <1>3, <1>4, <1>5, <1>6, <1>7, <1>8 DEF IInv

-----------------------------------------------------------------------------
LEMMA StutterKeeps ==
  ASSUME IInv, UNCHANGED vars
  PROVE  IInv'
<1>1. UNCHANGED <<server, failClosed, policy, sessions, issued, published, pc, req, clock, held, queue,
                  rows, reported, refused, counted, events, answers, forwarded, executed, inForce,
                  arrived, fatal>>
  BY DEF vars, tables, trail, history, bounds
<1>2. Keeps
  BY <1>1 DEF IInv, Typed, Keeps
<1>3. Typed'
  BY <1>1 DEF IInv, Typed
<1>4. Apart' /\ Owned' /\ Known'
  BY <1>1 DEF IInv, Apart, Opener, Owned, HasSession, Known
<1>5. Recorded'
  BY <1>1 DEF IInv, Recorded, Taken
<1>6. Opened'
  BY <1>1, <1>2, StayOpened DEF IInv
<1>7. AnswersLogged' /\ ListingHonest' /\ ClosedLast'
  BY <1>1 DEF IInv, AnswersLogged, ListingHonest, ClosedLast
<1>8. Handed' /\ CountsAgree'
  <2>1. StillAwaited
    BY <1>1 DEF StillAwaited
  <2> QED BY <1>1, <1>2, <2>1, HandedStays, CountsStay DEF IInv
<1> QED BY <1>3, <1>4, <1>5, <1>6, <1>7, <1>8 DEF IInv

LEMMA NextKeeps == IInv /\ [Next]_vars => IInv'
<1> SUFFICES ASSUME IInv, [Next]_vars PROVE IInv'
  OBVIOUS
<1>1. ASSUME NEW h \in Handlers, NEW in \in Inputs, Arrive(h, in)
      PROVE  IInv'
  BY <1>1, ArriveKeeps
<1>2. ASSUME NEW h \in Handlers, server # "closed", Handle(h)
      PROVE  IInv'
  <2>1. CASE HandleInitialize(h)
    BY <2>1, InitializeKeeps
  <2>2. CASE ResolveSession(h) \/ RejectSession(h)
    BY <2>2, ResolveKeeps, RejectKeeps
  <2>3. CASE ListTools(h) \/ ListFails(h) \/ FilterTool(h) \/ ListFiltered(h)
    BY <2>3, ListKeeps
  <2>4. CASE EvaluateAllows(h) \/ EvaluateDenies(h)
    BY <2>4, EvaluateKeeps
  <2>5. CASE BadParams(h)
    BY <2>5, BadParamsKeeps
  <2>6. CASE \/ Forward(h) \/ ForwardFails(h)
             \/ \E outcome \in {"ok", "error"} : ToolReturns(h, outcome)
    BY <2>6, ForwardKeeps, ReturnsKeep
  <2>7. CASE LogAccepts(h) \/ LogDrops(h) \/ LogRefuses(h)
    BY <1>2, <2>7, ReturnKeeps
  <2>8. CASE LogPanics(h)
    BY <2>8, PanicKeeps
  <2>9. CASE Reply(h)
    BY <2>9, ReplyKeeps
  <2> QED BY <1>2, <2>1, <2>2, <2>3, <2>4, <2>5, <2>6, <2>7, <2>8, <2>9 DEF Handle
<1>3. CASE Write
  BY <1>3, WriteKeeps
<1>4. CASE (\E p \in Policies : Swap(p)) \/ Shutdown \/ CloseAudit \/ ServerError \/ Exit
  BY <1>4, ServerKeeps
<1>5. CASE UNCHANGED vars
  BY <1>5, StutterKeeps
<1>6. CASE RunTool
  BY <1>6, RunToolKeeps
<1> QED BY <1>1, <1>2, <1>3, <1>4, <1>5, <1>6 DEF Next

LEMMA Invariance == Spec => []IInv
BY InitIInv, NextKeeps, PTL DEF Spec

\* Whatever a caller is told, its event says too, and Log had taken it before
\* the answer went out (and queued it, when the mode is fail_closed); and the
\* counters say of the answered lists and calls what the log says of them.
THEOREM AnswersAreAudited == Spec => []AnswersAudited
<1>1. IInv => AnswersAudited
  BY DEF IInv, AnswersAudited
<1> QED BY <1>1, Invariance, PTL

\* A tool runs only under a policy in force that allows the call and in a
\* session of the caller's own, and its event is submitted, at the latest when
\* its handler has the upstream's answer; through reloads and through shutdowns,
\* which wait for that handler.
THEOREM ExecutionIsLawful == Spec => []ExecutedLawfully
<1>1. IInv => ExecutedLawfully
  <2> SUFFICES ASSUME IInv, NEW x \in executed
               PROVE  /\ \E p \in x.inForce : Evaluate(p, x.call).action = "allow"
                      /\ x.session \in DOMAIN published /\ published[x.session] = x.client
                      /\ \/ Submitted(x)
                         \/ Awaited(x) /\ (server \in {"closing", "closed"} => fatal)
    BY DEF ExecutedLawfully
  <2>1. Lawful(x)
    BY DEF IInv, Handed
  <2>2. Awaited(x) /\ server \in {"closing", "closed"} => fatal
    BY DEF IInv, ClosedLast, Awaited
  <2> QED BY <2>1, <2>2 DEF Lawful
<1> QED BY <1>1, Invariance, PTL

\* tools/list shows only tools that a policy in force meanwhile shows.
THEOREM ListingIsHonest == Spec => []ListingHonest
<1>1. IInv => ListingHonest
  BY DEF IInv
<1> QED BY <1>1, Invariance, PTL

\* A session in the table, and an event under a session, comes after the event
\* that opened the session.
THEOREM SessionsAreTraced == Spec => []SessionsTraced
<1>1. IInv => SessionsTraced
  <2> SUFFICES ASSUME IInv PROVE SessionsTraced
    OBVIOUS
  <2>1. ASSUME NEW s \in DOMAIN sessions
        PROVE  \E f \in DOMAIN events : Opens(f, s, sessions[s])
    BY DEF IInv, Typed, Owned, Opened, Opening
  <2>2. ASSUME NEW e \in DOMAIN events, events[e].action # "initialize", events[e].outcome # "session"
        PROVE  \E f \in 1..e - 1 : /\ Opens(f, events[e].session, events[e].client)
                                   /\ failClosed => answers[events[f].n].logged = "accepted"
    BY <2>2 DEF IInv, Typed, Opened, Opening
  <2> QED BY <2>1, <2>2 DEF SessionsTraced
<1> QED BY <1>1, Invariance, PTL

\* After a signal nobody uses the log any more when it is closed, and nothing is
\* left in it when the process ends.
THEOREM ClosingIsLast == Spec => []ClosedLast
<1>1. IInv => ClosedLast
  BY DEF IInv
<1> QED BY <1>1, Invariance, PTL
=============================================================================
