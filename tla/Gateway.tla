------------------------------- MODULE Gateway -------------------------------
(***************************************************************************)
(* The request pipeline of internal/gateway/gateway.go and the life of the *)
(* server around it (cmd/mcpshield/main.go): handlers screen a request,    *)
(* authenticate it, resolve its session, ask the policy, forward the call, *)
(* log the event and only then answer, while policies are swapped and the  *)
(* server is told to stop.                                                 *)
(*                                                                         *)
(* The audit logger is present as the promise of AuditTrail, which         *)
(* AuditLogger implements: Log submits an event and learns what became of  *)
(* it; the writer records or loses queued events.  The session table is a  *)
(* map from which any session may vanish (Sessions says when), the limiter *)
(* and the upstreams may answer anything.  A name with an underscore is a  *)
(* deliberate bug.                                                         *)
(***************************************************************************)
EXTENDS PolicyRules

CONSTANTS
  Handlers,     \* requests handled at the same time
  Clients,      \* authenticated client ids
  Tools,        \* the tools the upstreams offer
  FirstPolicy,  \* the compiled policy the server starts with
  Policies,     \* the compiled policies that may be in force
  MaxRequests,  \* bound: requests that arrive in a behaviour
  MaxSessions,  \* bound: initialize requests in a behaviour
  MaxWrites,    \* bound: steps of the audit writer before the log is closed
  MaxSwaps      \* bound: policy reloads in a behaviour

ASSUME SetsAssumption == IsFiniteSet(Handlers) /\ IsFiniteSet(Clients) /\ IsFiniteSet(Tools)
ASSUME PolicyAssumption == FirstPolicy \in Policies
ASSUME BoundsAssumption == {MaxRequests, MaxSessions, MaxWrites, MaxSwaps} \subseteq Nat

VARIABLES
  server,     \* "running", "draining" (SIGTERM), "closing" (audit Close), "closed"
  failClosed, \* the audit queue's mode is fail_closed
  policy,     \* the engine's policy
  sessions,   \* sessionClients: id -> client
  issued,     \* session ids issued so far
  pc,         \* pc[h]: where handler h is
  req,        \* req[h]: the request and what the handler has found out
  counted,    \* mcpshield_requests_total by decision
  \* AuditTrail:
  clock, held, queue, rows, reported, refused,
  \* History, read by the properties and by no guard but the bounds:
  events,     \* what every submitted event says
  answers,    \* the answer of every request: request -> [code, logged, event]
  forwarded,  \* the calls handed to the upstreams
  executed,   \* those of them that ran
  published,  \* the session ids clients have been told
  inForce,    \* inForce[h]: the policies in force since h's request arrived
  arrived, writes, swaps, fatal

trail == <<clock, held, queue, rows, reported, refused>>
tables == <<policy, sessions, issued, published>>
history == <<answers, forwarded, executed, inForce>>
bounds == <<arrived, writes, swaps, fatal>>
vars == <<server, failClosed, tables, pc, req, counted, trail, events, history, bounds>>

Trail == INSTANCE AuditTrail

None == 0
NoClient == "none"
NoCall == [tool |-> "", args |-> << >>]
NoRequest == [n |-> None, method |-> "none", client |-> NoClient, session |-> None,
              call |-> NoCall, todo |-> {}, listed |-> {}, event |-> None,
              logged |-> "nothing", code |-> "none"]

\* f with k mapped to v, for keys numbered in order of arrival.
With(f, k, v) == [i \in DOMAIN f \cup {k} |-> IF i = k THEN v ELSE f[i]]

-----------------------------------------------------------------------------
(* ServeHTTP up to the dispatch.                                           *)

\* A request that is flawed, comes from nobody the authenticator knows, is a
\* notification without a session or names no method is answered at once and
\* leaves no trace.  The others get to a handler.
Admitted(in) ==
  /\ in.flaw = "none" /\ in.client # NoClient
  /\ IF in.notification
     THEN in.method = "notifications/initialized" /\ in.session # None
     ELSE in.method \in {"initialize", "tools/list", "tools/call"}

Init ==
  /\ server = "running"
  /\ failClosed \in BOOLEAN
  /\ policy = FirstPolicy
  /\ sessions = << >> /\ issued = 0 /\ published = << >>
  /\ pc = [h \in Handlers |-> "idle"]
  /\ req = [h \in Handlers |-> NoRequest]
  /\ counted = [allow |-> 0, deny |-> 0]
  /\ Trail!Init
  /\ events = << >> /\ answers = << >> /\ forwarded = {} /\ executed = {}
  /\ inForce = [h \in Handlers |-> {}]
  /\ arrived = 0 /\ writes = 0 /\ swaps = 0 /\ fatal = FALSE

\* The handler returns.
Done(h) ==
  /\ pc' = [pc EXCEPT ![h] = "idle"]
  /\ req' = [req EXCEPT ![h] = NoRequest]
  /\ inForce' = [inForce EXCEPT ![h] = {}]

Go(h, step) == pc' = [pc EXCEPT ![h] = step]

Answer(n, code, logged, event) ==
  answers' = With(answers, n, [code |-> code, logged |-> logged, event |-> event])

Arrive(h, in) ==
  /\ server = "running"
  /\ pc[h] = "idle"
  /\ Admitted(in)
  /\ arrived < MaxRequests
  /\ IF in.method = "initialize" THEN issued < MaxSessions ELSE arrived > 0 \* bounds
  /\ arrived' = arrived + 1
  /\ Go(h, IF in.method = "initialize" THEN "initialize" ELSE "resolve")
  /\ issued' = IF in.method = "initialize" THEN issued + 1 ELSE issued
  /\ req' = [req EXCEPT ![h] = [NoRequest EXCEPT
       !.n = arrived + 1, !.method = in.method, !.client = in.client, !.call = in.call,
       !.session = IF in.method = "initialize" THEN issued' ELSE in.session]]
  /\ inForce' = [inForce EXCEPT ![h] = IF in.method = "initialize" THEN {} ELSE {policy}]
  /\ UNCHANGED <<server, failClosed, policy, sessions, published, counted, trail, events,
                 answers, forwarded, executed, writes, swaps, fatal>>

-----------------------------------------------------------------------------
(* audit.Log.                                                              *)

\* The event is complete and Log is called; code is the answer the handler
\* will give if Log accepts.  The call and the list are in the event now.
Submit(h, decision, outcome, code) ==
  /\ Trail!Submit
  /\ events' = With(events, clock + 1,
       [n |-> req[h].n, action |-> req[h].method, client |-> req[h].client,
        session |-> req[h].session, decision |-> decision, outcome |-> outcome])
  /\ req' = [req EXCEPT ![h] =
       [@ EXCEPT !.event = clock + 1, !.code = code, !.call = NoCall, !.listed = {}]]
  /\ inForce' = [inForce EXCEPT ![h] = {}]
  /\ Go(h, "log")

\* Log returns: with an error when the mode is fail_closed and the event was
\* not queued.
Returned(h, logged) ==
  /\ pc[h] = "log"
  /\ req' = [req EXCEPT ![h].logged = logged]
  /\ Go(h, "reply")
  /\ UNCHANGED <<server, failClosed, tables, counted, events, history, bounds>>

LogAccepts(h) ==
  server \in {"running", "draining"} /\ Trail!Accept(req[h].event) /\ Returned(h, "accepted")
LogDrops(h) == Trail!Drop(req[h].event) /\ Returned(h, "dropped")
LogRefuses(h) == failClosed /\ Trail!Refuse(req[h].event) /\ Returned(h, "refused")

\* A send on the channel after Close: net/http recovers the handler's panic
\* and drops the connection.
LogPanics(h) ==
  /\ pc[h] = "log"
  /\ server = "closing"
  /\ held' = held \ {req[h].event}
  /\ Done(h)
  /\ UNCHANGED <<server, failClosed, tables, counted, clock, queue, rows, reported, refused,
                 events, answers, forwarded, executed, bounds>>

\* The writer.
Write ==
  /\ writes < MaxWrites \/ server = "closing"
  /\ writes' = IF server = "closing" THEN writes ELSE writes + 1
  /\ \E n \in 1..Len(queue) : Trail!Record(n) \/ Trail!Lose(n)
  /\ UNCHANGED <<server, failClosed, tables, pc, req, counted, events, history,
                 arrived, swaps, fatal>>

-----------------------------------------------------------------------------
(* The handlers.                                                           *)

\* What a handler leaves alone until it replies.
others == <<server, failClosed, tables, counted, answers, forwarded, executed, bounds>>

HandleInitialize_BindsFirst(h) ==
  /\ pc[h] = "initialize"
  /\ Submit(h, "allow", "ok", "result")
  /\ sessions' = With(sessions, req[h].session, req[h].client)
  /\ UNCHANGED <<server, failClosed, policy, issued, published, counted, answers, forwarded,
                 executed, bounds>>

\* handleInitialize: the event; the session is bound in Reply.
HandleInitialize(h) ==
  /\ pc[h] = "initialize"
  /\ Submit(h, "allow", "ok", "result")
  /\ UNCHANGED others

Resolves_Known(h) == req[h].session \in DOMAIN sessions
\* resolveSession: the session is known and the caller's own.
Resolves(h) == req[h].session \in DOMAIN sessions /\ sessions[req[h].session] = req[h].client

ResolveSession(h) ==
  /\ pc[h] = "resolve"
  /\ Resolves(h)
  /\ IF req[h].method = "notifications/initialized"
     THEN Submit(h, "allow", "ok", "no_content")
     ELSE /\ Go(h, IF req[h].method = "tools/list" THEN "list" ELSE "evaluate")
          /\ UNCHANGED <<req, trail, events, inForce>>
  /\ UNCHANGED others

\* logSessionReject, when the session is unknown or another client's; one the
\* table has may just have expired (see Sessions), and goes.
RejectSession(h) ==
  /\ pc[h] = "resolve"
  /\ \/ ~Resolves(h) /\ UNCHANGED sessions
     \/ Resolves(h) /\ sessions' = Restrict(sessions, DOMAIN sessions \ {req[h].session})
  /\ Submit(h, "deny", "session", "session_error")
  /\ UNCHANGED <<server, failClosed, policy, issued, published, counted, answers, forwarded,
                 executed, bounds>>

\* handleToolsList: upstream.ToolsList returns the tools or an error.
ListTools(h) ==
  /\ pc[h] = "list"
  /\ req' = [req EXCEPT ![h].todo = Tools]
  /\ Go(h, "filter")
  /\ UNCHANGED <<trail, events, inForce>>
  /\ UNCHANGED others

ListFails(h) ==
  /\ pc[h] = "list"
  /\ Submit(h, "allow", "error", "upstream_error")
  /\ UNCHANGED others

Shown_All(tool) == TRUE
\* IsToolAllowed
Shown(tool) == tool \in policy.surface

\* One turn of the loop: each tool is asked for on its own, and the policy may
\* be swapped between two of them.
FilterTool(h) ==
  /\ pc[h] = "filter"
  /\ req[h].todo # {}
  /\ LET tool == CHOOSE t \in req[h].todo : TRUE
     IN  req' = [req EXCEPT ![h].todo = @ \ {tool},
                            ![h].listed = IF Shown(tool) THEN @ \cup {tool} ELSE @]
  /\ UNCHANGED <<pc, trail, events, inForce>>
  /\ UNCHANGED others

ListFiltered(h) ==
  /\ pc[h] = "filter"
  /\ req[h].todo = {}
  /\ Submit(h, "allow", "ok", "result")
  /\ UNCHANGED others

Permitted_Surface(call) == Shown(call.tool)
Permitted(call) == Evaluate(policy, call).action = "allow"

\* A limited allow rule covers the tool, so the limiter may say no.
Limitable(call) ==
  \E i \in DOMAIN policy.allow :
    call.tool \in policy.allow[i].tools /\ policy.allow[i].limit # NoLimit

\* handleToolsCall: the policy is asked once.
EvaluateAllows(h) ==
  /\ pc[h] = "evaluate"
  /\ req[h].call.tool # ""
  /\ Permitted(req[h].call)
  /\ Go(h, "forward")
  /\ UNCHANGED <<req, trail, events, inForce>>
  /\ UNCHANGED others

EvaluateDenies(h) ==
  /\ pc[h] = "evaluate"
  /\ req[h].call.tool # ""
  /\ \E code \in {"policy_denied", "rate_limited"} :
       /\ IF code = "policy_denied" THEN ~Permitted(req[h].call)
          ELSE Permitted(req[h].call) /\ Limitable(req[h].call)
       /\ Submit(h, "deny", "ok", code)
  /\ UNCHANGED others

\* No tool name in the parameters: answered, and neither logged nor counted.
BadParams(h) ==
  /\ pc[h] = "evaluate"
  /\ req[h].call.tool = ""
  /\ Answer(req[h].n, "invalid_params", "nothing", None)
  /\ Done(h)
  /\ UNCHANGED <<server, failClosed, tables, counted, trail, events, forwarded, executed, bounds>>

\* upstream.ToolsCall: the call is handed to the upstreams, and the handler
\* waits; or the gateway is not ready, or has no such tool, and nothing is sent.
Forward(h) ==
  /\ pc[h] = "forward"
  /\ forwarded' = forwarded \cup
       {[n |-> req[h].n, client |-> req[h].client, session |-> req[h].session,
         call |-> req[h].call, inForce |-> inForce[h]]}
  /\ Go(h, "upstream")
  /\ UNCHANGED <<server, failClosed, tables, counted, req, trail, events, answers, executed,
                 inForce, bounds>>

ForwardFails(h) ==
  /\ pc[h] = "forward"
  /\ Submit(h, "allow", "error", "upstream_error")
  /\ UNCHANGED others

\* An upstream runs a call, at any time after it was handed over: its handler
\* may have given up, and this process may have ended.
RunTool ==
  /\ \E x \in forwarded \ executed : executed' = executed \cup {x}
  /\ UNCHANGED <<server, failClosed, tables, pc, req, counted, trail, events, answers, forwarded,
                 inForce, bounds>>

\* ToolsCall returns the result, or an error (a timeout, a cancelled request, a
\* response that cannot be used) that says nothing of whether the tool ran.
ToolReturns_Quietly(h, outcome) ==
  /\ pc[h] = "upstream"
  /\ outcome = "ok" => \E x \in executed : x.n = req[h].n
  /\ IF outcome = "ok"
     THEN Submit(h, "allow", "ok", "result") /\ UNCHANGED others
     ELSE /\ Answer(req[h].n, "upstream_error", "nothing", None)
          /\ Done(h)
          /\ UNCHANGED <<server, failClosed, tables, counted, trail, events, forwarded, executed, bounds>>

ToolReturns(h, outcome) ==
  /\ pc[h] = "upstream"
  /\ outcome = "ok" => \E x \in executed : x.n = req[h].n
  /\ Submit(h, "allow", outcome, IF outcome = "ok" THEN "result" ELSE "upstream_error")
  /\ UNCHANGED others

LogFailed_Ignored(h) == FALSE
\* logErr # nil
LogFailed(h) == failClosed /\ req[h].logged # "accepted"

CountedAs_Errors(h) ==
  IF req[h].method \notin {"tools/list", "tools/call"} THEN "nothing"
  ELSE IF req[h].code \in {"result", "upstream_error"} THEN "allow"
  ELSE IF req[h].code \in {"policy_denied", "rate_limited"} THEN "deny"
  ELSE "nothing"

\* Which answers count as requests, and as which decision.
CountedAs(h) ==
  IF req[h].method \notin {"tools/list", "tools/call"} THEN "nothing"
  ELSE IF req[h].code = "result" THEN "allow"
  ELSE IF req[h].code \in {"policy_denied", "rate_limited"} THEN "deny"
  ELSE "nothing"

\* Log has returned: the session is bound, the request counted, the answer
\* written; or, if Log failed, only "audit logging failed".
Reply(h) ==
  /\ pc[h] = "reply"
  /\ IF LogFailed(h)
     THEN /\ Answer(req[h].n, "audit_failed", req[h].logged, req[h].event)
          /\ UNCHANGED <<sessions, published, counted>>
     ELSE /\ Answer(req[h].n, req[h].code, req[h].logged, req[h].event)
          /\ IF req[h].method = "initialize"
             THEN /\ sessions' = With(sessions, req[h].session, req[h].client)
                  /\ published' = With(published, req[h].session, req[h].client)
             ELSE UNCHANGED <<sessions, published>>
          /\ counted' = [d \in DOMAIN counted |->
               IF d = CountedAs(h) THEN counted[d] + 1 ELSE counted[d]]
  /\ Done(h)
  /\ UNCHANGED <<server, failClosed, policy, issued, trail, events, forwarded, executed, bounds>>

-----------------------------------------------------------------------------
(* The server.                                                             *)

\* SIGHUP: see PolicyReload.  A reload that has begun finishes after SIGTERM.
Deciding == {"resolve", "list", "filter", "evaluate", "forward", "upstream"}
Swap(p) ==
  /\ server \in {"running", "draining"}
  /\ swaps < MaxSwaps
  /\ swaps' = swaps + 1
  /\ policy' = p
  /\ inForce' = [h \in Handlers |->
       IF pc[h] \in Deciding THEN inForce[h] \cup {p} ELSE inForce[h]]
  /\ UNCHANGED <<server, failClosed, sessions, issued, published, pc, req, counted, trail, events,
                 answers, forwarded, executed, arrived, writes, fatal>>

Serving(from, to) ==
  /\ server = from
  /\ server' = to
  /\ UNCHANGED <<failClosed, tables, pc, req, counted, trail, events, history, arrived, writes, swaps>>

\* SIGINT or SIGTERM: srv.Shutdown accepts no more requests.
Shutdown == Serving("running", "draining") /\ UNCHANGED fatal

Quiet_Unchecked == TRUE
\* srv.Shutdown returns when no handler is left.
Quiet == \A h \in Handlers : pc[h] = "idle"

\* The deferred auditLog.Close closes the channel.
CloseAudit == Quiet /\ Serving("draining", "closing") /\ UNCHANGED fatal

\* The listener fails: runServe returns, and closes the log, at once.  (Requests
\* that open connections still bring then are left out: the process is ending.)
ServerError == Serving("running", "closing") /\ fatal' = TRUE

\* The writer has drained the queue; the process ends.
Exit == queue = << >> /\ Serving("closing", "closed") /\ UNCHANGED fatal

-----------------------------------------------------------------------------
Input(client, method, session, call) ==
  [flaw |-> "none", client |-> client, notification |-> method = "notifications/initialized",
   method |-> method, session |-> session, call |-> call]

\* Requests name a session their sender has been told, another client's, or none.
Inputs ==
  LET calls == {[tool |-> tool, args |-> << >>] : tool \in Tools} \cup {NoCall}
  IN  UNION {
        {Input(c, "initialize", None, NoCall) : c \in Clients},
        {Input(c, m, s, NoCall) : c \in Clients, s \in DOMAIN published,
           m \in {"tools/list", "notifications/initialized"}},
        {Input(c, "notifications/initialized", None, NoCall) : c \in Clients},
        {Input(c, "tools/call", s, call) : c \in Clients, s \in DOMAIN published, call \in calls},
        {Input(c, "tools/call", None, NoCall) : c \in Clients},
        {Input(c, "other", None, NoCall) : c \in Clients \cup {NoClient}},
        {[Input(NoClient, "other", None, NoCall) EXCEPT !.flaw = f] :
           f \in {"too_large", "parse_error", "invalid_request"}}}

Handle(h) ==
  \/ HandleInitialize(h)
  \/ ResolveSession(h) \/ RejectSession(h)
  \/ ListTools(h) \/ ListFails(h) \/ FilterTool(h) \/ ListFiltered(h)
  \/ EvaluateAllows(h) \/ EvaluateDenies(h) \/ BadParams(h)
  \/ Forward(h) \/ ForwardFails(h)
  \/ \E outcome \in {"ok", "error"} : ToolReturns(h, outcome)
  \/ LogAccepts(h) \/ LogDrops(h) \/ LogRefuses(h) \/ LogPanics(h)
  \/ Reply(h)

Next ==
  \/ \E h \in Handlers, in \in Inputs : Arrive(h, in)
  \/ server # "closed" /\ \E h \in Handlers : Handle(h)
  \/ RunTool
  \/ Write
  \/ \E p \in Policies : Swap(p)
  \/ Shutdown \/ CloseAudit \/ ServerError \/ Exit

Spec == Init /\ [][Next]_vars

-----------------------------------------------------------------------------
(* Properties.                                                             *)

\* Answers a caller may act on: they promise that the event is on record.
Audited == {"result", "policy_denied", "rate_limited", "session_error", "upstream_error"}

\* No caller is given a result, a denial or an error about a request that the
\* log does not speak of: its event says the same, it was taken by Log before
\* the answer went out and, when the mode is fail_closed, it was queued.
AnswersLogged ==
  \A n \in DOMAIN answers :
    LET a == answers[n]
    IN  a.code \in Audited =>
          /\ a.event \in DOMAIN events /\ events[a.event].n = n
          /\ events[a.event].decision = "allow" <=> a.code \in {"result", "upstream_error"}
          /\ a.event \in Range(queue) \cup rows \cup reported
          /\ failClosed => a.logged = "accepted"

\* The counters say of the lists and calls that were answered what the log says
\* of them; an upstream's error, a failed session and an answer that the log
\* refused are not counted.
CountedIn(decision) ==
  {n \in DOMAIN answers :
     LET a == answers[n]
     IN  /\ a.code \in Audited \ {"session_error", "upstream_error"}
         /\ events[a.event].action \in {"tools/list", "tools/call"}
         /\ events[a.event].decision = decision}
CountsAgree == \A d \in DOMAIN counted : counted[d] = Cardinality(CountedIn(d))

\* What callers are told, what the log says and what is counted agree.
AnswersAudited == AnswersLogged /\ CountsAgree

\* No tool runs unless one policy that was in force while its request was
\* handled allows the call, the session was the caller's, and the log is told:
\* an event that says so has been submitted, or a handler still waits for the
\* answer and will submit it.  A shutdown by signal waits for that handler.  Only
\* when the listener fails may the process end before the handler has logged
\* what the tool has done.
Submitted(x) == \E e \in DOMAIN events : events[e].n = x.n /\ events[e].decision = "allow"
Awaited(x) == \E h \in Handlers : pc[h] = "upstream" /\ req[h].n = x.n
ExecutedLawfully ==
  \A x \in executed :
    /\ \E p \in x.inForce : Evaluate(p, x.call).action = "allow"
    /\ x.session \in DOMAIN published /\ published[x.session] = x.client
    /\ \/ Submitted(x)
       \/ Awaited(x) /\ (server \in {"closing", "closed"} => fatal)

\* tools/list shows a tool only if a policy in force since the request arrived
\* shows it, although the policy may change between two tools.
ListingHonest ==
  \A h \in Handlers : \A tool \in req[h].listed :
    \E p \in inForce[h] : tool \in p.surface

\* The log tells the story of every session from its beginning: a session in
\* the table, and any event under a session, has behind it the initialize event
\* of that session and client, which Log has taken and, when the mode is
\* fail_closed, queued.
Opens(f, session, client) ==
  /\ events[f].action = "initialize"
  /\ events[f].session = session /\ events[f].client = client
  /\ f \notin held \cup refused

SessionsTraced ==
  /\ \A s \in DOMAIN sessions : \E f \in DOMAIN events : Opens(f, s, sessions[s])
  /\ \A e \in DOMAIN events :
       events[e].action # "initialize" /\ events[e].outcome # "session" =>
         \E f \in 1..e - 1 :
           /\ Opens(f, events[e].session, events[e].client)
           /\ failClosed => answers[events[f].n].logged = "accepted"

\* After a signal the log is closed only when no handler can use it any more,
\* and the process ends with nothing left in the queue.  This is what the guard
\* of Close in AuditLogger stands on.  (A listener that fails has no such
\* order.)
ClosedLast ==
  /\ server \in {"closing", "closed"} /\ ~fatal =>
       held = {} /\ \A h \in Handlers : pc[h] = "idle"
  /\ server = "closed" => queue = << >>
=============================================================================
