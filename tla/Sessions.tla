------------------------------ MODULE Sessions ------------------------------
(***************************************************************************)
(* The gateway's session table (internal/gateway/gateway.go): initialize   *)
(* binds a fresh session id to the authenticated client, and every later   *)
(* request names a session, which resolveSession looks up and renews.      *)
(*                                                                         *)
(* Handlers run concurrently and share the table under sessionMu.  The     *)
(* clock is read before the mutex is taken by lookups, and twice, under    *)
(* it, by bindSession, so a handler may act on a time that has passed.     *)
(*                                                                         *)
(* Session ids are numbered in the order uuid.NewString issues them.  An   *)
(* id that was never issued is 0.  A name with an underscore is a          *)
(* deliberate bug, as in AuditLogger.                                      *)
(***************************************************************************)
EXTENDS Integers, FiniteSets, Functions

CONSTANTS
  Handlers,     \* requests the server handles at the same time
  Clients,      \* authenticated client ids
  TTL,          \* sessionTTL
  MaxEntries,   \* sessionMaxEntries
  MaxStall,     \* longest time between reading the clock and the lookup
  MaxSessions,  \* bound: sessions issued in a behaviour
  MaxClock      \* bound: the last instant

ASSUME SetsAssumption == IsFiniteSet(Handlers) /\ IsFiniteSet(Clients)
\* validateConfig
ASSUME LimitsAssumption == TTL \in Nat \ {0} /\ MaxEntries \in Nat \ {0}
ASSUME BoundsAssumption == MaxStall \in Nat /\ MaxSessions \in Nat /\ MaxClock \in Nat

VARIABLES
  clock,      \* the time timeNow returns
  pc,         \* pc[h]: where handler h is
  req,        \* req[h]: the client, the session and the clock handler h works with
  sessions,   \* sessionClients: id -> binding
  issued,     \* ids issued so far
  gauge,      \* mcpshield_active_sessions
  evictions,  \* mcpshield_session_evictions_total by reason
  \* History, read by the properties and by no guard:
  owner,      \* the client every bound id was given to
  lastUse     \* the true time of the last bind or successful lookup of a session

tableVars == <<sessions, gauge, evictions>>
history   == <<owner, lastUse>>
vars == <<clock, pc, req, tableVars, issued, history>>

NeverIssued == 0
Ids == 0..MaxSessions
NoRequest == [client |-> "none", id |-> NeverIssued, now |-> 0]
Verdicts == {"served", "cross_client", "unknown"}

-----------------------------------------------------------------------------
(* The table.                                                              *)

Bind(table, id, c, expires) ==
  [s \in DOMAIN table \cup {id} |->
     IF s = id THEN [client |-> c, expires |-> expires] ELSE table[s]]

Without(table, S) == Restrict(table, DOMAIN table \ S)

\* evictExpiredLocked: the sessions whose expiry is not after t.
Expired(table, t) == {s \in DOMAIN table : table[s].expires <= t}

Surplus_OffByOne(n) == IF n > MaxEntries THEN n - MaxEntries ELSE 0

\* bindSession: how many sessions must go before one more is added.
Surplus(n) == IF n >= MaxEntries THEN n - MaxEntries + 1 ELSE 0

Victims_Newest(table, n) ==
  {V \in SUBSET DOMAIN table :
     /\ Cardinality(V) = n
     /\ \A v \in V, s \in DOMAIN table \ V : table[v].expires >= table[s].expires}

\* evictOldestLocked: n times the session that expires first, map order
\* deciding between equals.
Victims(table, n) ==
  {V \in SUBSET DOMAIN table :
     /\ Cardinality(V) = n
     /\ \A v \in V, s \in DOMAIN table \ V : table[v].expires <= table[s].expires}

GaugeOf_Stale(table, evicted) == Cardinality(DOMAIN table) + Cardinality(evicted)

\* updateActiveSessionsMetricLocked, after the sessions in evicted have gone.
GaugeOf(table, evicted) == Cardinality(DOMAIN table)

Renewal_Extended(binding, t) == binding.expires + TTL

\* binding.expiresAt = now.Add(g.sessionTTL)
Renewal(binding, t) == t + TTL

-----------------------------------------------------------------------------
Init ==
  /\ clock = 0
  /\ pc = [h \in Handlers |-> "idle"]
  /\ req = [h \in Handlers |-> NoRequest]
  /\ sessions = << >>
  /\ issued = 0
  /\ gauge = 0
  /\ evictions = [expired |-> 0, capacity |-> 0]
  /\ owner = << >>
  /\ lastUse = << >>

\* The response is out and the goroutine's locals are gone.
Done(h) ==
  /\ pc' = [pc EXCEPT ![h] = "idle"]
  /\ req' = [req EXCEPT ![h] = NoRequest]

-----------------------------------------------------------------------------
(* initialize: the id is issued, the event logged, and the session bound   *)
(* only when Log accepts the event.                                        *)

NewId_Repeated == issued

\* uuid.NewString(): an id no session has had before.
NewId == issued + 1

\* handleInitialize is called with uuid.NewString().
Initialize(h, c) ==
  /\ pc[h] = "idle"
  /\ issued < MaxSessions
  /\ issued' = issued + 1
  /\ req' = [req EXCEPT ![h] = [client |-> c, id |-> NewId, now |-> 0]]
  /\ pc' = [pc EXCEPT ![h] = "log"]
  /\ UNCHANGED <<clock, tableVars, history>>

LogAccepts(h) ==
  /\ pc[h] = "log"
  /\ pc' = [pc EXCEPT ![h] = "bind"]
  /\ UNCHANGED <<clock, req, tableVars, issued, history>>

\* "audit logging failed": no session is bound and no id published.
LogRefuses(h) ==
  /\ pc[h] = "log"
  /\ Done(h)
  /\ UNCHANGED <<clock, tableVars, issued, history>>

Unlocked_Unchecked == TRUE

\* sessionMu is held across a step only between the two clock readings of
\* bindSession.
Unlocked == \A h \in Handlers : pc[h] # "insert"

\* bindSession takes the lock, reads the clock and makes room.
BindEvict(h) ==
  /\ pc[h] = "bind"
  /\ Unlocked
  /\ LET expired == Expired(sessions, clock)
         fresh   == Without(sessions, expired)
     IN  \E victims \in Victims(fresh, Surplus(Cardinality(DOMAIN fresh))) :
           /\ sessions' = Without(fresh, victims)
           /\ lastUse' = Restrict(lastUse, DOMAIN sessions')
           /\ gauge' = GaugeOf(sessions', expired \cup victims)
           /\ evictions' = [expired  |-> evictions.expired + Cardinality(expired),
                            capacity |-> evictions.capacity + Cardinality(victims)]
  /\ pc' = [pc EXCEPT ![h] = "insert"]
  /\ UNCHANGED <<clock, req, issued, owner>>

\* It reads the clock again, adds the binding and unlocks; the response then
\* tells the client the id.
BindInsert(h) ==
  /\ pc[h] = "insert"
  /\ LET id == req[h].id
         c  == req[h].client
     IN  /\ sessions' = Bind(sessions, id, c, clock + TTL)
         /\ owner' = [s \in DOMAIN owner \cup {id} |-> IF s = id THEN c ELSE owner[s]]
         /\ lastUse' = [s \in DOMAIN lastUse \cup {id} |->
                          IF s = id THEN clock ELSE lastUse[s]]
  /\ gauge' = GaugeOf(sessions', {})
  /\ Done(h)
  /\ UNCHANGED <<clock, evictions, issued>>

-----------------------------------------------------------------------------
(* Every other request that carries a session id: resolveSession.          *)

\* The request names a published id, its own or another's, or an id never
\* issued; lookupSessionClient reads the clock before it locks.
Request(h, c, id) ==
  /\ pc[h] = "idle"
  /\ id \in DOMAIN owner \cup {NeverIssued}
  /\ req' = [req EXCEPT ![h] = [client |-> c, id |-> id, now |-> clock]]
  /\ pc' = [pc EXCEPT ![h] = "lookup"]
  /\ UNCHANGED <<clock, tableVars, issued, history>>

Known(table, id) == id \in DOMAIN table

\* binding.expiresAt.After(now)
Alive(binding, t) == binding.expires > t

LookupUnknown(h) ==
  /\ pc[h] = "lookup"
  /\ Unlocked
  /\ ~Known(sessions, req[h].id)
  /\ pc' = [pc EXCEPT ![h] = "unknown"]
  /\ UNCHANGED <<clock, req, tableVars, issued, history>>

LookupExpired(h) ==
  LET id == req[h].id
  IN  /\ pc[h] = "lookup"
      /\ Unlocked
      /\ Known(sessions, id)
      /\ ~Alive(sessions[id], req[h].now)
      /\ sessions' = Without(sessions, {id})
      /\ lastUse' = Without(lastUse, {id})
      /\ gauge' = GaugeOf(sessions', {id})
      /\ evictions' = [evictions EXCEPT !.expired = @ + 1]
      /\ pc' = [pc EXCEPT ![h] = "unknown"]
      /\ UNCHANGED <<clock, req, issued, owner>>

\* The binding is renewed before its client is compared with the caller.
LookupFound(h) ==
  LET id == req[h].id
  IN  /\ pc[h] = "lookup"
      /\ Unlocked
      /\ Known(sessions, id)
      /\ Alive(sessions[id], req[h].now)
      /\ sessions' = [sessions EXCEPT ![id].expires = Renewal(sessions[id], req[h].now)]
      /\ lastUse' = [lastUse EXCEPT ![id] = clock]
      /\ pc' = [pc EXCEPT ![h] =
           IF sessions[id].client = req[h].client THEN "served" ELSE "cross_client"]
      /\ UNCHANGED <<clock, req, gauge, evictions, issued, owner>>

\* The response has gone out; the slot serves the next request.
Respond(h) ==
  /\ pc[h] \in Verdicts
  /\ Done(h)
  /\ UNCHANGED <<clock, tableVars, issued, history>>

-----------------------------------------------------------------------------
\* Time passes, but no handler waits longer than MaxStall for its lookup.
Tick ==
  /\ clock < MaxClock
  /\ \A h \in Handlers : pc[h] = "lookup" => clock - req[h].now < MaxStall
  /\ clock' = clock + 1
  /\ UNCHANGED <<pc, req, tableVars, issued, history>>

Lookup(h) == LookupUnknown(h) \/ LookupExpired(h) \/ LookupFound(h)
BindSession(h) == BindEvict(h) \/ BindInsert(h)

Handle(h) ==
  \/ LogAccepts(h) \/ LogRefuses(h)
  \/ BindSession(h)
  \/ Lookup(h)
  \/ Respond(h)

Next ==
  \/ \E h \in Handlers, c \in Clients : Initialize(h, c)
  \/ \E h \in Handlers, c \in Clients, id \in Ids : Request(h, c, id)
  \/ \E h \in Handlers : Handle(h)
  \/ Tick

Spec == Init /\ [][Next]_vars

-----------------------------------------------------------------------------
(* Properties.                                                             *)

RequestState == [client : Clients \cup {"none"}, id : Ids, now : 0..MaxClock]
Binding == [client : Clients, expires : 0..MaxClock + TTL]

\* Types, and which ids may be where: only issued ids are bound, each handler
\* that is about to bind has an id of its own, and only bound ids have owners.
TypeOK ==
  /\ clock \in 0..MaxClock
  /\ pc \in [Handlers -> {"idle", "log", "bind", "insert", "lookup"} \cup Verdicts]
  /\ req \in [Handlers -> RequestState]
  /\ issued \in 0..MaxSessions
  /\ DOMAIN owner \subseteq 1..issued /\ owner \in [DOMAIN owner -> Clients]
  /\ DOMAIN sessions \subseteq DOMAIN owner /\ sessions \in [DOMAIN sessions -> Binding]
  /\ lastUse \in [DOMAIN sessions -> 0..clock]
  /\ gauge \in Nat
  /\ evictions \in [expired : Nat, capacity : Nat]

\* The gauge is the size of the table, and every session that was bound is in
\* the table or counted under exactly one eviction reason, although four code
\* paths remove sessions and each updates the metrics itself.
MetricsExact ==
  /\ gauge = Cardinality(DOMAIN sessions)
  /\ Cardinality(DOMAIN owner) =
       Cardinality(DOMAIN sessions) + evictions.expired + evictions.capacity

\* session_max_entries is never exceeded, however many initialize requests
\* are between their Log call and their bind.
CapacityRespected == Cardinality(DOMAIN sessions) <= MaxEntries

\* A session expires TTL after its last use.  Lookups write an expiry computed
\* from a clock they read before they got the lock, so it may be early, and
\* may even move back, but never by more than the longest such wait.
LeaseBounds ==
  \A s \in DOMAIN sessions :
    /\ lastUse[s] + TTL - MaxStall <= sessions[s].expires
    /\ sessions[s].expires <= lastUse[s] + TTL

\* A handler between initialize and its bind has an id no other handler has and
\* no session ever had; the one that made room still has it when it inserts,
\* for no other handler can be between the two; a handler in a lookup lags by
\* at most MaxStall; and a binding names the client its id was published to.
Binders == {"log", "bind", "insert"}
HandlersApart ==
  /\ \A h \in Handlers :
       /\ pc[h] # "idle" => req[h].client \in Clients
       /\ pc[h] \in Binders => req[h].id \in 1..issued \ DOMAIN owner
       /\ pc[h] = "insert" => Cardinality(DOMAIN sessions) < MaxEntries
       /\ pc[h] = "lookup" => req[h].now <= clock /\ clock <= req[h].now + MaxStall
  /\ \A g, h \in Handlers : g # h /\ pc[g] \in Binders /\ pc[h] \in Binders =>
       /\ req[g].id # req[h].id
       /\ ~(pc[g] = "insert" /\ pc[h] = "insert")
  /\ \A s \in DOMAIN sessions : sessions[s].client = owner[s]

\* The promise of SessionLease: who is served, how long a session lasts, and
\* which session goes first when the table is full.
Answers ==
  [h \in Handlers |->
     IF pc[h] \in Verdicts
     THEN [client |-> req[h].client, id |-> req[h].id, verdict |-> pc[h]]
     ELSE [client |-> "none", id |-> NeverIssued, verdict |-> "none"]]

Lease == INSTANCE SessionLease
  WITH Requests <- Handlers, Capacity <- MaxEntries, Slack <- MaxStall,
       now <- clock, holder <- owner, used <- lastUse, answer <- Answers
LeaseSpec == Lease!Spec
=============================================================================
