---------------------------- MODULE SessionLease ----------------------------
(***************************************************************************)
(* What the gateway's session table promises its clients: a session is a   *)
(* lease.  It is granted to one client, renewed by every request that      *)
(* names it, and ends only when it has been idle for its time to live or   *)
(* when the table is full and it is among the least recently used.  Only   *)
(* its holder is served under it, and one that has ended never comes back. *)
(*                                                                         *)
(* All times are the true time of the step.  Sessions implements this with *)
(* clocks read before a lock is taken, so every bound here is only kept to *)
(* within Slack, the longest time a request waits between the two.         *)
(***************************************************************************)
EXTENDS Integers, FiniteSets, Functions

CONSTANTS
  Requests,  \* slots for requests in progress
  Clients,
  Ids,       \* the names sessions and requests can carry
  Capacity,  \* leases that may exist at the same time
  TTL,       \* a lease lasts this long without use
  Slack      \* how far an implementation's clock may lag

VARIABLES
  now,       \* the time
  holder,    \* the client of every session ever granted
  used,      \* when each session in force was last used
  answer     \* answer[r]: who asked for which session, and the verdict

leaseVars == <<now, holder, used, answer>>

Leases == DOMAIN used
Idle(s) == now - used[s]

Answer(c, s, v) == [client |-> c, id |-> s, verdict |-> v]
Unanswered == Answer("none", 0, "none")

Init ==
  /\ now = 0
  /\ holder = << >>
  /\ used = << >>
  /\ answer = [r \in Requests |-> Unanswered]

Pass == now' = now + 1 /\ UNCHANGED <<holder, used, answer>>

\* Sessions end: lapsed ones, and as many of the least recently used as it
\* takes to have room for one more.
MakeRoom(lapsed, displaced) ==
  LET kept == Leases \ (lapsed \cup displaced)
  IN  /\ \A s \in lapsed : Idle(s) >= TTL - Slack
      /\ displaced # {} => Cardinality(kept) = Capacity - 1
      /\ \A d \in displaced, s \in kept : used[d] <= used[s] + Slack
      /\ used' = Restrict(used, kept)
      /\ UNCHANGED <<now, holder, answer>>

\* A session that never existed before is granted to client c.
Grant(s, c) ==
  /\ s \notin DOMAIN holder
  /\ Cardinality(Leases) < Capacity
  /\ holder' = [t \in DOMAIN holder \cup {s} |-> IF t = s THEN c ELSE holder[t]]
  /\ used' = [t \in Leases \cup {s} |-> IF t = s THEN now ELSE used[t]]
  /\ UNCHANGED <<now, answer>>

\* A request for a session in force renews it, and is served if the session
\* is the caller's own.
Use(r, c, s) ==
  /\ s \in Leases
  /\ Idle(s) < TTL + Slack
  /\ used' = [used EXCEPT ![s] = now]
  /\ answer' = [answer EXCEPT ![r] =
       Answer(c, s, IF holder[s] = c THEN "served" ELSE "cross_client")]
  /\ UNCHANGED <<now, holder>>

\* A request for a session that is not in force, or lapses with the request.
Reject(r, c, s) ==
  /\ s \in Leases => Idle(s) >= TTL - Slack
  /\ used' = Restrict(used, Leases \ {s})
  /\ answer' = [answer EXCEPT ![r] = Answer(c, s, "unknown")]
  /\ UNCHANGED <<now, holder>>

Forget(r) ==
  /\ answer' = [answer EXCEPT ![r] = Unanswered]
  /\ UNCHANGED <<now, holder, used>>

Next ==
  \/ Pass
  \/ \E lapsed, displaced \in SUBSET Leases : MakeRoom(lapsed, displaced)
  \/ \E s \in Ids, c \in Clients : Grant(s, c)
  \/ \E r \in Requests, c \in Clients, s \in Ids : Use(r, c, s) \/ Reject(r, c, s)
  \/ \E r \in Requests : Forget(r)

Spec == Init /\ [][Next]_leaseVars
=============================================================================
