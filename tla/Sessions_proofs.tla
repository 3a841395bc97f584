-------------------------- MODULE Sessions_proofs --------------------------
(***************************************************************************)
(* Theorems about Sessions, for any number of handlers, clients, sessions  *)
(* and table entries, any time to live and any longest stall.              *)
(***************************************************************************)
EXTENDS Sessions, TLAPS, FiniteSetTheorems

\* The inductive invariant: what a step needs to know of the table and of the
\* handlers that are in the middle of a request.
IInv == TypeOK /\ MetricsExact /\ CapacityRespected /\ LeaseBounds /\ HandlersApart

LEMMA Limits ==
  /\ TTL \in Nat /\ TTL > 0 /\ MaxEntries \in Nat /\ MaxEntries > 0
  /\ MaxStall \in Nat /\ MaxSessions \in Nat /\ MaxClock \in Nat
BY LimitsAssumption, BoundsAssumption

\* Only finitely many ids are ever owned, so the table is finite too.
LEMMA FiniteTable ==
  ASSUME TypeOK
  PROVE  /\ IsFiniteSet(DOMAIN owner) /\ Cardinality(DOMAIN owner) \in Nat
         /\ IsFiniteSet(DOMAIN sessions) /\ Cardinality(DOMAIN sessions) \in Nat
<1>1. issued \in Nat /\ DOMAIN owner \subseteq 1..issued /\ DOMAIN sessions \subseteq DOMAIN owner
  BY Limits DEF TypeOK
<1>2. IsFiniteSet(1..issued)
  BY <1>1, FS_Interval
<1>3. IsFiniteSet(DOMAIN owner)
  BY <1>1, <1>2, FS_Subset
<1>4. IsFiniteSet(DOMAIN sessions)
  BY <1>1, <1>3, FS_Subset
<1> QED BY <1>3, <1>4, FS_CardinalityType

\* Removing a finite part of a finite set.
LEMMA RemovePart ==
  ASSUME NEW S, IsFiniteSet(S), NEW T \in SUBSET S
  PROVE  /\ IsFiniteSet(S \ T) /\ IsFiniteSet(T)
         /\ Cardinality(T) \in Nat /\ Cardinality(S) \in Nat
         /\ Cardinality(S \ T) = Cardinality(S) - Cardinality(T)
<1>1. IsFiniteSet(T) /\ IsFiniteSet(S \ T)
  BY FS_Subset
<1>2. (S \ T) \cap T = {} /\ (S \ T) \cup T = S
  OBVIOUS
<1>3. Cardinality(S) = Cardinality(S \ T) + Cardinality(T) - Cardinality((S \ T) \cap T)
  BY <1>1, <1>2, FS_Union
<1>4. Cardinality((S \ T) \cap T) = 0
  BY <1>2, FS_EmptySet
<1>5. Cardinality(S) \in Nat /\ Cardinality(T) \in Nat /\ Cardinality(S \ T) \in Nat
  BY <1>1, FS_CardinalityType
<1> QED BY <1>1, <1>3, <1>4, <1>5

\* SessionLease counts with the same operator.
LEMMA LeaseCardinality == \A S : Lease!Cardinality(S) = Cardinality(S)
BY DEF Cardinality, Lease!Cardinality

-----------------------------------------------------------------------------
(* The steps, one lemma for each that touches the table.  Each shows that  *)
(* the invariant is kept and that the step is one SessionLease allows.     *)

LEMMA InitIInv == Init => IInv /\ Lease!Init
<1> SUFFICES ASSUME Init PROVE IInv /\ Lease!Init
  OBVIOUS
<1>1. DOMAIN sessions = {} /\ DOMAIN owner = {} /\ DOMAIN lastUse = {}
  BY DEF Init
<1>2. Cardinality({}) = 0
  BY FS_EmptySet
<1>3. TypeOK
  BY <1>1, Limits DEF Init, TypeOK, RequestState, NoRequest, NeverIssued, Ids
<1>4. MetricsExact /\ CapacityRespected
  BY <1>1, <1>2, Limits DEF Init, MetricsExact, CapacityRespected
<1>5. LeaseBounds /\ HandlersApart
  BY <1>1 DEF Init, LeaseBounds, HandlersApart, Binders
<1>6. Lease!Init
  BY DEF Init, Answers, Verdicts, NeverIssued, Lease!Init, Lease!Unanswered, Lease!Answer
<1> QED BY <1>3, <1>4, <1>5, <1>6 DEF IInv

\* A step that leaves the table alone, moves one handler between stages in
\* which it has no verdict and gives it no id, keeps the invariant.
LEMMA HandlerMoves ==
  ASSUME IInv, NEW h \in Handlers,
         UNCHANGED <<clock, req, tableVars, issued, history>>,
         \/ pc[h] = "log" /\ pc' = [pc EXCEPT ![h] = "bind"]
         \/ pc[h] = "lookup" /\ pc' = [pc EXCEPT ![h] = "unknown"]
  PROVE  IInv'
<1>1. UNCHANGED <<clock, req, sessions, gauge, evictions, issued, owner, lastUse>>
  BY DEF tableVars, history
<1>2. TypeOK'
  BY <1>1 DEF IInv, TypeOK, Verdicts
<1>3. MetricsExact' /\ CapacityRespected' /\ LeaseBounds'
  BY <1>1 DEF IInv, MetricsExact, CapacityRespected, LeaseBounds
<1>4. \A g \in Handlers : g # h => pc'[g] = pc[g]
  BY DEF IInv, TypeOK
<1>5. HandlersApart'
  BY <1>1, <1>4 DEF IInv, HandlersApart, Binders, TypeOK
<1> QED BY <1>2, <1>3, <1>5 DEF IInv

\* A handler that is done gives up its request.
LEMMA HandlerDone ==
  ASSUME IInv, NEW h \in Handlers, Done(h),
         UNCHANGED <<clock, tableVars, issued, history>>
  PROVE  IInv'
<1>1. UNCHANGED <<clock, sessions, gauge, evictions, issued, owner, lastUse>>
  BY DEF tableVars, history
<1>2. TypeOK'
  BY <1>1, Limits DEF IInv, TypeOK, Done, NoRequest, RequestState, Ids, NeverIssued
<1>3. MetricsExact' /\ CapacityRespected' /\ LeaseBounds'
  BY <1>1 DEF IInv, MetricsExact, CapacityRespected, LeaseBounds
<1>4. /\ pc'[h] = "idle"
      /\ \A g \in Handlers : g # h => pc'[g] = pc[g] /\ req'[g] = req[g]
  BY DEF IInv, TypeOK, Done
<1>5. HandlersApart'
  BY <1>1, <1>4 DEF IInv, HandlersApart, Binders
<1> QED BY <1>2, <1>3, <1>5 DEF IInv

LEMMA StepInitialize ==
  ASSUME IInv, NEW h \in Handlers, NEW c \in Clients, Initialize(h, c)
  PROVE  IInv'
<1>1. /\ UNCHANGED <<clock, sessions, gauge, evictions, owner, lastUse>>
      /\ issued' = issued + 1 /\ issued < MaxSessions /\ pc[h] = "idle"
  BY DEF Initialize, tableVars, history
<1>2. /\ pc'[h] = "log" /\ req'[h] = [client |-> c, id |-> issued + 1, now |-> 0]
      /\ \A g \in Handlers : g # h => pc'[g] = pc[g] /\ req'[g] = req[g]
  BY DEF IInv, TypeOK, Initialize, NewId
<1>3. TypeOK'
  <2>1. issued + 1 \in 1..MaxSessions /\ 1..issued \subseteq 1..(issued + 1)
    BY <1>1, Limits DEF IInv, TypeOK
  <2>2. req' \in [Handlers -> RequestState] /\ pc' \in [Handlers -> {"idle", "log", "bind", "insert", "lookup"} \cup Verdicts]
    BY <2>1, Limits DEF IInv, TypeOK, Initialize, NewId, RequestState, Ids
  <2> QED BY <1>1, <2>1, <2>2, Limits DEF IInv, TypeOK
<1>4. MetricsExact' /\ CapacityRespected' /\ LeaseBounds'
  BY <1>1 DEF IInv, MetricsExact, CapacityRespected, LeaseBounds
<1>5. HandlersApart'
  <2>1. \A g \in Handlers : pc[g] \in Binders => req[g].id \in 1..issued \ DOMAIN owner
    BY DEF IInv, HandlersApart
  <2>2. issued \in Nat /\ DOMAIN owner \subseteq 1..issued
    BY Limits DEF IInv, TypeOK
  <2> QED BY <1>1, <1>2, <2>1, <2>2 DEF IInv, HandlersApart, Binders
<1> QED BY <1>3, <1>4, <1>5 DEF IInv

LEMMA StepRequest ==
  ASSUME IInv, NEW h \in Handlers, NEW c \in Clients, NEW id \in Ids, Request(h, c, id)
  PROVE  IInv'
<1>1. UNCHANGED <<clock, sessions, gauge, evictions, issued, owner, lastUse>>
  BY DEF Request, tableVars, history
<1>2. /\ pc'[h] = "lookup" /\ req'[h] = [client |-> c, id |-> id, now |-> clock]
      /\ \A g \in Handlers : g # h => pc'[g] = pc[g] /\ req'[g] = req[g]
  BY DEF IInv, TypeOK, Request
<1>3. TypeOK'
  <2>1. req' \in [Handlers -> RequestState] /\ pc' \in [Handlers -> {"idle", "log", "bind", "insert", "lookup"} \cup Verdicts]
    BY Limits DEF IInv, TypeOK, Request, RequestState
  <2> QED BY <1>1, <2>1 DEF IInv, TypeOK
<1>4. MetricsExact' /\ CapacityRespected' /\ LeaseBounds'
  BY <1>1 DEF IInv, MetricsExact, CapacityRespected, LeaseBounds
<1>5. HandlersApart'
  <2>1. clock <= clock /\ clock <= clock + MaxStall
    BY Limits DEF IInv, TypeOK
  <2> QED BY <1>1, <1>2, <2>1 DEF IInv, HandlersApart, Binders
<1> QED BY <1>3, <1>4, <1>5 DEF IInv

Evicts(expired, victims) ==
  LET kept == DOMAIN sessions \ (expired \cup victims)
  IN  /\ \A s \in expired : sessions[s].expires <= clock
      /\ \A v \in victims, s \in kept : sessions[v].expires <= sessions[s].expires
      /\ victims # {} => Cardinality(kept) = MaxEntries - 1
      /\ Cardinality(kept) < MaxEntries
      /\ sessions' = Restrict(sessions, kept)
      /\ lastUse' = Restrict(lastUse, kept)
      /\ gauge' = Cardinality(kept)
      /\ evictions'.expired \in Nat /\ evictions'.capacity \in Nat
      /\ evictions' \in [expired : Nat, capacity : Nat]
      /\ evictions'.expired + evictions'.capacity + Cardinality(kept) =
           evictions.expired + evictions.capacity + Cardinality(DOMAIN sessions)

\* What bindSession's eviction leaves: nothing that had expired, and, when the
\* table was full, one entry less than it may hold.
LEMMA EvictionFacts ==
  ASSUME IInv, NEW h \in Handlers, BindEvict(h)
  PROVE  \E expired \in SUBSET DOMAIN sessions :
         \E victims \in SUBSET (DOMAIN sessions \ expired) : Evicts(expired, victims)
<1> DEFINE expired == Expired(sessions, clock)
           fresh   == Without(sessions, expired)
<1>1. PICK victims \in Victims(fresh, Surplus(Cardinality(DOMAIN fresh))) :
        /\ sessions' = Without(fresh, victims)
        /\ lastUse' = Restrict(lastUse, DOMAIN sessions')
        /\ gauge' = GaugeOf(sessions', expired \cup victims)
        /\ evictions' = [expired  |-> evictions.expired + Cardinality(expired),
                         capacity |-> evictions.capacity + Cardinality(victims)]
  BY DEF BindEvict
<1>2. expired \in SUBSET DOMAIN sessions /\ \A s \in expired : sessions[s].expires <= clock
  BY DEF Expired
<1>3. fresh = [s \in DOMAIN sessions \ expired |-> sessions[s]]
  BY DEF Without, Restrict
<1>4. DOMAIN fresh = DOMAIN sessions \ expired
  BY <1>3
<1>5. /\ victims \in SUBSET (DOMAIN sessions \ expired)
      /\ Cardinality(victims) = Surplus(Cardinality(DOMAIN fresh))
      /\ \A v \in victims, s \in DOMAIN fresh \ victims : fresh[v].expires <= fresh[s].expires
  BY <1>1, <1>4 DEF Victims
<1> DEFINE kept == DOMAIN sessions \ (expired \cup victims)
<1>6. kept = (DOMAIN sessions \ expired) \ victims
  OBVIOUS
<1>7. sessions' = Restrict(sessions, kept)
  BY <1>1, <1>3, <1>4, <1>6 DEF Without, Restrict
<1>8. DOMAIN sessions' = kept
  BY <1>7 DEF Restrict
<1>9. \A v \in victims, s \in kept : sessions[v].expires <= sessions[s].expires
  BY <1>3, <1>4, <1>5, <1>6
<1>10. /\ Cardinality(expired) \in Nat /\ Cardinality(victims) \in Nat
       /\ Cardinality(DOMAIN sessions) \in Nat /\ Cardinality(DOMAIN fresh) \in Nat
       /\ Cardinality(DOMAIN fresh) = Cardinality(DOMAIN sessions) - Cardinality(expired)
       /\ Cardinality(kept) \in Nat
       /\ Cardinality(kept) = Cardinality(DOMAIN fresh) - Cardinality(victims)
  <2>1. IsFiniteSet(DOMAIN sessions)
    BY FiniteTable DEF IInv
  <2>2. /\ IsFiniteSet(DOMAIN fresh) /\ Cardinality(expired) \in Nat
        /\ Cardinality(DOMAIN sessions) \in Nat
        /\ Cardinality(DOMAIN fresh) = Cardinality(DOMAIN sessions) - Cardinality(expired)
    BY <1>2, <1>4, <2>1, RemovePart
  <2>3. /\ IsFiniteSet(kept) /\ Cardinality(victims) \in Nat /\ Cardinality(DOMAIN fresh) \in Nat
        /\ Cardinality(kept) = Cardinality(DOMAIN fresh) - Cardinality(victims)
    BY <1>4, <1>5, <1>6, <2>2, RemovePart
  <2> QED BY <2>2, <2>3, FS_CardinalityType
<1>11. Cardinality(kept) < MaxEntries /\ (Cardinality(victims) # 0 => Cardinality(kept) = MaxEntries - 1)
  BY <1>5, <1>10, Limits DEF Surplus
<1>12. victims # {} => Cardinality(victims) # 0
  <2>1. IsFiniteSet(victims)
    BY <1>5, FiniteTable, FS_Subset DEF IInv
  <2> QED BY <2>1, FS_EmptySet
<1>13. gauge' = Cardinality(kept)
  BY <1>1, <1>8 DEF GaugeOf
<1>14. evictions.expired \in Nat /\ evictions.capacity \in Nat
  BY DEF IInv, TypeOK
<1>15. /\ evictions'.expired = evictions.expired + Cardinality(expired)
       /\ evictions'.capacity = evictions.capacity + Cardinality(victims)
       /\ evictions' \in [expired : Nat, capacity : Nat]
  BY <1>1, <1>10, <1>14
<1>16. lastUse' = Restrict(lastUse, kept)
  BY <1>1, <1>8
<1>17. evictions'.expired + evictions'.capacity + Cardinality(kept) =
         evictions.expired + evictions.capacity + Cardinality(DOMAIN sessions)
  BY <1>10, <1>14, <1>15
<1> HIDE DEF expired, kept
<1> QED BY <1>2, <1>5, <1>7, <1>9, <1>11, <1>12, <1>13, <1>14, <1>15, <1>16, <1>17 DEF kept, Evicts

LEMMA StepBindEvict ==
  ASSUME IInv, NEW h \in Handlers, BindEvict(h)
  PROVE  IInv' /\ Lease!Next
<1>1. PICK expired \in SUBSET DOMAIN sessions :
      \E victims \in SUBSET (DOMAIN sessions \ expired) : Evicts(expired, victims)
  BY EvictionFacts
<1>2. PICK victims \in SUBSET (DOMAIN sessions \ expired) : Evicts(expired, victims)
  BY <1>1
<1> DEFINE kept == DOMAIN sessions \ (expired \cup victims)
<1> USE DEF Evicts
<1>3. /\ UNCHANGED <<clock, req, issued, owner>>
      /\ pc[h] = "bind" /\ pc' = [pc EXCEPT ![h] = "insert"] /\ Unlocked
  BY DEF BindEvict
<1>4. /\ DOMAIN sessions' = kept /\ DOMAIN lastUse' = kept /\ kept \subseteq DOMAIN sessions
      /\ \A s \in kept : sessions'[s] = sessions[s] /\ lastUse'[s] = lastUse[s]
  BY <1>2 DEF Restrict
<1>5. \A g \in Handlers : g # h => pc'[g] = pc[g]
  BY <1>3 DEF IInv, TypeOK
<1>6. pc'[h] = "insert"
  BY <1>3 DEF IInv, TypeOK
<1>7. Cardinality(kept) < MaxEntries /\ gauge' = Cardinality(kept) /\ Cardinality(kept) \in Nat
  <2>1. IsFiniteSet(kept)
    BY <1>4, FiniteTable, FS_Subset DEF IInv
  <2> QED BY <1>2, <2>1, FS_CardinalityType
<1>8. TypeOK'
  <2>1. sessions' \in [DOMAIN sessions' -> Binding] /\ lastUse' \in [DOMAIN sessions' -> 0..clock]
    BY <1>2, <1>4 DEF IInv, TypeOK, Restrict
  <2>2. pc' \in [Handlers -> {"idle", "log", "bind", "insert", "lookup"} \cup Verdicts]
    BY <1>3 DEF IInv, TypeOK
  <2> QED BY <1>2, <1>3, <1>4, <1>7, <2>1, <2>2 DEF IInv, TypeOK
<1>9. MetricsExact'
  <2>1. Cardinality(DOMAIN owner) \in Nat /\ Cardinality(DOMAIN sessions) \in Nat
    BY FiniteTable DEF IInv
  <2>2. evictions.expired \in Nat /\ evictions.capacity \in Nat
    BY DEF IInv, TypeOK
  <2> QED BY <1>2, <1>3, <1>4, <1>7, <2>1, <2>2 DEF IInv, MetricsExact
<1>10. CapacityRespected'
  BY <1>4, <1>7, Limits DEF CapacityRespected
<1>11. LeaseBounds'
  BY <1>4 DEF IInv, LeaseBounds
<1>12. HandlersApart'
  <2>1. \A g \in Handlers : g # h => pc[g] # "insert"
    BY <1>3 DEF Unlocked
  <2> QED BY <1>3, <1>4, <1>5, <1>6, <1>7, <2>1 DEF IInv, HandlersApart, Binders
<1>13. Lease!Next
  <2>1. \A s \in DOMAIN sessions : lastUse[s] \in Int /\ sessions[s].expires \in Int
    BY Limits DEF IInv, TypeOK, Binding
  <2>2. \A s \in expired : clock - lastUse[s] >= TTL - MaxStall
    BY <1>2, <2>1, Limits DEF IInv, LeaseBounds, TypeOK
  <2>3. \A d \in victims, s \in kept : lastUse[d] <= lastUse[s] + MaxStall
    BY <1>2, <2>1, Limits DEF IInv, LeaseBounds
  <2>4. Answers' = Answers
    BY <1>3, <1>5, <1>6 DEF Answers, Verdicts, IInv, TypeOK
  <2>5. DOMAIN lastUse = DOMAIN sessions
    BY DEF IInv, TypeOK
  <2>6. Lease!MakeRoom(expired, victims)
    <3> DEFINE left == Lease!Leases \ (expired \cup victims)
    <3>1. left = kept
      BY <2>5 DEF Lease!Leases
    <3>2. \A s \in expired : Lease!Idle(s) >= TTL - MaxStall
      BY <2>2 DEF Lease!Idle
    <3>3. lastUse' = Lease!Restrict(lastUse, left)
      BY <1>2, <3>1 DEF Restrict, Lease!Restrict
    <3>4. victims # {} => Lease!Cardinality(left) = MaxEntries - 1
      BY <1>2, <3>1, LeaseCardinality
    <3>5. \A d \in victims, s \in left : lastUse[d] <= lastUse[s] + MaxStall
      BY <2>3, <3>1
    <3>6. UNCHANGED <<clock, owner, Answers>>
      BY <1>3, <2>4
    <3> HIDE DEF left
    <3>7. left = Lease!Leases \ (expired \cup victims)
      BY DEF left
    <3> QED BY <3>2, <3>3, <3>4, <3>5, <3>6, <3>7 DEF Lease!MakeRoom
  <2> QED BY <2>5, <2>6 DEF Lease!Next, Lease!Leases
<1> QED BY <1>8, <1>9, <1>10, <1>11, <1>12, <1>13 DEF IInv

LEMMA StepBindInsert ==
  ASSUME IInv, NEW h \in Handlers, BindInsert(h)
  PROVE  IInv' /\ Lease!Next
<1> DEFINE id == req[h].id
           c == req[h].client
<1>1. /\ pc[h] = "insert" /\ UNCHANGED <<clock, evictions, issued>>
      /\ sessions' = Bind(sessions, id, c, clock + TTL)
      /\ owner' = [s \in DOMAIN owner \cup {id} |-> IF s = id THEN c ELSE owner[s]]
      /\ lastUse' = [s \in DOMAIN lastUse \cup {id} |-> IF s = id THEN clock ELSE lastUse[s]]
      /\ gauge' = Cardinality(DOMAIN sessions')
      /\ Done(h)
  BY DEF BindInsert, GaugeOf
<1>2. /\ id \in 1..issued /\ id \notin DOMAIN owner /\ c \in Clients
      /\ Cardinality(DOMAIN sessions) < MaxEntries
      /\ \A g \in Handlers \ {h} : pc[g] # "insert" /\ (pc[g] \in Binders => req[g].id # id)
  BY <1>1 DEF IInv, HandlersApart, Binders
<1>3. DOMAIN sessions \subseteq DOMAIN owner /\ DOMAIN lastUse = DOMAIN sessions
  BY DEF IInv, TypeOK
<1>4. /\ DOMAIN sessions' = DOMAIN sessions \cup {id}
      /\ DOMAIN owner' = DOMAIN owner \cup {id}
      /\ DOMAIN lastUse' = DOMAIN sessions \cup {id}
      /\ sessions'[id] = [client |-> c, expires |-> clock + TTL]
      /\ owner'[id] = c /\ lastUse'[id] = clock
      /\ \A s \in DOMAIN sessions : s # id /\ sessions'[s] = sessions[s] /\ lastUse'[s] = lastUse[s]
      /\ \A s \in DOMAIN owner : s # id /\ owner'[s] = owner[s]
  BY <1>1, <1>2, <1>3 DEF Bind
<1>5. /\ pc'[h] = "idle"
      /\ \A g \in Handlers : g # h => pc'[g] = pc[g] /\ req'[g] = req[g]
  BY <1>1 DEF IInv, TypeOK, Done
<1>6. /\ Cardinality(DOMAIN sessions') = Cardinality(DOMAIN sessions) + 1
      /\ Cardinality(DOMAIN owner') = Cardinality(DOMAIN owner) + 1
      /\ Cardinality(DOMAIN sessions) \in Nat /\ Cardinality(DOMAIN owner) \in Nat
  <2>1. /\ IsFiniteSet(DOMAIN sessions) /\ IsFiniteSet(DOMAIN owner)
        /\ Cardinality(DOMAIN sessions) \in Nat /\ Cardinality(DOMAIN owner) \in Nat
    BY FiniteTable DEF IInv
  <2>2. id \notin DOMAIN sessions
    BY <1>2, <1>3
  <2>3. Cardinality(DOMAIN sessions \cup {id}) = Cardinality(DOMAIN sessions) + 1
    BY <2>1, <2>2, FS_AddElement
  <2>4. Cardinality(DOMAIN owner \cup {id}) = Cardinality(DOMAIN owner) + 1
    BY <1>2, <2>1, FS_AddElement
  <2> QED BY <1>4, <2>1, <2>3, <2>4
<1>7. clock + TTL \in 0..MaxClock + TTL /\ clock \in 0..clock
  BY Limits DEF IInv, TypeOK
<1>8. TypeOK'
  <2>1. sessions' \in [DOMAIN sessions' -> Binding]
    BY <1>1, <1>2, <1>4, <1>7 DEF IInv, TypeOK, Bind, Binding
  <2>2. lastUse' \in [DOMAIN sessions' -> 0..clock]
    BY <1>1, <1>2, <1>3, <1>4, <1>7 DEF IInv, TypeOK
  <2>3. owner' \in [DOMAIN owner' -> Clients]
    BY <1>1, <1>2, <1>4 DEF IInv, TypeOK
  <2>4. /\ pc' \in [Handlers -> {"idle", "log", "bind", "insert", "lookup"} \cup Verdicts]
        /\ req' \in [Handlers -> RequestState]
    BY <1>1, Limits DEF IInv, TypeOK, Done, NoRequest, RequestState, Ids, NeverIssued
  <2> QED BY <1>1, <1>2, <1>4, <1>6, <2>1, <2>2, <2>3, <2>4 DEF IInv, TypeOK
<1>9. MetricsExact'
  <2>1. evictions.expired \in Nat /\ evictions.capacity \in Nat
    BY DEF IInv, TypeOK
  <2> QED BY <1>1, <1>6, <2>1 DEF IInv, MetricsExact
<1>10. CapacityRespected'
  BY <1>2, <1>6, Limits DEF CapacityRespected
<1>11. LeaseBounds'
  <2>1. clock + TTL - MaxStall <= clock + TTL
    BY Limits DEF IInv, TypeOK
  <2>2. /\ lastUse'[id] + TTL - MaxStall <= sessions'[id].expires
        /\ sessions'[id].expires <= lastUse'[id] + TTL
    BY <1>4, <2>1, Limits DEF IInv, TypeOK
  <2>3. \A s \in DOMAIN sessions :
          /\ lastUse'[s] + TTL - MaxStall <= sessions'[s].expires
          /\ sessions'[s].expires <= lastUse'[s] + TTL
    BY <1>4 DEF IInv, LeaseBounds
  <2> QED BY <1>4, <2>2, <2>3 DEF LeaseBounds
<1>12. HandlersApart'
  BY <1>1, <1>2, <1>3, <1>4, <1>5 DEF IInv, HandlersApart, Binders
<1>13. Lease!Next
  <2>1. Answers' = Answers
    BY <1>1, <1>5 DEF Answers, Verdicts
  <2>2. Lease!Cardinality(Lease!Leases) < MaxEntries
    BY <1>2, <1>3, LeaseCardinality DEF Lease!Leases
  <2>3. id \in Ids
    BY <1>2, Limits DEF IInv, TypeOK, Ids
  <2>4. Lease!Grant(id, c)
    BY <1>1, <1>2, <2>1, <2>2 DEF Lease!Grant, Lease!Leases
  <2> QED BY <1>2, <2>3, <2>4 DEF Lease!Next
<1> QED BY <1>8, <1>9, <1>10, <1>11, <1>12, <1>13 DEF IInv

\* The verdict of handler h, and no other, is what changes in the answers.
LEMMA AnswerGiven ==
  ASSUME IInv, NEW h \in Handlers, NEW v \in Verdicts, UNCHANGED req,
         pc' = [pc EXCEPT ![h] = v]
  PROVE  Answers' = [Answers EXCEPT ![h] = Lease!Answer(req[h].client, req[h].id, v)]
<1>1. pc'[h] = v /\ \A g \in Handlers : g # h => pc'[g] = pc[g]
  BY DEF IInv, TypeOK
<1> QED BY <1>1 DEF Answers, Lease!Answer

LEMMA StepLookupUnknown ==
  ASSUME IInv, NEW h \in Handlers, LookupUnknown(h)
  PROVE  IInv' /\ Lease!Next
<1> DEFINE id == req[h].id
           c == req[h].client
<1>1. /\ UNCHANGED <<clock, req, tableVars, issued, history>>
      /\ pc[h] = "lookup" /\ pc' = [pc EXCEPT ![h] = "unknown"]
      /\ id \notin DOMAIN sessions
  BY DEF LookupUnknown, Known
<1>2. IInv'
  BY <1>1, HandlerMoves
<1>3. /\ UNCHANGED <<clock, owner, lastUse>> /\ DOMAIN lastUse = DOMAIN sessions
      /\ c \in Clients /\ id \in Ids /\ lastUse = [s \in DOMAIN lastUse |-> lastUse[s]]
  BY <1>1 DEF history, IInv, TypeOK, HandlersApart, RequestState
<1>4. Answers' = [Answers EXCEPT ![h] = Lease!Answer(c, id, "unknown")]
  BY <1>1, AnswerGiven DEF Verdicts
<1>5. lastUse' = Lease!Restrict(lastUse, DOMAIN lastUse \ {id})
  BY <1>1, <1>3 DEF Lease!Restrict
<1>6. Lease!Reject(h, c, id)
  BY <1>1, <1>3, <1>4, <1>5 DEF Lease!Reject, Lease!Leases
<1> QED BY <1>2, <1>3, <1>6 DEF Lease!Next

LEMMA StepLookupExpired ==
  ASSUME IInv, NEW h \in Handlers, LookupExpired(h)
  PROVE  IInv' /\ Lease!Next
<1> DEFINE id == req[h].id
           c == req[h].client
           kept == DOMAIN sessions \ {id}
<1>1. /\ UNCHANGED <<clock, req, issued, owner>>
      /\ pc[h] = "lookup" /\ pc' = [pc EXCEPT ![h] = "unknown"]
      /\ id \in DOMAIN sessions /\ ~(sessions[id].expires > req[h].now)
      /\ sessions' = Without(sessions, {id}) /\ lastUse' = Without(lastUse, {id})
      /\ gauge' = Cardinality(DOMAIN sessions')
      /\ evictions' = [evictions EXCEPT !.expired = @ + 1]
  BY DEF LookupExpired, Known, Alive, GaugeOf
<1>2. DOMAIN lastUse = DOMAIN sessions
  BY DEF IInv, TypeOK
<1>3. /\ DOMAIN sessions' = kept /\ DOMAIN lastUse' = kept
      /\ \A s \in kept : sessions'[s] = sessions[s] /\ lastUse'[s] = lastUse[s]
      /\ sessions' = [s \in kept |-> sessions[s]] /\ lastUse' = [s \in kept |-> lastUse[s]]
  BY <1>1, <1>2 DEF Without, Restrict
<1>4. \A g \in Handlers : g # h => pc'[g] = pc[g]
  BY <1>1 DEF IInv, TypeOK
<1>5. pc'[h] = "unknown"
  BY <1>1 DEF IInv, TypeOK
<1>6. /\ Cardinality(kept) = Cardinality(DOMAIN sessions) - 1
      /\ Cardinality(DOMAIN sessions) \in Nat /\ Cardinality(kept) \in Nat
      /\ Cardinality(DOMAIN owner) \in Nat
  <2>1. /\ IsFiniteSet(DOMAIN sessions) /\ Cardinality(DOMAIN sessions) \in Nat
        /\ Cardinality(DOMAIN owner) \in Nat
    BY FiniteTable DEF IInv
  <2>2. IsFiniteSet(kept) /\ Cardinality(kept) = Cardinality(DOMAIN sessions) - 1
    BY <1>1, <2>1, FS_RemoveElement
  <2> QED BY <2>1, <2>2, FS_CardinalityType
<1>7. TypeOK'
  <2>1. sessions' \in [DOMAIN sessions' -> Binding] /\ lastUse' \in [DOMAIN sessions' -> 0..clock]
    BY <1>2, <1>3 DEF IInv, TypeOK
  <2>2. evictions' \in [expired : Nat, capacity : Nat]
    BY <1>1 DEF IInv, TypeOK
  <2>3. pc' \in [Handlers -> {"idle", "log", "bind", "insert", "lookup"} \cup Verdicts]
    BY <1>1 DEF IInv, TypeOK, Verdicts
  <2> QED BY <1>1, <1>3, <1>6, <2>1, <2>2, <2>3 DEF IInv, TypeOK
<1>8. MetricsExact'
  <2>1. /\ evictions.expired \in Nat /\ evictions.capacity \in Nat
        /\ evictions'.expired = evictions.expired + 1 /\ evictions'.capacity = evictions.capacity
    BY <1>1 DEF IInv, TypeOK
  <2> QED BY <1>1, <1>3, <1>6, <2>1 DEF IInv, MetricsExact
<1>9. CapacityRespected'
  BY <1>3, <1>6, Limits DEF IInv, CapacityRespected
<1>10. LeaseBounds'
  BY <1>1, <1>3 DEF IInv, LeaseBounds
<1>11. HandlersApart'
  <2>1. Cardinality(DOMAIN sessions) < MaxEntries => Cardinality(DOMAIN sessions') < MaxEntries
    BY <1>3, <1>6, Limits
  <2>2. \A g \in Handlers : pc'[g] = "idle" \/ pc'[g] \in Binders \/ pc'[g] = "lookup" => pc'[g] = pc[g]
    BY <1>4, <1>5 DEF Binders
  <2>3. \A g \in Handlers : pc'[g] # "idle" => pc[g] # "idle"
    BY <1>1, <1>4
  <2>4. \A s \in DOMAIN sessions' : sessions'[s].client = owner[s]
    BY <1>3 DEF IInv, HandlersApart
  <2>5. ASSUME NEW g \in Handlers
        PROVE  /\ pc'[g] # "idle" => req'[g].client \in Clients
               /\ pc'[g] \in Binders => req'[g].id \in 1..issued' \ DOMAIN owner'
               /\ pc'[g] = "insert" => Cardinality(DOMAIN sessions') < MaxEntries
               /\ pc'[g] = "lookup" => req'[g].now <= clock' /\ clock' <= req'[g].now + MaxStall
    <3>1. CASE g = h
      BY <3>1, <1>1, <1>5 DEF IInv, HandlersApart, Binders
    <3>2. CASE g # h
      BY <3>2, <1>1, <1>4, <2>1 DEF IInv, HandlersApart
    <3> QED BY <3>1, <3>2
  <2>6. ASSUME NEW f \in Handlers, NEW g \in Handlers, f # g, pc'[f] \in Binders, pc'[g] \in Binders
        PROVE  req'[f].id # req'[g].id /\ ~(pc'[f] = "insert" /\ pc'[g] = "insert")
    <3>1. pc[f] \in Binders /\ pc[g] \in Binders /\ pc'[f] = pc[f] /\ pc'[g] = pc[g]
      BY <2>2, <2>6
    <3> QED BY <3>1, <2>6, <1>1 DEF IInv, HandlersApart
  <2> QED BY <1>1, <2>4, <2>5, <2>6 DEF HandlersApart
<1>12. Lease!Next
  <2>1. /\ req[h].now \in Int /\ clock \in Int /\ lastUse[id] \in Int /\ sessions[id].expires \in Int
        /\ c \in Clients /\ id \in Ids
    BY <1>1, Limits DEF IInv, TypeOK, RequestState, Binding, HandlersApart
  <2>2. req[h].now <= clock
    BY <1>1 DEF IInv, HandlersApart
  <2>3. clock - lastUse[id] >= TTL - MaxStall
    BY <1>1, <2>1, <2>2, Limits DEF IInv, LeaseBounds
  <2>4. Answers' = [Answers EXCEPT ![h] = Lease!Answer(c, id, "unknown")]
    BY <1>1, AnswerGiven DEF Verdicts
  <2>5. lastUse' = Lease!Restrict(lastUse, Lease!Leases \ {id})
    BY <1>2, <1>3 DEF Lease!Restrict, Lease!Leases
  <2>6. Lease!Reject(h, c, id)
    BY <1>1, <2>3, <2>4, <2>5 DEF Lease!Reject, Lease!Idle
  <2> QED BY <2>1, <2>6 DEF Lease!Next
<1> QED BY <1>7, <1>8, <1>9, <1>10, <1>11, <1>12 DEF IInv

LEMMA StepLookupFound ==
  ASSUME IInv, NEW h \in Handlers, LookupFound(h)
  PROVE  IInv' /\ Lease!Next
<1> DEFINE id == req[h].id
           c == req[h].client
           v == IF sessions[id].client = c THEN "served" ELSE "cross_client"
<1>1. /\ UNCHANGED <<clock, req, gauge, evictions, issued, owner>>
      /\ pc[h] = "lookup" /\ pc' = [pc EXCEPT ![h] = v] /\ v \in Verdicts
      /\ id \in DOMAIN sessions /\ sessions[id].expires > req[h].now
      /\ sessions' = [sessions EXCEPT ![id].expires = req[h].now + TTL]
      /\ lastUse' = [lastUse EXCEPT ![id] = clock]
  BY DEF LookupFound, Known, Alive, Renewal, Verdicts
<1>2. DOMAIN lastUse = DOMAIN sessions /\ sessions[id] \in Binding
  BY <1>1 DEF IInv, TypeOK
<1>3. /\ DOMAIN sessions' = DOMAIN sessions /\ DOMAIN lastUse' = DOMAIN sessions
      /\ sessions'[id] = [client |-> sessions[id].client, expires |-> req[h].now + TTL]
      /\ lastUse'[id] = clock
      /\ \A s \in DOMAIN sessions : s # id => sessions'[s] = sessions[s] /\ lastUse'[s] = lastUse[s]
  BY <1>1, <1>2 DEF Binding
<1>4. pc'[h] = v /\ \A g \in Handlers : g # h => pc'[g] = pc[g]
  BY <1>1 DEF IInv, TypeOK
<1>5. /\ req[h].now \in 0..MaxClock /\ clock \in Nat /\ c \in Clients /\ id \in Ids
      /\ req[h].now <= clock /\ clock <= req[h].now + MaxStall
  BY <1>1, Limits DEF IInv, TypeOK, RequestState, HandlersApart
<1>6. TypeOK'
  <2>1. sessions'[id] \in Binding
    BY <1>2, <1>3, <1>5, Limits DEF Binding
  <2>2. sessions' \in [DOMAIN sessions' -> Binding]
    BY <1>1, <1>3, <2>1 DEF IInv, TypeOK
  <2>3. lastUse' \in [DOMAIN sessions' -> 0..clock]
    BY <1>1, <1>3, <1>5 DEF IInv, TypeOK
  <2>4. pc' \in [Handlers -> {"idle", "log", "bind", "insert", "lookup"} \cup Verdicts]
    BY <1>1 DEF IInv, TypeOK
  <2> QED BY <1>1, <1>3, <2>2, <2>3, <2>4 DEF IInv, TypeOK
<1>7. MetricsExact' /\ CapacityRespected'
  BY <1>1, <1>3 DEF IInv, MetricsExact, CapacityRespected
<1>8. LeaseBounds'
  <2>1. /\ lastUse'[id] + TTL - MaxStall <= sessions'[id].expires
        /\ sessions'[id].expires <= lastUse'[id] + TTL
    BY <1>3, <1>5, Limits
  <2> QED BY <1>3, <2>1 DEF IInv, LeaseBounds
<1>9. HandlersApart'
  <2>1. \A s \in DOMAIN sessions : sessions'[s].client = sessions[s].client
    BY <1>2, <1>3
  <2>2. v \notin Binders /\ v # "lookup"
    BY DEF Binders
  <2> HIDE DEF v
  <2> QED BY <1>1, <1>3, <1>4, <2>1, <2>2 DEF IInv, HandlersApart, Binders
<1>10. Lease!Next
  <2>1. lastUse[id] \in Int /\ sessions[id].expires \in Int
    BY <1>1, Limits DEF IInv, TypeOK, Binding
  <2>2. clock - lastUse[id] < TTL + MaxStall
    BY <1>1, <1>5, <2>1, Limits DEF IInv, LeaseBounds
  <2>3. v = IF owner[id] = c THEN "served" ELSE "cross_client"
    BY <1>1 DEF IInv, HandlersApart
  <2>4. Answers' = [Answers EXCEPT ![h] = Lease!Answer(c, id, v)]
    BY <1>1, AnswerGiven
  <2> HIDE DEF v
  <2>5. Lease!Use(h, c, id)
    BY <1>1, <1>2, <2>2, <2>3, <2>4 DEF Lease!Use, Lease!Leases, Lease!Idle
  <2> QED BY <1>5, <2>5 DEF Lease!Next
<1> QED BY <1>6, <1>7, <1>8, <1>9, <1>10 DEF IInv

LEMMA StepTick ==
  ASSUME IInv, Tick
  PROVE  IInv' /\ Lease!Next
<1>1. /\ UNCHANGED <<pc, req, sessions, gauge, evictions, issued, owner, lastUse>>
      /\ clock' = clock + 1 /\ clock < MaxClock
      /\ \A h \in Handlers : pc[h] = "lookup" => clock - req[h].now < MaxStall
  BY DEF Tick, tableVars, history
<1>2. clock \in Nat /\ clock' \in 0..MaxClock /\ 0..clock \subseteq 0..(clock + 1)
  BY <1>1, Limits DEF IInv, TypeOK
<1>3. TypeOK'
  BY <1>1, <1>2 DEF IInv, TypeOK
<1>4. MetricsExact' /\ CapacityRespected' /\ LeaseBounds'
  BY <1>1 DEF IInv, MetricsExact, CapacityRespected, LeaseBounds
<1>5. HandlersApart'
  <2>1. \A h \in Handlers : req[h].now \in Nat
    BY Limits DEF IInv, TypeOK, RequestState
  <2>2. \A h \in Handlers : pc[h] = "lookup" =>
          req[h].now <= clock + 1 /\ clock + 1 <= req[h].now + MaxStall
    BY <1>1, <1>2, <2>1, Limits DEF IInv, HandlersApart
  <2> QED BY <1>1, <2>2 DEF IInv, HandlersApart, Binders
<1>6. Lease!Pass
  BY <1>1 DEF Lease!Pass, Answers
<1> QED BY <1>3, <1>4, <1>5, <1>6 DEF IInv, Lease!Next

\* Handlers that have no verdict before and after a step show no answer.
LEMMA NoAnswer ==
  ASSUME IInv, NEW h \in Handlers, pc[h] \notin Verdicts, pc'[h] \notin Verdicts,
         \A g \in Handlers : g # h => pc'[g] = pc[g] /\ req'[g] = req[g]
  PROVE  Answers' = Answers
BY DEF Answers

\* The steps of a request that do not touch the table.
LEMMA StepElsewhere ==
  ASSUME IInv, NEW h \in Handlers,
         \/ \E c \in Clients : Initialize(h, c)
         \/ \E c \in Clients, id \in Ids : Request(h, c, id)
         \/ LogAccepts(h)
         \/ LogRefuses(h)
  PROVE  IInv' /\ UNCHANGED <<clock, owner, lastUse, Answers>>
<1>1. IInv'
  BY StepInitialize, StepRequest, HandlerMoves, HandlerDone DEF LogAccepts, LogRefuses
<1>2. UNCHANGED <<clock, owner, lastUse>>
  BY DEF Initialize, Request, LogAccepts, LogRefuses, history
<1>3. /\ pc[h] \notin Verdicts /\ pc'[h] \notin Verdicts
      /\ \A g \in Handlers : g # h => pc'[g] = pc[g] /\ req'[g] = req[g]
  BY DEF Initialize, Request, LogAccepts, LogRefuses, Done, Verdicts, IInv, TypeOK
<1> QED BY <1>1, <1>2, <1>3, NoAnswer

LEMMA StepRespond ==
  ASSUME IInv, NEW h \in Handlers, Respond(h)
  PROVE  IInv' /\ Lease!Next
<1>1. pc[h] \in Verdicts /\ Done(h) /\ UNCHANGED <<clock, tableVars, issued, history>>
  BY DEF Respond
<1>2. IInv'
  BY <1>1, HandlerDone
<1>3. /\ pc'[h] = "idle"
      /\ \A g \in Handlers : g # h => pc'[g] = pc[g] /\ req'[g] = req[g]
  BY <1>1 DEF Done, IInv, TypeOK
<1>4. Answers' = [Answers EXCEPT ![h] = Lease!Unanswered]
  BY <1>3 DEF Answers, Verdicts, Lease!Unanswered, Lease!Answer, NeverIssued
<1>5. Lease!Forget(h)
  BY <1>1, <1>4 DEF Lease!Forget, history
<1> QED BY <1>2, <1>5 DEF Lease!Next

LEMMA StepNext ==
  ASSUME IInv, [Next]_vars
  PROVE  IInv' /\ [Lease!Next]_(Lease!leaseVars)
<1>1. ASSUME NEW h \in Handlers, NEW c \in Clients, Initialize(h, c)
      PROVE  IInv' /\ UNCHANGED <<clock, owner, lastUse, Answers>>
  BY <1>1, StepElsewhere
<1>2. ASSUME NEW h \in Handlers, NEW c \in Clients, NEW id \in Ids, Request(h, c, id)
      PROVE  IInv' /\ UNCHANGED <<clock, owner, lastUse, Answers>>
  BY <1>2, StepElsewhere
<1>3. ASSUME NEW h \in Handlers, Handle(h)
      PROVE  IInv' /\ (Lease!Next \/ UNCHANGED <<clock, owner, lastUse, Answers>>)
  <2>1. CASE LogAccepts(h) \/ LogRefuses(h)
    BY <2>1, StepElsewhere
  <2>2. CASE BindSession(h)
    BY <2>2, StepBindEvict, StepBindInsert DEF BindSession
  <2>3. CASE Lookup(h)
    BY <2>3, StepLookupUnknown, StepLookupExpired, StepLookupFound DEF Lookup
  <2>4. CASE Respond(h)
    BY <2>4, StepRespond
  <2> QED BY <1>3, <2>1, <2>2, <2>3, <2>4 DEF Handle
<1>4. CASE Tick
  BY <1>4, StepTick
<1>5. CASE UNCHANGED vars
  <2>1. /\ UNCHANGED <<clock, pc, req, sessions, gauge, evictions, issued, owner, lastUse>>
    BY <1>5 DEF vars, tableVars, history
  <2>2. IInv'
    BY <2>1 DEF IInv, TypeOK, MetricsExact, CapacityRespected, LeaseBounds, HandlersApart
  <2>3. Answers' = Answers
    BY <2>1 DEF Answers
  <2> QED BY <2>1, <2>2, <2>3 DEF Lease!leaseVars
<1> QED BY <1>1, <1>2, <1>3, <1>4, <1>5 DEF Next, Lease!leaseVars

-----------------------------------------------------------------------------
(* Theorems.                                                               *)

\* The inductive invariant holds of every reachable state.
THEOREM Invariance == Spec => []IInv
<1>1. Init => IInv
  BY InitIInv
<1>2. IInv /\ [Next]_vars => IInv'
  BY StepNext
<1> QED BY <1>1, <1>2, PTL DEF Spec

\* Every variable of the session table keeps its type, and only ids that were
\* issued are ever bound.
THEOREM TypeCorrect == Spec => []TypeOK
BY Invariance, PTL DEF IInv

\* The active-sessions gauge is the size of the table and every session bound
\* is there or in exactly one eviction counter.
THEOREM MetricsAreExact == Spec => []MetricsExact
BY Invariance, PTL DEF IInv

\* bindSession never leaves more than sessionMaxEntries sessions.
THEOREM CapacityIsRespected == Spec => []CapacityRespected
BY Invariance, PTL DEF IInv

\* However lookups interleave, an expiry is at most MaxStall early and never
\* late.
THEOREM ExpiryIsBounded == Spec => []LeaseBounds
BY Invariance, PTL DEF IInv

\* Handlers do not share ids, or the lock, and a binding never changes hands.
THEOREM HandlersStayApart == Spec => []HandlersApart
BY Invariance, PTL DEF IInv

\* The session table implements SessionLease.
THEOREM ImplementsLease == Spec => LeaseSpec
<1>1. Init => Lease!Init
  BY InitIInv
<1>2. IInv /\ [Next]_vars => [Lease!Next]_(Lease!leaseVars)
  BY StepNext
<1> QED BY <1>1, <1>2, Invariance, PTL DEF Spec, LeaseSpec, Lease!Spec
=============================================================================
