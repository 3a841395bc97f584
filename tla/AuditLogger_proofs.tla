------------------------- MODULE AuditLogger_proofs -------------------------
(***************************************************************************)
(* Theorems about AuditLogger, for every set of handlers, capacity, write  *)
(* mode, retention rule and set of failing calls.                          *)
(***************************************************************************)
EXTENDS AuditLogger, TLAPS, FiniteSetTheorems, FunctionTheorems, SequenceTheorems

\* The intervals that index sequences, and those that ranks range over.
LEMMA IntervalCardinality ==
  ASSUME NEW n \in Nat
  PROVE  /\ IsFiniteSet(1..n) /\ Cardinality(1..n) = n
         /\ IsFiniteSet(0..(n - 1)) /\ Cardinality(0..(n - 1)) = n
<1>1. 1 \in Int /\ 0 \in Int /\ n \in Int /\ n - 1 \in Int
  OBVIOUS
<1>2. IsFiniteSet(1..n) /\ Cardinality(1..n) = IF 1 > n THEN 0 ELSE n - 1 + 1
  BY <1>1, FS_Interval
<1>3. IsFiniteSet(0..(n - 1)) /\ Cardinality(0..(n - 1)) = IF 0 > n - 1 THEN 0 ELSE n - 1 - 0 + 1
  BY <1>1, FS_Interval
<1> QED BY <1>2, <1>3

-----------------------------------------------------------------------------
(* Sequences and the sets of their elements.                               *)

\* The elements of a sequence that grew by one.
LEMMA RangeAppend ==
  ASSUME NEW s \in Seq(Nat), NEW e \in Nat
  PROVE  Range(Append(s, e)) = Range(s) \cup {e}
<1>1. Append(s, e) \in Seq(Nat) /\ Len(Append(s, e)) = Len(s) + 1
  BY AppendProperties
<1>2. Range(s) = {s[i] : i \in 1..Len(s)}
  BY RangeEquality
<1>3. Range(Append(s, e)) = {Append(s, e)[i] : i \in 1..Len(s) + 1}
  BY <1>1, RangeEquality
<1>4. \A i \in 1..Len(s) : Append(s, e)[i] = s[i]
  BY AppendProperties
<1>5. Append(s, e)[Len(s) + 1] = e
  BY AppendProperties
<1>6. 1..Len(s) + 1 = (1..Len(s)) \cup {Len(s) + 1}
  BY LenProperties
<1> QED BY <1>2, <1>3, <1>4, <1>5, <1>6

\* The empty sequence has no element.
LEMMA RangeEmpty == Range(<< >>) = {}
BY DEF Range

\* Appending to the second of two sequences appends to their concatenation.
LEMMA ConcatAppend ==
  ASSUME NEW s \in Seq(Nat), NEW t \in Seq(Nat), NEW e \in Nat
  PROVE  s \o Append(t, e) = Append(s \o t, e)
<1>1. s \o Append(t, e) \in Seq(Nat) /\ Append(s \o t, e) \in Seq(Nat)
  OBVIOUS
<1>2. Len(s \o Append(t, e)) = Len(Append(s \o t, e))
  OBVIOUS
<1>3. \A i \in 1..Len(s \o Append(t, e)) : (s \o Append(t, e))[i] = Append(s \o t, e)[i]
  OBVIOUS
<1> QED BY <1>1, <1>2, <1>3, SeqEqual

\* A new element keeps the elements of a sequence distinct.
LEMMA AppendDistinct ==
  ASSUME NEW s \in Seq(Nat), NEW e \in Nat, e \notin Range(s),
         \A i, j \in DOMAIN s : s[i] = s[j] => i = j
  PROVE  \A i, j \in DOMAIN Append(s, e) : Append(s, e)[i] = Append(s, e)[j] => i = j
<1>1. \A i \in 1..Len(s) : s[i] # e
  BY RangeEquality
<1> QED BY <1>1

\* Moving the head of one sequence to the end of another leaves their
\* concatenation alone: what Receive does to batch \o ch.
LEMMA MoveHead ==
  ASSUME NEW s \in Seq(Nat), NEW t \in Seq(Nat), t # << >>
  PROVE  /\ Append(s, Head(t)) \in Seq(Nat)
         /\ Tail(t) \in Seq(Nat)
         /\ Append(s, Head(t)) \o Tail(t) = s \o t
<1>1. Append(s, Head(t)) \in Seq(Nat) /\ Tail(t) \in Seq(Nat)
  OBVIOUS
<1>2. Len(Append(s, Head(t)) \o Tail(t)) = Len(s \o t)
  OBVIOUS
<1>3. \A i \in 1..Len(s \o t) : (Append(s, Head(t)) \o Tail(t))[i] = (s \o t)[i]
  OBVIOUS
<1> QED BY <1>1, <1>2, <1>3, SeqEqual, ConcatProperties

\* Distinct elements: as many of them as there are positions.
LEMMA RangeCardinality ==
  ASSUME NEW s \in Seq(Nat), \A i, j \in DOMAIN s : s[i] = s[j] => i = j
  PROVE  IsFiniteSet(Range(s)) /\ Cardinality(Range(s)) = Len(s)
<1>1. s \in Bijection(1..Len(s), Range(s))
  <2>1. s \in [1..Len(s) -> Range(s)]
    BY LenProperties DEF Range
  <2> QED BY <2>1 DEF Bijection, Injection, Surjection, IsInjective, Range
<1>2. IsFiniteSet(1..Len(s)) /\ Cardinality(1..Len(s)) = Len(s)
  BY LenProperties, IntervalCardinality
<1> QED BY <1>1, <1>2, FS_Bijection DEF ExistsBijection

-----------------------------------------------------------------------------
(* Finite sets of numbers in increasing order.                             *)

Rank(S, x) == Cardinality({y \in S : y < x})

\* Every position is the rank of exactly one element.  Rank is an injection
\* of S into 0..n-1, which has as many elements as S: so it is onto.
LEMMA RankOnto ==
  ASSUME NEW S, S \subseteq Nat, IsFiniteSet(S)
  PROVE  /\ Cardinality(S) \in Nat
         /\ \A x \in S : Rank(S, x) \in 0..(Cardinality(S) - 1)
         /\ \A x, y \in S : x < y => Rank(S, x) < Rank(S, y)
         /\ \A i \in 1..Cardinality(S) : \E x \in S : Rank(S, x) = i - 1
<1> DEFINE n == Cardinality(S)
           Below(x) == {y \in S : y < x}
           f == [x \in S |-> Rank(S, x)]
<1>1. n \in Nat
  BY FS_CardinalityType
<1>2. \A x \in S : IsFiniteSet(Below(x)) /\ Cardinality(Below(x)) \in Nat
  <2> TAKE x \in S
  <2>1. Below(x) \in SUBSET S
    OBVIOUS
  <2> QED BY <2>1, FS_Subset, FS_CardinalityType
<1>3. \A x, y \in S : x < y => Rank(S, x) < Rank(S, y)
  <2> TAKE x, y \in S
  <2> HAVE x < y
  <2>1. \A z \in Below(x) \cup {x} : z \in Below(y)
    OBVIOUS
  <2>2. x \notin Below(x)
    OBVIOUS
  <2>3. Cardinality(Below(x) \cup {x}) = Cardinality(Below(x)) + 1
    BY <1>2, <2>2, FS_AddElement
  <2>4. Cardinality(Below(x) \cup {x}) <= Cardinality(Below(y))
    <3>1. Below(x) \cup {x} \in SUBSET Below(y)
      BY <2>1
    <3> QED BY <1>2, <3>1, FS_Subset
  <2> QED BY <1>2, <2>3, <2>4 DEF Rank
<1>4. \A x \in S : Rank(S, x) \in 0..(n - 1)
  <2> TAKE x \in S
  <2>1. Below(x) \in SUBSET S /\ Below(x) # S
    OBVIOUS
  <2>2. Cardinality(Below(x)) <= n /\ (n = Cardinality(Below(x)) => S = Below(x))
    BY <2>1, FS_Subset
  <2> QED BY <1>1, <1>2, <2>1, <2>2 DEF Rank
<1>5. f \in Injection(S, 0..(n - 1))
  <2>1. f \in [S -> 0..(n - 1)]
    BY <1>4
  <2>2. \A a, b \in S : f[a] = f[b] => a = b
    <3> TAKE a, b \in S
    <3>1. a < b \/ b < a \/ a = b
      OBVIOUS
    <3>2. Rank(S, a) \in Nat /\ Rank(S, b) \in Nat
      BY <1>2 DEF Rank
    <3> QED BY <1>3, <3>1, <3>2
  <2> QED BY <2>1, <2>2, Fun_IsInj
<1>6. IsFiniteSet(0..(n - 1)) /\ Cardinality(0..(n - 1)) = n
  BY <1>1, IntervalCardinality
<1>7. f \in Surjection(S, 0..(n - 1))
  BY <1>5, <1>6, FS_Injection
<1>8. \A i \in 1..n : \E x \in S : Rank(S, x) = i - 1
  <2> TAKE i \in 1..n
  <2>1. i - 1 \in 0..(n - 1)
    BY <1>1
  <2>2. PICK x \in S : f[x] = i - 1
    BY <1>7, <2>1 DEF Surjection
  <2> QED BY <2>2
<1> QED BY <1>1, <1>3, <1>4, <1>8

\* Ascending(S) lists the elements of S, each once, in increasing order.
LEMMA AscendingFacts ==
  ASSUME NEW S, S \subseteq Nat, IsFiniteSet(S)
  PROVE  /\ Ascending(S) \in Seq(Nat)
         /\ Len(Ascending(S)) = Cardinality(S)
         /\ \A i \in 1..Cardinality(S) : /\ Ascending(S)[i] \in S
                                         /\ Rank(S, Ascending(S)[i]) = i - 1
<1>1. \A i \in 1..Cardinality(S) : \E x \in S : Rank(S, x) = i - 1
  BY RankOnto
<1>2. Cardinality(S) \in Nat
  BY RankOnto
<1>3. \A i \in 1..Cardinality(S) : /\ Ascending(S)[i] \in S
                                    /\ Rank(S, Ascending(S)[i]) = i - 1
  <2> TAKE i \in 1..Cardinality(S)
  <2>1. Ascending(S)[i] = CHOOSE x \in S : Cardinality({y \in S : y < x}) = i - 1
    BY DEF Ascending
  <2>2. \E x \in S : Cardinality({y \in S : y < x}) = i - 1
    BY <1>1 DEF Rank
  <2> QED BY <2>1, <2>2 DEF Rank
<1>4. Ascending(S) \in [1..Cardinality(S) -> Nat]
  BY <1>3 DEF Ascending
<1>5. Ascending(S) \in Seq(Nat) /\ Len(Ascending(S)) = Cardinality(S)
  BY <1>2, <1>4
<1> QED BY <1>3, <1>5

\* A non-empty finite set of numbers has a largest one.
LEMMA HasLargest ==
  ASSUME NEW S, S \subseteq Nat, IsFiniteSet(S), S # {}
  PROVE  \E x \in S : \A y \in S : y <= x
<1>1. Cardinality(S) \in Nat /\ Cardinality(S) # 0
  BY FS_EmptySet, FS_CardinalityType
<1>2. PICK x \in S : Rank(S, x) = Cardinality(S) - 1
  <2>1. Cardinality(S) \in 1..Cardinality(S)
    BY <1>1
  <2> QED BY <2>1, RankOnto
<1>3. ASSUME NEW y \in S, x < y PROVE FALSE
  <2>1. Rank(S, x) < Rank(S, y) /\ Rank(S, y) \in 0..(Cardinality(S) - 1)
    BY <1>3, RankOnto
  <2> QED BY <1>1, <1>2, <2>1
<1> QED BY <1>3

-----------------------------------------------------------------------------
(* The rows flushBatch and ResealChain write.                              *)

\* Each event has one row: what the primary key of audit_events says.
UniqueStamps(rows) == \A r, s \in rows : r.ts = s.ts => r = s

\* A batch becomes rows, one for each event, chained or not.
LEMMA BatchRowsFacts ==
  ASSUME NEW tip \in Seq(Nat), NEW b \in Seq(Nat)
  PROVE  /\ BatchRows(tip, b) \subseteq Row
         /\ Stamps(BatchRows(tip, b)) = Range(b)
         /\ (\A i, j \in DOMAIN b : b[i] = b[j] => i = j)
              => UniqueStamps(BatchRows(tip, b))
<1> DEFINE chained(i) == [ts   |-> b[i],
                          prev |-> tip \o SubSeq(b, 1, i - 1),
                          hash |-> tip \o SubSeq(b, 1, i)]
           plain(i) == [ts |-> b[i], prev |-> NoHash, hash |-> ComputeHash(NoHash, b[i])]
<1>1. DOMAIN b = 1..Len(b) /\ Len(b) \in Nat /\ \A i \in 1..Len(b) : b[i] \in Nat
  BY LenProperties
<1>2. Range(b) = {b[i] : i \in DOMAIN b}
  BY DEF Range
<1>3. CASE HashChain
  <2>1. BatchRows(tip, b) = {chained(i) : i \in DOMAIN b}
    BY <1>3 DEF BatchRows, ChainRows
  <2>2. ASSUME NEW i \in DOMAIN b PROVE chained(i) \in Row
    <3>1. \A j \in 1..(i - 1) : b[j] \in Nat
      BY <1>1
    <3>2. \A j \in 1..i : b[j] \in Nat
      BY <1>1
    <3>3. SubSeq(b, 1, i - 1) \in Seq(Nat) /\ SubSeq(b, 1, i) \in Seq(Nat)
      BY <1>1, <3>1, <3>2, SubSeqProperties
    <3>4. tip \o SubSeq(b, 1, i - 1) \in Seq(Nat) /\ tip \o SubSeq(b, 1, i) \in Seq(Nat)
      BY <3>3, ConcatProperties
    <3> HIDE DEF chained
    <3> QED BY <1>1, <3>4 DEF Row, chained
  <2>3. \A i \in DOMAIN b : chained(i).ts = b[i]
    OBVIOUS
  <2> HIDE DEF chained
  <2> QED BY <1>2, <2>1, <2>2, <2>3 DEF Stamps, UniqueStamps
<1>4. CASE ~HashChain
  <2>1. BatchRows(tip, b) = {plain(i) : i \in DOMAIN b}
    BY <1>4 DEF BatchRows, PlainRows
  <2>2. ASSUME NEW i \in DOMAIN b PROVE plain(i) \in Row
    <3>1. NoHash \in Seq(Nat) /\ ComputeHash(NoHash, b[i]) \in Seq(Nat)
      BY <1>1 DEF NoHash, ComputeHash
    <3> QED BY <1>1, <3>1 DEF Row
  <2>3. \A i \in DOMAIN b : plain(i).ts = b[i]
    OBVIOUS
  <2> HIDE DEF plain
  <2> QED BY <1>2, <2>1, <2>2, <2>3 DEF Stamps, UniqueStamps
<1> QED BY <1>3, <1>4

\* Resealing changes the hashes of the rows and nothing else.
LEMMA ResealedFacts ==
  ASSUME NEW rows, rows \subseteq Row, IsFiniteSet(Stamps(rows))
  PROVE  /\ Resealed(rows) \subseteq Row
         /\ Stamps(Resealed(rows)) = Stamps(rows)
         /\ UniqueStamps(Resealed(rows))
<1> DEFINE prev(t) == Ascending(Stamps(Before(rows, t)))
           sealed(t) == [ts |-> t, prev |-> prev(t), hash |-> ComputeHash(prev(t), t)]
<1>1. Resealed(rows) = {sealed(r.ts) : r \in rows}
  BY DEF Resealed
<1>2. \A r \in rows : r.ts \in Nat
  BY DEF Row
<1>3. ASSUME NEW t \in Nat PROVE sealed(t) \in Row
  <2>1. Stamps(Before(rows, t)) \in SUBSET Stamps(rows)
    BY DEF Stamps, Before
  <2>2. IsFiniteSet(Stamps(Before(rows, t)))
    BY <2>1, FS_Subset
  <2>3. Stamps(Before(rows, t)) \subseteq Nat
    BY <1>2, <2>1 DEF Stamps
  <2>4. prev(t) \in Seq(Nat)
    BY <2>2, <2>3, AscendingFacts
  <2> HIDE DEF prev
  <2>5. ComputeHash(prev(t), t) \in Seq(Nat)
    BY <2>4, AppendProperties DEF ComputeHash
  <2> QED BY <2>4, <2>5 DEF Row
<1>4. \A t : sealed(t).ts = t
  OBVIOUS
<1> HIDE DEF sealed
<1> QED BY <1>1, <1>2, <1>3, <1>4 DEF Stamps, UniqueStamps

\* LastHash returns a hash.
LEMMA LastHashOfType ==
  ASSUME NEW rows, rows \subseteq Row, IsFiniteSet(Stamps(rows))
  PROVE  LastHashOf(rows) \in Seq(Nat)
<1>1. CASE rows = {}
  BY <1>1 DEF LastHashOf, NoHash
<1>2. CASE rows # {}
  <2>1. Stamps(rows) # {} /\ Stamps(rows) \subseteq Nat
    BY <1>2 DEF Stamps, Row
  <2>2. PICK x \in Stamps(rows) : \A y \in Stamps(rows) : y <= x
    BY <2>1, HasLargest
  <2>3. \E r \in rows : \A s \in rows : s.ts <= r.ts
    BY <2>2 DEF Stamps
  <2>4. Newest(rows) \in rows
    BY <2>3 DEF Newest
  <2> QED BY <1>2, <2>4 DEF LastHashOf, Row
<1> QED BY <1>1, <1>2

-----------------------------------------------------------------------------
(* The inductive invariant.  The type of the hashes needs finite sets of   *)
(* rows, which Accounting gives; the drop count needs it too, so the three *)
(* are proved together.                                                    *)

IInv == TypeOK /\ Accounting /\ DroppedIsExact

\* What Accounting says at a glance: every place holds events up to clock,
\* hence finitely many.
LEMMA PlacesFinite ==
  ASSUME TypeOK, Accounting
  PROVE  /\ IsFiniteSet(Stamps(store))
         /\ IsFiniteSet(reported)
         /\ Held \cup Range(Queue) \cup Stamps(store) \cup reported \cup refused \cup gone = 1..clock
<1>1. IsFiniteSet(1..clock)
  BY IntervalCardinality DEF TypeOK
<1>2. Stamps(store) \in SUBSET (1..clock) /\ reported \in SUBSET (1..clock)
  BY DEF Accounting
<1> QED BY <1>1, <1>2, FS_Subset DEF Accounting

\* As many rows as stamps: the table is finite.
LEMMA StoreFinite ==
  ASSUME Accounting, IsFiniteSet(Stamps(store))
  PROVE  IsFiniteSet(store)
<1> DEFINE f == [r \in store |-> r.ts]
<1>1. f \in [store -> Stamps(store)]
  BY DEF Stamps
<1>2. \A r, s \in store : f[r] = f[s] => r = s
  BY DEF Accounting
<1>3. f \in Injection(store, Stamps(store))
  BY <1>1, <1>2, Fun_IsInj
<1> QED BY <1>3, FS_Injection

\* The queue is a sequence of numbers.
LEMMA QueueType ==
  ASSUME TypeOK
  PROVE  Queue \in Seq(Nat) /\ Range(Queue) = Range(batch) \cup Range(ch)
BY ConcatProperties, RangeConcatenation DEF TypeOK, Queue

\* A handler that returns from Log gives up exactly its own event.
LEMMA HandlerLeaves ==
  ASSUME TypeOK, Accounting, NEW c \in Callers, pc[c] # "idle",
         pc' = [pc EXCEPT ![c] = "idle"], ev' = ev
  PROVE  /\ ev[c] \in Held /\ ev[c] \in Nat
         /\ Held' = Held \ {ev[c]}
         /\ Holders' \subseteq Holders
         /\ pc' \in [Callers -> {"idle", "stamped", "sending"}]
<1>1. Holders' = Holders \ {c} /\ c \in Holders
  BY DEF Holders, TypeOK
<1>2. Held' = {ev[d] : d \in Holders \ {c}}
  BY <1>1 DEF Held
<1>3. \A d \in Holders \ {c} : ev[d] # ev[c]
  BY <1>1 DEF Accounting
<1> QED BY <1>1, <1>2, <1>3 DEF Held, TypeOK

\* Steps that move no event only have to keep the types.
LEMMA NothingMoves ==
  ASSUME Accounting, DroppedIsExact, TypeOK',
         UNCHANGED <<clock, ev, ch, batch, dropped, store, reported, refused, gone>>,
         Holders' = Holders
  PROVE  IInv' /\ UNCHANGED Trail!trailVars
<1>1. Held' = Held /\ Queue' = Queue /\ Stamps(store)' = Stamps(store)
  BY DEF Held, Queue, Stamps
<1>2. Accounting'
  BY <1>1 DEF Accounting
<1>3. DroppedIsExact'
  BY DEF DroppedIsExact
<1>4. UNCHANGED Trail!trailVars
  BY <1>1 DEF Trail!trailVars
<1> QED BY <1>2, <1>3, <1>4 DEF IInv

\* The initial state.
LEMMA InitIInv == Init => IInv
<1> SUFFICES ASSUME Init PROVE IInv
  OBVIOUS
<1>1. TypeOK
  <2>1. << >> \in Seq(Nat) /\ Len(<< >>) = 0
    BY EmptySeq
  <2>2. Len(<< >>) <= ChanSize /\ Len(<< >>) <= BatchMax /\ Len(<< >>) < BatchMax
    BY <2>1, SizeAssumption
  <2>3. pc \in [Callers -> {"idle", "stamped", "sending"}] /\ ev \in [Callers -> Nat]
    BY DEF Init
  <2>4. wpc \in WriterStates
    BY DEF Init, WriterStates
  <2> QED BY <2>1, <2>2, <2>3, <2>4 DEF Init, TypeOK, NoHash
<1>2. Holders = {} /\ Held = {} /\ Stamps(store) = {} /\ 1..clock = {}
  BY DEF Init, Holders, Held, Stamps
<1>3. Queue = << >> /\ Range(Queue) = {}
  BY RangeEmpty, ConcatEmptySeq, EmptySeq DEF Init, Queue
<1>4. Accounting
  BY <1>2, <1>3 DEF Init, Accounting
<1>5. DroppedIsExact
  BY FS_EmptySet DEF Init, DroppedIsExact
<1> QED BY <1>1, <1>4, <1>5 DEF IInv

\* gateway.handleToolsCall: a new event, larger than every other.
LEMMA StampStep ==
  ASSUME IInv, NEW c \in Callers, Stamp(c)
  PROVE  IInv' /\ Trail!Submit
<1> USE DEF IInv
<1>1. TypeOK'
  BY DEF TypeOK, Flushing, Stamp, history, writerVars
<1>2. /\ clock \in Nat /\ clock' = clock + 1
      /\ UNCHANGED <<ch, batch, store, dropped, reported, refused, gone>>
      /\ Queue' = Queue
  BY DEF Stamp, history, writerVars, TypeOK, Queue
<1>3. Holders' = Holders \cup {c} /\ c \notin Holders /\ ev'[c] = clock + 1
      /\ \A d \in Holders : ev'[d] = ev[d]
  BY DEF Stamp, Holders, TypeOK
<1>4. Held' = Held \cup {clock + 1}
  BY <1>3 DEF Held
<1>5. 1..clock' = (1..clock) \cup {clock + 1} /\ clock + 1 \notin 1..clock
  BY <1>2
<1>6. \A d \in Holders : ev[d] \in 1..clock
  BY DEF Accounting, Held
<1>7. \A d, e \in Holders' : ev'[d] = ev'[e] => d = e
  BY <1>3, <1>5, <1>6 DEF Accounting
<1>8. Stamps(store)' = Stamps(store)
  BY <1>2 DEF Stamps
<1>9. Accounting'
  <2> DEFINE Others == Range(Queue) \cup Stamps(store) \cup reported \cup refused \cup gone
  <2>1. Held \cup Others = 1..clock
    BY DEF Accounting
  <2>2. clock + 1 \notin Others
    BY <2>1, <1>5
  <2> QED BY <1>2, <1>4, <1>5, <1>7, <1>8, <2>2 DEF Accounting
<1>10. DroppedIsExact'
  BY <1>2 DEF DroppedIsExact
<1>11. Trail!Submit
  BY <1>2, <1>4, <1>8 DEF Trail!Submit
<1> QED BY <1>1, <1>9, <1>10, <1>11

\* Log passes the dbFailed check.
LEMMA LogEnterStep ==
  ASSUME IInv, NEW c \in Callers, LogEnter(c)
  PROVE  IInv' /\ UNCHANGED Trail!trailVars
<1> USE DEF IInv
<1>1. TypeOK'
  BY DEF TypeOK, Flushing, LogEnter, history, writerVars
<1>2. Holders' = Holders
  BY DEF LogEnter, Holders, TypeOK
<1> QED BY <1>1, <1>2, NothingMoves DEF LogEnter, history, writerVars

\* Log refuses the event.
LEMMA LogRefuseStep ==
  ASSUME IInv, NEW c \in Callers, LogRefuse(c)
  PROVE  IInv' /\ Trail!Refuse(ev[c])
<1> USE DEF IInv
<1>1. /\ ev[c] \in Held /\ ev[c] \in Nat /\ Held' = Held \ {ev[c]}
      /\ Holders' \subseteq Holders
      /\ pc' \in [Callers -> {"idle", "stamped", "sending"}]
  BY HandlerLeaves DEF LogRefuse
<1>2. /\ UNCHANGED <<clock, ev, ch, batch, store, dropped, reported, gone>>
      /\ refused' = refused \cup {ev[c]}
  BY DEF LogRefuse, writerVars
<1>3. TypeOK'
  BY <1>1, <1>2 DEF TypeOK, Flushing, LogRefuse, writerVars
<1>4. Stamps(store)' = Stamps(store) /\ Queue' = Queue
  BY <1>2 DEF Stamps, Queue
<1>5. Accounting'
  BY <1>1, <1>2, <1>4 DEF Accounting
<1>6. Trail!Refuse(ev[c])
  BY <1>1, <1>2, <1>4 DEF Trail!Refuse
<1> QED BY <1>2, <1>3, <1>5, <1>6 DEF DroppedIsExact

\* Log puts the event in the channel.
LEMMA LogSendStep ==
  ASSUME IInv, NEW c \in Callers, LogSend(c)
  PROVE  IInv' /\ Trail!Accept(ev[c])
<1> USE DEF IInv
<1>1. /\ ev[c] \in Held /\ ev[c] \in Nat /\ Held' = Held \ {ev[c]}
      /\ Holders' \subseteq Holders
      /\ pc' \in [Callers -> {"idle", "stamped", "sending"}]
  BY HandlerLeaves DEF LogSend
<1>2. /\ UNCHANGED <<clock, ev, batch, store, dropped, reported, refused, gone>>
      /\ ch' = Append(ch, ev[c]) /\ Len(ch) < ChanSize
  BY DEF LogSend, writerVars, history
<1>3. ch' \in Seq(Nat) /\ Len(ch') = Len(ch) + 1
  BY <1>1, <1>2, AppendProperties DEF TypeOK
<1>4. Len(ch') <= ChanSize
  BY <1>2, <1>3, SizeAssumption, LenProperties DEF TypeOK
<1>5. TypeOK'
  BY <1>1, <1>2, <1>3, <1>4 DEF TypeOK, Flushing, LogSend, writerVars, history
<1>6. Stamps(store)' = Stamps(store)
  BY <1>2 DEF Stamps
<1>7. Queue' = Append(Queue, ev[c]) /\ Queue \in Seq(Nat)
  <2>1. Queue' = batch \o Append(ch, ev[c])
    BY <1>2 DEF Queue
  <2>2. batch \o Append(ch, ev[c]) = Append(batch \o ch, ev[c])
    BY <1>1, ConcatAppend DEF TypeOK
  <2> QED BY <2>1, <2>2, QueueType DEF Queue
<1>8. Range(Queue') = Range(Queue) \cup {ev[c]}
  BY <1>1, <1>7, RangeAppend
<1>9. \A i, j \in DOMAIN Queue' : Queue'[i] = Queue'[j] => i = j
  <2>1. ev[c] \notin Range(Queue)
    BY <1>1 DEF Accounting
  <2> QED BY <1>1, <1>7, <2>1, AppendDistinct DEF Accounting
<1>10. Accounting'
  BY <1>1, <1>2, <1>6, <1>8, <1>9 DEF Accounting
<1>11. Trail!Accept(ev[c])
  BY <1>1, <1>2, <1>6, <1>7 DEF Trail!Accept
<1> QED BY <1>2, <1>5, <1>10, <1>11 DEF DroppedIsExact

\* Log drops the event and counts it.
LEMMA LogDropStep ==
  ASSUME IInv, NEW c \in Callers, LogDrop(c)
  PROVE  IInv' /\ Trail!Drop(ev[c])
<1> USE DEF IInv
<1>1. /\ ev[c] \in Held /\ ev[c] \in Nat /\ Held' = Held \ {ev[c]}
      /\ Holders' \subseteq Holders
      /\ pc' \in [Callers -> {"idle", "stamped", "sending"}]
  BY HandlerLeaves DEF LogDrop
<1>2. /\ UNCHANGED <<clock, ev, ch, batch, store, refused, gone>>
      /\ reported' = reported \cup {ev[c]}
      /\ dropped' = dropped + 1
      /\ UNCHANGED <<closed, wpc, lastHash, deleted, dbFailed, outage, unsealed>>
  BY DEF LogDrop, writerVars
<1>3. TypeOK'
  <2>1. dropped' \in Nat
    BY <1>2 DEF TypeOK
  <2>2. reported' \in SUBSET Nat
    BY <1>1, <1>2 DEF TypeOK
  <2> QED BY <1>1, <1>2, <2>1, <2>2 DEF TypeOK, Flushing
<1>4. Stamps(store)' = Stamps(store) /\ Queue' = Queue
  BY <1>2 DEF Stamps, Queue
<1>5. Accounting'
  BY <1>1, <1>2, <1>4 DEF Accounting
<1>6. DroppedIsExact'
  <2>1. IsFiniteSet(reported)
    BY PlacesFinite
  <2>2. ev[c] \notin reported
    BY <1>1 DEF Accounting
  <2>3. Cardinality(reported \cup {ev[c]}) = Cardinality(reported) + 1
    BY <2>1, <2>2, FS_AddElement
  <2> QED BY <1>2, <2>3 DEF DroppedIsExact
<1>7. Trail!Drop(ev[c])
  BY <1>1, <1>2, <1>4 DEF Trail!Drop
<1> QED BY <1>3, <1>5, <1>6, <1>7

\* The writer takes an event from the channel.
LEMMA ReceiveStep ==
  ASSUME IInv, Receive
  PROVE  IInv' /\ UNCHANGED Trail!trailVars
<1> USE DEF IInv
<1>1. /\ UNCHANGED <<clock, pc, ev, store, dropped, reported, refused, gone>>
      /\ UNCHANGED <<closed, lastHash, deleted, dbFailed, outage, unsealed>>
      /\ batch' = Append(batch, Head(ch)) /\ ch' = Tail(ch) /\ ch # << >>
      /\ wpc = "select"
      /\ wpc' = IF Len(batch') >= BatchMax THEN "flush" ELSE "select"
  BY DEF Receive, BatchFull, handlerVars, history
<1>2. batch' \in Seq(Nat) /\ ch' \in Seq(Nat) /\ Queue' = Queue
  BY <1>1, MoveHead DEF TypeOK, Queue
<1>3. Len(ch') <= ChanSize
  BY <1>1, SizeAssumption, HeadTailProperties, LenProperties DEF TypeOK
<1>4. Len(batch') = Len(batch) + 1 /\ Len(batch) \in Nat
  BY <1>1, HeadTailProperties, AppendProperties, LenProperties DEF TypeOK
<1>5. Len(batch) < BatchMax
  BY <1>1 DEF TypeOK, Flushing, AfterFlush
<1>6. Len(batch') <= BatchMax /\ (~Flushing' => Len(batch') < BatchMax)
  <2>1. CASE Len(batch') >= BatchMax
    <3>1. Flushing'
      BY <1>1, <2>1 DEF Flushing, AfterFlush
    <3> QED BY <1>4, <1>5, <3>1, SizeAssumption
  <2>2. CASE ~(Len(batch') >= BatchMax)
    BY <1>4, <1>5, <2>2, SizeAssumption
  <2> QED BY <2>1, <2>2
<1>7. wpc' \in WriterStates
  BY <1>1 DEF WriterStates
<1>8. TypeOK'
  BY <1>1, <1>2, <1>3, <1>6, <1>7 DEF TypeOK
<1>9. Held' = Held /\ Holders' = Holders /\ Stamps(store)' = Stamps(store)
  BY <1>1 DEF Held, Holders, Stamps
<1>10. Accounting'
  BY <1>1, <1>2, <1>9 DEF Accounting
<1> QED BY <1>1, <1>2, <1>8, <1>9, <1>10 DEF DroppedIsExact, Trail!trailVars

\* Steps of the writer that only change its control state and deleted, and
\* do not leave a full batch behind.
LEMMA WriterMoves ==
  ASSUME IInv, wpc' \in WriterStates, deleted' \in BOOLEAN, lastHash' \in Seq(Nat),
         ~Flushing' => Len(batch) < BatchMax,
         UNCHANGED <<clock, pc, ev, ch, closed, batch, dbFailed, dropped, store, history>>
  PROVE  IInv' /\ UNCHANGED Trail!trailVars
<1>1. TypeOK'
  BY DEF IInv, TypeOK, history
<1>2. Holders' = Holders
  BY DEF Holders
<1> QED BY <1>1, <1>2, NothingMoves DEF IInv, history

\* The steps that lead to a flush: ticks and the closed channel.
LEMMA SelectSteps ==
  ASSUME IInv, ChannelClosed \/ BatchTick \/ RetentionTick
  PROVE  IInv' /\ UNCHANGED Trail!trailVars
<1>1. wpc = "select" /\ wpc' \in WriterStates
  BY DEF ChannelClosed, BatchTick, RetentionTick, WriterStates
<1>2. Len(batch) < BatchMax
  BY <1>1 DEF IInv, TypeOK, Flushing, AfterFlush
<1>3. UNCHANGED <<clock, pc, ev, ch, closed, batch, lastHash, deleted, dbFailed, dropped, store, history>>
  BY DEF ChannelClosed, BatchTick, RetentionTick, handlerVars
<1>4. deleted' \in BOOLEAN /\ lastHash' \in Seq(Nat)
  BY <1>3 DEF IInv, TypeOK
<1> QED BY <1>1, <1>2, <1>3, <1>4, WriterMoves

\* What a flush is followed by.
LEMMA AfterFlushType ==
  ASSUME Flushing
  PROVE  AfterFlush[wpc] \in WriterStates /\ AfterFlush[wpc] \notin DOMAIN AfterFlush
BY DEF Flushing, AfterFlush, WriterStates

\* An empty batch is not written.
LEMMA FlushNothingStep ==
  ASSUME IInv, FlushNothing
  PROVE  IInv' /\ UNCHANGED Trail!trailVars
<1>1. /\ wpc' \in WriterStates /\ deleted' \in BOOLEAN
      /\ UNCHANGED <<clock, pc, ev, ch, closed, batch, lastHash, dbFailed, dropped, store, history>>
      /\ batch = << >>
  BY AfterFlushType DEF FlushNothing, handlerVars
<1>2. Len(batch) < BatchMax
  BY <1>1, EmptySeq, SizeAssumption
<1>3. lastHash' \in Seq(Nat)
  BY <1>1 DEF IInv, TypeOK
<1> QED BY <1>1, <1>2, <1>3, WriterMoves

\* What the queue is made of, when its elements are distinct: the batch and the
\* channel are disjoint and each has distinct elements.
LEMMA QueueParts ==
  ASSUME TypeOK, \A i, j \in DOMAIN Queue : Queue[i] = Queue[j] => i = j
  PROVE  /\ Range(batch) \cap Range(ch) = {}
         /\ \A i, j \in DOMAIN batch : batch[i] = batch[j] => i = j
         /\ \A i, j \in DOMAIN ch : ch[i] = ch[j] => i = j
<1> DEFINE m == Len(batch)
           n == Len(ch)
<1>1. /\ m \in Nat /\ n \in Nat
      /\ DOMAIN batch = 1..m /\ DOMAIN ch = 1..n
      /\ DOMAIN Queue = 1..(m + n)
      /\ \A i \in 1..m : Queue[i] = batch[i]
      /\ \A i \in 1..n : Queue[m + i] = ch[i]
  BY DEF TypeOK, Queue
<1>2. \A i \in 1..m, j \in 1..n : batch[i] # ch[j]
  <2> TAKE i \in 1..m, j \in 1..n
  <2>1. i \in DOMAIN Queue /\ m + j \in DOMAIN Queue /\ i # m + j
    BY <1>1
  <2> QED BY <1>1, <2>1
<1>3. \A i, j \in 1..m : batch[i] = batch[j] => i = j
  <2> TAKE i, j \in 1..m
  <2>1. i \in DOMAIN Queue /\ j \in DOMAIN Queue
    BY <1>1
  <2> QED BY <1>1, <2>1
<1>4. \A i, j \in 1..n : ch[i] = ch[j] => i = j
  <2> TAKE i, j \in 1..n
  <2>1. m + i \in DOMAIN Queue /\ m + j \in DOMAIN Queue
    BY <1>1
  <2>2. m + i = m + j => i = j
    BY <1>1
  <2> QED BY <1>1, <2>1, <2>2
<1>5. Range(batch) \cap Range(ch) = {}
  BY <1>1, <1>2 DEF Range
<1> QED BY <1>1, <1>3, <1>4, <1>5

\* The batch is what leaves the queue first, and the channel what remains.
LEMMA QueuePrefix ==
  ASSUME TypeOK
  PROVE  /\ batch = SubSeq(Queue, 1, Len(batch))
         /\ ch = SubSeq(Queue, Len(batch) + 1, Len(Queue))
         /\ Len(batch) <= Len(Queue)
<1> DEFINE m == Len(batch)
           n == Len(ch)
<1>1. /\ m \in Nat /\ n \in Nat /\ Len(Queue) = m + n
      /\ batch \in Seq(Nat) /\ ch \in Seq(Nat)
      /\ \A i \in 1..m : Queue[i] = batch[i]
      /\ \A i \in (m + 1)..(m + n) : Queue[i] = ch[i - m]
      /\ \A i \in 1..(m + n) : Queue[i] \in Nat
  <2>1. batch \in Seq(Nat) /\ ch \in Seq(Nat) /\ Queue = batch \o ch /\ Queue \in Seq(Nat)
    BY QueueType DEF TypeOK, Queue
  <2>2. m \in Nat /\ n \in Nat /\ Len(Queue) = m + n
    BY <2>1
  <2>3. \A i \in 1..(m + n) : Queue[i] = IF i <= m THEN batch[i] ELSE ch[i - m]
    BY <2>1, ConcatProperties
  <2>4. \A i \in 1..(m + n) : Queue[i] \in Nat
    BY <2>1, <2>2, ElementOfSeq
  <2> HIDE DEF m, n
  <2> QED BY <2>1, <2>2, <2>3, <2>4
<1>2. batch = SubSeq(Queue, 1, m)
  <2>1. /\ SubSeq(Queue, 1, m) \in Seq(Nat)
        /\ Len(SubSeq(Queue, 1, m)) = m
        /\ \A i \in 1..m : SubSeq(Queue, 1, m)[i] = Queue[i]
    BY <1>1, SubSeqProperties
  <2> QED BY <1>1, <2>1, SeqEqual
<1>3. ch = SubSeq(Queue, m + 1, m + n)
  <2>1. /\ SubSeq(Queue, m + 1, m + n) \in Seq(Nat)
        /\ Len(SubSeq(Queue, m + 1, m + n)) = n
        /\ \A i \in 1..n : SubSeq(Queue, m + 1, m + n)[i] = Queue[m + i]
    BY <1>1, SubSeqProperties
  <2>2. \A i \in 1..n : Queue[m + i] = ch[i]
    <3> TAKE i \in 1..n
    <3>1. m + i \in (m + 1)..(m + n) /\ (m + i) - m = i
      BY <1>1
    <3> QED BY <1>1, <3>1
  <2> QED BY <1>1, <2>1, <2>2, SeqEqual
<1> QED BY <1>1, <1>2, <1>3

\* Rows with stamps of their own can be added without a clash.
LEMMA UniqueUnion ==
  ASSUME NEW A, NEW B, UniqueStamps(A), UniqueStamps(B), Stamps(A) \cap Stamps(B) = {}
  PROVE  UniqueStamps(A \cup B)
BY DEF UniqueStamps, Stamps

\* A batch is committed: its events move from the queue to the rows.
LEMMA FlushOkStep ==
  ASSUME IInv, FlushOk
  PROVE  IInv' /\ Trail!Record(Len(batch))
<1> USE DEF IInv
<1>1. /\ Flushing
      /\ UNCHANGED <<clock, pc, ev, ch, closed, dropped, reported, refused, gone>>
      /\ store' = store \cup BatchRows(lastHash, batch)
      /\ lastHash' = IF HashChain THEN lastHash \o batch ELSE lastHash
      /\ dbFailed' = FALSE /\ outage' = 0 /\ batch' = << >> /\ deleted' = FALSE
      /\ unsealed' = unsealed
      /\ wpc' = AfterFlush[wpc]
  BY DEF FlushOk, AdvanceTip, EmptyBatch, handlerVars
<1>2. /\ BatchRows(lastHash, batch) \subseteq Row
      /\ Stamps(BatchRows(lastHash, batch)) = Range(batch)
      /\ UniqueStamps(BatchRows(lastHash, batch))
      /\ Range(batch) \cap Range(ch) = {}
      /\ \A i, j \in DOMAIN ch : ch[i] = ch[j] => i = j
  BY QueueParts, BatchRowsFacts DEF TypeOK, Accounting
<1>3. lastHash' \in Seq(Nat)
  BY <1>1, ConcatProperties DEF TypeOK
<1>4. Len(batch') < BatchMax /\ Len(batch') <= BatchMax /\ batch' \in Seq(Nat)
  BY <1>1, EmptySeq, SizeAssumption
<1>5. TypeOK'
  BY <1>1, <1>2, <1>3, <1>4, AfterFlushType DEF TypeOK
<1>6. Queue' = ch /\ Range(Queue) = Range(batch) \cup Range(ch)
  BY <1>1, ConcatEmptySeq, QueueType DEF Queue, TypeOK
<1>7. Held' = Held /\ Holders' = Holders
  BY <1>1 DEF Held, Holders
<1>8. Stamps(store') = Stamps(store) \cup Range(batch)
  BY <1>1, <1>2 DEF Stamps
<1>9. UniqueStamps(store')
  <2>1. Stamps(store) \cap Stamps(BatchRows(lastHash, batch)) = {}
    BY <1>2, <1>6 DEF Accounting
  <2>2. UniqueStamps(store)
    BY DEF Accounting, UniqueStamps
  <2> QED BY <1>1, <1>2, <2>1, <2>2, UniqueUnion
<1>10. Accounting'
  <2> DEFINE H == Held
             Q == Range(Queue)
             Q1 == Range(ch)
             B == Range(batch)
             S == Stamps(store)
             Ended == reported \cup refused \cup gone
  <2>1. /\ 1..clock = H \cup Q \cup S \cup Ended
        /\ H \cap (Q \cup S \cup Ended) = {} /\ Q \cap (S \cup Ended) = {} /\ S \cap Ended = {}
    BY DEF Accounting
  <2>2. Q = B \cup Q1 /\ B \cap Q1 = {}
    BY <1>2, <1>6
  <2>3. H' = H /\ Q' = Q1 /\ S' = S \cup B /\ Ended' = Ended /\ clock' = clock
    BY <1>1, <1>6, <1>7, <1>8
  <2>4. /\ reported' \cap (refused \cup gone)' = {} /\ (refused \cap gone)' = {}
        /\ \A c, d \in Holders' : ev'[c] = ev'[d] => c = d
    BY <1>1, <1>7 DEF Accounting
  <2>5. \A i, j \in DOMAIN Queue' : Queue'[i] = Queue'[j] => i = j
    BY <1>2, <1>6
  <2>6. \A r, s \in store' : r.ts = s.ts => r = s
    BY <1>9 DEF UniqueStamps
  <2>7. /\ 1..clock' = H' \cup Q' \cup S' \cup Ended'
        /\ H' \cap (Q' \cup S' \cup Ended') = {} /\ Q' \cap (S' \cup Ended') = {} /\ S' \cap Ended' = {}
    <3> HIDE DEF H, Q, Q1, B, S, Ended
    <3> QED BY <2>1, <2>2, <2>3
  <2> QED BY <2>4, <2>5, <2>6, <2>7 DEF Accounting
<1>11. Trail!Record(Len(batch))
  <2>1. Queue' = SubSeq(Queue, Len(batch) + 1, Len(Queue)) /\ batch = SubSeq(Queue, 1, Len(batch))
    BY <1>6, QueuePrefix
  <2>2. Trail!Range(SubSeq(Queue, 1, Len(batch))) = Range(batch)
    BY <2>1 DEF Range, Trail!Range
  <2> QED BY <1>1, <1>7, <1>8, <2>1, <2>2 DEF Trail!Record, Trail!Dequeue
<1> QED BY <1>1, <1>5, <1>10, <1>11 DEF DroppedIsExact

\* A batch is rolled back: its events move from the queue to the drop count.
LEMMA FlushFailStep ==
  ASSUME IInv, FlushFail
  PROVE  IInv' /\ Trail!Lose(Len(batch))
<1> USE DEF IInv
<1>1. /\ Flushing
      /\ UNCHANGED <<clock, pc, ev, ch, closed, lastHash, store, refused, gone>>
      /\ dbFailed' = TRUE /\ batch' = << >> /\ deleted' = FALSE
      /\ dropped' = dropped + Len(batch)
      /\ reported' = reported \cup Range(batch)
      /\ outage' = outage + Len(batch) /\ unsealed' = unsealed
      /\ wpc' = AfterFlush[wpc]
  BY DEF FlushFail, KeepTip, EmptyBatch, EventsLost, handlerVars
<1>2. /\ Range(batch) \cap Range(ch) = {}
      /\ \A i, j \in DOMAIN ch : ch[i] = ch[j] => i = j
      /\ \A i, j \in DOMAIN batch : batch[i] = batch[j] => i = j
  BY QueueParts DEF Accounting
<1>3. Len(batch) \in Nat /\ Range(batch) \subseteq Nat
  BY LenProperties, RangeOfSeq DEF TypeOK
<1>4. Len(batch') < BatchMax /\ Len(batch') <= BatchMax /\ batch' \in Seq(Nat)
  BY <1>1, EmptySeq, SizeAssumption
<1>5. TypeOK'
  <2>1. dropped' \in Nat /\ outage' \in Nat
    BY <1>1, <1>3 DEF TypeOK
  <2>2. reported' \in SUBSET Nat
    BY <1>1, <1>3 DEF TypeOK
  <2> QED BY <1>1, <1>4, <2>1, <2>2, AfterFlushType DEF TypeOK
<1>6. Queue' = ch /\ Range(Queue) = Range(batch) \cup Range(ch)
  BY <1>1, ConcatEmptySeq, QueueType DEF Queue, TypeOK
<1>7. Held' = Held /\ Holders' = Holders /\ Stamps(store)' = Stamps(store)
  BY <1>1 DEF Held, Holders, Stamps
<1>8. Accounting'
  BY <1>1, <1>2, <1>6, <1>7 DEF Accounting
<1>9. DroppedIsExact'
  <2>1. IsFiniteSet(Range(batch)) /\ Cardinality(Range(batch)) = Len(batch)
    BY <1>2, RangeCardinality DEF TypeOK
  <2>2. IsFiniteSet(reported) /\ Cardinality(reported) = dropped
    BY PlacesFinite DEF DroppedIsExact
  <2>3. reported \cap Range(batch) = {}
    BY <1>6 DEF Accounting
  <2>4. Cardinality(reported \cup Range(batch))
          = Cardinality(reported) + Cardinality(Range(batch)) - Cardinality(reported \cap Range(batch))
    BY <2>1, <2>2, FS_Union
  <2>5. Cardinality(reported \cap Range(batch)) = 0
    BY <2>3, FS_EmptySet
  <2>6. dropped \in Nat
    BY DEF TypeOK
  <2> QED BY <1>1, <1>3, <2>1, <2>2, <2>4, <2>5, <2>6 DEF DroppedIsExact
<1>10. Trail!Lose(Len(batch))
  <2>1. Queue' = SubSeq(Queue, Len(batch) + 1, Len(Queue)) /\ batch = SubSeq(Queue, 1, Len(batch))
    BY <1>6, QueuePrefix
  <2>2. Trail!Range(SubSeq(Queue, 1, Len(batch))) = Range(batch)
    BY <2>1 DEF Range, Trail!Range
  <2> QED BY <1>1, <1>7, <2>1, <2>2 DEF Trail!Lose, Trail!Dequeue
<1> QED BY <1>5, <1>8, <1>9, <1>10

-----------------------------------------------------------------------------
(* Retention, Close and Restart.                                           *)

\* Rows that are removed become history, and nothing else changes.
LEMMA RemoveRowsStep ==
  ASSUME IInv, NEW rows, rows \subseteq store, RemoveRows(rows),
         wpc' \in WriterStates, deleted' \in BOOLEAN, ~Flushing,
         UNCHANGED <<clock, pc, ev, ch, closed, batch, lastHash, dbFailed, dropped,
                     reported, refused, outage>>,
         \A r \in rows, s \in store \ rows : r.ts < s.ts
  PROVE  IInv' /\ Trail!Expire
<1> USE DEF IInv
<1>1. store' = store \ rows /\ gone' = gone \cup Stamps(rows)
  BY DEF RemoveRows
<1>2. Stamps(rows) \subseteq Stamps(store) /\ Stamps(store) \subseteq Nat
  BY DEF Stamps, TypeOK, Row
<1>3. Stamps(store') = Stamps(store) \ Stamps(rows)
  BY <1>1 DEF Stamps, Accounting
<1>4. TypeOK'
  <2>1. store' \in SUBSET Row /\ gone' \in SUBSET Nat
    BY <1>1, <1>2 DEF TypeOK
  <2>2. Len(batch) < BatchMax
    BY DEF TypeOK
  <2>3. unsealed' \in BOOLEAN
    BY DEF RemoveRows
  <2> QED BY <2>1, <2>2, <2>3 DEF TypeOK
<1>5. Held' = Held /\ Holders' = Holders /\ Queue' = Queue
  BY DEF Held, Holders, Queue
<1>6. Accounting'
  BY <1>1, <1>2, <1>3, <1>5 DEF Accounting
<1>7. Trail!Expire
  <2>1. Stamps(store) \ Stamps(store') \subseteq Stamps(rows)
    BY <1>1 DEF Stamps
  <2>2. \A old \in Stamps(rows), kept \in Stamps(store') : old < kept
    BY <1>1 DEF Stamps
  <2>3. Stamps(store') \subseteq Stamps(store)
    BY <1>3
  <2> QED BY <1>5, <2>1, <2>2, <2>3 DEF Trail!Expire
<1> QED BY <1>4, <1>6, <1>7 DEF DroppedIsExact

\* The steps of runRetention that delete no row and touch no hash.
LEMMA RetentionControlStep ==
  ASSUME IInv,
         SkipAge \/ OverSize \/ SkipSize \/ TrimDone \/ TrimFail \/ ResealFail \/ ReloadTip
  PROVE  IInv' /\ UNCHANGED Trail!trailVars
<1>1. /\ wpc \in {"age", "size", "trim", "reseal", "reload"}
      /\ wpc' \in WriterStates
      /\ UNCHANGED <<clock, pc, ev, ch, closed, batch, dbFailed, dropped, store, history>>
  BY DEF SkipAge, OverSize, SkipSize, TrimDone, TrimFail, ResealFail, ReloadTip,
         AfterRules, WriterStates, handlerVars
<1>2. deleted' \in BOOLEAN
  BY DEF IInv, TypeOK, SkipAge, OverSize, SkipSize, TrimDone, TrimFail, ResealFail, ReloadTip
<1>3. lastHash' \in Seq(Nat)
  <2>1. CASE ReloadTip
    <3>1. LastHashOf(store) \in Seq(Nat)
      BY PlacesFinite, LastHashOfType DEF IInv, TypeOK
    <3> QED BY <2>1, <3>1 DEF ReloadTip, IInv, TypeOK
  <2>2. CASE ~ReloadTip
    BY <2>2 DEF IInv, TypeOK, SkipAge, OverSize, SkipSize, TrimDone, TrimFail, ResealFail
  <2> QED BY <2>1, <2>2
<1>4. Len(batch) < BatchMax
  BY <1>1 DEF IInv, TypeOK, Flushing, AfterFlush
<1> QED BY <1>1, <1>2, <1>3, <1>4, WriterMoves

\* TrimToSize's chunk holds no row that is newer than a row it leaves.
LEMMA OldestFirst ==
  ASSUME store \subseteq Row, Accounting, IsFiniteSet(Stamps(store))
  PROVE  \A r \in Oldest(store), s \in store \ Oldest(store) : r.ts < s.ts
<1> TAKE r \in Oldest(store), s \in store \ Oldest(store)
<1> SUFFICES ASSUME ~(r.ts < s.ts) PROVE FALSE
  OBVIOUS
<1>1. r.ts \in Nat /\ s.ts \in Nat /\ \A q \in store : q.ts \in Nat
  BY DEF Row, Oldest
<1>2. Before(store, s.ts) \in SUBSET Before(store, r.ts)
  BY <1>1 DEF Before
<1>3. IsFiniteSet(Before(store, r.ts))
  BY StoreFinite, FS_Subset DEF Before
<1>4. /\ Cardinality(Before(store, s.ts)) <= Cardinality(Before(store, r.ts))
      /\ Cardinality(Before(store, s.ts)) \in Nat
      /\ Cardinality(Before(store, r.ts)) \in Nat
  BY <1>2, <1>3, FS_Subset, FS_CardinalityType
<1>5. Cardinality(Before(store, r.ts)) < TrimChunk /\ ~(Cardinality(Before(store, s.ts)) < TrimChunk)
  BY DEF Oldest
<1> QED BY <1>4, <1>5, SizeAssumption

\* The steps of runRetention that delete rows.
LEMMA RetentionDeleteStep ==
  ASSUME IInv, DeleteBefore \/ TrimOldest
  PROVE  IInv' /\ Trail!Expire
<1>1. CASE DeleteBefore
  <2>1. PICK cutoff \in 1..clock + 1 :
           /\ RemoveRows(Before(store, cutoff))
           /\ deleted' = (Before(store, cutoff) # {})
    BY <1>1 DEF DeleteBefore
  <2>2. /\ Before(store, cutoff) \subseteq store
        /\ \A r \in Before(store, cutoff), s \in store \ Before(store, cutoff) : r.ts < s.ts
    BY DEF Before, IInv, TypeOK, Row
  <2>3. wpc' \in WriterStates /\ ~Flushing /\ deleted' \in BOOLEAN
    BY <1>1, <2>1 DEF DeleteBefore, WriterStates, Flushing, AfterFlush
  <2>4. UNCHANGED <<clock, pc, ev, ch, closed, batch, lastHash, dbFailed, dropped,
                    reported, refused, outage>>
    BY <1>1 DEF DeleteBefore, handlerVars
  <2> QED BY <2>1, <2>2, <2>3, <2>4, RemoveRowsStep
<1>2. CASE TrimOldest
  <2>1. /\ RemoveRows(Oldest(store)) /\ Oldest(store) \subseteq store
        /\ \A r \in Oldest(store), s \in store \ Oldest(store) : r.ts < s.ts
    BY <1>2, OldestFirst, PlacesFinite DEF TrimOldest, Oldest, IInv, TypeOK
  <2>2. wpc' \in WriterStates /\ ~Flushing /\ deleted' \in BOOLEAN
    BY <1>2 DEF TrimOldest, writerVars, WriterStates, Flushing, AfterFlush, IInv, TypeOK
  <2>3. UNCHANGED <<clock, pc, ev, ch, closed, batch, lastHash, dbFailed, dropped,
                    reported, refused, outage>>
    BY <1>2 DEF TrimOldest, handlerVars, writerVars
  <2> QED BY <2>1, <2>2, <2>3, RemoveRowsStep
<1> QED BY <1>1, <1>2

\* Resealing keeps the events that have rows.
LEMMA ResealStep ==
  ASSUME IInv, ResealChain
  PROVE  IInv' /\ UNCHANGED Trail!trailVars
<1> USE DEF IInv
<1>1. /\ UNCHANGED <<clock, pc, ev, ch, closed, batch, lastHash, deleted, dbFailed, dropped,
                      reported, refused, gone, outage>>
      /\ unsealed' = FALSE
      /\ store' = Resealed(store) /\ wpc = "reseal" /\ wpc' = "reload"
  BY DEF ResealChain, handlerVars, history
<1>2. store' \subseteq Row /\ Stamps(store') = Stamps(store) /\ UniqueStamps(store')
  BY <1>1, PlacesFinite, ResealedFacts DEF TypeOK
<1>3. TypeOK'
  BY <1>1, <1>2 DEF TypeOK, WriterStates, Flushing, AfterFlush
<1>4. Held' = Held /\ Holders' = Holders /\ Queue' = Queue
  BY <1>1 DEF Held, Holders, Queue
<1>5. Accounting'
  BY <1>1, <1>2, <1>4 DEF Accounting, UniqueStamps
<1>6. UNCHANGED Trail!trailVars
  BY <1>1, <1>2, <1>4 DEF Trail!trailVars
<1> QED BY <1>1, <1>3, <1>5, <1>6 DEF DroppedIsExact

\* Close touches nothing but the channel's state.
LEMMA CloseStep ==
  ASSUME IInv, Close
  PROVE  IInv' /\ UNCHANGED Trail!trailVars
<1>1. TypeOK'
  BY DEF IInv, TypeOK, Flushing, Close, handlerVars, writerVars, history
<1>2. Holders' = Holders
  BY DEF Close, handlerVars, Holders
<1> QED BY <1>1, <1>2, NothingMoves DEF IInv, Close, handlerVars, writerVars, history

\* A new process finds the rows and nothing else.
LEMMA RestartStep ==
  ASSUME IInv, Restart
  PROVE  IInv' /\ Trail!Reopen
<1> USE DEF IInv
<1>1. /\ UNCHANGED <<clock, ev, store>>
      /\ pc' = [c \in Callers |-> "idle"]
      /\ ch' = << >> /\ batch' = << >> /\ closed' = FALSE /\ wpc' = "select"
      /\ deleted' = FALSE /\ dbFailed' = FALSE /\ dropped' = 0 /\ outage' = 0
      /\ unsealed' = unsealed
      /\ reported' = {} /\ refused' = {}
      /\ gone' = gone \cup InMemory \cup reported \cup refused
      /\ lastHash' = LastHashOf(store) \/ lastHash' = NoHash
  BY DEF Restart
<1>2. InMemory = Held \cup Range(Queue)
  BY QueueType DEF InMemory, Held, Holders
<1>3. Held \cup Range(Queue) \cup Stamps(store) \cup reported \cup refused \cup gone = 1..clock
  BY PlacesFinite
<1>4. << >> \in Seq(Nat) /\ Len(<< >>) = 0
  BY EmptySeq
<1>5. TypeOK'
  <2>1. lastHash' \in Seq(Nat)
    BY <1>1, <1>4, PlacesFinite, LastHashOfType DEF TypeOK, NoHash
  <2>2. gone' \in SUBSET Nat
    BY <1>1, <1>2, <1>3
  <2>3. Len(<< >>) <= ChanSize /\ Len(<< >>) <= BatchMax /\ Len(<< >>) < BatchMax
    BY <1>4, SizeAssumption
  <2>4. pc' \in [Callers -> {"idle", "stamped", "sending"}] /\ wpc' \in WriterStates
    BY <1>1 DEF WriterStates
  <2> QED BY <1>1, <1>4, <2>1, <2>2, <2>3, <2>4 DEF TypeOK
<1>6. Holders' = {} /\ Held' = {}
  BY <1>1 DEF Holders, Held
<1>7. Queue' = << >> /\ Range(Queue') = {}
  BY <1>1, <1>4, ConcatEmptySeq, RangeEmpty DEF Queue
<1>8. Stamps(store)' = Stamps(store)
  BY <1>1 DEF Stamps
<1>9. DOMAIN Queue' = {}
  BY <1>7, <1>4
<1>10. Accounting'
  BY <1>1, <1>2, <1>3, <1>6, <1>7, <1>8, <1>9 DEF Accounting
<1>11. DroppedIsExact'
  BY <1>1, FS_EmptySet DEF DroppedIsExact
<1>12. Trail!Reopen
  BY <1>1, <1>6, <1>7, <1>8 DEF Trail!Reopen
<1> QED BY <1>5, <1>10, <1>11, <1>12

-----------------------------------------------------------------------------
(* The theorems.                                                           *)

\* Every step preserves the inductive invariant, and is a step of AuditTrail or
\* leaves its variables alone.
LEMMA StepIInv ==
  ASSUME IInv, [Next]_vars
  PROVE  IInv' /\ [Trail!Next]_(Trail!trailVars)
<1>1. ASSUME NEW c \in Callers, Handler(c)
      PROVE  IInv' /\ [Trail!Next]_(Trail!trailVars)
  <2>1. CASE Stamp(c)
    BY <2>1, StampStep DEF Trail!Next
  <2>2. CASE LogEnter(c)
    BY <2>2, LogEnterStep
  <2>3. ev[c] \in Held \/ pc[c] = "idle"
    BY DEF Held, Holders
  <2>4. CASE LogRefuse(c)
    BY <2>3, <2>4, LogRefuseStep DEF Trail!Next, LogRefuse
  <2>5. CASE LogSend(c)
    BY <2>3, <2>5, LogSendStep DEF Trail!Next, LogSend
  <2>6. CASE LogDrop(c)
    BY <2>3, <2>6, LogDropStep DEF Trail!Next, LogDrop
  <2> QED BY <1>1, <2>1, <2>2, <2>4, <2>5, <2>6 DEF Handler
<1>2. CASE Close
  BY <1>2, CloseStep
<1>3. CASE Receive \/ ChannelClosed \/ BatchTick \/ RetentionTick
  BY <1>3, ReceiveStep, SelectSteps
<1>4. CASE Flush
  <2>1. batch # << >> => Len(batch) \in 1..Len(Queue)
    <3>1. Len(batch) <= Len(Queue)
      BY QueuePrefix DEF IInv
    <3> QED BY <3>1, QueueType, LenProperties, EmptySeq DEF IInv, TypeOK
  <2>2. CASE FlushNothing
    BY <2>2, FlushNothingStep
  <2>3. CASE FlushOk
    BY <2>1, <2>3, FlushOkStep DEF Trail!Next, FlushOk
  <2>4. CASE FlushFail
    BY <2>1, <2>4, FlushFailStep DEF Trail!Next, FlushFail
  <2> QED BY <1>4, <2>2, <2>3, <2>4 DEF Flush
<1>5. CASE RunRetention
  <2>1. CASE DeleteBefore \/ TrimOldest
    BY <2>1, RetentionDeleteStep DEF Trail!Next
  <2>2. CASE ResealChain
    BY <2>2, ResealStep
  <2>3. CASE SkipAge \/ OverSize \/ SkipSize \/ TrimDone \/ TrimFail \/ ResealFail \/ ReloadTip
    BY <2>3, RetentionControlStep
  <2> QED BY <1>5, <2>1, <2>2, <2>3 DEF RunRetention
<1>6. CASE Restart
  BY <1>6, RestartStep DEF Trail!Next
<1>7. CASE UNCHANGED vars
  <2>1. UNCHANGED <<clock, pc, ev, ch, closed, batch, wpc, lastHash, deleted, dbFailed,
                    dropped, store, reported, refused, gone, outage, unsealed>>
    BY <1>7 DEF vars, handlerVars, writerVars, history
  <2>2. TypeOK' /\ Holders' = Holders
    BY <2>1 DEF IInv, TypeOK, Flushing, Holders
  <2> QED BY <2>1, <2>2, NothingMoves DEF IInv
<1> QED BY <1>1, <1>2, <1>3, <1>4, <1>5, <1>6, <1>7 DEF Next, Writer

\* The inductive invariant holds in every reachable state.
THEOREM Invariance == Spec => []IInv
BY InitIInv, StepIInv, PTL DEF Spec

\* The channel never holds more than channel_size events and the batch never
\* more than batch_max_events, and every variable keeps its type.
THEOREM TypeCorrect == Spec => []TypeOK
BY Invariance, PTL DEF IInv

\* Whatever the mode, the failures and the restarts, every event handed to the
\* logger is in exactly one place: none is duplicated, none disappears.
THEOREM EveryEventAccountedFor == Spec => []Accounting
BY Invariance, PTL DEF IInv

\* The drop counter is the number of events this process lost.
THEOREM DropCountExact == Spec => []DroppedIsExact
BY Invariance, PTL DEF IInv

\* The initial state of the logger is the initial state of the trail.
LEMMA InitTrail == Init => Trail!Init
<1> SUFFICES ASSUME Init PROVE Trail!Init
  OBVIOUS
<1>1. Held = {} /\ Stamps(store) = {}
  BY DEF Init, Holders, Held, Stamps
<1>2. Queue = << >>
  BY ConcatEmptySeq, EmptySeq DEF Init, Queue
<1> QED BY <1>1, <1>2 DEF Init, Trail!Init

\* The logger implements AuditTrail: a bounded channel, a batch and failing
\* transactions look like one first-in first-out queue whose prefixes become
\* rows or are reported dropped.
THEOREM ImplementsTrail == Spec => TrailSpec
<1>1. IInv /\ [Next]_vars => IInv' /\ [Trail!Next]_(Trail!trailVars)
  BY StepIInv
<1> QED BY <1>1, InitTrail, Invariance, PTL DEF Spec, TrailSpec, Trail!Spec

-----------------------------------------------------------------------------
(* fail_closed mode bounds what a failing database costs.  While dbFailed  *)
(* is set no handler can begin to send, so what was lost plus what can     *)
(* still be lost - channel, batch and handlers already sending - is a      *)
(* budget that only shrinks.                                               *)

Senders == {c \in Callers : pc[c] = "sending"}
AtRisk == outage + Len(batch) + Len(ch) + Cardinality(Senders)
Budget == BatchMax + ChanSize + Cardinality(Callers)

BudgetInv ==
  Mode = "fail_closed" => IF dbFailed THEN AtRisk <= Budget ELSE outage = 0

\* The sizes BudgetInv adds up are numbers.
LEMMA Sizes ==
  ASSUME TypeOK
  PROVE  /\ Len(batch) \in Nat /\ Len(ch) \in Nat /\ outage \in Nat
         /\ IsFiniteSet(Senders) /\ Cardinality(Senders) \in Nat
         /\ Cardinality(Callers) \in Nat
         /\ Cardinality(Senders) <= Cardinality(Callers)
         /\ BatchMax \in Nat /\ ChanSize \in Nat
<1>1. Senders \in SUBSET Callers
  BY DEF Senders
<1>2. /\ IsFiniteSet(Senders) /\ Cardinality(Senders) \in Nat
      /\ Cardinality(Callers) \in Nat /\ Cardinality(Senders) <= Cardinality(Callers)
  BY <1>1, CallersAssumption, FS_Subset, FS_CardinalityType
<1> QED BY <1>2, LenProperties, SizeAssumption DEF TypeOK

\* A handler that was sending has left: one sender less.
LEMMA SenderLeaves ==
  ASSUME TypeOK, NEW c \in Callers, pc[c] = "sending", pc' = [pc EXCEPT ![c] = "idle"]
  PROVE  Cardinality(Senders') = Cardinality(Senders) - 1
<1>1. Senders' = Senders \ {c} /\ c \in Senders
  BY DEF Senders, TypeOK
<1> QED BY <1>1, Sizes, FS_RemoveElement

\* The budget holds whatever step is taken.
LEMMA StepBudget ==
  ASSUME TypeOK, TypeOK', BudgetInv, [Next]_vars
  PROVE  BudgetInv'
<1> SUFFICES ASSUME Mode = "fail_closed"
             PROVE  IF dbFailed' THEN AtRisk' <= Budget ELSE outage' = 0
  BY DEF BudgetInv, Budget
<1>1. IF dbFailed THEN AtRisk <= Budget ELSE outage = 0
  BY DEF BudgetInv
<1>2. ASSUME UNCHANGED <<outage, batch, ch, dbFailed>>, Senders' = Senders
      PROVE  IF dbFailed' THEN AtRisk' <= Budget ELSE outage' = 0
  BY <1>1, <1>2 DEF AtRisk
<1>3. ASSUME NEW c \in Callers, Handler(c)
      PROVE  IF dbFailed' THEN AtRisk' <= Budget ELSE outage' = 0
  <2>1. CASE Stamp(c) \/ LogRefuse(c)
    <3>1. Senders' = Senders
      BY <2>1 DEF Stamp, LogRefuse, Senders, TypeOK
    <3> QED BY <1>2, <2>1, <3>1 DEF Stamp, LogRefuse, writerVars, history
  <2>2. CASE LogEnter(c)
    <3>1. ~dbFailed /\ dbFailed' = dbFailed /\ outage' = outage
      BY <2>2 DEF LogEnter, Admits, history
    <3> QED BY <1>1, <3>1
  <2>3. CASE LogSend(c)
    <3>1. /\ Cardinality(Senders') = Cardinality(Senders) - 1
          /\ UNCHANGED <<outage, batch, dbFailed>>
      BY <2>3, SenderLeaves DEF LogSend, writerVars, history
    <3>2. Len(ch') = Len(ch) + 1
      BY <2>3 DEF LogSend, TypeOK
    <3> QED BY <1>1, <3>1, <3>2, Sizes DEF AtRisk, Budget
  <2>4. CASE LogDrop(c)
    <3>1. /\ Cardinality(Senders') = Cardinality(Senders) - 1
          /\ UNCHANGED <<outage, batch, ch, dbFailed>>
      BY <2>4, SenderLeaves DEF LogDrop, writerVars, history
    <3> QED BY <1>1, <3>1, Sizes DEF AtRisk, Budget
  <2> QED BY <1>3, <2>1, <2>2, <2>3, <2>4 DEF Handler
<1>4. CASE Close
  BY <1>2, <1>4 DEF Close, handlerVars, writerVars, history, Senders
<1>5. CASE Receive
  <2>1. /\ Len(batch') = Len(batch) + 1 /\ Len(ch') = Len(ch) - 1
        /\ UNCHANGED <<outage, dbFailed, pc>>
    BY <1>5, HeadTailProperties, AppendProperties DEF Receive, handlerVars, history, TypeOK
  <2>2. Senders' = Senders
    BY <2>1 DEF Senders
  <2> QED BY <1>1, <2>1, <2>2, Sizes DEF AtRisk, Budget
<1>6. CASE ChannelClosed \/ BatchTick \/ RetentionTick \/ FlushNothing \/ RunRetention
  <2>1. UNCHANGED <<outage, batch, ch, dbFailed, pc>>
    BY <1>6 DEF ChannelClosed, BatchTick, RetentionTick, FlushNothing, RunRetention,
                DeleteBefore, SkipAge, OverSize, SkipSize, TrimOldest, TrimDone, TrimFail,
                ResealChain, ResealFail, ReloadTip, handlerVars, writerVars, history
  <2>2. Senders' = Senders
    BY <2>1 DEF Senders
  <2> QED BY <1>2, <2>1, <2>2
<1>7. CASE FlushOk
  BY <1>7 DEF FlushOk
<1>8. CASE FlushFail
  <2>1. /\ outage' = outage + Len(batch) /\ batch' = << >>
        /\ UNCHANGED <<ch, pc>> /\ dbFailed' = TRUE
    BY <1>8 DEF FlushFail, EmptyBatch, handlerVars
  <2>2. Senders' = Senders /\ Len(batch') = 0
    BY <2>1, EmptySeq DEF Senders
  <2>3. Len(batch) <= BatchMax /\ Len(ch) <= ChanSize
    BY DEF TypeOK
  <2>4. CASE dbFailed
    BY <1>1, <2>1, <2>2, <2>4, Sizes DEF AtRisk, Budget
  <2>5. CASE ~dbFailed
    BY <1>1, <2>1, <2>2, <2>3, <2>5, Sizes DEF AtRisk, Budget
  <2> QED BY <2>1, <2>4, <2>5
<1>9. CASE Restart
  BY <1>9 DEF Restart
<1>10. CASE UNCHANGED vars
  BY <1>2, <1>10 DEF vars, handlerVars, writerVars, history, Senders
<1> QED BY <1>3, <1>4, <1>5, <1>6, <1>7, <1>8, <1>9, <1>10 DEF Next, Writer, Flush

\* In fail_closed mode a database that keeps failing costs at most one batch,
\* one channel and one event for each handler, however long it fails.
THEOREM LossIsBounded == Spec => []LossBounded
<1>1. Init => BudgetInv
  BY DEF Init, BudgetInv
<1>2. TypeOK /\ BudgetInv => LossBounded
  <2> SUFFICES ASSUME TypeOK, BudgetInv, Mode = "fail_closed" PROVE outage <= Budget
    BY DEF LossBounded, Budget
  <2>1. CASE dbFailed
    BY <2>1, Sizes DEF BudgetInv, AtRisk, Budget
  <2>2. CASE ~dbFailed
    BY <2>2, Sizes DEF BudgetInv, Budget
  <2> QED BY <2>1, <2>2
<1>3. TypeOK /\ TypeOK' /\ BudgetInv /\ [Next]_vars => BudgetInv'
  BY StepBudget
<1> QED BY <1>1, <1>2, <1>3, TypeCorrect, PTL DEF Spec

-----------------------------------------------------------------------------
(* The hash chain, under two sets of premises.  Maintained: a process that *)
(* does not restart and a store whose maintenance calls succeed, however   *)
(* often its writes and deletions fail.  Alone: requests one at a time and *)
(* a store whose tip can be read, whatever else fails.                     *)

\* The rows of a table that is one unbroken chain over the events of tip.
ChainRow(tip, i) ==
  [ts |-> tip[i], prev |-> SubSeq(tip, 1, i - 1), hash |-> SubSeq(tip, 1, i)]
ChainOf(tip) == {ChainRow(tip, i) : i \in DOMAIN tip}

-----------------------------------------------------------------------------
(* Prefixes.                                                               *)

LEMMA PrefixType ==
  ASSUME NEW s \in Seq(Nat), NEW j \in 0..Len(s)
  PROVE  /\ SubSeq(s, 1, j) \in Seq(Nat) /\ Len(SubSeq(s, 1, j)) = j
         /\ \A k \in 1..j : SubSeq(s, 1, j)[k] = s[k]
<1>1. j \in Int /\ 1 \in Int /\ \A k \in 1..j : s[k] \in Nat
  BY LenProperties, ElementOfSeq
<1>2. /\ SubSeq(s, 1, j) \in Seq(Nat)
      /\ Len(SubSeq(s, 1, j)) = IF 1 <= j THEN j - 1 + 1 ELSE 0
      /\ \A k \in 1..j - 1 + 1 : SubSeq(s, 1, j)[k] = s[1 + k - 1]
  BY <1>1, SubSeqProperties
<1> DEFINE p == SubSeq(s, 1, j)
<1> HIDE DEF p
<1>3. j \in Nat
  BY LenProperties
<1>4. Len(p) = j
  BY <1>2, <1>3 DEF p
<1>5. \A k \in 1..j : p[k] = s[k]
  <2> TAKE k \in 1..j
  <2>1. k \in 1..j - 1 + 1 /\ 1 + k - 1 = k
    BY <1>3
  <2> QED BY <1>2, <2>1 DEF p
<1> QED BY <1>2, <1>4, <1>5 DEF p

\* One more element.
LEMMA PrefixAppend ==
  ASSUME NEW s \in Seq(Nat), NEW i \in 1..Len(s)
  PROVE  SubSeq(s, 1, i) = Append(SubSeq(s, 1, i - 1), s[i])
<1> DEFINE p == SubSeq(s, 1, i - 1)
           q == SubSeq(s, 1, i)
<1>1. i - 1 \in 0..Len(s) /\ i \in 0..Len(s) /\ i - 1 \in Nat /\ s[i] \in Nat
  BY LenProperties, ElementOfSeq
<1>2. p \in Seq(Nat) /\ Len(p) = i - 1 /\ \A k \in 1..i - 1 : p[k] = s[k]
  BY <1>1, PrefixType
<1>3. q \in Seq(Nat) /\ Len(q) = i /\ \A k \in 1..i : q[k] = s[k]
  BY <1>1, PrefixType
<1> HIDE DEF p, q
<1>4. /\ Append(p, s[i]) \in Seq(Nat) /\ Len(Append(p, s[i])) = Len(p) + 1
      /\ \A k \in 1..Len(p) : Append(p, s[i])[k] = p[k]
      /\ Append(p, s[i])[Len(p) + 1] = s[i]
  BY <1>1, <1>2, AppendProperties
<1>5. \A k \in 1..i : k \in 1..i - 1 \/ k = i - 1 + 1
  BY <1>1
<1>6. Len(Append(p, s[i])) = i
  BY <1>1, <1>2, <1>4
<1>7. \A k \in 1..i : Append(p, s[i])[k] = q[k]
  <2> TAKE k \in 1..i
  <2>1. CASE k \in 1..i - 1
    BY <1>2, <1>3, <1>4, <2>1
  <2>2. CASE k = i - 1 + 1
    <3>1. k = i
      BY <1>1, <2>2
    <3>2. Append(p, s[i])[i - 1 + 1] = s[i]
      BY <1>2, <1>4
    <3> QED BY <1>3, <2>2, <3>1, <3>2
  <2> QED BY <1>5, <2>1, <2>2
<1>8. Append(p, s[i]) = q
  BY <1>3, <1>4, <1>6, <1>7, SeqEqual
<1> QED BY <1>8 DEF p, q

LEMMA WholePrefix ==
  ASSUME NEW s \in Seq(Nat)
  PROVE  SubSeq(s, 1, Len(s)) = s
<1>1. Len(s) \in 0..Len(s)
  BY LenProperties
<1>2. /\ SubSeq(s, 1, Len(s)) \in Seq(Nat) /\ Len(SubSeq(s, 1, Len(s))) = Len(s)
      /\ \A k \in 1..Len(s) : SubSeq(s, 1, Len(s))[k] = s[k]
  BY <1>1, PrefixType
<1> QED BY <1>2, SeqEqual

\* A prefix of a concatenation is a prefix of its first part, or all of that
\* and a prefix of the second.
LEMMA PrefixOfConcat ==
  ASSUME NEW s \in Seq(Nat), NEW t \in Seq(Nat)
  PROVE  /\ \A j \in 0..Len(s) : SubSeq(s \o t, 1, j) = SubSeq(s, 1, j)
         /\ \A i \in 0..Len(t) : SubSeq(s \o t, 1, Len(s) + i) = s \o SubSeq(t, 1, i)
<1> DEFINE c == s \o t
           m == Len(s)
           n == Len(t)
<1>1. /\ c \in Seq(Nat) /\ m \in Nat /\ n \in Nat /\ Len(c) = m + n
      /\ \A k \in 1..m + n : c[k] = IF k <= m THEN s[k] ELSE t[k - m]
  BY ConcatProperties, LenProperties
<1> HIDE DEF c
<1>2. ASSUME NEW j \in 0..m PROVE SubSeq(c, 1, j) = SubSeq(s, 1, j)
  <2>1. j \in 0..Len(c) /\ \A k \in 1..j : c[k] = s[k]
    BY <1>1
  <2> DEFINE p == SubSeq(c, 1, j)
             q == SubSeq(s, 1, j)
  <2>2. p \in Seq(Nat) /\ Len(p) = j /\ \A k \in 1..j : p[k] = c[k]
    BY <1>1, <2>1, PrefixType
  <2>3. q \in Seq(Nat) /\ Len(q) = j /\ \A k \in 1..j : q[k] = s[k]
    BY PrefixType
  <2> HIDE DEF p, q
  <2>4. p = q
    BY <2>1, <2>2, <2>3, SeqEqual
  <2> QED BY <2>4 DEF p, q
<1>3. ASSUME NEW i \in 0..n PROVE SubSeq(c, 1, m + i) = s \o SubSeq(t, 1, i)
  <2> DEFINE p == SubSeq(c, 1, m + i)
             r == SubSeq(t, 1, i)
             q == s \o r
  <2>1. m + i \in 0..Len(c) /\ i \in Nat
    BY <1>1
  <2>2. p \in Seq(Nat) /\ Len(p) = m + i /\ \A k \in 1..m + i : p[k] = c[k]
    BY <1>1, <2>1, PrefixType
  <2>3. r \in Seq(Nat) /\ Len(r) = i /\ \A k \in 1..i : r[k] = t[k]
    BY PrefixType
  <2> HIDE DEF p, r
  <2>4. q \in Seq(Nat) /\ Len(q) = m + i
        /\ \A k \in 1..m + i : q[k] = IF k <= m THEN s[k] ELSE r[k - m]
    BY <2>3, ConcatProperties
  <2> HIDE DEF q
  <2>5. \A k \in 1..m + i : p[k] = q[k]
    <3> TAKE k \in 1..m + i
    <3>1. k \in 1..m + n /\ (~(k <= m) => k - m \in 1..i)
      BY <1>1, <2>1
    <3> QED BY <1>1, <2>2, <2>3, <2>4, <3>1
  <2>6. p = q
    BY <2>2, <2>4, <2>5, SeqEqual
  <2> QED BY <2>6 DEF p, q, r
<1> QED BY <1>2, <1>3 DEF c

\* Appending the rows of a batch to a chain continues the chain.
LEMMA ChainGrows ==
  ASSUME NEW tip \in Seq(Nat), NEW b \in Seq(Nat)
  PROVE  ChainOf(tip \o b) = ChainOf(tip) \cup ChainRows(tip, b)
<1> DEFINE c == tip \o b
           m == Len(tip)
           n == Len(b)
           added(i) == [ts   |-> b[i],
                        prev |-> tip \o SubSeq(b, 1, i - 1),
                        hash |-> tip \o SubSeq(b, 1, i)]
<1>1. /\ m \in Nat /\ n \in Nat /\ DOMAIN tip = 1..m /\ DOMAIN b = 1..n
      /\ DOMAIN c = 1..m + n
      /\ \A k \in 1..m + n : c[k] = IF k <= m THEN tip[k] ELSE b[k - m]
  BY ConcatProperties, LenProperties
<1>2. /\ \A j \in 0..m : SubSeq(c, 1, j) = SubSeq(tip, 1, j)
      /\ \A i \in 0..n : SubSeq(c, 1, m + i) = tip \o SubSeq(b, 1, i)
  BY PrefixOfConcat
<1> HIDE DEF c
<1>3. \A i \in 1..m : ChainRow(c, i) = ChainRow(tip, i)
  <2> TAKE i \in 1..m
  <2>1. i - 1 \in 0..m /\ i \in 0..m /\ i \in 1..m + n /\ i <= m
    BY <1>1
  <2> QED BY <1>1, <1>2, <2>1 DEF ChainRow
<1>4. \A i \in 1..n : ChainRow(c, m + i) = added(i)
  <2> TAKE i \in 1..n
  <2>1. /\ i - 1 \in 0..n /\ i \in 0..n /\ m + i \in 1..m + n /\ ~(m + i <= m)
        /\ (m + i) - m = i /\ (m + i) - 1 = m + (i - 1)
    BY <1>1
  <2>2. SubSeq(c, 1, m + (i - 1)) = tip \o SubSeq(b, 1, i - 1)
        /\ SubSeq(c, 1, m + i) = tip \o SubSeq(b, 1, i)
    BY <1>2, <2>1
  <2>3. c[m + i] = b[i]
    BY <1>1, <2>1
  <2> QED BY <2>1, <2>2, <2>3 DEF ChainRow
<1>5. ChainRows(tip, b) = {added(i) : i \in 1..n}
  BY <1>1 DEF ChainRows
<1> HIDE DEF added
<1>6. ASSUME NEW k \in 1..m + n
      PROVE  ChainRow(c, k) \in {ChainRow(tip, i) : i \in 1..m} \cup {added(i) : i \in 1..n}
  <2>1. CASE k <= m
    <3>1. k \in 1..m
      BY <1>1, <2>1
    <3> QED BY <1>3, <3>1
  <2>2. CASE ~(k <= m)
    <3>1. k - m \in 1..n /\ k = m + (k - m)
      BY <1>1, <2>2
    <3>2. ChainRow(c, m + (k - m)) = added(k - m)
      BY <1>4, <3>1
    <3> QED BY <3>1, <3>2
  <2> QED BY <2>1, <2>2
<1>7. \A i \in 1..m : i \in 1..m + n
  BY <1>1
<1>8. \A i \in 1..n : m + i \in 1..m + n
  BY <1>1
<1>9. {ChainRow(c, k) : k \in 1..m + n} = {ChainRow(tip, i) : i \in 1..m} \cup {added(i) : i \in 1..n}
  <2>1. \A i \in 1..m : ChainRow(tip, i) \in {ChainRow(c, k) : k \in 1..m + n}
    BY <1>3, <1>7
  <2>2. \A i \in 1..n : added(i) \in {ChainRow(c, k) : k \in 1..m + n}
    BY <1>4, <1>8
  <2> QED BY <1>6, <2>1, <2>2
<1> QED BY <1>1, <1>5, <1>9 DEF ChainOf, c

-----------------------------------------------------------------------------
(* Resealing.                                                              *)

\* Elements of one rank are the same.
LEMMA RankDetermines ==
  ASSUME NEW S, S \subseteq Nat, IsFiniteSet(S), NEW x \in S, NEW y \in S, Rank(S, x) = Rank(S, y)
  PROVE  x = y
<1>1. /\ x < y => Rank(S, x) < Rank(S, y)
      /\ y < x => Rank(S, y) < Rank(S, x)
      /\ Rank(S, x) \in 0..(Cardinality(S) - 1)
  BY RankOnto
<1>2. Cardinality(S) \in Nat /\ x \in Nat /\ y \in Nat
  BY FS_CardinalityType
<1> QED BY <1>1, <1>2

\* What is below the i-th number, in order, is the first i - 1 numbers.
LEMMA AscendingPrefix ==
  ASSUME NEW S, S \subseteq Nat, IsFiniteSet(S), NEW i \in 1..Cardinality(S)
  PROVE  Ascending({y \in S : y < Ascending(S)[i]}) = SubSeq(Ascending(S), 1, i - 1)
<1> DEFINE A == Ascending(S)
           T == {y \in S : y < A[i]}
           B == Ascending(T)
           P == SubSeq(A, 1, i - 1)
<1>1. /\ A \in Seq(Nat) /\ Len(A) = Cardinality(S)
      /\ \A k \in 1..Cardinality(S) : A[k] \in S /\ Rank(S, A[k]) = k - 1
  BY AscendingFacts
<1>2. Cardinality(S) \in Nat
  BY FS_CardinalityType
<1> HIDE DEF A
<1>3. T \subseteq S /\ T \subseteq Nat /\ IsFiniteSet(T)
  BY FS_Subset
<1>4. Cardinality(T) = i - 1
  BY <1>1 DEF Rank
<1> HIDE DEF T
<1>5. /\ B \in Seq(Nat) /\ Len(B) = i - 1
      /\ \A k \in 1..i - 1 : B[k] \in T /\ Rank(T, B[k]) = k - 1
  BY <1>3, <1>4, AscendingFacts
<1> HIDE DEF B
<1>6. P \in Seq(Nat) /\ Len(P) = i - 1 /\ \A k \in 1..i - 1 : P[k] = A[k]
  <2>1. i - 1 \in 0..Len(A)
    BY <1>1, <1>2
  <2> QED BY <1>1, <2>1, PrefixType
<1> HIDE DEF P
<1>7. \A k \in 1..i - 1 : B[k] = A[k]
  <2> TAKE k \in 1..i - 1
  <2>1. k \in 1..Cardinality(S)
    BY <1>2
  <2>2. B[k] \in T /\ Rank(T, B[k]) = k - 1 /\ A[k] \in S /\ Rank(S, A[k]) = k - 1
    BY <1>1, <1>5, <2>1
  <2>3. B[k] \in S /\ B[k] < A[i] /\ A[i] \in Nat
    BY <1>1, <2>2 DEF T
  <2>4. {y \in T : y < B[k]} = {y \in S : y < B[k]}
    <3> DEFINE b == B[k]
               a == A[i]
    <3>1. b \in Nat /\ a \in Nat /\ b < a
      BY <2>3
    <3>2. T = {y \in S : y < a}
      BY DEF T
    <3> HIDE DEF a, b
    <3>3. \A y \in S : y < b => y < a
      BY <3>1
    <3> SUFFICES {y \in T : y < b} = {y \in S : y < b}
      BY DEF b
    <3> QED BY <3>2, <3>3, ZenonT(20)
  <2>5. Rank(S, B[k]) = k - 1
    BY <2>2, <2>4 DEF Rank
  <2> QED BY <2>2, <2>3, <2>5, RankDetermines
<1>8. B = P
  BY <1>5, <1>6, <1>7, SeqEqual
<1> QED BY <1>8 DEF B, P, T, A

\* Every number is listed, at the place its rank says.
LEMMA Listed ==
  ASSUME NEW S, S \subseteq Nat, IsFiniteSet(S)
  PROVE  S = {Ascending(S)[i] : i \in 1..Cardinality(S)}
<1> DEFINE A == Ascending(S)
<1>1. \A k \in 1..Cardinality(S) : A[k] \in S /\ Rank(S, A[k]) = k - 1
  BY AscendingFacts
<1>2. ASSUME NEW x \in S PROVE \E i \in 1..Cardinality(S) : A[i] = x
  <2> DEFINE i == Rank(S, x) + 1
  <2>1. Rank(S, x) \in 0..(Cardinality(S) - 1) /\ Cardinality(S) \in Nat
    BY RankOnto
  <2>2. i \in 1..Cardinality(S) /\ i - 1 = Rank(S, x)
    BY <2>1
  <2> HIDE DEF i, A
  <2>3. A[i] \in S /\ Rank(S, A[i]) = Rank(S, x)
    BY <1>1, <2>2
  <2>4. A[i] = x
    BY <2>3, RankDetermines
  <2> QED BY <2>2, <2>4
<1> HIDE DEF A
<1>3. S = {A[i] : i \in 1..Cardinality(S)}
  BY <1>1, <1>2
<1> QED BY <1>3 DEF A

\* A resealed table is one chain, in the order of the time stamps.
LEMMA ResealedIsChain ==
  ASSUME NEW rows, rows \subseteq Row, IsFiniteSet(Stamps(rows))
  PROVE  Resealed(rows) = ChainOf(Ascending(Stamps(rows)))
<1> DEFINE S == Stamps(rows)
           A == Ascending(S)
           sealed(t) == [ts |-> t, prev |-> Ascending({y \in S : y < t}),
                         hash |-> ComputeHash(Ascending({y \in S : y < t}), t)]
<1>1. S \subseteq Nat
  BY DEF Stamps, Row
<1>2. Resealed(rows) = {sealed(t) : t \in S}
  <2>1. \A t : Stamps(Before(rows, t)) = {y \in S : y < t}
    BY DEF Stamps, Before
  <2>2. Resealed(rows) = {sealed(r.ts) : r \in rows}
    BY <2>1 DEF Resealed
  <2> HIDE DEF sealed
  <2> QED BY <2>2 DEF Stamps
<1>3. /\ A \in Seq(Nat) /\ Len(A) = Cardinality(S) /\ Cardinality(S) \in Nat
      /\ S = {A[i] : i \in 1..Cardinality(S)}
  BY <1>1, AscendingFacts, Listed, FS_CardinalityType
<1>4. ASSUME NEW i \in 1..Cardinality(S) PROVE sealed(A[i]) = ChainRow(A, i)
  <2>1. Ascending({y \in S : y < A[i]}) = SubSeq(A, 1, i - 1)
    BY <1>1, AscendingPrefix
  <2> HIDE DEF A
  <2>2. ComputeHash(SubSeq(A, 1, i - 1), A[i]) = SubSeq(A, 1, i)
    BY <1>3, PrefixAppend DEF ComputeHash
  <2> QED BY <2>1, <2>2 DEF ChainRow
<1> HIDE DEF A, sealed, S
<1>5. {sealed(t) : t \in S} = {ChainRow(A, i) : i \in 1..Cardinality(S)}
  <2>1. \A t \in S : \E i \in 1..Cardinality(S) : sealed(t) = ChainRow(A, i)
    BY <1>3, <1>4
  <2>2. \A i \in 1..Cardinality(S) : A[i] \in S /\ sealed(A[i]) = ChainRow(A, i)
    BY <1>3, <1>4
  <2> QED BY <2>1, <2>2
<1>6. DOMAIN A = 1..Cardinality(S)
  BY <1>3, LenProperties
<1> QED BY <1>2, <1>5, <1>6 DEF ChainOf, A, S

\* The tip read back from a chain in the order of the time stamps.
LEMMA TipOfChain ==
  ASSUME NEW rows, rows \subseteq Row, IsFiniteSet(Stamps(rows)),
         rows = ChainOf(Ascending(Stamps(rows)))
  PROVE  LastHashOf(rows) = Ascending(Stamps(rows))
<1> DEFINE S == Stamps(rows)
           A == Ascending(S)
           n == Cardinality(S)
<1>1. S \subseteq Nat
  BY DEF Stamps, Row
<1>2. /\ A \in Seq(Nat) /\ Len(A) = n /\ n \in Nat
      /\ \A k \in 1..n : A[k] \in S /\ Rank(S, A[k]) = k - 1
  BY <1>1, AscendingFacts, FS_CardinalityType
<1>3. rows = {ChainRow(A, i) : i \in 1..n}
  BY <1>2 DEF ChainOf
<1>4. \A i \in 1..n : ChainRow(A, i).ts = A[i] /\ ChainRow(A, i).hash = SubSeq(A, 1, i)
  BY DEF ChainRow
<1>5. CASE n = 0
  <2>1. rows = {} /\ A = << >>
    BY <1>2, <1>3, <1>5, EmptySeq
  <2> QED BY <2>1 DEF LastHashOf, NoHash
<1>6. CASE n # 0
  <2>1. n \in 1..n
    BY <1>2, <1>6
  <2> DEFINE last == ChainRow(A, n)
  <2> HIDE DEF A, n, S
  <2>2. \A i \in 1..n : A[i] <= A[n] /\ (A[n] <= A[i] => i = n)
    <3> TAKE i \in 1..n
    <3>1. A[i] \in S /\ A[n] \in S /\ A[i] \in Nat /\ A[n] \in Nat
      BY <1>1, <1>2, <2>1
    <3>2. Rank(S, A[i]) = i - 1 /\ Rank(S, A[n]) = n - 1
      BY <1>2, <2>1
    <3>3. A[n] < A[i] => Rank(S, A[n]) < Rank(S, A[i])
      BY <1>1, <3>1, RankOnto DEF S
    <3>4. A[n] = A[i] => i = n
      BY <1>2, <3>2
    <3> QED BY <1>2, <3>1, <3>2, <3>3, <3>4
  <2>3. last \in rows /\ \A s \in rows : s.ts <= last.ts
    BY <1>3, <1>4, <2>1, <2>2
  <2>4. \A r \in rows : (\A s \in rows : s.ts <= r.ts) => r = last
    <3> SUFFICES ASSUME NEW r \in rows, last.ts <= r.ts PROVE r = last
      BY <2>3
    <3>1. PICK i \in 1..n : r = ChainRow(A, i)
      BY <1>3
    <3>2. A[n] <= A[i]
      BY <1>4, <2>1, <3>1
    <3> QED BY <2>2, <3>1, <3>2
  <2>5. Newest(rows) = last
    BY <2>3, <2>4 DEF Newest
  <2>6. last.hash = SubSeq(A, 1, n)
    BY <1>4, <2>1
  <2>7. SubSeq(A, 1, n) = A
    BY <1>2, WholePrefix
  <2> QED BY <2>3, <2>5, <2>6, <2>7 DEF LastHashOf, A, S
<1> QED BY <1>5, <1>6

-----------------------------------------------------------------------------
(* The chain.                                                              *)

\* No new process, and no failure of the calls that maintain the chain.
Maintained == Restarts = {} /\ Faults \cap {"trim", "reseal", "reload"} = {}

\* The chain is whole until rows are deleted, and from the reseal on.
ChainInv ==
  HashChain =>
    /\ ~InRetention \/ (wpc = "size" /\ ~deleted) => store = ChainOf(lastHash)
    /\ wpc = "reload" => store = ChainOf(Ascending(Stamps(store)))

LEMMA InitChain == Init => ChainInv
<1> SUFFICES ASSUME Init PROVE ChainInv
  OBVIOUS
<1>1. store = {} /\ lastHash = << >> /\ wpc = "select"
  BY DEF Init, NoHash
<1>2. ChainOf(<< >>) = {}
  BY EmptySeq DEF ChainOf
<1> QED BY <1>1, <1>2 DEF ChainInv

\* Steps that touch neither the table nor the tip, nor where retention is.
LEMMA ChainStays ==
  ASSUME ChainInv, UNCHANGED <<store, lastHash>>,
         \/ UNCHANGED <<wpc, deleted>>
         \/ ~InRetention /\ wpc' # "reload"
         \/ wpc' \in {"trim", "reseal"}
         \/ wpc = "size" /\ ~deleted /\ wpc' = "select"
  PROVE  ChainInv'
BY DEF ChainInv, InRetention

LEMMA StepChain ==
  ASSUME Maintained, IInv, ChainInv, [Next]_vars
  PROVE  ChainInv'
<1>1. ASSUME NEW c \in Callers, Handler(c) PROVE ChainInv'
  BY <1>1, ChainStays DEF Handler, Stamp, LogEnter, LogRefuse, LogSend, LogDrop, writerVars
<1>2. CASE Close \/ UNCHANGED vars
  BY <1>2, ChainStays DEF Close, vars, writerVars
<1>3. CASE Receive \/ ChannelClosed \/ BatchTick \/ RetentionTick
  <2>1. wpc = "select" /\ wpc' \in {"select", "flush", "flush_retain", "flush_exit"}
        /\ UNCHANGED <<store, lastHash>>
    BY <1>3 DEF Receive, ChannelClosed, BatchTick, RetentionTick
  <2> QED BY <2>1, ChainStays DEF InRetention
<1>4. CASE FlushNothing \/ FlushFail
  <2>1. ~InRetention /\ wpc' # "reload" /\ UNCHANGED <<store, lastHash>>
    BY <1>4 DEF FlushNothing, FlushFail, KeepTip, Flushing, AfterFlush, InRetention
  <2> QED BY <2>1, ChainStays
<1>5. CASE FlushOk
  <2>1. /\ ~InRetention /\ wpc' # "reload"
        /\ store' = store \cup BatchRows(lastHash, batch)
        /\ lastHash' = IF HashChain THEN lastHash \o batch ELSE lastHash
    BY <1>5 DEF FlushOk, AdvanceTip, Flushing, AfterFlush, InRetention
  <2>2. ASSUME HashChain PROVE store' = ChainOf(lastHash')
    <3>1. store = ChainOf(lastHash) /\ lastHash \in Seq(Nat) /\ batch \in Seq(Nat)
      BY <2>1, <2>2 DEF ChainInv, IInv, TypeOK
    <3>2. store' = ChainOf(lastHash) \cup ChainRows(lastHash, batch) /\ lastHash' = lastHash \o batch
      BY <2>1, <2>2, <3>1 DEF BatchRows
    <3> QED BY <3>1, <3>2, ChainGrows
  <2> QED BY <2>1, <2>2 DEF ChainInv
<1>6. CASE DeleteBefore
  <2>1. PICK cutoff : /\ store' = store \ Before(store, cutoff)
                      /\ deleted' = (Before(store, cutoff) # {})
    BY <1>6 DEF DeleteBefore, RemoveRows
  <2>2. wpc = "age" /\ wpc' = "size" /\ lastHash' = lastHash
    BY <1>6 DEF DeleteBefore
  <2>3. ~deleted' => store' = store
    BY <2>1
  <2> QED BY <2>2, <2>3 DEF ChainInv, InRetention
<1>7. CASE SkipAge
  <2>1. wpc = "age" /\ wpc' = "size" /\ UNCHANGED <<store, lastHash>>
    BY <1>7 DEF SkipAge
  <2> QED BY <2>1, ChainStays DEF InRetention
<1>8. CASE OverSize \/ TrimOldest
  <2>1. wpc' = "trim"
    BY <1>8 DEF OverSize, TrimOldest, writerVars
  <2> QED BY <2>1 DEF ChainInv, InRetention
<1>9. CASE SkipSize
  <2>1. wpc = "size" /\ wpc' = AfterRules(deleted) /\ UNCHANGED <<store, lastHash>>
    BY <1>9 DEF SkipSize
  <2>2. CASE ~HashChain
    BY <2>2 DEF ChainInv
  <2>3. CASE HashChain
    BY <2>1, <2>3, ChainStays DEF AfterRules
  <2> QED BY <2>2, <2>3
<1>10. CASE TrimDone
  <2>1. HashChain => wpc' = "reseal"
    BY <1>10 DEF TrimDone, AfterRules
  <2> QED BY <2>1 DEF ChainInv, InRetention
<1>11. ~TrimFail /\ ~ResealFail /\ ~Restart
  BY DEF Maintained, TrimFail, ResealFail, Restart
<1>12. CASE ResealChain
  <2>1. store' = Resealed(store) /\ wpc' = "reload"
    BY <1>12 DEF ResealChain
  <2>2. store \subseteq Row /\ IsFiniteSet(Stamps(store))
    BY PlacesFinite DEF IInv, TypeOK
  <2>3. Stamps(store') = Stamps(store) /\ store' = ChainOf(Ascending(Stamps(store)))
    BY <2>1, <2>2, ResealedFacts, ResealedIsChain
  <2>4. store' = ChainOf(Ascending(Stamps(store')))
    BY <2>3
  <2> QED BY <2>1, <2>4 DEF ChainInv, InRetention
<1>13. CASE ReloadTip
  <2>1. wpc = "reload" /\ wpc' = "select" /\ store' = store /\ lastHash' = LastHashOf(store)
    BY <1>13 DEF ReloadTip, Maintained
  <2>2. store \subseteq Row /\ IsFiniteSet(Stamps(store))
    BY PlacesFinite DEF IInv, TypeOK
  <2>3. HashChain => LastHashOf(store) = Ascending(Stamps(store)) /\ store = ChainOf(Ascending(Stamps(store)))
    BY <2>1, <2>2, TipOfChain DEF ChainInv
  <2> QED BY <2>1, <2>3 DEF ChainInv
<1> QED BY <1>1, <1>2, <1>3, <1>4, <1>5, <1>6, <1>7, <1>8, <1>9, <1>10, <1>11, <1>12, <1>13
        DEF Next, Writer, Flush, RunRetention

\* Whatever writes fail and whatever retention deletes, the table is one chain
\* that ends in lastHash, for any number of handlers: nothing is ever chained to
\* a batch that was rolled back.  (flushBatch moves the tip after the commit.)
THEOREM TheChainIsLinear == Maintained => (Spec => []ChainIsLinear)
<1> SUFFICES ASSUME Maintained PROVE Spec => []ChainIsLinear
  OBVIOUS
<1>1. IInv /\ ChainInv /\ [Next]_vars => ChainInv'
  BY StepChain
<1>2. ChainInv => ChainIsLinear
  BY DEF ChainInv, ChainIsLinear, ChainOf, ChainRow
<1> QED BY <1>1, <1>2, InitChain, Invariance, PTL DEF Spec

-----------------------------------------------------------------------------
(* Order and links.  One handler at a time, the table verifies.            *)

Sorted(q) == \A i, j \in DOMAIN q : i < j => q[i] < q[j]
After(rows, q) == \A r \in rows, i \in DOMAIN q : r.ts < q[i]

\* One request at a time; reading the tip succeeds.
Alone == (\A c, d \in Callers : c = d) /\ Faults \cap {"reload", "open"} = {}

\* Events queue up, and become rows, in the order of their stamps.
InTime ==
  /\ \A c \in Callers : pc[c] # "idle" => ev[c] = clock
  /\ Sorted(Queue)
  /\ After(store, Queue)

LinkedRows(rows) ==
  \A r \in rows :
    /\ r.hash = ComputeHash(r.prev, r.ts)
    /\ Before(rows, r.ts) # {} => r.prev = Newest(Before(rows, r.ts)).hash
Rooted(rows) == \A r \in rows : Before(rows, r.ts) = {} => r.prev = NoHash

\* Every row names the one before it, and the next one will name the last.
Linked ==
  HashChain =>
    /\ LinkedRows(store)
    /\ ~unsealed => Rooted(store)
    /\ wpc # "reload" => lastHash = LastHashOf(store) \/ (store = {} /\ unsealed)

-----------------------------------------------------------------------------
(* The order of events.                                                    *)

LEMMA TimeStays ==
  ASSUME InTime, UNCHANGED <<clock, ev>>, \A c \in Callers : pc'[c] # "idle" => pc[c] # "idle",
         Queue' = Queue, Stamps(store') \subseteq Stamps(store)
  PROVE  InTime'
<1>1. \A r \in store' : \E s \in store : r.ts = s.ts
  BY DEF Stamps
<1>2. After(store', Queue)
  BY <1>1 DEF InTime, After
<1> QED BY <1>2 DEF InTime

\* The two parts of a sorted queue.
LEMMA SortedParts ==
  ASSUME TypeOK, Sorted(Queue), NEW rows, After(rows, Queue)
  PROVE  /\ Sorted(batch) /\ Sorted(ch)
         /\ After(rows, batch) /\ After(rows, ch)
         /\ \A i \in DOMAIN batch, j \in DOMAIN ch : batch[i] < ch[j]
<1> DEFINE m == Len(batch)
           n == Len(ch)
<1>1. /\ m \in Nat /\ n \in Nat /\ DOMAIN batch = 1..m /\ DOMAIN ch = 1..n
      /\ DOMAIN Queue = 1..m + n
      /\ \A k \in 1..m + n : Queue[k] = IF k <= m THEN batch[k] ELSE ch[k - m]
  BY ConcatProperties, LenProperties DEF TypeOK, Queue
<1>2. \A i \in 1..m : i \in DOMAIN Queue /\ Queue[i] = batch[i]
  BY <1>1
<1>3. \A j \in 1..n : m + j \in DOMAIN Queue /\ Queue[m + j] = ch[j]
  <2> TAKE j \in 1..n
  <2>1. m + j \in 1..m + n /\ ~(m + j <= m) /\ m + j - m = j
    BY <1>1
  <2> QED BY <1>1, <2>1
<1>4. \A i \in 1..m, j \in 1..n : i < m + j
  BY <1>1
<1>5. \A i, j \in 1..n : i < j => m + i < m + j
  BY <1>1
<1>6. Sorted(batch)
  BY <1>1, <1>2 DEF Sorted
<1>7. Sorted(ch)
  BY <1>1, <1>3, <1>5 DEF Sorted
<1>8. After(rows, batch) /\ After(rows, ch)
  BY <1>1, <1>2, <1>3 DEF After
<1>9. \A i \in 1..m, j \in 1..n : batch[i] < ch[j]
  BY <1>2, <1>3, <1>4 DEF Sorted
<1> QED BY <1>1, <1>6, <1>7, <1>8, <1>9

LEMMA SortedAppend ==
  ASSUME NEW q \in Seq(Nat), Sorted(q), NEW e \in Nat, \A x \in Range(q) : x < e
  PROVE  Sorted(Append(q, e))
<1> DEFINE p == Append(q, e)
           n == Len(q)
<1>1. /\ n \in Nat /\ DOMAIN q = 1..n /\ DOMAIN p = 1..n + 1
      /\ \A k \in 1..n : p[k] = q[k] /\ q[k] < e
      /\ p[n + 1] = e
  BY AppendProperties, LenProperties, RangeEquality
<1> HIDE DEF p
<1>2. ASSUME NEW i \in 1..n + 1, NEW j \in 1..n + 1, i < j PROVE p[i] < p[j]
  <2>1. i \in 1..n
    BY <1>1, <1>2
  <2>2. CASE j \in 1..n
    BY <1>1, <1>2, <2>1, <2>2 DEF Sorted
  <2>3. CASE j = n + 1
    BY <1>1, <2>1, <2>3
  <2> QED BY <1>1, <2>2, <2>3
<1> QED BY <1>1, <1>2 DEF Sorted, p

LEMMA SendInTime ==
  ASSUME Alone, IInv, InTime, NEW c \in Callers, LogSend(c)
  PROVE  InTime'
<1>1. /\ pc[c] = "sending" /\ pc' = [pc EXCEPT ![c] = "idle"] /\ ch' = Append(ch, clock)
      /\ UNCHANGED <<clock, ev, batch, store>>
  BY DEF LogSend, InTime, writerVars
<1>2. Queue \in Seq(Nat) /\ clock \in Nat /\ Queue' = Append(Queue, clock)
  BY <1>1, QueueType, ConcatAppend DEF IInv, TypeOK, Queue
<1>3. clock \in Held
  BY <1>1 DEF InTime, Held, Holders
<1>4. \A x \in Range(Queue) \cup Stamps(store) : x \in 1..clock /\ x # clock
  BY <1>3 DEF IInv, Accounting
<1>5. \A x \in Range(Queue) \cup Stamps(store) : x < clock
  BY <1>2, <1>4
<1>6. Sorted(Queue')
  BY <1>2, <1>5, SortedAppend DEF InTime
<1>7. After(store', Queue')
  <2>1. \A r \in store : r.ts < clock
    BY <1>5 DEF Stamps
  <2>2. /\ Len(Queue) \in Nat /\ DOMAIN Queue = 1..Len(Queue) /\ DOMAIN Queue' = 1..Len(Queue) + 1
        /\ \A k \in 1..Len(Queue) : Queue'[k] = Queue[k]
        /\ Queue'[Len(Queue) + 1] = clock
    BY <1>2, AppendProperties, LenProperties
  <2>3. \A k \in DOMAIN Queue' : k \in DOMAIN Queue \/ k = Len(Queue) + 1
    BY <2>2
  <2>4. \A r \in store, k \in DOMAIN Queue' : r.ts < Queue'[k]
    BY <2>1, <2>2, <2>3 DEF InTime, After
  <2> QED BY <1>1, <2>4 DEF After
<1>8. \A d \in Callers : pc'[d] = "idle"
  BY <1>1 DEF Alone, IInv, TypeOK
<1> QED BY <1>6, <1>7, <1>8 DEF InTime

\* A batch leaves the queue.
LEMMA FlushInTime ==
  ASSUME IInv, InTime, UNCHANGED <<clock, pc, ev, ch>>, batch' = << >>,
         \A r \in store' : r \in store \/ \E i \in DOMAIN batch : r.ts = batch[i]
  PROVE  InTime'
<1>1. Queue' = ch
  BY ConcatEmptySeq DEF Queue, IInv, TypeOK
<1>2. /\ Sorted(ch) /\ After(store, ch)
      /\ \A i \in DOMAIN batch, j \in DOMAIN ch : batch[i] < ch[j]
  BY SortedParts DEF IInv, InTime
<1>3. After(store', ch)
  BY <1>2 DEF After
<1> QED BY <1>1, <1>2, <1>3 DEF InTime

LEMMA StepInTime ==
  ASSUME Alone, IInv, InTime, [Next]_vars
  PROVE  InTime'
<1>1. ASSUME NEW c \in Callers, Handler(c) PROVE InTime'
  <2>1. CASE Stamp(c)
    <3>1. /\ clock' = clock + 1 /\ ev' = [ev EXCEPT ![c] = clock + 1]
          /\ Queue' = Queue /\ store' = store
      BY <2>1 DEF Stamp, Queue, writerVars
    <3>2. \A d \in Callers : ev'[d] = clock'
      BY <3>1 DEF Alone, IInv, TypeOK
    <3> QED BY <3>1, <3>2 DEF InTime
  <2>2. CASE LogEnter(c) \/ LogRefuse(c) \/ LogDrop(c)
    <3>1. /\ UNCHANGED <<clock, ev, ch, batch, store>> /\ pc[c] # "idle"
          /\ \A d \in Callers : d # c => pc'[d] = pc[d]
      BY <2>2 DEF LogEnter, LogRefuse, LogDrop, writerVars, IInv, TypeOK
    <3>2. \A d \in Callers : pc'[d] # "idle" => pc[d] # "idle"
      BY <3>1
    <3> QED BY <3>1, <3>2, TimeStays DEF Queue
  <2>3. CASE LogSend(c)
    BY <2>3, SendInTime
  <2> QED BY <1>1, <2>1, <2>2, <2>3 DEF Handler
<1>2. CASE Receive
  <2>1. Queue' = Queue
    BY <1>2, MoveHead DEF Receive, Queue, IInv, TypeOK
  <2> QED BY <1>2, <2>1, TimeStays DEF Receive, handlerVars
<1>3. CASE FlushOk
  <2>1. /\ store' = store \cup BatchRows(lastHash, batch) /\ batch' = << >>
        /\ UNCHANGED <<clock, pc, ev, ch>>
    BY <1>3 DEF FlushOk, EmptyBatch, handlerVars
  <2>2. \A r \in BatchRows(lastHash, batch) : \E i \in DOMAIN batch : r.ts = batch[i]
    BY DEF BatchRows, ChainRows, PlainRows
  <2> QED BY <2>1, <2>2, FlushInTime
<1>4. CASE FlushFail
  BY <1>4, FlushInTime DEF FlushFail, EmptyBatch, handlerVars
<1>5. CASE Restart
  <2>1. Queue' = << >> /\ store' = store /\ \A c \in Callers : pc'[c] = "idle"
    BY <1>5, ConcatEmptySeq, EmptySeq DEF Restart, Queue
  <2> QED BY <2>1 DEF InTime, Sorted, After
<1>6. CASE ResealChain
  <2>1. Stamps(store') = Stamps(store)
    BY <1>6, ResealedFacts, PlacesFinite DEF ResealChain, IInv, TypeOK
  <2> QED BY <1>6, <2>1, TimeStays DEF ResealChain, handlerVars, Queue
<1>7. CASE DeleteBefore \/ TrimOldest
  <2>1. store' \subseteq store /\ UNCHANGED <<clock, pc, ev, ch, batch>>
    BY <1>7 DEF DeleteBefore, TrimOldest, RemoveRows, handlerVars, writerVars
  <2>2. Stamps(store') \subseteq Stamps(store)
    BY <2>1 DEF Stamps
  <2> QED BY <2>1, <2>2, TimeStays DEF Queue
<1>8. CASE \/ Close \/ ChannelClosed \/ BatchTick \/ RetentionTick \/ FlushNothing
           \/ SkipAge \/ OverSize \/ SkipSize \/ TrimDone \/ TrimFail \/ ResealFail \/ ReloadTip
           \/ UNCHANGED vars
  <2>1. UNCHANGED <<clock, pc, ev, ch, batch, store>>
    BY <1>8 DEF Close, ChannelClosed, BatchTick, RetentionTick, FlushNothing, SkipAge, OverSize,
       SkipSize, TrimDone, TrimFail, ResealFail, ReloadTip, vars, handlerVars, writerVars
  <2> QED BY <2>1, TimeStays DEF Queue
<1> QED BY <1>1, <1>2, <1>3, <1>4, <1>5, <1>6, <1>7, <1>8
        DEF Next, Writer, Flush, RunRetention

-----------------------------------------------------------------------------
(* Links.                                                                  *)

LEMMA NewestIs ==
  ASSUME NEW rows, rows \subseteq Row, UniqueStamps(rows),
         NEW x \in rows, \A s \in rows : s.ts <= x.ts
  PROVE  Newest(rows) = x
<1>1. ASSUME NEW r \in rows, \A s \in rows : s.ts <= r.ts PROVE r = x
  <2>1. r.ts <= x.ts /\ x.ts <= r.ts /\ r.ts \in Nat /\ x.ts \in Nat
    BY <1>1 DEF Row
  <2>2. r.ts = x.ts
    BY <2>1
  <2> QED BY <2>2 DEF UniqueStamps
<1> QED BY <1>1 DEF Newest

LEMMA HasNewest ==
  ASSUME NEW rows, rows \subseteq Row, IsFiniteSet(Stamps(rows)), rows # {}
  PROVE  \E x \in rows : \A s \in rows : s.ts <= x.ts
<1>1. Stamps(rows) \subseteq Nat /\ Stamps(rows) # {}
  BY DEF Stamps, Row
<1>2. PICK t \in Stamps(rows) : \A u \in Stamps(rows) : u <= t
  BY <1>1, HasLargest
<1>3. PICK x \in rows : x.ts = t
  BY DEF Stamps
<1> QED BY <1>2, <1>3 DEF Stamps

\* Deleting the oldest rows changes no link but that of the oldest left.
LEMMA TrimmedLinks ==
  ASSUME NEW rows, rows \subseteq Row, UniqueStamps(rows), IsFiniteSet(Stamps(rows)),
         NEW D, D \subseteq rows, \A r \in D, s \in rows \ D : r.ts < s.ts,
         LinkedRows(rows)
  PROVE  /\ LinkedRows(rows \ D)
         /\ rows \ D # {} => LastHashOf(rows \ D) = LastHashOf(rows)
<1>1. ASSUME NEW E, E \subseteq rows, E \ D # {}
      PROVE  E # {} /\ Newest(E \ D) = Newest(E)
  <2>1. E \subseteq Row /\ E \ D \subseteq Row /\ UniqueStamps(E) /\ UniqueStamps(E \ D)
    BY <1>1 DEF UniqueStamps
  <2>2. IsFiniteSet(Stamps(E \ D))
    <3>1. Stamps(E \ D) \subseteq Stamps(rows)
      BY <1>1 DEF Stamps
    <3> QED BY <3>1, FS_Subset
  <2>3. PICK x \in E \ D : \A s \in E \ D : s.ts <= x.ts
    BY <1>1, <2>1, <2>2, HasNewest
  <2>4. \A s \in E : s.ts <= x.ts
    <3> TAKE s \in E
    <3>1. CASE s \in D
      <4>1. s.ts < x.ts /\ s.ts \in Nat /\ x.ts \in Nat
        BY <1>1, <2>1, <2>3, <3>1 DEF Row
      <4> QED BY <4>1
    <3> QED BY <2>3, <3>1
  <2>5. Newest(E \ D) = x
    BY <2>1, <2>3, NewestIs
  <2>6. Newest(E) = x
    BY <2>1, <2>3, <2>4, NewestIs
  <2> QED BY <2>3, <2>5, <2>6
<1>2. \A t : Before(rows \ D, t) = Before(rows, t) \ D /\ Before(rows, t) \subseteq rows
  BY DEF Before
<1>3. LinkedRows(rows \ D)
  <2> SUFFICES ASSUME NEW r \in rows \ D
               PROVE  /\ r.hash = ComputeHash(r.prev, r.ts)
                      /\ Before(rows \ D, r.ts) # {} => r.prev = Newest(Before(rows \ D, r.ts)).hash
    BY DEF LinkedRows
  <2>1. r.hash = ComputeHash(r.prev, r.ts)
    BY DEF LinkedRows
  <2> DEFINE E == Before(rows, r.ts)
  <2>2. E \subseteq rows /\ Before(rows \ D, r.ts) = E \ D
    BY <1>2
  <2>3. E # {} => r.prev = Newest(E).hash
    BY DEF LinkedRows
  <2> HIDE DEF E
  <2>4. E \ D # {} => r.prev = Newest(E \ D).hash
    BY <1>1, <2>2, <2>3
  <2> QED BY <2>1, <2>2, <2>4
<1>4. rows \ D # {} => LastHashOf(rows \ D) = LastHashOf(rows)
  BY <1>1 DEF LastHashOf
<1> QED BY <1>3, <1>4

\* A batch that is written after all rows is linked to them.
LEMMA GrownLinks ==
  ASSUME HashChain, NEW rows, rows \subseteq Row, UniqueStamps(rows), IsFiniteSet(Stamps(rows)),
         LinkedRows(rows), NEW tip \in Seq(Nat), rows # {} => tip = LastHashOf(rows),
         NEW b \in Seq(Nat), b # << >>, Sorted(b), After(rows, b)
  PROVE  LET grown == rows \cup ChainRows(tip, b)
         IN  /\ LinkedRows(grown)
             /\ LastHashOf(grown) = tip \o b
             /\ Rooted(rows) /\ (rows = {} => tip = NoHash) => Rooted(grown)
<1> DEFINE n == Len(b)
           new(i) == [ts   |-> b[i],
                      prev |-> tip \o SubSeq(b, 1, i - 1),
                      hash |-> tip \o SubSeq(b, 1, i)]
           grown == rows \cup ChainRows(tip, b)
<1>1. /\ n \in Nat /\ DOMAIN b = 1..n /\ n # 0 /\ 1 \in 1..n /\ n \in 1..n
      /\ \A i \in 1..n : b[i] \in Nat
  BY LenProperties, ElementOfSeq, EmptySeq
<1>2. \A i, j \in 1..n : /\ i < j => b[i] < b[j]
                         /\ b[i] = b[j] => i = j
  <2>1. \A i, j \in 1..n : i < j => b[i] < b[j]
    BY <1>1 DEF Sorted
  <2>2. ASSUME NEW i \in 1..n, NEW j \in 1..n, b[i] = b[j] PROVE i = j
    <3>1. b[i] \in Nat /\ ~(b[i] < b[j]) /\ ~(b[j] < b[i])
      BY <1>1, <2>2
    <3>2. ~(i < j) /\ ~(j < i)
      BY <2>1, <3>1
    <3> QED BY <1>1, <3>2
  <2> QED BY <2>1, <2>2
<1>3. /\ \A i \in 1..n : new(i).ts = b[i] /\ new(i).prev = tip \o SubSeq(b, 1, i - 1)
                         /\ new(i).hash = tip \o SubSeq(b, 1, i)
      /\ ChainRows(tip, b) = {new(i) : i \in 1..n}
  BY <1>1 DEF ChainRows
<1> HIDE DEF n
<1>4. \A s \in ChainRows(tip, b) : \E i \in 1..n : s = new(i) /\ s.ts = b[i]
  <2> HIDE DEF new
  <2> QED BY <1>3
<1>5. ChainRows(tip, b) \subseteq Row /\ UniqueStamps(ChainRows(tip, b))
      /\ Stamps(ChainRows(tip, b)) = Range(b)
  <2>1. ChainRows(tip, b) = BatchRows(tip, b)
    BY DEF BatchRows
  <2>2. \A i, j \in DOMAIN b : b[i] = b[j] => i = j
    BY <1>1, <1>2
  <2>3. BatchRows(tip, b) \subseteq Row /\ UniqueStamps(BatchRows(tip, b))
        /\ Stamps(BatchRows(tip, b)) = Range(b)
    BY <2>2, BatchRowsFacts
  <2> QED BY <2>1, <2>3
<1>6. \A r \in rows, i \in 1..n : r.ts < b[i] /\ r.ts \in Nat
  BY <1>1 DEF After, Row
<1>7. UniqueStamps(grown) /\ grown \subseteq Row
  <2>1. Stamps(rows) \cap Stamps(ChainRows(tip, b)) = {}
    <3>1. \A r \in rows, i \in 1..n : r.ts # b[i]
      BY <1>1, <1>6
    <3>2. Range(b) = {b[i] : i \in 1..n}
      BY RangeEquality DEF n
    <3> QED BY <1>5, <3>1, <3>2 DEF Stamps
  <2> QED BY <1>5, <2>1, UniqueUnion
<1> HIDE DEF new
<1>8. \A r \in rows : Before(grown, r.ts) = Before(rows, r.ts)
  <2> TAKE r \in rows
  <2>1. \A i \in 1..n : ~(b[i] < r.ts)
    BY <1>1, <1>6
  <2> QED BY <1>3, <2>1 DEF Before
<1>9. Before(grown, b[1]) = rows
  <2>1. \A i \in 1..n : ~(b[i] < b[1])
    <3> TAKE i \in 1..n
    <3>1. i = 1 \/ 1 < i
      BY <1>1
    <3> QED BY <1>1, <1>2, <3>1
  <2>2. \A r \in rows : r.ts < b[1]
    BY <1>1, <1>6
  <2> QED BY <1>3, <2>1, <2>2 DEF Before
<1>10. ASSUME NEW i \in 1..n, i # 1
      PROVE  Before(grown, b[i]) # {} /\ Newest(Before(grown, b[i])) = new(i - 1)
  <2>1. i - 1 \in 1..n /\ i - 1 < i
    BY <1>1, <1>10
  <2>2. new(i - 1) \in Before(grown, b[i])
    BY <1>1, <1>2, <1>3, <2>1 DEF Before
  <2>3. \A s \in Before(grown, b[i]) : s.ts <= new(i - 1).ts
    <3> TAKE s \in Before(grown, b[i])
    <3>1. s \in grown /\ s.ts < b[i] /\ new(i - 1).ts = b[i - 1] /\ b[i - 1] \in Nat
      BY <1>1, <1>3, <2>1 DEF Before
    <3>2. CASE s \in rows
      <4>1. s.ts < b[i - 1] /\ s.ts \in Nat
        BY <1>6, <2>1, <3>2
      <4> QED BY <3>1, <4>1
    <3>3. CASE s \in ChainRows(tip, b)
      <4>1. PICK j \in 1..n : s.ts = b[j]
        BY <1>4, <3>3
      <4>2. ~(i < j) /\ i # j
        BY <1>1, <1>2, <3>1, <4>1
      <4>3. j = i - 1 \/ j < i - 1
        BY <1>1, <4>2
      <4> QED BY <1>1, <1>2, <2>1, <3>1, <4>1, <4>3
    <3> QED BY <3>1, <3>2, <3>3
  <2>4. Before(grown, b[i]) \subseteq Row /\ UniqueStamps(Before(grown, b[i]))
    BY <1>7 DEF Before, UniqueStamps
  <2> QED BY <2>2, <2>3, <2>4, NewestIs
<1>11. new(1).prev = tip
  <2>1. SubSeq(b, 1, 0) = << >>
    <3>1. SubSeq(b, 1, 0) \in Seq(Nat) /\ Len(SubSeq(b, 1, 0)) = 0
      <4>1. 0 \in 0..Len(b)
        BY <1>1
      <4> QED BY <4>1, PrefixType
    <3> QED BY <3>1, EmptySeq
  <2>2. new(1).prev = tip \o SubSeq(b, 1, 1 - 1) /\ 1 - 1 = 0
    BY <1>1, <1>3
  <2> QED BY <2>1, <2>2, ConcatEmptySeq
<1>12. \A i \in 1..n : new(i).hash = ComputeHash(new(i).prev, new(i).ts)
  <2> TAKE i \in 1..n
  <2> DEFINE p == SubSeq(b, 1, i - 1)
             q == SubSeq(b, 1, i)
  <2>1. i - 1 \in 0..Len(b) /\ i \in 0..Len(b) /\ b[i] \in Nat
    BY <1>1
  <2>2. q = Append(p, b[i])
    BY <2>1, PrefixAppend
  <2>3. p \in Seq(Nat)
    BY <2>1, PrefixType
  <2> HIDE DEF p, q
  <2>4. tip \o q = Append(tip \o p, b[i])
    BY <2>1, <2>2, <2>3, ConcatAppend
  <2> QED BY <1>3, <2>4 DEF ComputeHash, p, q
<1>13. \A i \in 1..n : i # 1 => new(i).prev = new(i - 1).hash
  <2> TAKE i \in 1..n
  <2>1. i # 1 => i - 1 \in 1..n
    BY <1>1
  <2> QED BY <1>3, <2>1
<1> HIDE DEF grown
<1>14. LinkedRows(grown)
  <2>1. ASSUME NEW r \in rows
        PROVE  /\ r.hash = ComputeHash(r.prev, r.ts)
               /\ Before(grown, r.ts) # {} => r.prev = Newest(Before(grown, r.ts)).hash
    BY <1>8, <2>1 DEF LinkedRows
  <2>2. ASSUME NEW i \in 1..n
        PROVE  /\ new(i).hash = ComputeHash(new(i).prev, new(i).ts)
               /\ Before(grown, new(i).ts) # {} => new(i).prev = Newest(Before(grown, new(i).ts)).hash
    <3>1. CASE i = 1
      <4>1. rows # {} => tip = Newest(rows).hash
        BY DEF LastHashOf
      <4> QED BY <1>3, <1>9, <1>11, <1>12, <3>1, <4>1
    <3>2. CASE i # 1
      BY <1>3, <1>10, <1>12, <1>13, <3>2
    <3> QED BY <3>1, <3>2
  <2> QED BY <1>3, <2>1, <2>2 DEF LinkedRows, grown
<1>15. LastHashOf(grown) = tip \o b
  <2>1. new(n) \in grown /\ new(n).ts = b[n]
    BY <1>1, <1>3 DEF grown
  <2>2. \A s \in grown : s.ts <= b[n]
    <3> TAKE s \in grown
    <3>1. CASE s \in rows
      <4>1. s.ts < b[n] /\ s.ts \in Nat /\ b[n] \in Nat
        BY <1>1, <1>6, <3>1
      <4> QED BY <4>1
    <3>2. CASE s \in ChainRows(tip, b)
      <4>1. PICK i \in 1..n : s.ts = b[i]
        BY <1>4, <3>2
      <4>2. i = n \/ i < n
        BY <1>1
      <4> QED BY <1>1, <1>2, <4>1, <4>2
    <3> QED BY <3>1, <3>2 DEF grown
  <2>3. Newest(grown) = new(n)
    BY <1>7, <2>1, <2>2, NewestIs
  <2>4. SubSeq(b, 1, n) = b
    BY WholePrefix DEF n
  <2>5. new(n).hash = tip \o b
    BY <1>1, <1>3, <2>4
  <2> QED BY <2>1, <2>3, <2>5 DEF LastHashOf
<1>16. ASSUME Rooted(rows), rows = {} => tip = NoHash PROVE Rooted(grown)
  <2>1. ASSUME NEW r \in rows PROVE Before(grown, r.ts) = {} => r.prev = NoHash
    BY <1>8, <1>16 DEF Rooted
  <2>2. ASSUME NEW i \in 1..n PROVE Before(grown, new(i).ts) = {} => new(i).prev = NoHash
    <3>1. CASE i = 1
      BY <1>3, <1>9, <1>11, <1>16, <3>1
    <3>2. CASE i # 1
      BY <1>3, <1>10, <3>2
    <3> QED BY <3>1, <3>2
  <2> QED BY <1>3, <2>1, <2>2 DEF Rooted, grown
<1> QED BY <1>14, <1>15, <1>16 DEF grown

\* A chain over sorted events verifies.
LEMMA SortedChain ==
  ASSUME HashChain, NEW A \in Seq(Nat), Sorted(A)
  PROVE  LinkedRows(ChainOf(A)) /\ Rooted(ChainOf(A))
<1>1. << >> \in Seq(Nat) /\ << >> \o A = A /\ ChainOf(<< >>) = {}
  BY EmptySeq, ConcatEmptySeq DEF ChainOf
<1>2. ChainOf(A) = {} \cup ChainRows(<< >>, A)
  BY <1>1, ChainGrows
<1>3. CASE A = << >>
  BY <1>1, <1>3 DEF LinkedRows, Rooted
<1>4. CASE A # << >>
  <2>1. /\ {} \subseteq Row /\ UniqueStamps({}) /\ IsFiniteSet(Stamps({}))
        /\ LinkedRows({}) /\ After({}, A) /\ Rooted({})
    BY FS_EmptySet DEF UniqueStamps, Stamps, LinkedRows, After, Rooted
  <2> DEFINE none == {}
  <2>2. /\ LinkedRows(none \cup ChainRows(<< >>, A))
        /\ Rooted(none \cup ChainRows(<< >>, A))
    <3>1. none # {} => << >> = LastHashOf(none)
      OBVIOUS
    <3>2. none = {} => << >> = NoHash
      BY DEF NoHash
    <3> QED BY <1>1, <1>4, <2>1, <3>1, <3>2, GrownLinks
  <2> QED BY <1>2, <2>2
<1> QED BY <1>3, <1>4

LEMMA AscendingSorted ==
  ASSUME NEW S, S \subseteq Nat, IsFiniteSet(S)
  PROVE  Ascending(S) \in Seq(Nat) /\ Sorted(Ascending(S))
<1> DEFINE A == Ascending(S)
           n == Cardinality(S)
<1>1. /\ A \in Seq(Nat) /\ DOMAIN A = 1..n /\ n \in Nat
      /\ \A i \in 1..n : A[i] \in S /\ Rank(S, A[i]) = i - 1
  BY AscendingFacts, LenProperties, FS_CardinalityType
<1> HIDE DEF A, n
<1>2. ASSUME NEW i \in 1..n, NEW j \in 1..n, i < j PROVE A[i] < A[j]
  <2>1. A[i] \in S /\ A[j] \in S /\ A[i] \in Nat /\ A[j] \in Nat
    BY <1>1
  <2>2. Rank(S, A[i]) = i - 1 /\ Rank(S, A[j]) = j - 1 /\ i - 1 < j - 1
    BY <1>1, <1>2
  <2>3. A[j] < A[i] => Rank(S, A[j]) < Rank(S, A[i])
    BY <2>1, RankOnto
  <2>4. A[i] # A[j]
    BY <1>1, <1>2, <2>2
  <2> QED BY <1>1, <2>1, <2>2, <2>3, <2>4
<1> QED BY <1>1, <1>2 DEF Sorted, A

\* Steps that touch neither the rows nor the tip.
LEMMA LinksStay ==
  ASSUME Linked, UNCHANGED <<store, lastHash, unsealed>>, wpc' # "reload" => wpc # "reload"
  PROVE  Linked'
BY DEF Linked

LEMMA FlushLinks ==
  ASSUME IInv, InTime, Linked, FlushOk
  PROVE  Linked'
<1> SUFFICES ASSUME HashChain
             PROVE  /\ LinkedRows(store') /\ (~unsealed' => Rooted(store'))
                    /\ lastHash' = LastHashOf(store')
  BY DEF Linked
<1>1. /\ wpc # "reload" /\ batch # << >> /\ unsealed' = unsealed
      /\ store' = store \cup ChainRows(lastHash, batch) /\ lastHash' = lastHash \o batch
  BY DEF FlushOk, AdvanceTip, BatchRows, Flushing, AfterFlush
<1>2. /\ store \subseteq Row /\ UniqueStamps(store) /\ IsFiniteSet(Stamps(store))
      /\ lastHash \in Seq(Nat) /\ batch \in Seq(Nat)
  BY PlacesFinite DEF IInv, TypeOK, Accounting, UniqueStamps
<1>3. Sorted(batch) /\ After(store, batch)
  BY SortedParts DEF IInv, InTime
<1>4. /\ LinkedRows(store) /\ (~unsealed => Rooted(store))
      /\ store # {} => lastHash = LastHashOf(store)
      /\ ~unsealed /\ store = {} => lastHash = NoHash
  BY <1>1 DEF Linked, LastHashOf
<1>5. /\ LinkedRows(store')
      /\ LastHashOf(store') = lastHash \o batch
      /\ Rooted(store) /\ (store = {} => lastHash = NoHash) => Rooted(store')
  BY <1>1, <1>2, <1>3, <1>4, GrownLinks
<1> QED BY <1>1, <1>4, <1>5

LEMMA RemoveLinks ==
  ASSUME IInv, Linked, wpc # "reload", lastHash' = lastHash,
         NEW D, D \subseteq store, RemoveRows(D), \A r \in D, s \in store \ D : r.ts < s.ts
  PROVE  Linked'
<1> SUFFICES ASSUME HashChain
             PROVE  /\ LinkedRows(store') /\ (~unsealed' => Rooted(store'))
                    /\ lastHash' = LastHashOf(store') \/ (store' = {} /\ unsealed')
  BY DEF Linked
<1>1. store' = store \ D /\ unsealed' = (unsealed \/ D # {})
  BY DEF RemoveRows
<1>2. store \subseteq Row /\ UniqueStamps(store) /\ IsFiniteSet(Stamps(store))
  BY PlacesFinite DEF IInv, TypeOK, Accounting, UniqueStamps
<1>3. /\ LinkedRows(store) /\ (~unsealed => Rooted(store))
      /\ lastHash = LastHashOf(store) \/ (store = {} /\ unsealed)
  BY DEF Linked
<1>4. LinkedRows(store \ D) /\ (store \ D # {} => LastHashOf(store \ D) = LastHashOf(store))
  BY <1>2, <1>3, TrimmedLinks
<1>5. CASE D = {}
  BY <1>1, <1>3, <1>5
<1>6. CASE D # {}
  <2>1. unsealed' = TRUE
    BY <1>1, <1>6
  <2> QED BY <1>1, <1>3, <1>4, <2>1
<1> QED BY <1>5, <1>6

LEMMA StepLinked ==
  ASSUME Alone, IInv, InTime, Linked, [Next]_vars
  PROVE  Linked'
<1>1. ASSUME NEW c \in Callers, Handler(c) PROVE Linked'
  BY <1>1, LinksStay DEF Handler, Stamp, LogEnter, LogRefuse, LogSend, LogDrop, writerVars, history
<1>2. CASE \/ Close \/ Receive \/ ChannelClosed \/ BatchTick \/ RetentionTick \/ FlushNothing
           \/ SkipAge \/ OverSize \/ SkipSize \/ TrimDone \/ TrimFail \/ ResealFail
           \/ UNCHANGED vars
  <2>1. UNCHANGED <<store, lastHash, unsealed>> /\ (wpc # "reload" \/ UNCHANGED wpc)
    BY <1>2 DEF Close, Receive, ChannelClosed, BatchTick, RetentionTick, FlushNothing, SkipAge,
       OverSize, SkipSize, TrimDone, TrimFail, ResealFail, vars, writerVars, history,
       Flushing, AfterFlush
  <2> QED BY <2>1, LinksStay
<1>3. CASE FlushFail
  BY <1>3, LinksStay DEF FlushFail, KeepTip, Flushing, AfterFlush
<1>4. CASE FlushOk
  BY <1>4, FlushLinks
<1>5. CASE DeleteBefore
  <2>1. PICK cutoff \in 1..clock + 1 : RemoveRows(Before(store, cutoff))
    BY <1>5 DEF DeleteBefore
  <2>2. \A r \in Before(store, cutoff), s \in store \ Before(store, cutoff) : r.ts < s.ts
    <3> TAKE r \in Before(store, cutoff), s \in store \ Before(store, cutoff)
    <3>1. r.ts \in Nat /\ s.ts \in Nat /\ cutoff \in Nat
      BY DEF IInv, TypeOK, Row, Before
    <3>2. r.ts < cutoff /\ ~(s.ts < cutoff)
      BY DEF Before
    <3> QED BY <3>1, <3>2
  <2>3. wpc # "reload" /\ lastHash' = lastHash /\ Before(store, cutoff) \subseteq store
    BY <1>5 DEF DeleteBefore, Before
  <2> QED BY <2>1, <2>2, <2>3, RemoveLinks
<1>6. CASE TrimOldest
  <2>1. \A r \in Oldest(store), s \in store \ Oldest(store) : r.ts < s.ts
    BY OldestFirst, PlacesFinite DEF IInv, TypeOK
  <2>2. /\ wpc # "reload" /\ lastHash' = lastHash /\ Oldest(store) \subseteq store
        /\ RemoveRows(Oldest(store))
    BY <1>6 DEF TrimOldest, Oldest, writerVars
  <2> QED BY <2>1, <2>2, RemoveLinks
<1>7. CASE ResealChain
  <2>1. store \subseteq Row /\ IsFiniteSet(Stamps(store)) /\ Stamps(store) \subseteq Nat
    BY PlacesFinite DEF IInv, TypeOK, Row, Stamps
  <2>2. store' = ChainOf(Ascending(Stamps(store))) /\ wpc' = "reload"
    BY <1>7, <2>1, ResealedIsChain DEF ResealChain
  <2>3. HashChain => LinkedRows(store') /\ Rooted(store')
    BY <2>1, <2>2, AscendingSorted, SortedChain
  <2> QED BY <2>2, <2>3 DEF Linked
<1>8. CASE ReloadTip \/ Restart
  <2>1. UNCHANGED <<store, unsealed>> /\ lastHash' = LastHashOf(store)
    BY <1>8 DEF ReloadTip, Restart, Alone, history
  <2> QED BY <2>1 DEF Linked
<1> QED BY <1>1, <1>2, <1>3, <1>4, <1>5, <1>6, <1>7, <1>8
        DEF Next, Writer, Flush, RunRetention

LEMMA InitLinked == Init => InTime /\ Linked
<1> SUFFICES ASSUME Init PROVE InTime /\ Linked
  OBVIOUS
<1>1. /\ store = {} /\ lastHash = NoHash /\ Queue = << >>
      /\ \A c \in Callers : pc[c] = "idle"
  BY ConcatEmptySeq, EmptySeq DEF Init, Queue
<1>2. InTime
  BY <1>1 DEF InTime, Sorted, After
<1>3. Linked
  BY <1>1 DEF Linked, LinkedRows, Rooted, LastHashOf
<1> QED BY <1>2, <1>3

LEMMA LinksInvariance == Alone => (Spec => [](InTime /\ Linked))
<1> SUFFICES ASSUME Alone PROVE Spec => [](InTime /\ Linked)
  OBVIOUS
<1>1. IInv /\ InTime /\ Linked /\ [Next]_vars => InTime' /\ Linked'
  BY StepInTime, StepLinked
<1> QED BY <1>1, InitLinked, Invariance, PTL DEF Spec

\* When requests come one at a time, `audit verify` accepts the log the program
\* wrote: after any kills and restarts, and whichever writes, deletions, trims
\* and reseals failed, unless rows were deleted since the last reseal.
THEOREM TheLogVerifies == Alone => (Spec => []LogVerifies)
<1> SUFFICES ASSUME Alone PROVE Spec => []LogVerifies
  OBVIOUS
<1>1. Linked => LogVerifies
  BY DEF Linked, LinkedRows, Rooted, LogVerifies, VerifyChain
<1> QED BY <1>1, LinksInvariance, PTL

\* And even then no link is missing but that of the oldest row: retention cuts
\* the log at its end, never in the middle.
THEOREM TheTailVerifies == Alone => (Spec => []TailVerifies)
<1> SUFFICES ASSUME Alone PROVE Spec => []TailVerifies
  OBVIOUS
<1>1. Linked => TailVerifies
  BY DEF Linked, LinkedRows, TailVerifies
<1> QED BY <1>1, LinksInvariance, PTL
=============================================================================
