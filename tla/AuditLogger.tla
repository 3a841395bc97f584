---------------------------- MODULE AuditLogger ----------------------------
(***************************************************************************)
(* The SQLite audit logger: internal/audit/logger.go, the Store methods it *)
(* calls (internal/audit/sqlite_store.go) and VerifyChain (hashchain.go).  *)
(*                                                                         *)
(* Request handlers stamp an event with the time of the decision, forward  *)
(* the call, and then hand the event to Log, which puts it in a bounded    *)
(* channel or, depending on the write mode, waits, drops or refuses it.    *)
(* One writer goroutine moves events from the channel to a batch, writes   *)
(* batches in one transaction, and runs retention between batches.         *)
(*                                                                         *)
(* An event is its position in the (ts, event_id) order, so a later stamp  *)
(* is a larger number.  A hash is the sequence of events it covers:        *)
(* ComputeHash(prev, e) is Append(prev, e) and "" is <<>>.                 *)
(*                                                                         *)
(* A name with an underscore, such as BatchFull_OffByOne, is a deliberate  *)
(* bug in the definition it is named after: no specification uses it, and  *)
(* a property must fail when it takes the place of the original.           *)
(***************************************************************************)
EXTENDS Integers, Sequences, FiniteSets, Functions

CONSTANTS
  Callers,     \* request handlers that may be inside Log at the same time
  Mode,        \* audit.write.mode
  ChanSize,    \* capacity of the channel
  BatchMax,    \* batchMaxEvents
  HashChain,   \* audit.integrity.hash_chain
  Retention,   \* the retention rules configured, of "age" and "size"
  TrimChunk,   \* rows TrimToSize deletes at a time (100 in the code)
  Faults,      \* the calls that may return an error
  Restarts,    \* what a new process may follow: "close" (after Close), "kill" (any time)
  MaxEvents    \* bound: events stamped in a behaviour

Modes == {"block", "best_effort", "fail_closed", "drop"}
FallibleCalls == {"uuid", "insert", "delete", "trim", "reseal", "reload", "open"}

ASSUME CallersAssumption == IsFiniteSet(Callers)
ASSUME ModeAssumption == Mode \in Modes
ASSUME SizeAssumption ==
  /\ ChanSize \in Nat \ {0}
  /\ BatchMax \in Nat \ {0}
  /\ TrimChunk \in Nat \ {0}
  /\ MaxEvents \in Nat
ASSUME OptionAssumption ==
  /\ HashChain \in BOOLEAN
  /\ Restarts \subseteq {"close", "kill"}
  /\ Retention \subseteq {"age", "size"}
  /\ Faults \subseteq FallibleCalls

VARIABLES
  clock,     \* stamps issued so far: the latest event is clock
  pc,        \* pc[c]: where handler c is
  ev,        \* ev[c]: the event handler c carries (meaningful unless idle)
  ch,        \* l.ch
  closed,    \* l.ch has been closed
  wpc,       \* where the writer goroutine is
  batch,     \* the writer's batch
  lastHash,  \* l.lastHash
  deleted,   \* runRetention's local of that name
  dbFailed,  \* l.dbFailed
  dropped,   \* l.dropped
  store,     \* the rows of audit_events
  \* History, read by the properties and by no guard:
  reported,  \* events counted in dropped by this process
  refused,   \* events Log turned away without counting them
  gone,      \* rows deleted by retention, and what earlier processes lost
  outage,    \* events lost to failed writes since the last good one
  unsealed   \* rows were deleted since the chain was last resealed

handlerVars == <<clock, pc, ev>>
writerVars  == <<wpc, batch, lastHash, deleted>>
history     == <<reported, refused, gone, outage, unsealed>>
vars == <<handlerVars, ch, closed, writerVars, dbFailed, dropped, store, history>>

-----------------------------------------------------------------------------
(* Hashes and rows.                                                        *)

NoHash == << >>
ComputeHash(prev, e) == Append(prev, e)

Stamps(rows) == {r.ts : r \in rows}

\* The rows flushBatch builds for the events of b when the chain tip is tip.
ChainRows(tip, b) ==
  {[ts   |-> b[i],
    prev |-> tip \o SubSeq(b, 1, i - 1),
    hash |-> tip \o SubSeq(b, 1, i)] : i \in DOMAIN b}

PlainRows(b) ==
  {[ts |-> b[i], prev |-> NoHash, hash |-> ComputeHash(NoHash, b[i])] : i \in DOMAIN b}

BatchRows(tip, b) == IF HashChain THEN ChainRows(tip, b) ELSE PlainRows(b)

\* A finite set of numbers in increasing order: the order of Scan.
Ascending(S) ==
  [i \in 1..Cardinality(S) |-> CHOOSE x \in S : Cardinality({y \in S : y < x}) = i - 1]

Before(rows, t) == {s \in rows : s.ts < t}
Newest(rows) == CHOOSE r \in rows : \A s \in rows : s.ts <= r.ts

\* sqliteStore.LastHash: the hash of the row with the largest (ts, event_id).
LastHashOf(rows) == IF rows = {} THEN NoHash ELSE Newest(rows).hash

Resealed_KeepsFirstLink(rows) ==
  {LET oldest == CHOOSE s \in rows : Before(rows, s.ts) = {}
       prev   == oldest.prev \o Ascending(Stamps(Before(rows, r.ts)))
   IN  [ts |-> r.ts, prev |-> prev, hash |-> ComputeHash(prev, r.ts)] : r \in rows}

\* sqliteStore.ResealChain: every hash recomputed in Scan order from "".
Resealed(rows) ==
  {LET prev == Ascending(Stamps(Before(rows, r.ts)))
   IN  [ts |-> r.ts, prev |-> prev, hash |-> ComputeHash(prev, r.ts)] : r \in rows}

Oldest_NewestFirst(rows) ==
  {r \in rows : Cardinality({s \in rows : s.ts > r.ts}) < TrimChunk}

\* TrimToSize's DELETE: the TrimChunk rows that come first in Scan order.
Oldest(rows) == {r \in rows : Cardinality(Before(rows, r.ts)) < TrimChunk}

\* VerifyChain: nil exactly when, in Scan order, every row names the hash of
\* the row before it and carries the hash of its own contents.
VerifyChain(rows) ==
  \A r \in rows :
    /\ r.prev = IF Before(rows, r.ts) = {} THEN NoHash ELSE Newest(Before(rows, r.ts)).hash
    /\ r.hash = ComputeHash(r.prev, r.ts)

-----------------------------------------------------------------------------
(* NewSQLiteAuditLogger on an empty database.                              *)

Init ==
  /\ clock = 0
  /\ pc = [c \in Callers |-> "idle"]
  /\ ev = [c \in Callers |-> 0]
  /\ ch = << >>
  /\ closed = FALSE
  /\ wpc = "select"
  /\ batch = << >>
  /\ lastHash = NoHash
  /\ deleted = FALSE
  /\ dbFailed = FALSE
  /\ dropped = 0
  /\ store = {}
  /\ reported = {}
  /\ refused = {}
  /\ gone = {}
  /\ outage = 0
  /\ unsealed = FALSE

-----------------------------------------------------------------------------
(* Handlers: handleToolsCall takes the timestamp, runs the upstream call,  *)
(* and only then enters Log.                                               *)

\* event.Timestamp = g.timeNow()
Stamp(c) ==
  /\ pc[c] = "idle"
  /\ ~closed
  /\ clock < MaxEvents
  /\ clock' = clock + 1
  /\ ev' = [ev EXCEPT ![c] = clock + 1]
  /\ pc' = [pc EXCEPT ![c] = "stamped"]
  /\ UNCHANGED <<ch, closed, writerVars, dbFailed, dropped, store, history>>

Admits_Always == TRUE

\* fail_closed mode reads dbFailed once, before it waits for room.
Admits == ~(Mode = "fail_closed" /\ dbFailed)

LogEnter(c) ==
  /\ pc[c] = "stamped"
  /\ Admits
  /\ pc' = [pc EXCEPT ![c] = "sending"]
  /\ UNCHANGED <<clock, ev, ch, closed, writerVars, dbFailed, dropped, store, history>>

\* Log returns an error and counts nothing: dbFailed is set in fail_closed
\* mode, or uuid.NewV7 failed.
LogRefuse(c) ==
  /\ pc[c] = "stamped"
  /\ ~Admits \/ "uuid" \in Faults
  /\ refused' = refused \cup {ev[c]}
  /\ pc' = [pc EXCEPT ![c] = "idle"]
  /\ UNCHANGED <<clock, ev, ch, closed, writerVars, dbFailed, dropped, store,
                 reported, gone, outage, unsealed>>

\* l.ch <- event
LogSend(c) ==
  /\ pc[c] = "sending"
  /\ Len(ch) < ChanSize
  /\ ch' = Append(ch, ev[c])
  /\ pc' = [pc EXCEPT ![c] = "idle"]
  /\ UNCHANGED <<clock, ev, closed, writerVars, dbFailed, dropped, store, history>>

\* The request's context ended first (best_effort, fail_closed; it may have
\* ended before Log was called, and select picks any ready case), the 100 ms
\* timer fired (fail_closed), or the channel was full (drop).
LogDrop(c) ==
  /\ pc[c] = "sending"
  /\ \/ Mode \in {"best_effort", "fail_closed"}
     \/ Mode = "drop" /\ Len(ch) = ChanSize
  /\ dropped' = dropped + 1
  /\ reported' = reported \cup {ev[c]}
  /\ pc' = [pc EXCEPT ![c] = "idle"]
  /\ UNCHANGED <<clock, ev, ch, closed, writerVars, dbFailed, store,
                 refused, gone, outage, unsealed>>

\* Close closes the channel.  main defers it until the HTTP server has stopped,
\* so no handler is between its timestamp and the end of Log.
Close ==
  /\ ~closed
  /\ \A c \in Callers : pc[c] = "idle"
  /\ closed' = TRUE
  /\ UNCHANGED <<handlerVars, ch, writerVars, dbFailed, dropped, store, history>>

-----------------------------------------------------------------------------
(* The writer goroutine: run's select loop.  A flush is a step of its own, *)
(* because handlers go on while InsertBatch runs; wpc says what follows.   *)

AfterFlush_ExitOnFlush == [flush |-> "done", flush_retain |-> "age", flush_exit |-> "done"]
AfterFlush_NeverExit == [flush |-> "select", flush_retain |-> "age", flush_exit |-> "select"]

AfterFlush == [flush |-> "select", flush_retain |-> "age", flush_exit |-> "done"]
Flushing == wpc \in DOMAIN AfterFlush

BatchFull_OffByOne(b) == Len(b) > BatchMax
BatchFull(b) == Len(b) >= BatchMax

\* e, ok := <-l.ch
Receive ==
  /\ wpc = "select"
  /\ ch # << >>
  /\ batch' = Append(batch, Head(ch))
  /\ ch' = Tail(ch)
  /\ wpc' = IF BatchFull(batch') THEN "flush" ELSE "select"
  /\ UNCHANGED <<handlerVars, closed, lastHash, deleted, dbFailed, dropped, store, history>>

ChannelClosed_NoFlush ==
  /\ wpc = "select"
  /\ closed
  /\ ch = << >>
  /\ wpc' = "done"
  /\ UNCHANGED <<handlerVars, ch, closed, batch, lastHash, deleted, dbFailed,
                 dropped, store, history>>

ChannelClosed ==
  /\ wpc = "select"
  /\ closed
  /\ ch = << >>
  /\ wpc' = "flush_exit"
  /\ UNCHANGED <<handlerVars, ch, closed, batch, lastHash, deleted, dbFailed,
                 dropped, store, history>>

BatchTick_OnlyFull ==
  /\ wpc = "select"
  /\ wpc' = IF BatchFull(batch) THEN "flush" ELSE "select"
  /\ UNCHANGED <<handlerVars, ch, closed, batch, lastHash, deleted, dbFailed,
                 dropped, store, history>>

BatchTick ==
  /\ wpc = "select"
  /\ wpc' = IF batch = << >> THEN "select" ELSE "flush"
  /\ UNCHANGED <<handlerVars, ch, closed, batch, lastHash, deleted, dbFailed,
                 dropped, store, history>>

RetentionTick ==
  /\ wpc = "select"
  /\ Retention # {}
  /\ wpc' = "flush_retain"
  /\ UNCHANGED <<handlerVars, ch, closed, batch, lastHash, deleted, dbFailed,
                 dropped, store, history>>

\* batch = batch[:0]
EmptyBatch_Forgotten == batch' = batch
EmptyBatch == batch' = << >>

\* What flushBatch makes of the tip: it advances over the batch when the
\* transaction committed, and stays when it did not.
AdvanceTip == lastHash' = IF HashChain THEN lastHash \o batch ELSE lastHash

KeepTip_Advanced == lastHash' = IF HashChain THEN lastHash \o batch ELSE lastHash
KeepTip == UNCHANGED lastHash

\* The n that reportWriteFail adds to dropped.
EventsLost_One(b) == 1
EventsLost(b) == Len(b)

FlushNothing ==
  /\ Flushing
  /\ batch = << >>
  /\ wpc' = AfterFlush[wpc]
  /\ deleted' = FALSE
  /\ UNCHANGED <<handlerVars, ch, closed, batch, lastHash, dbFailed, dropped, store, history>>

\* flushBatch, InsertBatch committed: only now does the tip advance.
FlushOk ==
  /\ Flushing
  /\ batch # << >>
  /\ store' = store \cup BatchRows(lastHash, batch)
  /\ AdvanceTip
  /\ dbFailed' = FALSE
  /\ outage' = 0
  /\ EmptyBatch
  /\ wpc' = AfterFlush[wpc]
  /\ deleted' = FALSE
  /\ UNCHANGED <<handlerVars, ch, closed, dropped, reported, refused, gone, unsealed>>

\* flushBatch, InsertBatch rolled back: the whole batch is reported lost.
FlushFail ==
  /\ Flushing
  /\ batch # << >>
  /\ "insert" \in Faults
  /\ dbFailed' = TRUE
  /\ KeepTip
  /\ dropped' = dropped + EventsLost(batch)
  /\ reported' = reported \cup Range(batch)
  /\ outage' = outage + Len(batch)
  /\ EmptyBatch
  /\ wpc' = AfterFlush[wpc]
  /\ deleted' = FALSE
  /\ UNCHANGED <<handlerVars, ch, closed, store, refused, gone, unsealed>>

-----------------------------------------------------------------------------
(* runRetention.  Each store call is its own transaction, so each is a     *)
(* step.  "age" and "size" are where the two rules are considered.         *)

RemoveRows(rows) ==
  /\ store' = store \ rows
  /\ gone' = gone \cup Stamps(rows)
  /\ unsealed' = (unsealed \/ rows # {})

\* What follows the last rule, with d the final value of deleted.
AfterRules(d) == IF d /\ HashChain THEN "reseal" ELSE "select"

\* store.DeleteBefore(cutoff) and its row count
DeleteBefore ==
  /\ wpc = "age"
  /\ "age" \in Retention
  /\ \E cutoff \in 1..clock + 1 :
       /\ RemoveRows(Before(store, cutoff))
       /\ deleted' = (Before(store, cutoff) # {})
  /\ wpc' = "size"
  /\ UNCHANGED <<handlerVars, ch, closed, batch, lastHash, dbFailed, dropped,
                 reported, refused, outage>>

\* No age rule, or DeleteBefore failed: nothing was deleted.
SkipAge ==
  /\ wpc = "age"
  /\ "age" \notin Retention \/ "delete" \in Faults
  /\ wpc' = "size"
  /\ UNCHANGED <<handlerVars, ch, closed, batch, lastHash, deleted, dbFailed,
                 dropped, store, history>>

\* The database is over maxSizeBytes (its size is whatever the files say).
OverSize ==
  /\ wpc = "size"
  /\ "size" \in Retention
  /\ wpc' = "trim"
  /\ UNCHANGED <<handlerVars, ch, closed, batch, lastHash, deleted, dbFailed,
                 dropped, store, history>>

\* No size rule, DBSize small enough, or DBSize failed and read as 0.
SkipSize ==
  /\ wpc = "size"
  /\ wpc' = AfterRules(deleted)
  /\ UNCHANGED <<handlerVars, ch, closed, batch, lastHash, deleted, dbFailed,
                 dropped, store, history>>

\* One turn of TrimToSize's loop.
TrimOldest ==
  /\ wpc = "trim"
  /\ store # {}
  /\ RemoveRows(Oldest(store))
  /\ UNCHANGED <<handlerVars, ch, closed, writerVars, dbFailed, dropped,
                 reported, refused, outage>>

\* TrimToSize returns nil: the files are small enough, or no row is left.
TrimDone ==
  /\ wpc = "trim"
  /\ deleted' = TRUE
  /\ wpc' = AfterRules(TRUE)
  /\ UNCHANGED <<handlerVars, ch, closed, batch, lastHash, dbFailed, dropped, store, history>>

\* TrimToSize returns an error, possibly after it deleted some chunks:
\* deleted keeps the value the age rule gave it.
TrimFail ==
  /\ wpc = "trim"
  /\ "trim" \in Faults
  /\ wpc' = AfterRules(deleted)
  /\ UNCHANGED <<handlerVars, ch, closed, batch, lastHash, deleted, dbFailed,
                 dropped, store, history>>

ResealChain ==
  /\ wpc = "reseal"
  /\ store' = Resealed(store)
  /\ unsealed' = FALSE
  /\ wpc' = "reload"
  /\ UNCHANGED <<handlerVars, ch, closed, batch, lastHash, deleted, dbFailed, dropped,
                 reported, refused, gone, outage>>

\* ResealChain rolled back: runRetention returns.
ResealFail ==
  /\ wpc = "reseal"
  /\ "reseal" \in Faults
  /\ wpc' = "select"
  /\ UNCHANGED <<handlerVars, ch, closed, batch, lastHash, deleted, dbFailed,
                 dropped, store, history>>

ReloadTip_Skipped ==
  /\ wpc = "reload"
  /\ wpc' = "select"
  /\ UNCHANGED <<handlerVars, ch, closed, batch, lastHash, deleted, dbFailed,
                 dropped, store, history>>

\* store.LastHash; an error leaves the old tip in place.
ReloadTip ==
  /\ wpc = "reload"
  /\ \/ lastHash' = LastHashOf(store)
     \/ "reload" \in Faults /\ lastHash' = lastHash
  /\ wpc' = "select"
  /\ UNCHANGED <<handlerVars, ch, closed, batch, deleted, dbFailed, dropped, store, history>>

-----------------------------------------------------------------------------
(* A process that was closed, or killed at any point, starts again on the  *)
(* same database.  What was only in memory is gone, as are the counters.   *)

InMemory == {ev[c] : c \in {d \in Callers : pc[d] # "idle"}} \cup Range(ch) \cup Range(batch)

Restart ==
  /\ ("close" \in Restarts /\ wpc = "done") \/ "kill" \in Restarts
  /\ pc' = [c \in Callers |-> "idle"]
  /\ ch' = << >>
  /\ closed' = FALSE
  /\ wpc' = "select"
  /\ batch' = << >>
  /\ \/ lastHash' = LastHashOf(store)
     \/ "open" \in Faults /\ lastHash' = NoHash
  /\ deleted' = FALSE
  /\ dbFailed' = FALSE
  /\ dropped' = 0
  /\ gone' = gone \cup InMemory \cup reported \cup refused
  /\ reported' = {}
  /\ refused' = {}
  /\ outage' = 0
  /\ UNCHANGED <<clock, ev, store, unsealed>>

-----------------------------------------------------------------------------
Handler(c) == Stamp(c) \/ LogEnter(c) \/ LogRefuse(c) \/ LogSend(c) \/ LogDrop(c)

Flush == FlushNothing \/ FlushOk \/ FlushFail

RunRetention ==
  \/ DeleteBefore \/ SkipAge
  \/ OverSize \/ SkipSize
  \/ TrimOldest \/ TrimDone \/ TrimFail
  \/ ResealChain \/ ResealFail
  \/ ReloadTip

Writer == Receive \/ ChannelClosed \/ BatchTick \/ RetentionTick \/ Flush \/ RunRetention

Next == (\E c \in Callers : Handler(c)) \/ Close \/ Writer \/ Restart

Spec == Init /\ [][Next]_vars

(* Fairness.  The writer is a goroutine that never waits for anything but  *)
(* its select; Go's select picks among ready cases at random, so a case    *)
(* that is ready again and again is taken: strong fairness for each case.  *)
(* A goroutine blocked in a send waits in the channel's FIFO queue, so a   *)
(* handler for which there is room again and again gets it.  Store calls   *)
(* return (their contexts have deadlines), but nothing says they succeed.  *)
Fairness ==
  /\ SF_vars(Receive)
  /\ SF_vars(BatchTick)
  /\ SF_vars(ChannelClosed)
  /\ WF_vars(Flush)
  /\ WF_vars(RunRetention)
  /\ \A c \in Callers :
       /\ WF_vars(LogEnter(c) \/ LogRefuse(c))
       /\ SF_vars(LogSend(c))

FairSpec == Spec /\ Fairness

-----------------------------------------------------------------------------
(* Properties.                                                             *)

WriterStates == {"select", "flush", "flush_retain", "flush_exit", "done",
                 "age", "size", "trim", "reseal", "reload"}
Row == [ts : Nat, prev : Seq(Nat), hash : Seq(Nat)]

\* Every variable has its type, the channel and the batch keep within the
\* capacities NewSQLiteAuditLogger gave them, and a full batch is being flushed.
TypeOK ==
  /\ clock \in Nat
  /\ pc \in [Callers -> {"idle", "stamped", "sending"}]
  /\ ev \in [Callers -> Nat]
  /\ ch \in Seq(Nat) /\ Len(ch) <= ChanSize
  /\ closed \in BOOLEAN
  /\ wpc \in WriterStates
  /\ batch \in Seq(Nat) /\ Len(batch) <= BatchMax
  /\ ~Flushing => Len(batch) < BatchMax
  /\ lastHash \in Seq(Nat)
  /\ deleted \in BOOLEAN
  /\ dbFailed \in BOOLEAN
  /\ dropped \in Nat
  /\ store \in SUBSET Row
  /\ reported \in SUBSET Nat
  /\ refused \in SUBSET Nat
  /\ gone \in SUBSET Nat
  /\ outage \in Nat
  /\ unsealed \in BOOLEAN

Holders == {c \in Callers : pc[c] # "idle"}
Held == {ev[c] : c \in Holders}
Queue == batch \o ch

\* Accounting: every event stamped so far is in exactly one place - a handler's
\* hands, the channel or the batch, a row, the drop count, the refused
\* requests, or history - whatever interleaving of Log, flush, failed
\* flush, retention and restart led here.  No event is written twice,
\* written and reported dropped, or forgotten.
Accounting ==
  /\ 1..clock = Held \cup Range(Queue) \cup Stamps(store) \cup reported \cup refused \cup gone
  /\ \A c, d \in Holders : ev[c] = ev[d] => c = d
  /\ \A i, j \in DOMAIN Queue : Queue[i] = Queue[j] => i = j
  /\ \A r, s \in store : r.ts = s.ts => r = s
  /\ Held \cap (Range(Queue) \cup Stamps(store) \cup reported \cup refused \cup gone) = {}
  /\ Range(Queue) \cap (Stamps(store) \cup reported \cup refused \cup gone) = {}
  /\ Stamps(store) \cap (reported \cup refused \cup gone) = {}
  /\ reported \cap (refused \cup gone) = {}
  /\ refused \cap gone = {}

\* Dropped() counts each lost event once, whether Log dropped it or a failed
\* batch took it down (the two increments of l.dropped).
DroppedIsExact == dropped = Cardinality(reported)

\* fail_closed mode bounds the damage of a failing database: from the first
\* failed write until one succeeds, no more is lost than one batch, one full
\* channel and the handlers that had passed the dbFailed check.
LossBounded ==
  Mode = "fail_closed" => outage <= BatchMax + ChanSize + Cardinality(Callers)

\* While retention runs, rows are missing from the chain and the tip is old.
InRetention == wpc \in {"size", "trim", "reseal", "reload"}

\* Outside retention the table is one unbroken chain in the order of insertion,
\* it ends in lastHash, and nothing was chained to a rolled-back batch.
ChainIsLinear ==
  HashChain /\ ~InRetention =>
    store = {[ts   |-> lastHash[i],
              prev |-> SubSeq(lastHash, 1, i - 1),
              hash |-> SubSeq(lastHash, 1, i)] : i \in DOMAIN lastHash}

\* `audit verify` accepts the log the program itself wrote, across kills, restarts
\* and failures of any retention call, except between a deletion and the next
\* reseal - and a reseal that failed or never came is made up for by the next.
LogVerifies == HashChain /\ ~unsealed => VerifyChain(store)

\* Even between a deletion and a reseal, and for good when the process died or
\* the store failed there, only the oldest row may name a hash that is gone:
\* every later row still names the row before it.  An auditor can tell rows
\* missing from the front of the log from rows missing in the middle.
TailVerifies ==
  HashChain =>
    \A r \in store :
      /\ r.hash = ComputeHash(r.prev, r.ts)
      /\ Before(store, r.ts) # {} => r.prev = Newest(Before(store, r.ts)).hash

\* What runRetention's comment promises: once it is over, the chain has been
\* resealed if any rows were deleted.
RetentionReseals == HashChain /\ wpc = "select" => ~unsealed

\* An event that Log accepted is written or reported lost in the end, or
\* the process dies first.
AcceptedSettles ==
  \A e \in 1..MaxEvents :
    e \in Range(Queue) ~> e \in Stamps(store) \cup reported \cup gone

\* A call of Log returns, since the writer always makes room again, whatever
\* the store answers; and so does Close, which waits for the writer to drain
\* the channel and stop.
OperationsReturn ==
  /\ \A c \in Callers : pc[c] = "sending" ~> pc[c] # "sending"
  /\ closed ~> ~closed \/ wpc = "done"

\* fail_closed turns a request away for a failed write only while a write
\* that could clear dbFailed is still to come.
RefusalIsTemporary ==
  [][\A c \in Callers :
       LogRefuse(c) => \/ Queue # << >>
                      \/ \E d \in Callers : pc[d] = "sending"]_vars

\* The promise of AuditTrail, with the channel and the batch as one queue.
Trail == INSTANCE AuditTrail
  WITH held <- Held, queue <- Queue, rows <- Stamps(store)
TrailSpec == Trail!Spec
=============================================================================
