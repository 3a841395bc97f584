----------------------------- MODULE AuditTrail -----------------------------
(***************************************************************************)
(* What the audit logger promises its callers and its readers, whatever    *)
(* the write mode: an unbounded first-in first-out queue in front of a     *)
(* table of rows.  Every event is held by one handler until it is queued,  *)
(* reported dropped or refused; what is queued leaves in order, a whole    *)
(* prefix at a time, and becomes rows or is reported dropped, never both   *)
(* and never twice; rows disappear oldest first.  Only a crash loses       *)
(* events without a word.                                                  *)
(*                                                                         *)
(* AuditLogger implements it with a bounded channel and the writer's       *)
(* batch: its queue is batch \o ch.                                        *)
(***************************************************************************)
EXTENDS Integers, Sequences, Functions

VARIABLES
  clock,     \* events submitted so far are 1..clock
  held,      \* events whose Log call has not returned (or not begun)
  queue,     \* events accepted and not yet written
  rows,      \* events on disk
  reported,  \* events counted as dropped
  refused    \* events whose Log call returned an error and counted nothing

trailVars == <<clock, held, queue, rows, reported, refused>>

Init ==
  /\ clock = 0
  /\ held = {}
  /\ queue = << >>
  /\ rows = {}
  /\ reported = {}
  /\ refused = {}

Submit ==
  /\ clock' = clock + 1
  /\ held' = held \cup {clock + 1}
  /\ UNCHANGED <<queue, rows, reported, refused>>

Accept(e) ==
  /\ held' = held \ {e}
  /\ queue' = Append(queue, e)
  /\ UNCHANGED <<clock, rows, reported, refused>>

Drop(e) ==
  /\ held' = held \ {e}
  /\ reported' = reported \cup {e}
  /\ UNCHANGED <<clock, queue, rows, refused>>

Refuse(e) ==
  /\ held' = held \ {e}
  /\ refused' = refused \cup {e}
  /\ UNCHANGED <<clock, queue, rows, reported>>

\* The n oldest queued events leave the queue.
Dequeue(n) == queue' = SubSeq(queue, n + 1, Len(queue))

Record(n) ==
  /\ Dequeue(n)
  /\ rows' = rows \cup Range(SubSeq(queue, 1, n))
  /\ UNCHANGED <<clock, held, reported, refused>>

Lose(n) ==
  /\ Dequeue(n)
  /\ reported' = reported \cup Range(SubSeq(queue, 1, n))
  /\ UNCHANGED <<clock, held, rows, refused>>

\* Retention removes rows, never one that is newer than a row it keeps.
Expire ==
  /\ rows' \subseteq rows
  /\ \A old \in rows \ rows', kept \in rows' : old < kept
  /\ UNCHANGED <<clock, held, queue, reported, refused>>

\* A new process starts from the rows alone.
Reopen ==
  /\ held' = {}
  /\ queue' = << >>
  /\ reported' = {}
  /\ refused' = {}
  /\ UNCHANGED <<clock, rows>>

Next ==
  \/ Submit
  \/ \E e \in held : Accept(e) \/ Drop(e) \/ Refuse(e)
  \/ \E n \in 1..Len(queue) : Record(n) \/ Lose(n)
  \/ Expire
  \/ Reopen

Spec == Init /\ [][Next]_trailVars
=============================================================================
