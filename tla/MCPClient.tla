------------------------------ MODULE MCPClient ------------------------------
(***************************************************************************)
(* MCPHTTPClient (internal/transport/mcp_http_client.go): concurrent       *)
(* JSON-RPC calls to one upstream, each a POST with an id of its own, an   *)
(* answer that is read through a reader that stops one byte past the       *)
(* limit, and the checks the answer has to pass.                           *)
(*                                                                         *)
(* Around it are the network and the upstream: a request may be lost, may  *)
(* run after its caller timed out, and the answer that arrives may belong  *)
(* to another request, be broken in any of the ways of Forms, be of any    *)
(* size, arrive in any chunks and stop at any byte.                        *)
(*                                                                         *)
(* A name with an underscore is a deliberate bug.                          *)
(***************************************************************************)
EXTENDS Integers, FiniteSets, FiniteSetsExt

CONSTANTS
  Calls,             \* the calls callers make, each once
  Nothing,           \* stands for "no call" where a call is expected
  MaxResponseBytes,  \* maxResponseBytes
  LongestReply,      \* bound: bytes of a response body
  Forms              \* the ways a response may be made up, apart from its length

\* A response body, as the checks of call see it.
FormType ==
  [status : BOOLEAN,   \* the HTTP status is 2xx
   parses : BOOLEAN,   \* the bytes up to the end of the object decode as an rpcReply
   version : BOOLEAN,  \* "jsonrpc" is "2.0"
   id : BOOLEAN,       \* "id" is the integer of the request that is answered
   result : {"absent", "null", "data", "odd"},  \* "odd" does not decode as the result
   error : BOOLEAN]    \* "error" is an object

ASSUME CallsAssumption == IsFiniteSet(Calls) /\ Nothing \notin Calls
ASSUME SizeAssumption == MaxResponseBytes \in Nat \ {0} /\ LongestReply \in Nat \ {0}
ASSUME FormsAssumption == Forms \subseteq FormType

\* The lengths of a body: up to the end of the object, in all, and where the
\* first byte after the object is that is no blank (0: there is none).
Lengths ==
  {l \in [size : 1..LongestReply, total : 1..LongestReply, junk : 0..LongestReply] :
     /\ l.size <= l.total
     /\ l.junk # 0 => l.size < l.junk /\ l.junk <= l.total}

VARIABLES
  pc,        \* pc[c]: "new", "sent", "reading" or "done"
  nextID,    \* c.nextID
  id,        \* id[c]: the id of c's request
  wire,      \* the requests that have been posted and have not been run
  runs,      \* runs[c]: how often the upstream has run c
  reply,     \* reply[c]: the response c is reading and the call it answers; once c has
             \* returned a result, whose result it is
  verdict,   \* verdict[c]: what call returned
  counts     \* the two upstream metrics

vars == <<pc, nextID, id, wire, runs, reply, verdict, counts>>

NoReply == [of |-> Nothing]
Verdicts == {"none", "http", "protocol", "too large", "rpc error", "undecodable", "ok"}

-----------------------------------------------------------------------------
(* Reading and judging a response.                                         *)

\* The reader stops one byte past the limit: io.LimitReader(maxResponseBytes+1).
Limit_AtMax == MaxResponseBytes
Limit == MaxResponseBytes + 1

\* The bytes of the body that can be read when got of them arrive.
Readable(got) == Min({got, Limit})

\* cr.n when Decode returns.  The decoder stops at the end of the object or at
\* the byte that is wrong, but the chunk it was in has been counted to its end.
Counted(r, got) ==
  IF ~r.parses THEN 0..Readable(got)
  ELSE IF Readable(got) < r.size THEN {Readable(got)}
  ELSE r.size..Readable(got)

Decodes(r, got) == r.parses /\ r.size <= Readable(got)

\* dec.Token returns io.EOF: blanks at most, up to the end of the body or the
\* end of what may be read.
NothingFollows_Unchecked(r, got) == TRUE
NothingFollows(r, got) ==
  /\ got = r.total \/ got >= Limit
  /\ r.junk = 0 \/ r.junk > Readable(got)

AnswersRequest_AnyId(c, r) == r.id
\* reply.ID decodes to the id that was sent.
AnswersRequest(c, r) == r.id /\ id[r.of] = id[c]

\* Exactly one of result and error; "result": null is a result that is there.
OneOfTwo(r) == r.error <=> r.result = "absent"

Judged_ErrorFirst(c, r, got, n) ==
  IF \/ ~r.status \/ ~Decodes(r, got) \/ ~NothingFollows(r, got)
     \/ ~r.version \/ ~AnswersRequest(c, r) \/ ~OneOfTwo(r) THEN "protocol"
  ELSE IF n > MaxResponseBytes THEN "too large"
  ELSE IF r.error THEN "rpc error"
  ELSE IF r.result = "odd" THEN "undecodable" ELSE "ok"

\* The checks of call, in their order, for a response r of which got bytes
\* arrive, n of them before the counter is looked at.
Judged(c, r, got, n) ==
  IF ~r.status THEN "protocol"
  ELSE IF n > MaxResponseBytes THEN "too large"
  ELSE IF \/ ~Decodes(r, got) \/ ~NothingFollows(r, got)
          \/ ~r.version \/ ~AnswersRequest(c, r) \/ ~OneOfTwo(r) THEN "protocol"
  ELSE IF r.error THEN "rpc error"
  ELSE IF r.result = "odd" THEN "undecodable"  \* json.Unmarshal(reply.Result, out)
  ELSE "ok"

-----------------------------------------------------------------------------
Init ==
  /\ pc = [c \in Calls |-> "new"]
  /\ nextID = 0
  /\ id = [c \in Calls |-> 0]
  /\ wire = {}
  /\ runs = [c \in Calls |-> 0]
  /\ reply = [c \in Calls |-> NoReply]
  /\ verdict = [c \in Calls |-> "none"]
  /\ counts = [protocol |-> 0, tooLarge |-> 0]

FreshID_Reused == nextID' = IF nextID = 0 THEN 1 ELSE nextID
\* c.nextID.Add(1)
FreshID == nextID' = nextID + 1

\* call takes an id and posts the request.
Send(c) ==
  /\ pc[c] = "new"
  /\ FreshID
  /\ id' = [id EXCEPT ![c] = nextID']
  /\ wire' = wire \cup {c}
  /\ pc' = [pc EXCEPT ![c] = "sent"]
  /\ UNCHANGED <<runs, reply, verdict, counts>>

\* call returns.  Each response that fails a check of the protocol or of the
\* size is counted once; other failures are not counted.
Return(c, v) ==
  /\ pc' = [pc EXCEPT ![c] = "done"]
  /\ verdict' = [verdict EXCEPT ![c] = v]
  /\ counts' = [protocol |-> counts.protocol + (IF v = "protocol" THEN 1 ELSE 0),
                tooLarge |-> counts.tooLarge + (IF v = "too large" THEN 1 ELSE 0)]

GiveUp_Retries(c) ==
  /\ pc[c] = "sent"
  /\ \/ /\ Return(c, "http")
        /\ UNCHANGED <<nextID, id, wire, runs, reply>>
     \/ /\ wire' = wire \cup {c}
        /\ UNCHANGED <<pc, nextID, id, runs, reply, verdict, counts>>

\* httpClient.Do fails: no connection, the timeout, or the caller's context.
GiveUp(c) ==
  /\ pc[c] = "sent"
  /\ Return(c, "http")
  /\ UNCHANGED <<nextID, id, wire, runs, reply>>

\* All of the body, or the part of it that came before the connection broke or
\* the timeout (which covers the body) fired.
Read(c, got) ==
  /\ pc[c] = "reading"
  /\ \E n \in Counted(reply[c], got) : Return(c, Judged(c, reply[c], got, n))
  /\ reply' = [reply EXCEPT ![c] = IF verdict'[c] = "ok" THEN [of |-> @.of] ELSE NoReply]
  /\ UNCHANGED <<nextID, id, wire, runs>>

ReadWhole(c) == pc[c] = "reading" /\ Read(c, reply[c].total)

ReadCut_Waits(c) == FALSE
ReadCut(c) == pc[c] = "reading" /\ \E got \in 0..reply[c].total - 1 : Read(c, got)

-----------------------------------------------------------------------------
(* The network and the upstream.                                           *)

\* The upstream does what the request asks, perhaps after the caller gave up.
\* A request that is lost stays on the wire.
Run(c) ==
  /\ c \in wire
  /\ wire' = wire \ {c}
  /\ runs' = [runs EXCEPT ![c] = @ + 1]
  /\ UNCHANGED <<pc, nextID, id, reply, verdict, counts>>

\* A response to the request of d arrives where c waits for one.  Only a call
\* that has run has a result; a refusal may come from a proxy on the way.
Respond(c, d, form, l) ==
  /\ pc[c] = "sent"
  /\ pc[d] # "new"
  /\ form.result # "absent" => runs[d] > 0
  /\ reply' = [reply EXCEPT ![c] =
       [of |-> d,
        status |-> form.status, parses |-> form.parses, version |-> form.version,
        id |-> form.id, result |-> form.result, error |-> form.error,
        size |-> l.size, total |-> l.total, junk |-> l.junk]]
  /\ pc' = [pc EXCEPT ![c] = "reading"]
  /\ UNCHANGED <<nextID, id, wire, runs, verdict, counts>>

-----------------------------------------------------------------------------
Next ==
  \/ \E c \in Calls : Send(c) \/ GiveUp(c) \/ ReadWhole(c) \/ ReadCut(c) \/ Run(c)
  \/ \E c, d \in Calls, form \in Forms, l \in Lengths : Respond(c, d, form, l)

Spec == Init /\ [][Next]_vars

(* Fairness.  The request's timer fires, whatever the network does: before *)
(* the headers are there and while the body is read.  That an answer ever  *)
(* comes is not assumed.                                                   *)
Fairness == \A c \in Calls : WF_vars(GiveUp(c)) /\ WF_vars(ReadCut(c))

FairSpec == Spec /\ Fairness

-----------------------------------------------------------------------------
(* Properties.                                                             *)

Waiting == {"sent", "reading"}

\* Each rejected response is in one of the two metrics.
CountsExact ==
  /\ counts.protocol = Cardinality({c \in Calls : verdict[c] = "protocol"})
  /\ counts.tooLarge = Cardinality({c \in Calls : verdict[c] = "too large"})

\* Every variable has its type, ids are handed out once, and the metrics are
\* exact.
TypeOK ==
  /\ pc \in [Calls -> {"new", "done"} \cup Waiting]
  /\ nextID \in Nat
  /\ id \in [Calls -> 0..nextID]
  /\ \A c \in Calls : pc[c] = "new" <=> id[c] = 0
  /\ \A c, d \in Calls : id[c] = id[d] /\ id[c] # 0 => c = d
  /\ wire \subseteq Calls
  /\ runs \in [Calls -> Nat]
  /\ DOMAIN reply = Calls
  /\ \A c \in Calls : pc[c] = "reading" => reply[c].of \in Calls
  /\ verdict \in [Calls -> Verdicts]
  /\ CountsExact

\* The limit means the same whatever chunks a response comes in.  A call whose
\* response is in order and fits returns it; a response that fits is never
\* called too large; an object over the limit is always called that (and never
\* a protocol error); and what is accepted has no second value behind it within
\* the limit or in the byte past it.
\* (call: the byteCountReader, looked at after Decode and before Token)
LimitHonest ==
  [][\A c \in Calls : pc[c] = "reading" /\ pc'[c] = "done" =>
       LET r       == reply[c]
           inOrder == /\ r.status /\ r.parses /\ r.version /\ r.id /\ r.of = c
                      /\ r.result \in {"null", "data"} /\ ~r.error /\ r.junk = 0
       IN  /\ ReadWhole(c) /\ r.status /\ r.parses =>
                 (r.size > MaxResponseBytes => verdict'[c] = "too large")
           /\ ReadWhole(c) /\ inOrder /\ r.total <= MaxResponseBytes => verdict'[c] = "ok"
           /\ verdict'[c] = "too large" => r.total > MaxResponseBytes
           /\ verdict'[c] = "ok" => /\ r.size <= MaxResponseBytes
                                   /\ r.junk \notin 1..MaxResponseBytes + 1]_vars

\* The promise of UpstreamCall: however late a request runs and whichever
\* response reaches which caller, a call runs at most once and a caller never
\* gets the result of another call.
Promise == INSTANCE UpstreamCall
  WITH stage  <- [c \in Calls |-> IF pc[c] \in Waiting THEN "pending"
                                 ELSE IF pc[c] = "new" THEN "new"
                                 ELSE IF verdict[c] = "ok" THEN "ok" ELSE "failed"],
       runs   <- runs,
       result <- [c \in Calls |-> IF verdict[c] = "ok" THEN reply[c].of ELSE Nothing]
PromiseSpec == Promise!Spec

\* Every call returns, even when the upstream accepts the request and then says
\* nothing, or sends half a response: the timeout covers the body.
CallsReturn == \A c \in Calls : pc[c] \in Waiting ~> pc[c] = "done"
=============================================================================
