--------------------------------- MODULE Replay ---------------------------------
(***************************************************************************)
(* mcpshield replay (runReplayTo in cmd/mcpshield/main.go, ReplayReadOnly  *)
(* and ReplayPolicyCheck in internal/audit/replay.go): the recorded events *)
(* of one session are printed, or judged again, one after the other, by an *)
(* engine of their own with the policy of a file.                          *)
(*                                                                         *)
(* The engine's buckets are empty at first and its clock is that of the    *)
(* replay, not that of the recording.  A name with an underscore is a      *)
(* deliberate bug.                                                         *)
(***************************************************************************)
EXTENDS Limiter

CONSTANTS
  Recordings,  \* the sessions a database may hold, in the order of their times:
               \* sequences of [method, client, call, at, decision]
  GivenFiles,  \* the policy files that may be given
  NoFile,      \* no --policy
  NoTool,      \* the empty string as a tool name
  ReplayEnd    \* bound: the last instant of the replay

ASSUME ReplayEndAssumption == ReplayEnd \in Nat

IsCall(event) == event.method = "tools/call"

\* The session of a call is its client's own before a tool is named: the event
\* of a caller that logSessionReject turns away names none.
Recorded == UNION {Range(s) : s \in Recordings}
ASSUME RecordingsAssumption ==
  /\ Recordings \subseteq Seq(Recorded)
  /\ \A s \in Recordings : \A i, j \in DOMAIN s :
       IsCall(s[i]) /\ IsCall(s[j]) /\ NoTool \notin {s[i].call.tool, s[j].call.tool} =>
         s[i].client = s[j].client

\* Rules are listed and their limits are numbers.
ASSUME GivenFilesAssumption ==
  \A f \in GivenFiles :
    /\ Len(f.rules) \in Nat /\ DOMAIN f.rules = 1..Len(f.rules)
    /\ Valid(f) => \A i \in DOMAIN f.rules :
         f.rules[i].limit # NoLimit =>
           f.rules[i].limit \in [max : Int, window : Int, per : {"", "global", "client"}]

VARIABLES
  stage,    \* "open", "scanning", "done" or "error"
  mode,     \* --mode
  given,    \* --policy
  session,  \* the events of the session
  left,     \* those not yet scanned
  time,     \* what the engine's clock says, from 0
  tokens,   \* the engine's buckets
  lines     \* the output: [event, tag, decision]

replayVars == <<stage, mode, given, session, left, time, tokens, lines>>

ReplayInit ==
  /\ stage = "open"
  /\ mode \in {"read-only", "policy-check", "other"}
  /\ given \in GivenFiles \cup {NoFile}
  /\ session \in Recordings
  /\ left = session
  /\ time = 0
  /\ tokens = NoBuckets
  /\ lines = << >>

\* The database opens, the mode is known, and its policy loads.
Replayable ==
  \/ mode = "read-only"
  \/ mode = "policy-check" /\ given # NoFile /\ Valid(given)

StartReplay ==
  /\ stage = "open"
  /\ \E present \in BOOLEAN :
       stage' = IF present /\ Replayable THEN "scanning" ELSE "error"
  /\ UNCHANGED <<mode, given, session, left, time, tokens, lines>>

\* ReplayReadOnly prints every event.
ShowEvent ==
  /\ stage = "scanning" /\ mode = "read-only" /\ left # << >>
  /\ lines' = Append(lines, [event |-> Head(left), tag |-> "", decision |-> Head(left).decision])
  /\ left' = Tail(left)
  /\ UNCHANGED <<stage, mode, given, session, time, tokens>>

SkipEvent ==
  /\ stage = "scanning" /\ mode = "policy-check" /\ left # << >> /\ ~IsCall(Head(left))
  /\ left' = Tail(left)
  /\ UNCHANGED <<stage, mode, given, session, time, tokens, lines>>

TokensAfter_FreshEngine(verdict) == NoBuckets
\* One engine judges all events.
TokensAfter(verdict) == verdict.buckets

JudgeEvent ==
  /\ stage = "scanning" /\ mode = "policy-check" /\ left # << >> /\ IsCall(Head(left))
  /\ LET event    == Head(left)
         verdict  == EvaluateIn(Compile(given), tokens, event.client, event.call, time)
         decision == IF verdict.allowed THEN "allow" ELSE "deny"
     IN  /\ tokens' = TokensAfter(verdict)
         /\ lines' = Append(lines,
              [event |-> event, decision |-> decision,
               tag |-> IF decision = event.decision THEN "=" ELSE "CHANGED"])
  /\ left' = Tail(left)
  /\ UNCHANGED <<stage, mode, given, session, time>>

EndReplay ==
  /\ stage = "scanning" /\ left = << >>
  /\ stage' = "done"
  /\ UNCHANGED <<mode, given, session, left, time, tokens, lines>>

\* The database or the output fails in the middle.
ReplayFails ==
  /\ stage = "scanning"
  /\ stage' = "error"
  /\ UNCHANGED <<mode, given, session, left, time, tokens, lines>>

Elapse ==
  /\ stage = "scanning" /\ mode = "policy-check" /\ time < ReplayEnd
  /\ time' = time + 1
  /\ UNCHANGED <<stage, mode, given, session, left, tokens, lines>>

ReplayNext ==
  \/ StartReplay \/ ShowEvent \/ SkipEvent \/ JudgeEvent
  \/ EndReplay \/ ReplayFails \/ Elapse

-----------------------------------------------------------------------------
(* Properties.                                                             *)

\* live[n] is what an engine with that policy, whose clock is the recording's,
\* has made of the first n events, had the session been alone with it.
Live(policy, events) ==
  LET live[n \in 0..Len(events)] ==
        IF n = 0 THEN [buckets |-> NoBuckets, allowed |-> FALSE]
        ELSE EvaluateIn(policy, live[n - 1].buckets, events[n].client, events[n].call, events[n].at)
  IN  live

\* The events a policy check judges.
CallsOf(events) ==
  FoldLeft(LAMBDA calls, event : IF IsCall(event) THEN Append(calls, event) ELSE calls,
           << >>, events)

Windows(policy) ==
  {policy.allow[i].limit.window : i \in {j \in DOMAIN policy.allow : policy.allow[j].limit # NoLimit}}

\* A policy check does not promise more than the policy would keep: a call no
\* limit covers is judged as it would be live; and what a check that takes less
\* than the shortest window allows, the live engine would have allowed at the
\* recorded times, even where its windows have rotated.  Every call of the
\* session is judged, in order.  (ReplayPolicyCheck)
ReplayHonest ==
  stage \in {"scanning", "done"} /\ mode = "policy-check" =>
    LET policy == Compile(given)
        calls  == CallsOf(session)
        live   == Live(policy, calls)
        quick  == \A w \in Windows(policy) : time < w
    IN  /\ \A i \in DOMAIN lines :
             LET call == calls[i].call
                 rule == Evaluate(policy, call).action
             IN  /\ lines[i].event = calls[i]
                 /\ LimitedRules(policy, call.tool) = << >> => lines[i].decision = rule
                 /\ lines[i].decision = "allow" => rule = "allow" /\ (quick => live[i].allowed)
        /\ stage = "done" => Len(lines) = Len(calls)
=============================================================================
