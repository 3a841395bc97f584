------------------------------ MODULE MCCommands ------------------------------
(* Instances of Commands for TLC.                                          *)
EXTENDS MCPolicyReload, Commands

CONSTANTS alice, bob, d1, d2, d3

MCRead == <<"read">>
MCWrite == <<"write">>
MCNoTool == <<"">>

-----------------------------------------------------------------------------
(* Configuration files: one that is in order, and those that differ from   *)
(* it in one section.                                                      *)

Key(digest, spelling, client) ==
  [hash |-> [digest |-> digest, spelling |-> spelling], client |-> client]
Upstream(id, prefix, limits) == [id |-> id, prefix |-> prefix, url |-> "url", limits |-> limits]

Base ==
  [decodes |-> TRUE, hasPolicy |-> TRUE, insecureAllowAnonymous |-> FALSE,
   server |-> << >>, upstreams |-> <<Upstream("u", "p", << >>)>>,
   auth |-> [type |-> "api_key", keys |-> <<Key(d1, "lower", alice), Key(d2, "lower", bob)>>],
   audit |-> [enabled |-> TRUE, backend |-> "sqlite", path |-> "path", pragmasValid |-> TRUE,
              mode |-> "fail_closed", retentionValid |-> TRUE, batchMaxDelay |-> 1]]

Upstreams2(limits1, limits2) == <<Upstream("u", "p", limits1), Upstream("v", "q", limits2)>>

UpstreamLists == {<< >>} \cup
  {<<Upstream("u", "p", s :> v)>> : s \in DOMAIN UpstreamDefaults, v \in {0, 7, Garbled}} \cup
  {Upstreams2("toolsCacheTTL" :> a, "toolsCacheTTL" :> b) : a, b \in {5, 20}} \cup
  {Upstreams2("refreshTimeout" :> 5, << >>), Upstreams2(<< >>, "refreshTimeout" :> 50),
   <<Upstream("u", "p", << >>), Upstream("u", "q", << >>)>>,
   <<Upstream("u", "p", << >>), Upstream("v", "p", << >>)>>,
   <<Upstream("u", Empty, << >>)>>}

Keyrings == {
  << >>,
  <<[hash |-> Empty, client |-> alice]>>, <<Key(d1, "lower", Empty)>>,
  <<[hash |-> Malformed, client |-> alice]>>,
  <<[hash |-> Malformed, client |-> alice], Key(d2, "lower", bob)>>,
  <<Key(d1, "lower", alice), Key(d1, "lower", bob)>>,
  <<Key(d1, "lower", alice), Key(d1, "upper", bob), Key(d2, "upper", bob)>>}

Audits == {[Base.audit EXCEPT !.enabled = FALSE]} \cup
  {[Base.audit EXCEPT !.backend = b] : b \in {"stdout", "", "syslog"}} \cup
  {[Base.audit EXCEPT !.mode = m, !.retentionValid = r] : m \in {"block", "unknown"}, r \in BOOLEAN} \cup
  {[Base.audit EXCEPT !.batchMaxDelay = d] : d \in {0, Garbled}} \cup
  {[Base.audit EXCEPT !.path = Empty], [Base.audit EXCEPT !.pragmasValid = FALSE]}

MCFiles == {
  Base, [Base EXCEPT !.decodes = FALSE], [Base EXCEPT !.hasPolicy = FALSE]} \cup
  {[Base EXCEPT !.server = s :> v] : s \in DOMAIN ServerDefaults, v \in {0, 7, Garbled}} \cup
  {[Base EXCEPT !.upstreams = u] : u \in UpstreamLists} \cup
  {[Base EXCEPT !.auth.keys = k] : k \in Keyrings} \cup
  {[Base EXCEPT !.auth.type = t, !.insecureAllowAnonymous = i] : t \in {"none", ""}, i \in BOOLEAN} \cup
  {[Base EXCEPT !.audit = a] : a \in Audits}

\* The policy file of Base holds any list of two rules when the server starts,
\* and is edited with a part of the menu.
MCEdited == {Base}
MCServeMenu == {r \in MCMenu : r.name \in {"reads", "guard", "typo"}}
MCPolicies ==
  [f \in MCFiles |->
     IF f = Base THEN UNION {[1..n -> MCMenu] : n \in 0..2}
     ELSE {<< >>} \cup {<<r>> : r \in {s \in MCMenu : s.name \in {"reads", "typo"}}}]
MCTokens == {d1, d2, d3}

-----------------------------------------------------------------------------
(* Recorded sessions: up to three events of one client, and of another     *)
(* that was turned away from its session.                                  *)

Call(tool, args) == [tool |-> tool, args |-> args]
Event(method, client, call, at, decision) ==
  [method |-> method, client |-> client, call |-> call, at |-> at, decision |-> decision]

Recordable ==
  {Event("tools/call", <<alice>>, Call(read, << >>), at, "allow") : at \in 0..3} \cup
  {Event("tools/call", <<alice>>, Call(write, << >>), at, "deny") : at \in {0, 3}} \cup
  {Event("tools/list", <<alice>>, Call(MCNoTool, << >>), 1, "allow"),
   Event("tools/call", <<bob>>, Call(MCNoTool, << >>), 2, "deny")}

MCRecordings ==
  {s \in UNION {[1..n -> Recordable] : n \in 0..3} :
     \A i, j \in DOMAIN s : i < j => s[i].at <= s[j].at}

Limited(rule, max, window, per) ==
  [rule EXCEPT !.limit = [max |-> max, window |-> window, per |-> per]]

\* A limit per client on one tool; two limits on one tool; a file that does
\* not load.
MCGivenFiles == {
  FileOf(<<Limited(Rule(<<"mine">>, "allow", {read}, NoToolset, << >>), 1, 2, "client"),
           Rule(<<"guard">>, "deny", {read}, NoToolset, OnPath([AnyString EXCEPT !.notMatch = {etc}]))>>),
  FileOf(<<Limited(Rule(<<"mine">>, "allow", {read}, NoToolset, << >>), 1, 2, "client"),
           Limited(Rule(<<"ours">>, "allow", {read, write}, NoToolset, << >>), 2, 3, "")>>),
  FileOf(<<Limited(Rule(<<"ours">>, "allow", {read}, NoToolset, << >>), 0, 1, "")>>)}
===============================================================================
