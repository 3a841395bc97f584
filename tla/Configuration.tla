----------------------------- MODULE Configuration -----------------------------
(***************************************************************************)
(* What a configuration file means: BuildRuntime (pkg/config/config.go),   *)
(* buildAuth (cmd/mcpshield/main.go) with the authenticator of             *)
(* internal/auth, and the checks of the audit logger's constructors        *)
(* (internal/audit).  No state: Serve builds on these operators.           *)
(*                                                                         *)
(* A section of limits is a function on the settings the file gives; a     *)
(* setting that is left out is not in its domain.  A name with an          *)
(* underscore is a deliberate bug.                                         *)
(***************************************************************************)
EXTENDS Integers, Sequences, SequencesExt

CONSTANTS
  Garbled,    \* a setting that does not parse
  Empty,      \* the empty string, where a name, a URL or a key hash is expected
  Malformed,  \* a key hash that is not "sha256:" and 64 hex digits
  NoToken,    \* a request without a Bearer token
  Refused     \* the request is not authenticated

-----------------------------------------------------------------------------
(* Limits, in seconds, bytes and entries.                                  *)

ServerDefaults ==
  [requestTimeout |-> 60, readTimeout |-> 30, writeTimeout |-> 30, idleTimeout |-> 120,
   warmupTimeout |-> 30, warmupRetryInterval |-> 5, sessionTTL |-> 1800,
   maxRequestBytes |-> 1048576, sessionMaxEntries |-> 10000]

UpstreamDefaults ==
  [requestTimeout |-> 30, maxResponseBytes |-> 4194304, toolsCacheTTL |-> 10,
   refreshTimeout |-> 30]

InRange_Zero(setting) == setting # Garbled /\ setting >= 0
\* parseDurationWithDefault and parseIntWithDefault accept it.
InRange(setting) == setting # Garbled /\ setting > 0

LimitsValid(section) == \A s \in DOMAIN section : InRange(section[s])
WithDefaults(section, defaults) ==
  [s \in DOMAIN section \cup DOMAIN defaults |->
     IF s \in DOMAIN section THEN section[s] ELSE defaults[s]]

UpstreamsValid(upstreams) ==
  /\ \A i \in DOMAIN upstreams :
       /\ Empty \notin {upstreams[i].id, upstreams[i].prefix, upstreams[i].url}
       /\ LimitsValid(upstreams[i].limits)
  /\ \A i, j \in DOMAIN upstreams : i # j =>
       upstreams[i].id # upstreams[j].id /\ upstreams[i].prefix # upstreams[j].prefix

MinDuration(a, b) == IF b < a THEN b ELSE a

Shared_Last(setting, limits) == Last(limits)[setting]
\* The loop of buildUpstreamRuntime: one cache serves all upstreams.
Shared(setting, limits) ==
  FoldLeft(LAMBDA least, l : MinDuration(least, l[setting]), Head(limits)[setting], Tail(limits))

\* BuildRuntime of a file it accepts.
RuntimeValid(file) == LimitsValid(file.server) /\ UpstreamsValid(file.upstreams)

Runtime(file) ==
  LET limits == [i \in DOMAIN file.upstreams |->
                   WithDefaults(file.upstreams[i].limits, UpstreamDefaults)]
  IN  [server    |-> WithDefaults(file.server, ServerDefaults),
       upstreams |-> limits,
       manager   |-> [s \in {"toolsCacheTTL", "refreshTimeout"} |->
                        IF limits = << >> THEN UpstreamDefaults[s] ELSE Shared(s, limits)]]

-----------------------------------------------------------------------------
(* The constructors check the limits again.                                *)

Positive(limits, settings) == \A s \in settings : limits[s] > 0

\* What the constructor of that part accepts.
Accepts(part, runtime) ==
  CASE part = "clients" ->  \* NewMCPHTTPClient
         \A i \in DOMAIN runtime.upstreams :
           Positive(runtime.upstreams[i], {"requestTimeout", "maxResponseBytes"})
    [] part = "manager" ->  \* NewManager
         Positive(runtime.manager, {"toolsCacheTTL", "refreshTimeout"})
    [] part = "gateway" ->  \* gateway.New
         Positive(runtime.server,
                  {"requestTimeout", "maxRequestBytes", "sessionTTL", "sessionMaxEntries"})
    [] part = "http" ->     \* NewHTTPServer
         Positive(runtime.server, {"readTimeout", "writeTimeout", "idleTimeout"})

-----------------------------------------------------------------------------
(* Authentication.  A key's hash is [digest, spelling]: hex digits in      *)
(* lower and in upper case spell one digest.                               *)

AuthValid_AnyNone(auth, insecureAllowAnonymous) ==
  \/ /\ auth.type = "api_key" /\ auth.keys # << >>
     /\ \A i \in DOMAIN auth.keys : auth.keys[i].hash # Empty /\ auth.keys[i].client # Empty
  \/ auth.type = "none"
\* buildAuth returns no error.
AuthValid(auth, insecureAllowAnonymous) ==
  \/ /\ auth.type = "api_key" /\ auth.keys # << >>
     /\ \A i \in DOMAIN auth.keys : auth.keys[i].hash # Empty /\ auth.keys[i].client # Empty
  \/ auth.type = "none" /\ insecureAllowAnonymous

\* keys: of two entries with one spelling the later one counts.
KeyMap(keys) ==
  [h \in {keys[i].hash : i \in DOMAIN keys} |->
     keys[CHOOSE i \in DOMAIN keys :
            keys[i].hash = h /\ \A j \in DOMAIN keys : keys[j].hash = h => j <= i].client]

\* What NewAPIKeyAuthenticator may return.  Hashes it cannot decode are
\* skipped; of two spellings of one digest the one that the iteration over the
\* map happens to visit last counts.
KeyTables(keys) ==
  LET map     == KeyMap(keys)
      hashes  == DOMAIN map \ {Malformed}
      digests == {h.digest : h \in hashes}
  IN  {table \in [digests -> {map[h] : h \in hashes}] :
         \A d \in digests : \E h \in hashes : h.digest = d /\ map[h] = table[d]}

Doors(auth) ==
  IF auth.type = "none" THEN {[open |-> TRUE, table |-> << >>]}
  ELSE {[open |-> FALSE, table |-> table] : table \in KeyTables(auth.keys)}

Authenticate(door, token) ==
  IF door.open THEN "anonymous"
  ELSE IF token \in DOMAIN door.table THEN door.table[token] ELSE Refused

-----------------------------------------------------------------------------
(* The audit logger.                                                       *)

WriteModes == {"block", "fail_closed", "best_effort", "drop"}

\* NewSQLiteStore: the pragmas are accepted, and the file can be opened, which
\* present says.  One that fails is not counted as open, although the handle of
\* a busy_timeout that does not parse stays open until the process ends.
StoreOpens(audit, present) == present /\ audit.pragmasValid

\* What NewLogger builds, "error" when it returns one.
LoggerOf(audit, present) ==
  IF ~audit.enabled THEN "noop"
  ELSE IF audit.backend = "stdout" THEN "stdout"
  ELSE IF /\ audit.backend \in {"sqlite", ""} /\ audit.path # Empty
          /\ StoreOpens(audit, present)
          /\ audit.mode \in WriteModes /\ audit.retentionValid
       THEN "sqlite" ELSE "error"

\* The database after NewLogger: a write mode that is not known is found with
\* the database open, a retention that does not parse closes it.
StoreAfter(audit, present) ==
  IF /\ audit.enabled /\ audit.backend \in {"sqlite", ""} /\ audit.path # Empty
     /\ StoreOpens(audit, present)
  THEN IF audit.mode \in WriteModes /\ ~audit.retentionValid THEN "closed" ELSE "open"
  ELSE "none"

\* The ticker of the writer goroutine panics on any other delay; one that does
\* not parse is replaced by 100ms.
TickerRuns(audit) == audit.batchMaxDelay # Garbled => audit.batchMaxDelay > 0
=============================================================================
