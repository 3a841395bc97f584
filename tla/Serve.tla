--------------------------------- MODULE Serve ---------------------------------
(***************************************************************************)
(* mcpshield serve (runServe in cmd/mcpshield/main.go): the process from   *)
(* reading its configuration to its end.  The parts are built one after    *)
(* the other, each may fail, signals may come at any point, and what was   *)
(* deferred runs on every way out.  While it serves, its policy is         *)
(* reloaded as PolicyReload says.                                          *)
(*                                                                         *)
(* What the handlers do is in Gateway, the warmup loop in UpstreamManager. *)
(* A name with an underscore is a deliberate bug.                          *)
(***************************************************************************)
EXTENDS PolicyReload, Configuration

CONSTANTS
  Files,    \* the configuration files the process may be started with
  Edited,   \* bound: those of them whose policy file is edited meanwhile
  Policies, \* Policies[f]: the rule lists the policy file of f may have at first
  Tokens    \* the digests of the tokens callers may present

ASSUME EditedAssumption == Edited \subseteq Files
ASSUME PoliciesAssumption == \A f \in Files : Policies[f] \subseteq Lists
\* Upstreams are listed, and a setting is a number unless it does not parse.
ASSUME SettingsAssumption ==
  \A f \in Files :
    /\ Len(f.upstreams) \in Nat /\ DOMAIN f.upstreams = 1..Len(f.upstreams)
    /\ \A s \in DOMAIN f.server : f.server[s] \in Int \cup {Garbled}
    /\ \A i \in DOMAIN f.upstreams : \A s \in DOMAIN f.upstreams[i].limits :
         f.upstreams[i].limits[s] \in Int \cup {Garbled}
\* A file lists its keys, and no digest is that of a missing token.
ASSUME KeysAssumption ==
  \A f \in Files :
    /\ Len(f.auth.keys) \in Nat
    /\ DOMAIN f.auth.keys = 1..Len(f.auth.keys)
    /\ \A i \in DOMAIN f.auth.keys :
         f.auth.keys[i].hash \notin {Empty, Malformed} => f.auth.keys[i].hash.digest # NoToken

VARIABLES
  phase,        \* how far runServe is: the part it builds next, or a stage after that
  file,         \* the configuration file
  runtime,      \* runtimeCfg
  door,         \* the authenticator
  logger,       \* auditLog: "none", "noop", "stdout" or "sqlite"
  store,        \* the audit database: "none", "open" or "closed"
  interrupted,  \* SIGINT or SIGTERM has cancelled ctx
  failed        \* the phase whose error runServe returns, or "none"

serveOnlyVars == <<phase, file, runtime, door, logger, store, interrupted, failed>>
serveVars == <<phase, file, runtime, door, logger, store, interrupted, failed, reloadVars>>

Over == {"returned", "panicked", "killed"}

ServeInit ==
  /\ phase = "config"
  /\ file \in Files
  /\ runtime = Nothing /\ door = Nothing
  /\ logger = "none" /\ store = "none"
  /\ interrupted = FALSE
  /\ failed = "none"
  /\ hasFile = file.hasPolicy
  /\ rules \in Policies[file]
  /\ pending = FALSE /\ loading = Nothing /\ policy = Nothing /\ swapped = Nothing
  /\ told = FALSE

-----------------------------------------------------------------------------
(* Building the parts.                                                     *)

AfterError_NoClose == "returned"
\* runServe returns an error; what was deferred by then is the closing of the
\* audit logger.
AfterError == IF logger = "none" THEN "returned" ELSE "closing"

Fail ==
  /\ failed' = phase
  /\ phase' = AfterError

\* config.Load and BuildRuntime
LoadConfig ==
  /\ phase = "config"
  /\ IF file.decodes /\ RuntimeValid(file)
     THEN runtime' = Runtime(file) /\ phase' = "auth" /\ UNCHANGED failed
     ELSE Fail /\ UNCHANGED runtime
  /\ UNCHANGED <<file, door, logger, store, interrupted, reloadVars>>

BuildAuth ==
  /\ phase = "auth"
  /\ IF AuthValid(file.auth, file.insecureAllowAnonymous)
     THEN door' \in Doors(file.auth) /\ phase' = "policy" /\ UNCHANGED failed
     ELSE Fail /\ UNCHANGED door
  /\ UNCHANGED <<file, runtime, logger, store, interrupted, reloadVars>>

\* A policy file that does not load ends the process; without one the engine
\* has no policy and denies everything.
LoadPolicy ==
  /\ phase = "policy"
  /\ IF hasFile /\ ~Loadable(FileOf(rules)) THEN Fail /\ UNCHANGED <<policy, swapped>>
     ELSE /\ IF hasFile THEN policy' = Compile(FileOf(rules)) /\ swapped' = rules
                        ELSE UNCHANGED <<policy, swapped>>
          /\ phase' = "audit" /\ UNCHANGED failed
  /\ UNCHANGED <<file, runtime, door, logger, store, interrupted,
                 hasFile, rules, pending, loading, told>>

\* audit.NewLogger; the database may be unusable whatever the file says.
BuildLogger ==
  /\ phase = "audit"
  /\ \E present \in BOOLEAN :
       /\ store' = StoreAfter(file.audit, present)
       /\ IF LoggerOf(file.audit, present) = "error" THEN Fail /\ UNCHANGED logger
          ELSE logger' = LoggerOf(file.audit, present) /\ phase' = "clients" /\ UNCHANGED failed
  /\ UNCHANGED <<file, runtime, door, interrupted, reloadVars>>

\* One of the constructors of the other parts.
Construct(part, next) ==
  /\ phase = part
  /\ IF Accepts(part, runtime) THEN phase' = next /\ UNCHANGED failed ELSE Fail
  /\ UNCHANGED <<file, runtime, door, logger, store, interrupted, reloadVars>>

Build ==
  \/ LoadConfig \/ BuildAuth \/ LoadPolicy \/ BuildLogger
  \/ Construct("clients", "manager") \/ Construct("manager", "gateway")
  \/ Construct("gateway", "http") \/ Construct("http", "serving")

-----------------------------------------------------------------------------
(* Serving and ending.                                                     *)

\* The address is in use, or the listener breaks later: runServe returns while
\* handlers may be running.
ListenFails ==
  /\ phase = "serving"
  /\ Fail
  /\ UNCHANGED <<file, runtime, door, logger, store, interrupted, reloadVars>>

SeesInterrupt_OnlyNew == FALSE
\* The select takes ctx.Done, also for a signal that came while it was built.
SeesInterrupt == interrupted

Drain ==
  /\ phase = "serving" /\ SeesInterrupt
  /\ phase' = "draining"
  /\ UNCHANGED <<file, runtime, door, logger, store, interrupted, failed, reloadVars>>

\* srv.Shutdown has waited for the handlers; each has its request timeout.
ShutdownReturns ==
  /\ phase = "draining"
  /\ phase' = "closing"
  /\ UNCHANGED <<file, runtime, door, logger, store, interrupted, failed, reloadVars>>

Crashes == logger = "sqlite" /\ ~TickerRuns(file.audit)

\* The deferred auditLog.Close: it waits for the writer goroutine.
CloseAudit ==
  /\ phase = "closing" /\ ~Crashes
  /\ store' = IF logger = "sqlite" THEN "closed" ELSE store
  /\ phase' = "returned"
  /\ UNCHANGED <<file, runtime, door, logger, interrupted, failed, reloadVars>>

\* time.NewTicker panics in the writer goroutine.
WriterPanics ==
  /\ phase \notin Over /\ Crashes
  /\ phase' = "panicked"
  /\ UNCHANGED <<file, runtime, door, logger, store, interrupted, failed, reloadVars>>

-----------------------------------------------------------------------------
(* Signals.  Without a handler they end the process: SIGINT and SIGTERM    *)
(* before NotifyContext and after its stop, which is deferred after the    *)
(* closing of the audit log and so runs before it; SIGHUP before Notify    *)
(* and after Stop, which an error of the listener does not reach.          *)

Catches(signal) ==
  IF signal = "SIGHUP" THEN phase = "serving" \/ (phase = "closing" /\ failed = "serving")
  ELSE phase \in {"clients", "manager", "gateway", "http", "serving", "draining"}

Killed(signal) ==
  /\ phase \notin Over /\ ~Catches(signal)
  /\ phase' = "killed"
  /\ UNCHANGED <<file, runtime, door, logger, store, interrupted, failed, reloadVars>>

Interrupt ==
  /\ phase \notin Over /\ Catches("SIGINT")
  /\ interrupted' = TRUE
  /\ UNCHANGED <<phase, file, runtime, door, logger, store, failed, reloadVars>>

Hangup ==
  /\ phase \notin Over /\ Catches("SIGHUP")
  /\ Sighup
  /\ UNCHANGED serveOnlyVars

\* The reload goroutine outlives signal.Stop.
ReloadPolicy ==
  /\ phase \in {"serving", "draining", "closing"}
  /\ Reload
  /\ UNCHANGED serveOnlyVars

\* Before the process serves, the file is one of Policies[file]; nothing reads it
\* between LoadPolicy and the first SIGHUP.
Edit ==
  /\ phase = "serving" /\ file \in Edited
  /\ EditFile
  /\ UNCHANGED serveOnlyVars

-----------------------------------------------------------------------------
Process == Build \/ Drain \/ ShutdownReturns \/ CloseAudit \/ WriterPanics

ServeNext ==
  \/ Process \/ ListenFails \/ ReloadPolicy
  \/ Interrupt \/ Hangup \/ Killed("SIGINT") \/ Killed("SIGHUP")
  \/ Edit

-----------------------------------------------------------------------------
(* Properties.                                                             *)

\* Nobody gets in unless the file says so.  A token names a client only if
\* some key of the file has its digest and that client; every key that can be
\* decoded opens the door; keys that cannot be decoded, a missing token and an
\* omitted auth.type open nothing; and the door is open to all only when the
\* file says none and allows it.
\* (buildAuth, NewAPIKeyAuthenticator, Authenticate)
DoorShut ==
  door # Nothing =>
    LET keys    == file.auth.keys
        Keys(d) == {i \in DOMAIN keys : keys[i].hash # Malformed /\ keys[i].hash.digest = d}
    IN  IF file.auth.type = "none" /\ file.insecureAllowAnonymous
        THEN \A t \in Tokens \cup {NoToken} : Authenticate(door, t) = "anonymous"
        ELSE /\ file.auth.type = "api_key"
             /\ Authenticate(door, NoToken) = Refused
             /\ \A d \in Tokens :
                  IF Keys(d) = {} THEN Authenticate(door, d) = Refused
                  ELSE Authenticate(door, d) \in {keys[i].client : i \in Keys(d)}

\* The limits of the server and of the upstreams are checked twice, and the
\* checks agree: what BuildRuntime accepts, the constructors of the clients, the
\* manager, the gateway and the HTTP server accept too.  And the one cache of
\* all upstreams is as fresh, and its refresh as short, as the strictest
\* upstream asks.  (BuildRuntime does not look at auth, the policy file and the
\* audit section: buildAuth, LoadFromFile and NewLogger check those, and may end
\* the process before these four parts are built; batch_max_delay nobody checks,
\* see WriterPanics.)
\* (buildRuntime against the validate functions of the parts)
ChecksAgree ==
  /\ failed \notin {"clients", "manager", "gateway", "http"}
  /\ runtime # Nothing /\ runtime.upstreams # << >> =>
       \A s \in DOMAIN runtime.manager :
         /\ \A i \in DOMAIN runtime.upstreams : runtime.manager[s] <= runtime.upstreams[i][s]
         /\ \E i \in DOMAIN runtime.upstreams : runtime.manager[s] = runtime.upstreams[i][s]

\* Once the audit logger is built, its database stays open until the deferred
\* Close, and is closed when runServe returns, whichever part failed and whenever
\* a signal came.  (Who may still log then is the matter of ClosedLast in Gateway;
\* an unknown write mode is found before there is a logger.)
LogClosed ==
  logger = "sqlite" =>
    /\ phase \notin Over => store = "open"
    /\ phase = "returned" => store = "closed"

\* A signal to stop is never lost, also when it comes while the parts are being
\* built: the process ends.
InterruptEnds == interrupted ~> phase \in Over

\* After the last edit of a valid file one SIGHUP is enough while the server
\* serves, although signals that meet a full channel are dropped and the file
\* may have been read half way through the edits.
ReloadNotLost ==
  phase = "serving" /\ hasFile /\ told /\ Valid(FileOf(rules)) ~>
    ~told \/ swapped = rules \/ phase # "serving"
=============================================================================
