---------------------------- MODULE Commands_proofs ----------------------------
(***************************************************************************)
(* Proofs about mcpshield serve and replay, for any configuration files,   *)
(* policies, signals and recordings: the audit log is closed on every way  *)
(* out, a configuration that is accepted is accepted by every part, nobody *)
(* gets in unless the file says so, the policy in force means what its     *)
(* file says, and a policy check promises no more than the policy keeps.   *)
(***************************************************************************)
EXTENDS Commands, FiniteSetTheorems, SequenceTheorems, TLAPS

\* serve and replay have no variable in common, and a reload touches none of
\* serve's own.
LEMMA StepsOfServe ==
  ASSUME [Next]_commandVars
  PROVE  \/ Process \/ ListenFails \/ Interrupt \/ Killed("SIGINT") \/ Killed("SIGHUP")
         \/ UNCHANGED serveOnlyVars
  BY DEF Next, RunServe, RunReplay, ServeNext, ReloadPolicy, Hangup, Edit, commandVars,
         serveVars, serveOnlyVars

-----------------------------------------------------------------------------
(* The audit log.                                                          *)

\* No logger before its turn, and an open database from then on.
LogInv ==
  /\ phase \in {"config", "auth", "policy", "audit"} => logger = "none"
  /\ LogClosed

LEMMA LoggerHasStore ==
  ASSUME NEW audit, NEW present, LoggerOf(audit, present) = "sqlite"
  PROVE  StoreAfter(audit, present) = "open"
  BY DEF LoggerOf, StoreAfter

LEMMA FailKeepsLog ==
  ASSUME LogInv, Fail, phase \notin Over, logger' = logger, store' = store
  PROVE  LogInv'
<1>1. CASE logger = "none"
  BY <1>1 DEF LogInv, LogClosed, Fail, AfterError, Over
<1>2. CASE logger # "none"
  BY <1>2 DEF LogInv, LogClosed, Fail, AfterError, Over
<1> QED BY <1>1, <1>2

LEMMA StepLog ==
  ASSUME LogInv, [Next]_commandVars
  PROVE  LogInv'
<1>1. CASE LoadConfig
  <2>1. phase = "config" /\ logger' = logger /\ store' = store /\ (Fail \/ phase' = "auth")
    BY <1>1 DEF LoadConfig
  <2> QED BY <2>1, FailKeepsLog DEF LogInv, LogClosed, Over
<1>2. CASE BuildAuth
  <2>1. phase = "auth" /\ logger' = logger /\ store' = store /\ (Fail \/ phase' = "policy")
    BY <1>2 DEF BuildAuth
  <2> QED BY <2>1, FailKeepsLog DEF LogInv, LogClosed, Over
<1>3. CASE LoadPolicy
  <2>1. phase = "policy" /\ logger' = logger /\ store' = store /\ (Fail \/ phase' = "audit")
    BY <1>3 DEF LoadPolicy
  <2> QED BY <2>1, FailKeepsLog DEF LogInv, LogClosed, Over
<1>4. CASE BuildLogger
  <2>1. phase = "audit" /\ logger = "none"
    BY <1>4 DEF BuildLogger, LogInv
  <2>2. PICK present \in BOOLEAN :
          /\ store' = StoreAfter(file.audit, present)
          /\ IF LoggerOf(file.audit, present) = "error" THEN Fail /\ UNCHANGED logger
             ELSE logger' = LoggerOf(file.audit, present) /\ phase' = "clients" /\ UNCHANGED failed
    BY <1>4 DEF BuildLogger
  <2>3. CASE LoggerOf(file.audit, present) = "error"
    <3>1. logger' = "none" /\ phase' = "returned"
      BY <2>1, <2>2, <2>3 DEF Fail, AfterError
    <3> QED BY <3>1 DEF LogInv, LogClosed
  <2>4. CASE LoggerOf(file.audit, present) # "error"
    <3>1. phase' = "clients" /\ (logger' = "sqlite" => store' = "open")
      BY <2>2, <2>4, LoggerHasStore
    <3> QED BY <3>1 DEF LogInv, LogClosed
  <2> QED BY <2>3, <2>4
<1>5. ASSUME NEW part \in {"clients", "manager", "gateway", "http"},
             NEW next \in {"manager", "gateway", "http", "serving"}, Construct(part, next)
      PROVE  LogInv'
  <2>1. phase = part /\ logger' = logger /\ store' = store /\ (Fail \/ phase' = next)
    BY <1>5 DEF Construct
  <2> QED BY <2>1, FailKeepsLog DEF LogInv, LogClosed, Over
<1>6. CASE Drain \/ ShutdownReturns \/ CloseAudit \/ WriterPanics
  BY <1>6 DEF Drain, ShutdownReturns, CloseAudit, WriterPanics, LogInv, LogClosed, Over
<1>7. CASE ListenFails
  BY <1>7, FailKeepsLog DEF ListenFails, Over
<1>8. CASE Interrupt \/ Killed("SIGINT") \/ Killed("SIGHUP")
  BY <1>8 DEF Interrupt, Killed, LogInv, LogClosed, Over
<1>9. CASE UNCHANGED serveOnlyVars
  BY <1>9 DEF serveOnlyVars, LogInv, LogClosed, Over
<1> QED
  BY <1>1, <1>2, <1>3, <1>4, <1>5, <1>6, <1>7, <1>8, <1>9, StepsOfServe DEF Process, Build

\* Whichever part failed and whenever a signal came: the audit database, once
\* opened for a logger, is open until runServe closes it, and closed when runServe
\* has returned.
\* (LogClosed: the deferred auditLog.Close of runServe)
THEOREM TheLogIsClosed == FairSpec => []LogClosed
<1>1. Init => LogInv
  BY DEF Init, ServeInit, LogInv, LogClosed, Over
<1>2. LogInv => LogClosed
  BY DEF LogInv
<1> QED BY <1>1, <1>2, StepLog, PTL DEF FairSpec

-----------------------------------------------------------------------------
(* The limits.                                                             *)

\* The step of the loop that takes the strictest limit.
Stricter(setting, b, c, least, l) == MinDuration(least, l[setting])
Strict == INSTANCE Folding WITH Op <- Stricter

\* What all upstreams share is the limit of one of them and above no other.
LEMMA StrictestShared ==
  ASSUME NEW n \in Nat \ {0}, NEW limits, limits = [i \in 1..n |-> limits[i]], NEW setting,
         \A i \in 1..n : limits[i][setting] \in Int
  PROVE  \E i \in 1..n : /\ Shared(setting, limits) = limits[i][setting]
                         /\ \A j \in 1..n : limits[i][setting] <= limits[j][setting]
<1> DEFINE S == {limits[i] : i \in 1..n}
           base == Head(limits)[setting]
           rest == Tail(limits)
           m == n - 1
           v(i) == limits[i][setting]
<1>1. limits \in Seq(S)
  <2>2. limits \in [1..n -> S]
    OBVIOUS
  <2> HIDE DEF S
  <2> QED BY <2>2
<1>2. /\ base = v(1) /\ DOMAIN rest = 1..m /\ m \in Nat
      /\ \A i \in 1..m : rest[i] = limits[i + 1]
  BY <1>1
<1>3. Shared(setting, limits) = Strict!Folded(setting, 0, 0, base, rest)
  BY DEF Shared, Stricter, Strict!Folded, FoldLeft, MapThenFoldSet,
         Strict!FoldLeft, Strict!MapThenFoldSet, Max, Strict!Max
<1> HIDE DEF base, rest, m
<1>4. Strict!Unfolds(setting, 0, 0, base, m, rest)
  BY <1>2, Strict!FoldSteps
<1>5. PICK f : /\ f[0] = base
               /\ \A i \in 1..m : f[i] = Stricter(setting, 0, 0, f[i - 1], rest[i])
               /\ f[m] = Strict!Folded(setting, 0, 0, base, rest)
  BY <1>4 DEF Strict!Unfolds
<1> DEFINE Least(i) == \E k \in 1..i + 1 : f[i] = v(k) /\ \A j \in 1..i + 1 : v(k) <= v(j)
           P == {i \in 0..m : Least(i)}
<1>6. m + 1 = n
  BY DEF m
<1>7. 0 \in P
  <2>1. v(1) \in Int /\ 0 \in 0..m
    BY <1>2, <1>6
  <2>2. 1 \in 1..0 + 1 /\ \A j \in 1..0 + 1 : j = 1
    OBVIOUS
  <2>3. f[0] = v(1)
    BY <1>2, <1>5
  <2> HIDE DEF v
  <2> QED BY <2>1, <2>2, <2>3
<1>8. ASSUME NEW i \in 1..m, i - 1 \in P PROVE i \in P
  <2>1. (i - 1) + 1 = i /\ i \in 0..m /\ i + 1 \in 1..n
    BY <1>2, <1>6
  <2>2. PICK k \in 1..i : f[i - 1] = v(k) /\ \A j \in 1..i : v(k) <= v(j)
    BY <1>8, <2>1
  <2>3. f[i] = MinDuration(v(k), v(i + 1))
    BY <1>2, <1>5, <2>2 DEF Stricter
  <2>4. \A j \in 1..i + 1 : j \in 1..n /\ v(j) \in Int /\ (j \in 1..i \/ j = i + 1)
    BY <2>1, <1>2, <1>6
  <2>5. k \in 1..i + 1 /\ i + 1 \in 1..i + 1
    BY <1>2
  <2> HIDE DEF v
  <2>6. Least(i)
    <3>1. CASE v(i + 1) < v(k)
      <4>1. f[i] = v(i + 1)
        BY <2>3, <3>1 DEF MinDuration
      <4>2. \A j \in 1..i + 1 : v(i + 1) <= v(j)
        BY <2>2, <2>4, <2>5, <3>1
      <4> QED BY <2>5, <4>1, <4>2
    <3>2. CASE ~(v(i + 1) < v(k))
      <4>1. f[i] = v(k)
        BY <2>3, <3>2 DEF MinDuration
      <4>2. \A j \in 1..i + 1 : v(k) <= v(j)
        BY <2>2, <2>4, <2>5, <3>2
      <4> QED BY <2>5, <4>1, <4>2
    <3> QED BY <3>1, <3>2
  <2> QED BY <2>1, <2>6
<1>9. \A i \in 0..m : i \in P
  <2> HIDE DEF P
  <2> QED BY <1>2, <1>7, <1>8, Strict!UpTo
<1>10. Least(m)
  <2>1. m \in 0..m
    BY <1>2
  <2>2. m \in P
    <3> HIDE DEF P
    <3> QED BY <1>9, <2>1
  <2> HIDE DEF Least
  <2> QED BY <2>2
<1> QED BY <1>3, <1>5, <1>6, <1>10

\* A section that the configuration accepts has a positive value for every
\* setting that has a default.
LEMMA DefaultsPositive ==
  ASSUME NEW section, LimitsValid(section),
         \A s \in DOMAIN section : section[s] \in Int \cup {Garbled},
         NEW defaults, NEW s \in DOMAIN defaults, defaults[s] \in Nat \ {0}
  PROVE  WithDefaults(section, defaults)[s] \in Nat \ {0}
<1>1. WithDefaults(section, defaults)[s] = IF s \in DOMAIN section THEN section[s] ELSE defaults[s]
  BY DEF WithDefaults
<1>2. CASE s \in DOMAIN section
  <2>1. section[s] \in Int /\ section[s] > 0
    BY <1>2 DEF LimitsValid, InRange
  <2> QED BY <1>1, <1>2, <2>1
<1> QED BY <1>1, <1>2

\* So has the whole configuration.
LEMMA RuntimePositive ==
  ASSUME NEW f \in Files, RuntimeValid(f)
  PROVE  /\ \A s \in DOMAIN ServerDefaults : Runtime(f).server[s] \in Nat \ {0}
         /\ DOMAIN Runtime(f).upstreams = 1..Len(f.upstreams)
         /\ \A i \in DOMAIN Runtime(f).upstreams : \A s \in DOMAIN UpstreamDefaults :
              Runtime(f).upstreams[i][s] \in Nat \ {0}
<1>1. ASSUME NEW s \in DOMAIN ServerDefaults
      PROVE  WithDefaults(f.server, ServerDefaults)[s] \in Nat \ {0}
  <2>1. ServerDefaults[s] \in Nat \ {0}
    BY DEF ServerDefaults
  <2>2. LimitsValid(f.server) /\ \A t \in DOMAIN f.server : f.server[t] \in Int \cup {Garbled}
    BY SettingsAssumption DEF RuntimeValid
  <2> QED BY <2>1, <2>2, DefaultsPositive
<1>2. ASSUME NEW i \in DOMAIN f.upstreams, NEW s \in DOMAIN UpstreamDefaults
      PROVE  WithDefaults(f.upstreams[i].limits, UpstreamDefaults)[s] \in Nat \ {0}
  <2>1. UpstreamDefaults[s] \in Nat \ {0}
    BY DEF UpstreamDefaults
  <2> DEFINE section == f.upstreams[i].limits
  <2>2. LimitsValid(section) /\ \A t \in DOMAIN section : section[t] \in Int \cup {Garbled}
    BY SettingsAssumption DEF RuntimeValid, UpstreamsValid
  <2> QED BY <2>1, <2>2, DefaultsPositive
<1>3. DOMAIN f.upstreams = 1..Len(f.upstreams)
  BY SettingsAssumption
<1>4. /\ Runtime(f).server = WithDefaults(f.server, ServerDefaults)
      /\ Runtime(f).upstreams =
           [i \in DOMAIN f.upstreams |-> WithDefaults(f.upstreams[i].limits, UpstreamDefaults)]
  BY DEF Runtime
<1> QED BY <1>1, <1>2, <1>3, <1>4

\* The shared limits are positive, and the strictest of the upstreams'.
LEMMA ManagerStrictest ==
  ASSUME NEW f \in Files, RuntimeValid(f)
  PROVE  /\ DOMAIN Runtime(f).manager = {"toolsCacheTTL", "refreshTimeout"}
         /\ \A s \in DOMAIN Runtime(f).manager :
              /\ Runtime(f).manager[s] \in Nat \ {0}
              /\ Runtime(f).upstreams # << >> =>
                   \E i \in DOMAIN Runtime(f).upstreams :
                     /\ Runtime(f).manager[s] = Runtime(f).upstreams[i][s]
                     /\ \A j \in DOMAIN Runtime(f).upstreams :
                          Runtime(f).manager[s] <= Runtime(f).upstreams[j][s]
<1> DEFINE limits == Runtime(f).upstreams
           n == Len(f.upstreams)
           settings == {"toolsCacheTTL", "refreshTimeout"}
<1>1. n \in Nat /\ DOMAIN f.upstreams = 1..n
  BY SettingsAssumption
<1>2. limits = [i \in 1..n |-> WithDefaults(f.upstreams[i].limits, UpstreamDefaults)]
  BY <1>1 DEF Runtime
<1>3. Runtime(f).manager =
        [s \in settings |-> IF limits = << >> THEN UpstreamDefaults[s] ELSE Shared(s, limits)]
  BY DEF Runtime
<1>4. \A i \in 1..n, s \in settings : limits[i][s] \in Nat \ {0}
  <2>1. settings \subseteq DOMAIN UpstreamDefaults
    BY DEF UpstreamDefaults
  <2> QED BY <1>1, <2>1, RuntimePositive
<1>5. limits = [i \in 1..n |-> limits[i]] /\ DOMAIN limits = 1..n
  BY <1>2
<1>6. n = 0 => limits = << >>
  BY <1>5
<1> HIDE DEF limits
<1>7. ASSUME NEW s \in settings, limits # << >>
      PROVE  \E i \in 1..n : /\ Shared(s, limits) = limits[i][s]
                             /\ \A j \in 1..n : limits[i][s] <= limits[j][s]
  <2>1. n \in Nat \ {0} /\ \A i \in 1..n : limits[i][s] \in Int
    BY <1>1, <1>4, <1>6, <1>7
  <2> QED BY <1>5, <2>1, StrictestShared
<1>8. ASSUME NEW s \in settings
      PROVE  /\ Runtime(f).manager[s] \in Nat \ {0}
             /\ limits # << >> =>
                  \E i \in DOMAIN limits :
                    /\ Runtime(f).manager[s] = limits[i][s]
                    /\ \A j \in DOMAIN limits : Runtime(f).manager[s] <= limits[j][s]
  <2>1. CASE limits = << >>
    <3>1. Runtime(f).manager[s] = UpstreamDefaults[s] /\ UpstreamDefaults[s] \in Nat \ {0}
      BY <1>3, <2>1 DEF UpstreamDefaults
    <3> QED BY <2>1, <3>1
  <2>2. CASE limits # << >>
    <3>1. PICK i \in 1..n : /\ Shared(s, limits) = limits[i][s]
                            /\ \A j \in 1..n : limits[i][s] <= limits[j][s]
      BY <1>7, <2>2
    <3>2. Runtime(f).manager[s] = limits[i][s]
      BY <1>3, <2>2, <3>1
    <3> QED BY <1>4, <1>5, <3>1, <3>2
  <2> QED BY <2>1, <2>2
<1> QED BY <1>3, <1>8 DEF limits

Constructors == {"clients", "manager", "gateway", "http"}

\* Positive limits are accepted by every constructor.
LEMMA AllAccept ==
  ASSUME NEW R,
         \A s \in DOMAIN ServerDefaults : R.server[s] > 0,
         \A i \in DOMAIN R.upstreams : \A s \in DOMAIN UpstreamDefaults : R.upstreams[i][s] > 0,
         \A s \in {"toolsCacheTTL", "refreshTimeout"} : R.manager[s] > 0
  PROVE  \A part \in Constructors : Accepts(part, R)
<1>1. Accepts("clients", R)
  <2>1. {"requestTimeout", "maxResponseBytes"} \subseteq DOMAIN UpstreamDefaults
    BY DEF UpstreamDefaults
  <2> QED BY <2>1 DEF Accepts, Positive
<1>2. Accepts("manager", R)
  BY DEF Accepts, Positive
<1>3. Accepts("gateway", R)
  <2>1. {"requestTimeout", "maxRequestBytes", "sessionTTL", "sessionMaxEntries"}
          \subseteq DOMAIN ServerDefaults
    BY DEF ServerDefaults
  <2> QED BY <2>1 DEF Accepts, Positive
<1>4. Accepts("http", R)
  <2>1. {"readTimeout", "writeTimeout", "idleTimeout"} \subseteq DOMAIN ServerDefaults
    BY DEF ServerDefaults
  <2> QED BY <2>1 DEF Accepts, Positive
<1> QED BY <1>1, <1>2, <1>3, <1>4 DEF Constructors

\* The runtime is that of the file from when the file is accepted.
Built == {"auth", "policy", "audit", "serving"} \cup Constructors

RuntimeInv ==
  /\ file \in Files
  /\ phase \in Built \/ runtime # Nothing => RuntimeValid(file) /\ runtime = Runtime(file)
  /\ failed \notin Constructors

LEMMA StepRuntime ==
  ASSUME RuntimeInv, [Next]_commandVars
  PROVE  RuntimeInv'
<1>1. CASE LoadConfig
  BY <1>1 DEF LoadConfig, Fail, AfterError, RuntimeInv, Built, Constructors
<1>2. CASE BuildAuth \/ LoadPolicy \/ BuildLogger
  BY <1>2 DEF BuildAuth, LoadPolicy, BuildLogger, Fail, AfterError, RuntimeInv, Built, Constructors
<1>3. ASSUME NEW part \in Constructors, NEW next \in Built, Construct(part, next)
      PROVE  RuntimeInv'
  <2>1. phase = part /\ UNCHANGED <<file, runtime>>
    BY <1>3 DEF Construct
  <2>2. RuntimeValid(file) /\ runtime = Runtime(file) /\ file \in Files
    BY <2>1 DEF RuntimeInv, Built
  <2>3. Accepts(part, runtime)
    <3>1. /\ \A s \in DOMAIN ServerDefaults : runtime.server[s] > 0
          /\ \A i \in DOMAIN runtime.upstreams : \A s \in DOMAIN UpstreamDefaults :
               runtime.upstreams[i][s] > 0
      BY <2>2, RuntimePositive
    <3>2. \A s \in {"toolsCacheTTL", "refreshTimeout"} : runtime.manager[s] > 0
      BY <2>2, ManagerStrictest
    <3> QED BY <3>1, <3>2, AllAccept
  <2>4. phase' = next /\ UNCHANGED failed
    BY <1>3, <2>3 DEF Construct
  <2> QED BY <2>1, <2>2, <2>4 DEF RuntimeInv
<1>4. CASE Drain \/ ShutdownReturns \/ CloseAudit \/ WriterPanics \/ Interrupt
           \/ Killed("SIGINT") \/ Killed("SIGHUP")
  BY <1>4 DEF Drain, ShutdownReturns, CloseAudit, WriterPanics, Interrupt, Killed, Over,
              RuntimeInv, Built, Constructors
<1>5. CASE ListenFails
  BY <1>5 DEF ListenFails, Fail, AfterError, RuntimeInv, Built, Constructors
<1>6. CASE UNCHANGED serveOnlyVars
  BY <1>6 DEF serveOnlyVars, RuntimeInv
<1> QED
  BY <1>1, <1>2, <1>3, <1>4, <1>5, <1>6, StepsOfServe DEF Process, Build, Constructors, Built

\* The limits of a file that BuildRuntime accepts are accepted by the clients, the
\* manager, the gateway and the HTTP server, and what all upstreams share is the
\* strictest limit, for any files.
\* (ChecksAgree: buildRuntime against the validate functions of the parts)
THEOREM TheChecksAgree == FairSpec => []ChecksAgree
<1>1. Init => RuntimeInv
  BY DEF Init, ServeInit, RuntimeInv, Built, Constructors
<1>2. RuntimeInv => ChecksAgree
  <2> SUFFICES ASSUME RuntimeInv PROVE ChecksAgree
    OBVIOUS
  <2>1. failed \notin Constructors
    BY DEF RuntimeInv
  <2>2. ASSUME runtime # Nothing, runtime.upstreams # << >>, NEW s \in DOMAIN runtime.manager
        PROVE  /\ \A i \in DOMAIN runtime.upstreams : runtime.manager[s] <= runtime.upstreams[i][s]
               /\ \E i \in DOMAIN runtime.upstreams : runtime.manager[s] = runtime.upstreams[i][s]
    <3>1. file \in Files /\ RuntimeValid(file) /\ runtime = Runtime(file)
      BY <2>2 DEF RuntimeInv
    <3> QED BY <2>2, <3>1, ManagerStrictest
  <2> QED BY <2>1, <2>2 DEF ChecksAgree, Constructors
<1> QED BY <1>1, <1>2, StepRuntime, PTL DEF FairSpec

-----------------------------------------------------------------------------
(* The door.                                                               *)

\* An entry of the map is the client of some key with that spelling.
LEMMA MapFromKeys ==
  ASSUME NEW keys, Len(keys) \in Nat, DOMAIN keys = 1..Len(keys),
         NEW h \in DOMAIN KeyMap(keys)
  PROVE  \E i \in DOMAIN keys : keys[i].hash = h /\ KeyMap(keys)[h] = keys[i].client
<1> DEFINE I == {i \in DOMAIN keys : keys[i].hash = h}
           Latest(i) == keys[i].hash = h /\ \A j \in DOMAIN keys : keys[j].hash = h => j <= i
<1>1. I # {} /\ I \subseteq 1..Len(keys)
  BY DEF KeyMap
<1>2. PICK i \in I : \A j \in I : j <= i
  <2>1. I \subseteq 0..Len(keys)
    BY <1>1
  <2> HIDE DEF I
  <2> QED BY <1>1, <2>1, Strict!LargestOne
<1>3. i \in DOMAIN keys /\ Latest(i)
  BY <1>2
<1>4. KeyMap(keys)[h] = keys[CHOOSE k \in DOMAIN keys : Latest(k)].client
  BY DEF KeyMap
<1> HIDE DEF Latest
<1>5. (CHOOSE k \in DOMAIN keys : Latest(k)) \in DOMAIN keys /\ Latest(CHOOSE k \in DOMAIN keys : Latest(k))
  BY <1>3
<1> QED BY <1>4, <1>5 DEF Latest

\* What an authenticator that was built for a file answers.
Shut(d, auth, open) ==
  LET keys    == auth.keys
      Keys(t) == {i \in DOMAIN keys : keys[i].hash # Malformed /\ keys[i].hash.digest = t}
  IN  IF auth.type = "none" /\ open
      THEN \A t \in Tokens \cup {NoToken} : Authenticate(d, t) = "anonymous"
      ELSE /\ auth.type = "api_key"
           /\ Authenticate(d, NoToken) = Refused
           /\ \A t \in Tokens :
                IF Keys(t) = {} THEN Authenticate(d, t) = Refused
                ELSE Authenticate(d, t) \in {keys[i].client : i \in Keys(t)}

LEMMA BuiltDoorIsShut ==
  ASSUME NEW f \in Files, NEW open, NEW d \in Doors(f.auth),
         AuthValid(f.auth, open)
  PROVE  Shut(d, f.auth, open)
<1> DEFINE auth == f.auth
           keys == auth.keys
           Keys(t) == {i \in DOMAIN keys : keys[i].hash # Malformed /\ keys[i].hash.digest = t}
<1>1. CASE auth.type = "none"
  <2>1. d = [open |-> TRUE, table |-> << >>] /\ open
    BY <1>1 DEF Doors, AuthValid
  <2>2. \A t : Authenticate(d, t) = "anonymous"
    BY <2>1 DEF Authenticate
  <2> QED BY <1>1, <2>1, <2>2 DEF Shut
<1>2. CASE auth.type # "none"
  <2>1. auth.type = "api_key" /\ \A i \in DOMAIN keys : keys[i].hash # Empty
    BY <1>2 DEF AuthValid
  <2>2. Len(keys) \in Nat /\ DOMAIN keys = 1..Len(keys)
    BY KeysAssumption
  <2>3. PICK table \in KeyTables(keys) : d = [open |-> FALSE, table |-> table]
    BY <1>2 DEF Doors
  <2> DEFINE map == KeyMap(keys)
             hashes == DOMAIN map \ {Malformed}
             digests == {h.digest : h \in hashes}
  <2>4. /\ DOMAIN table = digests
        /\ \A t \in digests : \E h \in hashes : h.digest = t /\ map[h] = table[t]
    BY <2>3 DEF KeyTables
  <2>5. DOMAIN map = {keys[i].hash : i \in DOMAIN keys}
    BY DEF KeyMap
  <2>6. \A h \in DOMAIN map : \E i \in DOMAIN keys : keys[i].hash = h /\ map[h] = keys[i].client
    BY <2>2, MapFromKeys
  <2>7. \A t : Authenticate(d, t) = IF t \in digests THEN table[t] ELSE Refused
    BY <2>3, <2>4 DEF Authenticate
  <2> HIDE DEF map
  <2>8. \A t : t \in digests <=> Keys(t) # {}
    BY <2>5
  <2>9. \A t \in digests : table[t] \in {keys[i].client : i \in Keys(t)}
    <3> TAKE t \in digests
    <3>1. PICK h \in hashes : h.digest = t /\ map[h] = table[t]
      BY <2>4
    <3>2. PICK i \in DOMAIN keys : keys[i].hash = h /\ map[h] = keys[i].client
      BY <2>6
    <3>3. i \in Keys(t)
      BY <3>1, <3>2
    <3> QED BY <3>1, <3>2, <3>3
  <2>10. NoToken \notin digests
    <3>1. \A i \in DOMAIN keys : keys[i].hash # Malformed => keys[i].hash.digest # NoToken
      BY <2>1, KeysAssumption
    <3> QED BY <2>5, <3>1
  <2> HIDE DEF digests, Keys
  <2>11. Authenticate(d, NoToken) = Refused
    BY <2>7, <2>10
  <2>12. ASSUME NEW t \in Tokens
         PROVE  IF Keys(t) = {} THEN Authenticate(d, t) = Refused
                ELSE Authenticate(d, t) \in {keys[i].client : i \in Keys(t)}
    BY <2>7, <2>8, <2>9
  <2> USE DEF Keys
  <2> QED BY <1>2, <2>1, <2>11, <2>12 DEF Shut
<1> QED BY <1>1, <1>2

DoorInv ==
  /\ file \in Files
  /\ door # Nothing => door \in Doors(file.auth) /\ AuthValid(file.auth, file.insecureAllowAnonymous)

LEMMA StepDoor ==
  ASSUME DoorInv, [Next]_commandVars
  PROVE  DoorInv'
<1>1. CASE BuildAuth
  <2>1. file' = file
    BY <1>1 DEF BuildAuth
  <2>2. \/ door' = door
        \/ door' \in Doors(file.auth) /\ AuthValid(file.auth, file.insecureAllowAnonymous)
    BY <1>1 DEF BuildAuth
  <2> QED BY <2>1, <2>2 DEF DoorInv
<1>2. CASE file' = file /\ door' = door
  BY <1>2 DEF DoorInv
<1>3. BuildAuth \/ (file' = file /\ door' = door)
  BY StepsOfServe DEF Process, Build, LoadConfig, LoadPolicy, BuildLogger, Construct, Drain,
     ShutdownReturns, CloseAudit, WriterPanics, ListenFails, Interrupt, Killed, serveOnlyVars
<1> QED BY <1>1, <1>2, <1>3

\* A token names a client only if the file has a key for it, and the door is
\* open to all only when the file says none and allows it, for any list of keys.
\* (DoorShut: buildAuth, NewAPIKeyAuthenticator, Authenticate)
THEOREM TheDoorIsShut == FairSpec => []DoorShut
<1>1. Init => DoorInv
  BY DEF Init, ServeInit, DoorInv
<1>2. DoorInv => DoorShut
  BY BuiltDoorIsShut DEF DoorInv, DoorShut, Shut
<1> QED BY <1>1, <1>2, StepDoor, PTL DEF FairSpec

-----------------------------------------------------------------------------
(* What a compiled policy means.                                           *)

\* The step of the loop of compile.
CompiledNext(fl, action, c, compiled, rule) ==
  IF rule.action = action THEN Append(compiled, CompileRule(fl, rule)) ELSE compiled
Compiling == INSTANCE Folding WITH Op <- CompiledNext

RulesOf(fl, action) == {i \in DOMAIN fl.rules : fl.rules[i].action = action}

\* The list holds these rules of the file, compiled and in its order.
ListsIn(fl, action, list, pos) ==
  /\ list \in Seq({CompileRule(fl, fl.rules[i]) : i \in RulesOf(fl, action)})
  /\ \A j \in 1..Len(list) :
       pos[j] \in RulesOf(fl, action) /\ list[j] = CompileRule(fl, fl.rules[pos[j]])
  /\ \A i, j \in 1..Len(list) : i < j => pos[i] < pos[j]
  /\ \A i \in RulesOf(fl, action) : \E j \in 1..Len(list) : pos[j] = i

LEMMA CompiledRules ==
  ASSUME NEW fl, NEW n \in Nat, DOMAIN fl.rules = 1..n, NEW action
  PROVE  \E pos : ListsIn(fl, action, OfAction(fl, action), pos)
<1> DEFINE K == RulesOf(fl, action)
           g == [i \in 1..n |-> CompileRule(fl, fl.rules[i])]
           T == {CompileRule(fl, fl.rules[i]) : i \in K}
<1>1. K \subseteq 1..n /\ \A i \in K : fl.rules[i].action = action
  BY DEF RulesOf
<1>2. \A i \in K : g[i] = CompileRule(fl, fl.rules[i]) /\ g[i] \in T
  BY <1>1
<1>3. \A i \in 1..n : i \in K <=> fl.rules[i].action = action
  BY DEF RulesOf
<1>4. OfAction(fl, action) = Compiling!Folded(fl, action, 0, << >>, fl.rules)
  BY DEF OfAction, CompiledNext, Compiling!Folded, FoldLeft, MapThenFoldSet,
         Compiling!FoldLeft, Compiling!MapThenFoldSet, Max, Compiling!Max
<1>5. Compiling!Unfolds(fl, action, 0, << >>, n, fl.rules)
  BY Compiling!FoldSteps
<1>6. PICK f : /\ f[0] = << >>
               /\ \A i \in 1..n : f[i] = CompiledNext(fl, action, 0, f[i - 1], fl.rules[i])
               /\ f[n] = Compiling!Folded(fl, action, 0, << >>, fl.rules)
  BY <1>5 DEF Compiling!Unfolds
<1>7. \A i \in 1..n : CompiledNext(fl, action, 0, f[i - 1], fl.rules[i]) =
        IF i \in K THEN Append(f[i - 1], g[i]) ELSE f[i - 1]
  BY <1>3 DEF CompiledNext
<1>8. \A i \in 1..n : f[i] = IF i \in K THEN Append(f[i - 1], g[i]) ELSE f[i - 1]
  BY <1>6, <1>7
<1> HIDE DEF K, g, T
<1>9. Compiling!Gathers(K, g, T, n, f)
  <2>1. n \in 0..n
    OBVIOUS
  <2> QED BY <1>2, <1>6, <1>8, <2>1, Compiling!Gathered
<1>10. PICK pos : Compiling!GatheredFrom(K, g, n, f[n], pos)
  BY <1>9 DEF Compiling!Gathers
<1>11. f[n] \in Seq(T) /\ OfAction(fl, action) = f[n]
  BY <1>4, <1>6, <1>9 DEF Compiling!Gathers
<1>12. ListsIn(fl, action, f[n], pos)
  BY <1>1, <1>2, <1>10, <1>11 DEF ListsIn, Compiling!GatheredFrom, T, K
<1> QED BY <1>11, <1>12

\* Whether a policy allows a call, said of the file it was compiled from.
LEMMA AllowedMeansPermitted ==
  ASSUME NEW fl, NEW n \in Nat, DOMAIN fl.rules = 1..n, Valid(fl), NEW call
  PROVE  Evaluate(Compile(fl), call).action = "allow" <=> Permitted(fl, call)
<1> DEFINE allow == OfAction(fl, "allow")
           deny  == OfAction(fl, "deny")
           R(i)  == fl.rules[i]
           covering == {i \in 1..n : call.tool \in Covers(fl, R(i))}
<1>1. PICK a : ListsIn(fl, "allow", allow, a)
  BY CompiledRules
<1>2. PICK d : ListsIn(fl, "deny", deny, d)
  BY CompiledRules
<1> HIDE DEF allow, deny
<1>3. \A i \in 1..n : i \in RulesOf(fl, "allow") \/ i \in RulesOf(fl, "deny")
  BY DEF Valid, RuleValid, RulesOf
<1>4. \A i \in RulesOf(fl, "deny") : i \in 1..n /\ R(i).action = "deny"
  BY DEF RulesOf
<1>5. \A i \in RulesOf(fl, "allow") : i \in 1..n /\ R(i).action = "allow"
  BY DEF RulesOf
<1>6. \A i : CompileRule(fl, R(i)).tools = Covers(fl, R(i)) /\ CompileRule(fl, R(i)).args = R(i).args
  BY DEF CompileRule
<1>7. DOMAIN allow = 1..Len(allow) /\ DOMAIN deny = 1..Len(deny)
  BY <1>1, <1>2 DEF ListsIn
<1>8. /\ \A j \in DOMAIN allow : /\ a[j] \in RulesOf(fl, "allow")
                                 /\ allow[j].tools = Covers(fl, R(a[j]))
                                 /\ allow[j].args = R(a[j]).args
      /\ \A i \in RulesOf(fl, "allow") : \E j \in DOMAIN allow : a[j] = i
  BY <1>1, <1>6, <1>7 DEF ListsIn
<1>9. /\ \A j \in DOMAIN deny : /\ d[j] \in RulesOf(fl, "deny")
                                /\ deny[j].tools = Covers(fl, R(d[j]))
                                /\ deny[j].args = R(d[j]).args
      /\ \A i \in RulesOf(fl, "deny") : \E j \in DOMAIN deny : d[j] = i
  BY <1>2, <1>6, <1>7 DEF ListsIn
<1>10. call.tool \in Surface(allow) <=> \E i \in covering : R(i).action = "allow"
  <2>1. call.tool \in Surface(allow) <=> \E j \in DOMAIN allow : call.tool \in allow[j].tools
    BY DEF Surface
  <2>2. (\E j \in DOMAIN allow : call.tool \in allow[j].tools)
          <=> \E i \in RulesOf(fl, "allow") : call.tool \in Covers(fl, R(i))
    BY <1>8
  <2>3. \A i \in 1..n : R(i).action = "allow" => i \in RulesOf(fl, "allow")
    BY DEF RulesOf
  <2> QED BY <2>1, <2>2, <2>3, <1>5
<1>11. {j \in DOMAIN deny : Denies(deny[j], call)} = {}
         <=> \A i \in RulesOf(fl, "deny") : call.tool \in Covers(fl, R(i)) =>
               DOMAIN R(i).args # {} /\ ~AnyArgFails(R(i).args, call.args)
  BY <1>9 DEF Denies
<1>12. Refusing(allow, call) = {}
         <=> \A i \in RulesOf(fl, "allow") : call.tool \in Covers(fl, R(i)) =>
               ~AnyArgFails(R(i).args, call.args)
  BY <1>8 DEF Refusing, Covering
<1>13. Evaluate(Compile(fl), call).action = "allow"
         <=> /\ call.tool \in Surface(allow)
             /\ {j \in DOMAIN deny : Denies(deny[j], call)} = {}
             /\ Refusing(allow, call) = {}
  BY DEF Evaluate, Compile, Decision, allow, deny
<1>14. Permitted(fl, call)
         <=> /\ \E i \in covering : R(i).action = "allow"
             /\ \A i \in covering : /\ ~AnyArgFails(R(i).args, call.args)
                                    /\ R(i).action = "deny" => DOMAIN R(i).args # {}
  BY DEF Permitted
<1> HIDE DEF R
<1>15. (\A i \in covering : /\ ~AnyArgFails(R(i).args, call.args)
                            /\ R(i).action = "deny" => DOMAIN R(i).args # {})
         <=> /\ \A i \in RulesOf(fl, "deny") : call.tool \in Covers(fl, R(i)) =>
                  DOMAIN R(i).args # {} /\ ~AnyArgFails(R(i).args, call.args)
             /\ \A i \in RulesOf(fl, "allow") : call.tool \in Covers(fl, R(i)) =>
                  ~AnyArgFails(R(i).args, call.args)
  BY <1>3, <1>4, <1>5
<1> QED BY <1>10, <1>11, <1>12, <1>13, <1>14, <1>15

-----------------------------------------------------------------------------
(* The policy in force.                                                    *)

PolicyInv ==
  /\ rules \in Lists
  /\ loading \in Lists \cup {Nothing}
  /\ swapped = Nothing => policy = Nothing
  /\ swapped # Nothing =>
       swapped \in Lists /\ Valid(FileOf(swapped)) /\ policy = Compile(FileOf(swapped))

LEMMA ListsAreLists ==
  /\ << >> \in Lists
  /\ \A l \in Lists : l \in Seq(Menu) /\ Len(l) \in 0..MaxRules /\ DOMAIN l = 1..Len(l)
  /\ \A l \in Seq(Menu) : Len(l) <= MaxRules => l \in Lists
<1>1. \A l : l \in Lists <=> \E n \in 0..MaxRules : l \in [1..n -> Menu]
  BY DEF Lists
<1>2. 0 \in 0..MaxRules /\ << >> \in [1..0 -> Menu]
  BY MaxRulesAssumption
<1>3. ASSUME NEW l \in Lists
      PROVE  l \in Seq(Menu) /\ Len(l) \in 0..MaxRules /\ DOMAIN l = 1..Len(l)
  <2>1. PICK n \in 0..MaxRules : l \in [1..n -> Menu]
    BY <1>1
  <2>2. n \in Nat
    BY MaxRulesAssumption
  <2>3. l \in Seq(Menu) /\ Len(l) = n
    BY <2>1, <2>2
  <2> QED BY <2>3
<1>4. ASSUME NEW l \in Seq(Menu), Len(l) <= MaxRules PROVE l \in Lists
  <2>1. Len(l) \in 0..MaxRules /\ l \in [1..Len(l) -> Menu]
    BY <1>4, MaxRulesAssumption
  <2> QED BY <1>1, <2>1
<1> QED BY <1>1, <1>2, <1>3, <1>4

LEMMA StepsOfPolicy ==
  ASSUME [Next]_commandVars
  PROVE  LoadPolicy \/ Reload \/ EditFile \/ UNCHANGED <<rules, loading, policy, swapped>>
<1>1. ASSUME Process \/ ListenFails \/ Interrupt \/ Killed("SIGINT") \/ Killed("SIGHUP")
      PROVE  LoadPolicy \/ UNCHANGED <<rules, loading, policy, swapped>>
  BY <1>1 DEF Process, Build, LoadConfig, BuildAuth, BuildLogger, Construct, Drain,
              ShutdownReturns, CloseAudit, WriterPanics, ListenFails, Interrupt, Killed, reloadVars
<1>2. CASE Hangup
  BY <1>2 DEF Hangup, Sighup
<1> QED BY <1>1, <1>2 DEF Next, RunServe, RunReplay, ServeNext, ReloadPolicy, Edit,
                          commandVars, serveVars, reloadVars

LEMMA StepPolicy ==
  ASSUME PolicyInv, [Next]_commandVars
  PROVE  PolicyInv'
<1>1. CASE LoadPolicy
  <2>1. UNCHANGED <<rules, loading>>
    BY <1>1 DEF LoadPolicy
  <2>2. \/ UNCHANGED <<policy, swapped>>
        \/ policy' = Compile(FileOf(rules)) /\ swapped' = rules /\ Valid(FileOf(rules))
    BY <1>1 DEF LoadPolicy, Loadable
  <2>3. rules \in Lists /\ rules # Nothing
    BY NothingAssumption, Zenon DEF PolicyInv
  <2>4. CASE UNCHANGED <<policy, swapped>>
    BY <2>1, <2>4 DEF PolicyInv
  <2>5. CASE policy' = Compile(FileOf(rules)) /\ swapped' = rules /\ Valid(FileOf(rules))
    BY <2>1, <2>3, <2>5 DEF PolicyInv
  <2> QED BY <2>2, <2>4, <2>5
<1>2. CASE IgnoreSignal \/ ReadFile \/ KeepPolicy
  BY <1>2 DEF IgnoreSignal, ReadFile, KeepPolicy, PolicyInv
<1>3. CASE SwapPolicy
  <2>1. /\ loading \in Lists /\ Valid(FileOf(loading)) /\ loading # Nothing
        /\ policy' = Compile(FileOf(loading)) /\ swapped' = loading
        /\ loading' = Nothing /\ UNCHANGED rules
    BY <1>3 DEF SwapPolicy, Loadable, PolicyInv
  <2> QED BY <2>1 DEF PolicyInv
<1>4. CASE EditFile
  <2>1. UNCHANGED <<loading, policy, swapped>>
    BY <1>4 DEF EditFile, AddRule, DropRule
  <2>2. rules \in Seq(Menu) /\ Len(rules) \in 0..MaxRules
    BY ListsAreLists DEF PolicyInv
  <2>3. rules' \in Seq(Menu) /\ Len(rules') <= MaxRules
    <3>1. ASSUME NEW rule \in Additions, AddRule(rule)
          PROVE  rules' \in Seq(Menu) /\ Len(rules') <= MaxRules
      BY <2>2, <3>1, MenuAssumption, MaxRulesAssumption DEF AddRule
    <3>2. CASE DropRule
      BY <2>2, <3>2, MaxRulesAssumption DEF DropRule
    <3> QED BY <1>4, <3>1, <3>2 DEF EditFile
  <2>4. rules' \in Lists
    BY <2>3, ListsAreLists
  <2> QED BY <2>1, <2>4 DEF PolicyInv
<1>5. CASE UNCHANGED <<rules, loading, policy, swapped>>
  BY <1>5 DEF PolicyInv
<1> QED BY <1>1, <1>2, <1>3, <1>4, <1>5, StepsOfPolicy DEF Reload

\* What the engine permits is what the file it was compiled from permits, for
\* any menu of rules, edits and signals.
\* (PolicyMeansFile: compile and evaluate, Swap and the goroutine of runServe)
THEOREM ThePolicyMeansItsFile == FairSpec => []PolicyMeansFile
<1>1. Init => PolicyInv
  <2> SUFFICES ASSUME Init PROVE PolicyInv
    OBVIOUS
  <2>1. rules \in Policies[file] /\ file \in Files
    BY DEF Init, ServeInit
  <2>2. loading = Nothing /\ policy = Nothing /\ swapped = Nothing
    BY DEF Init, ServeInit
  <2> QED BY <2>1, <2>2, PoliciesAssumption DEF PolicyInv
<1>2. PolicyInv => PolicyMeansFile
  <2> SUFFICES ASSUME PolicyInv PROVE PolicyMeansFile
    OBVIOUS
  <2>1. CASE swapped = Nothing
    BY <2>1 DEF PolicyInv, PolicyMeansFile, Permits
  <2>2. CASE swapped # Nothing
    <3> DEFINE fl == FileOf(swapped)
    <3>1. swapped \in Lists /\ Valid(fl) /\ policy = Compile(fl)
      BY <2>2 DEF PolicyInv
    <3>2. policy # Nothing
      BY <3>1, NothingAssumption, Zenon
    <3>3. Len(swapped) \in Nat /\ DOMAIN fl.rules = 1..Len(swapped)
      BY <3>1, ListsAreLists, MaxRulesAssumption DEF FileOf
    <3>4. \A call \in Calls : Evaluate(policy, call).action = "allow" <=> Permitted(fl, call)
      BY <3>1, <3>3, AllowedMeansPermitted
    <3> QED BY <2>2, <3>1, <3>2, <3>4 DEF PolicyMeansFile, Permits
  <2> QED BY <2>1, <2>2
<1> QED BY <1>1, <1>2, StepPolicy, PTL DEF FairSpec

-----------------------------------------------------------------------------
(* The buckets of a client.                                                *)

\* A list of n + 1 elements: list s and then d.
OneMore(S, s, d, n, k) ==
  /\ k \in Seq(S) /\ Len(k) = n + 1 /\ k[n + 1] = d
  /\ \A i \in 1..n : k[i] = s[i]

LEMMA JoinedOneMore ==
  ASSUME NEW S, NEW s \in Seq(S), NEW d \in S, NEW n \in Nat, Len(s) = n, NEW k, k = s \o <<d>>
  PROVE  OneMore(S, s, d, n, k)
<1>1. k = Append(s, d)
  BY AppendIsConcat
<1> QED BY <1>1, AppendProperties DEF OneMore

Joined3(k, a, b, c) == k = <<a>> \o <<b>> \o <<c>>
Joined4(k, a, b, c, d) == k = <<a>> \o <<b>> \o <<c>> \o <<d>>

LEMMA JoinedThree ==
  ASSUME NEW S, NEW a \in S, NEW b \in S, NEW c \in S, NEW k, Joined3(k, a, b, c)
  PROVE  k \in Seq(S) /\ Len(k) = 3 /\ k[1] = a /\ k[2] = b /\ k[3] = c
<1>1. PICK one : one = <<a>>
  OBVIOUS
<1>2. one \in Seq(S) /\ Len(one) = 1 /\ one[1] = a
  BY <1>1
<1>3. PICK two : two = one \o <<b>>
  OBVIOUS
<1>4. OneMore(S, one, b, 1, two)
  BY <1>2, <1>3, JoinedOneMore
<1>5. two \in Seq(S) /\ Len(two) = 2 /\ two[1] = a /\ two[2] = b
  BY <1>2, <1>4 DEF OneMore
<1>6. k = two \o <<c>>
  BY <1>1, <1>3 DEF Joined3
<1>7. OneMore(S, two, c, 2, k)
  BY <1>5, <1>6, JoinedOneMore
<1> QED BY <1>5, <1>7 DEF OneMore

LEMMA JoinedFour ==
  ASSUME NEW S, NEW a \in S, NEW b \in S, NEW c \in S, NEW d \in S, NEW k, Joined4(k, a, b, c, d)
  PROVE  Len(k) = 4 /\ k[1] = a /\ k[2] = b /\ k[3] = c /\ k[4] = d
<1>1. PICK t : Joined3(t, a, b, c)
  BY DEF Joined3
<1>2. t \in Seq(S) /\ Len(t) = 3 /\ t[1] = a /\ t[2] = b /\ t[3] = c
  BY <1>1, JoinedThree
<1>3. k = t \o <<d>>
  BY <1>1 DEF Joined3, Joined4
<1>4. OneMore(S, t, d, 3, k)
  BY <1>2, <1>3, JoinedOneMore
<1> QED BY <1>2, <1>4 DEF OneMore

\* A limit as compile leaves it, of a rule whose name has one part.
LimitTyped(r) ==
  r.limit.max \in Nat \ {0} /\ r.limit.window \in Nat \ {0} /\ r.limit.per \in {"global", "client"}
Plain(name) == \E x : name = <<x>>

\* One client's buckets for two rules, or two tools, are two.
LEMMA KeysDiffer ==
  ASSUME NEW r, NEW s, LimitTyped(r), LimitTyped(s), Plain(r.name), Plain(s.name),
         NEW client, NEW t, NEW u, Plain(client), Plain(t), Plain(u),
         KeyOf(r, client, t) = KeyOf(s, client, u)
  PROVE  r.name = s.name /\ t = u
<1>1. PICK rn, sn, cn, tn, un :
        r.name = <<rn>> /\ s.name = <<sn>> /\ client = <<cn>> /\ t = <<tn>> /\ u = <<un>>
  BY DEF Plain
<1> DEFINE S == {rn, sn, cn, tn, un, "global", "client"}
           k == KeyOf(r, client, t)
           l == KeyOf(s, client, u)
<1>2. /\ r.limit.per = "client" => Joined4(k, "client", cn, rn, tn)
      /\ r.limit.per # "client" => Joined3(k, "global", rn, tn)
      /\ s.limit.per = "client" => Joined4(l, "client", cn, sn, un)
      /\ s.limit.per # "client" => Joined3(l, "global", sn, un)
  BY <1>1 DEF KeyOf, Joined3, Joined4
<1>3. {rn, sn, cn, tn, un, "global", "client"} \subseteq S
  OBVIOUS
<1> HIDE DEF k, l, S
<1>4. /\ r.limit.per = "client" => Len(k) = 4 /\ k[3] = rn /\ k[4] = tn
      /\ r.limit.per # "client" => Len(k) = 3 /\ k[2] = rn /\ k[3] = tn
  BY <1>2, <1>3, JoinedThree, JoinedFour
<1>5. /\ s.limit.per = "client" => Len(l) = 4 /\ l[3] = sn /\ l[4] = un
      /\ s.limit.per # "client" => Len(l) = 3 /\ l[2] = sn /\ l[3] = un
  BY <1>2, <1>3, JoinedThree, JoinedFour
<1>6. k = l
  BY DEF k, l
<1>7. rn = sn /\ tn = un
  BY <1>4, <1>5, <1>6
<1> QED BY <1>1, <1>7

-----------------------------------------------------------------------------
(* The limits of a given file.                                             *)

LEMMA CompiledLimits ==
  ASSUME NEW fl \in GivenFiles, Valid(fl), NEW i \in DOMAIN fl.rules,
         CompileRule(fl, fl.rules[i]).limit # NoLimit
  PROVE  LimitTyped(CompileRule(fl, fl.rules[i]))
<1> DEFINE rule == fl.rules[i]
<1>1. CompileRule(fl, rule).limit = CompiledLimit(rule)
  BY DEF CompileRule
<1>2. rule.limit # NoLimit
  BY <1>1 DEF CompiledLimit
<1>3. PICK limit : limit = rule.limit
  OBVIOUS
<1>4. limit \in [max : Int, window : Int, per : {"", "global", "client"}]
  BY <1>2, <1>3, GivenFilesAssumption
<1>5. limit.max > 0 /\ limit.window > 0
  BY <1>2, <1>3 DEF Valid, RuleValid, LimitValid
<1>6. CompiledLimit(rule) = [limit EXCEPT !.per = IF @ = "" THEN "global" ELSE @]
  BY <1>2, <1>3 DEF CompiledLimit
<1>7. /\ CompiledLimit(rule).max = limit.max /\ CompiledLimit(rule).window = limit.window
      /\ CompiledLimit(rule).per \in {"global", "client"}
  BY <1>4, <1>6
<1>8. limit.max \in Nat \ {0} /\ limit.window \in Nat \ {0}
  <2>1. limit.max \in Int /\ limit.window \in Int
    BY <1>4
  <2> QED BY <1>5, <2>1
<1> HIDE DEF rule
<1>9. LimitTyped(CompileRule(fl, rule))
  BY <1>1, <1>7, <1>8 DEF LimitTyped
<1> QED BY <1>9 DEF rule

\* The step of the loop over the allow rules.
LimitedNext(tool, b, c, limited, rule) ==
  IF tool \in rule.tools /\ rule.limit # NoLimit THEN Append(limited, rule) ELSE limited
Limiting == INSTANCE Folding WITH Op <- LimitedNext

\* Each comes from a place of its own among the first n allow rules.
PickedFrom(p, n, limited, pos) ==
  /\ \A j \in 1..Len(limited) : /\ pos[j] \in 1..n
                                 /\ limited[j] = p.allow[pos[j]] /\ limited[j].limit # NoLimit
  /\ \A i, j \in 1..Len(limited) : i < j => pos[i] < pos[j]

LEMMA LimitedOnes ==
  ASSUME NEW p, NEW n \in Nat, DOMAIN p.allow = 1..n, NEW tool
  PROVE  LET limited == LimitedRules(p, tool)
         IN  /\ Len(limited) \in Nat /\ DOMAIN limited = 1..Len(limited)
             /\ \E pos : PickedFrom(p, n, limited, pos)
<1> DEFINE A == p.allow
           limited == LimitedRules(p, tool)
           K == {i \in 1..n : tool \in A[i].tools /\ A[i].limit # NoLimit}
           T == {A[i] : i \in 1..n}
<1>1. \A i \in K : i \in 1..n /\ A[i] \in T /\ A[i].limit # NoLimit
  OBVIOUS
<1>2. limited = Limiting!Folded(tool, 0, 0, << >>, A)
  BY DEF LimitedRules, LimitedNext, Limiting!Folded, FoldLeft, MapThenFoldSet,
         Limiting!FoldLeft, Limiting!MapThenFoldSet, Max, Limiting!Max
<1>3. Limiting!Unfolds(tool, 0, 0, << >>, n, A)
  BY Limiting!FoldSteps
<1>4. PICK f : /\ f[0] = << >>
               /\ \A i \in 1..n : f[i] = LimitedNext(tool, 0, 0, f[i - 1], A[i])
               /\ f[n] = Limiting!Folded(tool, 0, 0, << >>, A)
  BY <1>3 DEF Limiting!Unfolds
<1>5. \A i \in 1..n : f[i] = IF i \in K THEN Append(f[i - 1], A[i]) ELSE f[i - 1]
  BY <1>4 DEF LimitedNext
<1> HIDE DEF K, T, A, limited
<1>6. Limiting!Gathers(K, A, T, n, f)
  <2>1. n \in 0..n
    OBVIOUS
  <2> QED BY <1>1, <1>4, <1>5, <2>1, Limiting!Gathered
<1>7. PICK pos : Limiting!GatheredFrom(K, A, n, f[n], pos)
  BY <1>6 DEF Limiting!Gathers
<1>8. f[n] \in Seq(T) /\ limited = f[n]
  BY <1>2, <1>4, <1>6 DEF Limiting!Gathers
<1>9. PickedFrom(p, n, limited, pos)
  BY <1>1, <1>7, <1>8 DEF Limiting!GatheredFrom, PickedFrom, A
<1>10. Len(limited) \in Nat /\ DOMAIN limited = 1..Len(limited)
  BY <1>8
<1> QED BY <1>9, <1>10 DEF A, limited

\* The limited rules of a given file are a list of rules of different names
\* whose limits are in order.
LEMMA LimitsOfFile ==
  ASSUME NEW fl \in GivenFiles, Valid(fl), NEW tool
  PROVE  LET limited == LimitedRules(Compile(fl), tool)
         IN  /\ Len(limited) \in Nat /\ DOMAIN limited = 1..Len(limited)
             /\ \A j \in 1..Len(limited) :
                  /\ LimitTyped(limited[j])
                  /\ limited[j].limit.window \in Windows(Compile(fl))
                  /\ \E i \in DOMAIN fl.rules : limited[j].name = fl.rules[i].name
             /\ \A i, j \in 1..Len(limited) : i # j => limited[i].name # limited[j].name
<1> DEFINE p == Compile(fl)
           A == OfAction(fl, "allow")
           limited == LimitedRules(p, tool)
<1>1. p.allow = A
  BY DEF Compile
<1>2. PICK a : ListsIn(fl, "allow", A, a)
  BY GivenFilesAssumption, CompiledRules
<1>3. DOMAIN A = 1..Len(A) /\ Len(A) \in Nat
  BY <1>2 DEF ListsIn
<1>4. \A j \in 1..Len(A) : a[j] \in DOMAIN fl.rules /\ A[j] = CompileRule(fl, fl.rules[a[j]])
  BY <1>2 DEF ListsIn, RulesOf
<1>5. \A i, j \in 1..Len(A) : i < j => a[i] < a[j]
  BY <1>2 DEF ListsIn
<1> HIDE DEF A, p
<1>5a. DOMAIN p.allow = 1..Len(A) /\ Len(A) \in Nat
  BY <1>1, <1>3
<1>5b. PICK pos : PickedFrom(p, Len(A), limited, pos)
  BY <1>5a, LimitedOnes
<1>6. /\ \A j \in 1..Len(limited) :
           pos[j] \in 1..Len(A) /\ limited[j] = p.allow[pos[j]] /\ limited[j].limit # NoLimit
      /\ \A i, j \in 1..Len(limited) : i < j => pos[i] < pos[j]
  BY <1>5b DEF PickedFrom
<1>7. Len(limited) \in Nat /\ DOMAIN limited = 1..Len(limited)
  BY <1>5a, LimitedOnes
<1> HIDE DEF limited
<1>8. ASSUME NEW j \in 1..Len(limited)
      PROVE  /\ LimitTyped(limited[j])
             /\ limited[j].limit.window \in Windows(p)
             /\ \E i \in DOMAIN fl.rules : limited[j].name = fl.rules[i].name
  <2>1. /\ limited[j] = CompileRule(fl, fl.rules[a[pos[j]]]) /\ a[pos[j]] \in DOMAIN fl.rules
        /\ limited[j].limit # NoLimit /\ limited[j] = p.allow[pos[j]] /\ pos[j] \in DOMAIN p.allow
    BY <1>1, <1>3, <1>4, <1>6
  <2>2. LimitTyped(limited[j])
    BY <2>1, CompiledLimits
  <2>3. limited[j].limit.window \in Windows(p)
    BY <2>1 DEF Windows
  <2>4. limited[j].name = fl.rules[a[pos[j]]].name
    BY <2>1 DEF CompileRule
  <2> QED BY <2>1, <2>2, <2>3, <2>4
<1>9. ASSUME NEW i \in 1..Len(limited), NEW j \in 1..Len(limited), i < j
      PROVE  limited[i].name # limited[j].name
  <2>1. a[pos[i]] < a[pos[j]]
    BY <1>5, <1>6, <1>9
  <2>2. a[pos[i]] \in DOMAIN fl.rules /\ a[pos[j]] \in DOMAIN fl.rules
    BY <1>4, <1>6
  <2>3. /\ limited[i].name = fl.rules[a[pos[i]]].name
        /\ limited[j].name = fl.rules[a[pos[j]]].name
    <3>1. /\ limited[i] = CompileRule(fl, fl.rules[a[pos[i]]])
          /\ limited[j] = CompileRule(fl, fl.rules[a[pos[j]]])
      BY <1>1, <1>4, <1>6
    <3> QED BY <3>1 DEF CompileRule
  <2>4. a[pos[i]] # a[pos[j]]
    <3>1. a[pos[i]] \in Int /\ a[pos[j]] \in Int
      <4>1. DOMAIN fl.rules = 1..Len(fl.rules)
        BY GivenFilesAssumption
      <4> QED BY <2>2, <4>1
    <3> QED BY <2>1, <3>1
  <2> QED BY <2>2, <2>3, <2>4 DEF Valid
<1>10. \A i, j \in 1..Len(limited) : i # j => limited[i].name # limited[j].name
  BY <1>7, <1>9
<1> QED BY <1>7, <1>8, <1>10 DEF limited, p

-----------------------------------------------------------------------------
(* One call asks its limits, one after the other.                          *)

Count(buckets, key) == IF key \in DOMAIN buckets THEN buckets[key].count ELSE 0

Proper(buckets) ==
  \A k \in DOMAIN buckets :
    /\ buckets[k] = [start |-> buckets[k].start, count |-> buckets[k].count]
    /\ buckets[k].count \in Nat
\* No window begins later than now.
Begun(buckets, now) == \A k \in DOMAIN buckets : buckets[k].start \in 0..now

\* Asked of the limits of one rule, which have room or not.
LEMMA AskedOnce ==
  ASSUME NEW soFar, soFar.allowed, Proper(soFar.buckets), NEW r, LimitTyped(r),
         NEW client, NEW tool, NEW now, NEW key, key = KeyOf(r, client, tool),
         NEW next, next = Asked(soFar, r, client, tool, now)
  PROVE  /\ next.allowed \in BOOLEAN /\ Proper(next.buckets)
         /\ \A k : k # key => Count(next.buckets, k) = Count(soFar.buckets, k)
         /\ Count(next.buckets, key) <= Count(soFar.buckets, key) + 1
         /\ Count(soFar.buckets, key) < r.limit.max => next.allowed
         /\ now \in Nat /\ Begun(soFar.buckets, now) => Begun(next.buckets, now)
         /\ now \in Nat /\ now < r.limit.window /\ Begun(soFar.buckets, now) =>
              /\ next.allowed <=> Count(soFar.buckets, key) < r.limit.max
              /\ Count(next.buckets, key) =
                   IF next.allowed THEN Count(soFar.buckets, key) + 1 ELSE Count(soFar.buckets, key)
<1> DEFINE found == BucketAt(soFar.buckets, key, now)
           bucket == Current(found, r.limit.window, now)
           full == Exhausted(bucket, r.limit.max)
           after == IF full THEN bucket ELSE [bucket EXCEPT !.count = @ + 1]
           n == Count(soFar.buckets, key)
<1>1. r.limit.max \in Nat \ {0} /\ r.limit.window \in Nat \ {0}
  BY DEF LimitTyped
<1>2. n \in Nat
  BY DEF Proper, Count
<1>3. found = [start |-> found.start, count |-> n]
  BY DEF BucketAt, Proper, Count
<1>4. now \in Nat /\ Begun(soFar.buckets, now) => found.start \in 0..now
  BY DEF BucketAt, Begun
<1>5. next.buckets = Stored(soFar.buckets, key, after) /\ next.allowed = ~full
  BY DEF Asked
<1> HIDE DEF found, n
<1>6. \/ bucket = [start |-> found.start, count |-> n]
      \/ bucket = [start |-> now, count |-> 0]
  BY <1>3 DEF Current, Rotated
<1>7. now \in Nat /\ Begun(soFar.buckets, now) => bucket.start \in 0..now
  BY <1>4 DEF Current, Rotated
<1>8. now \in Nat /\ now < r.limit.window /\ Begun(soFar.buckets, now) =>
        bucket = [start |-> found.start, count |-> n]
  <2>1. now \in Nat /\ now < r.limit.window /\ found.start \in 0..now => ~(now - found.start >= r.limit.window)
    BY <1>1
  <2> QED BY <1>3, <1>4, <2>1 DEF Current
<1> HIDE DEF bucket
<1>9. full <=> bucket.count >= r.limit.max
  BY DEF Exhausted
<1>10. bucket = [start |-> bucket.start, count |-> bucket.count] /\ bucket.count \in {0, n}
  BY <1>6
<1> HIDE DEF full
<1>11. /\ after = [start |-> bucket.start, count |-> after.count]
       /\ after.count = IF full THEN bucket.count ELSE bucket.count + 1
  BY <1>10
<1>12. after.count \in Nat /\ after.count <= n + 1
  BY <1>2, <1>10, <1>11
<1>13. n < r.limit.max => ~full
  BY <1>1, <1>2, <1>9, <1>10
<1> HIDE DEF after
<1>14. /\ key \in DOMAIN next.buckets /\ next.buckets[key] = after
       /\ DOMAIN next.buckets = DOMAIN soFar.buckets \cup {key}
       /\ \A k \in DOMAIN soFar.buckets : k # key => next.buckets[k] = soFar.buckets[k]
  BY <1>5 DEF Stored
<1>15. Proper(next.buckets)
  BY <1>11, <1>12, <1>14 DEF Proper
<1>16. Count(next.buckets, key) = after.count
  BY <1>14 DEF Count
<1>17. \A k : k # key => Count(next.buckets, k) = Count(soFar.buckets, k)
  BY <1>14 DEF Count
<1>18. now \in Nat /\ Begun(soFar.buckets, now) => Begun(next.buckets, now)
  <2>1. after.start = bucket.start
    BY <1>11
  <2> QED BY <1>7, <1>14, <2>1 DEF Begun
<1>19. ASSUME now \in Nat, now < r.limit.window, Begun(soFar.buckets, now)
       PROVE  /\ ~full <=> n < r.limit.max
              /\ after.count = IF ~full THEN n + 1 ELSE n
  <2>1. bucket.count = n
    BY <1>8, <1>19
  <2> QED BY <1>1, <1>2, <1>9, <1>11, <2>1
<1>20. full \in BOOLEAN
  BY DEF full, Exhausted
<1> QED BY <1>5, <1>12, <1>13, <1>15, <1>16, <1>17, <1>18, <1>19, <1>20 DEF n

\* The step of the loop that asks them.
AskedNext(client, tool, now, soFar, rule) == Asked(soFar, rule, client, tool, now)
Asking == INSTANCE Folding WITH Op <- AskedNext

\* Between two of them.
Asks(f, buckets, limited, m, client, tool, now) ==
  /\ f[0] = [buckets |-> buckets, allowed |-> TRUE]
  /\ \A i \in 1..m : f[i] = Asked(f[i - 1], limited[i], client, tool, now)

LEMMA EvaluateSteps ==
  ASSUME NEW p, NEW buckets, NEW client, NEW call, NEW now, NEW m \in Nat,
         DOMAIN LimitedRules(p, call.tool) = 1..m, Evaluate(p, call).action = "allow"
  PROVE  \E f : /\ Asks(f, buckets, LimitedRules(p, call.tool), m, client, call.tool, now)
                /\ f[m] = EvaluateIn(p, buckets, client, call, now)
<1> DEFINE limited == LimitedRules(p, call.tool)
           base == [buckets |-> buckets, allowed |-> TRUE]
<1> HIDE DEF limited, base
<1>1. EvaluateIn(p, buckets, client, call, now) =
        Asking!Folded(client, call.tool, now, base, limited)
  BY DEF EvaluateIn, AskedNext, Asking!Folded, FoldLeft, MapThenFoldSet,
         Asking!FoldLeft, Asking!MapThenFoldSet, Max, Asking!Max, limited, base
<1>2. Asking!Unfolds(client, call.tool, now, base, m, limited)
  BY Asking!FoldSteps DEF limited
<1>3. PICK f : /\ f[0] = base
               /\ \A i \in 1..m : f[i] = AskedNext(client, call.tool, now, f[i - 1], limited[i])
               /\ f[m] = Asking!Folded(client, call.tool, now, base, limited)
  BY <1>2 DEF Asking!Unfolds
<1>4. Asks(f, buckets, limited, m, client, call.tool, now)
  BY <1>3 DEF Asks, AskedNext, base
<1> QED BY <1>1, <1>3, <1>4 DEF limited

\* Limits in order, each with a bucket of its own.
Apart(limited, m, client, tool) ==
  /\ \A j \in 1..m : LimitTyped(limited[j])
  /\ \A i, j \in 1..m : i # j => KeyOf(limited[i], client, tool) # KeyOf(limited[j], client, tool)

\* What holds between two of them at any speed, ...
LEMMA AsksAnyhow ==
  ASSUME NEW m \in Nat, NEW limited, NEW client, NEW tool, NEW now, NEW buckets, NEW f,
         Apart(limited, m, client, tool), Asks(f, buckets, limited, m, client, tool, now),
         Proper(buckets)
  PROVE  /\ f[m].allowed \in BOOLEAN /\ Proper(f[m].buckets)
         /\ now \in Nat /\ Begun(buckets, now) => Begun(f[m].buckets, now)
         /\ \A k : (\A j \in 1..m : k # KeyOf(limited[j], client, tool)) =>
              Count(f[m].buckets, k) = Count(buckets, k)
         /\ \A j \in 1..m :
              Count(f[m].buckets, KeyOf(limited[j], client, tool))
                <= Count(buckets, KeyOf(limited[j], client, tool)) + 1
         /\ (\A j \in 1..m : Count(buckets, KeyOf(limited[j], client, tool)) < limited[j].limit.max) =>
              f[m].allowed
<1> DEFINE key(j) == KeyOf(limited[j], client, tool)
           n(j) == Count(buckets, key(j))
           Good(i) ==
             /\ f[i].allowed \in BOOLEAN /\ Proper(f[i].buckets)
             /\ now \in Nat /\ Begun(buckets, now) => Begun(f[i].buckets, now)
             /\ \A k : (\A j \in 1..i : k # key(j)) => Count(f[i].buckets, k) = Count(buckets, k)
             /\ \A j \in 1..i : Count(f[i].buckets, key(j)) <= n(j) + 1
             /\ (\A j \in 1..i : n(j) < limited[j].limit.max) => f[i].allowed
           P == {i \in 0..m : Good(i)}
<1>1. \A j \in 1..m : n(j) \in Nat
  BY DEF Proper, Count
<1>2. \A j \in 1..m : LimitTyped(limited[j]) /\ limited[j].limit.max \in Nat
  BY DEF Apart, LimitTyped
<1>3. \A i, j \in 1..m : i # j => key(i) # key(j)
  BY DEF Apart
<1>4. 0 \in P
  <2>1. f[0] = [buckets |-> buckets, allowed |-> TRUE]
    BY DEF Asks
  <2>2. Good(0)
    <3> HIDE DEF n, key
    <3> QED BY <2>1
  <2> QED BY <2>2
<1>5. ASSUME NEW i \in 1..m, i - 1 \in P PROVE i \in P
  <2>1. Good(i - 1) /\ (i - 1) + 1 = i /\ i \in 0..m
    BY <1>5
  <2>2. f[i] = Asked(f[i - 1], limited[i], client, tool, now)
    BY DEF Asks
  <2>3. \A j \in 1..i - 1 : j \in 1..m /\ j # i /\ key(j) # key(i)
    <3> HIDE DEF key
    <3> QED BY <1>3
  <2>4. \A j \in 1..i : j \in 1..i - 1 \/ j = i
    OBVIOUS
  <2>5. \A j \in 1..i - 1 : j \in 1..i
    OBVIOUS
  <2>6. CASE ~f[i - 1].allowed
    <3>1. f[i] = f[i - 1]
      BY <2>2, <2>6 DEF Asked
    <3>2. ~(\A j \in 1..i : n(j) < limited[j].limit.max)
      <4> HIDE DEF n, key
      <4> QED BY <2>1, <2>5, <2>6
    <3>3. Count(f[i].buckets, key(i)) = n(i) /\ n(i) \in Nat
      <4>1. Count(f[i - 1].buckets, key(i)) = n(i)
        <5> HIDE DEF key
        <5> QED BY <2>1, <2>3
      <4> QED BY <1>1, <3>1, <4>1
    <3>4. \A j \in 1..i : Count(f[i].buckets, key(j)) <= n(j) + 1
      <4> HIDE DEF n, key
      <4>1. Count(f[i].buckets, key(i)) <= n(i) + 1
        BY <3>3
      <4> QED BY <2>1, <2>4, <3>1, <4>1
    <3>5. Good(i)
      <4> HIDE DEF n, key
      <4> QED BY <2>1, <2>5, <3>1, <3>2, <3>4
    <3> QED BY <2>1, <3>5
  <2>7. CASE f[i - 1].allowed
    <3>1. PICK k0 : k0 = key(i)
      OBVIOUS
    <3>2. PICK old, new : old = f[i - 1] /\ new = f[i]
      OBVIOUS
    <3>3. /\ new.allowed \in BOOLEAN /\ Proper(new.buckets)
          /\ \A k : k # k0 => Count(new.buckets, k) = Count(old.buckets, k)
          /\ Count(new.buckets, k0) <= Count(old.buckets, k0) + 1
          /\ Count(old.buckets, k0) < limited[i].limit.max => new.allowed
          /\ now \in Nat /\ Begun(old.buckets, now) => Begun(new.buckets, now)
      <4>1. old.allowed /\ Proper(old.buckets) /\ LimitTyped(limited[i])
        BY <1>2, <2>1, <2>7, <3>2
      <4>2. new = Asked(old, limited[i], client, tool, now) /\ k0 = KeyOf(limited[i], client, tool)
        BY <2>2, <3>1, <3>2
      <4> QED BY <4>1, <4>2, AskedOnce
    <3>4. Count(old.buckets, k0) = n(i)
      <4> HIDE DEF key
      <4> QED BY <2>1, <2>3, <3>1, <3>2
    <3> HIDE DEF n, key
    <3>5. \A j \in 1..i : Count(new.buckets, key(j)) <= n(j) + 1
      <4>1. Count(new.buckets, key(i)) <= n(i) + 1
        BY <3>1, <3>3, <3>4
      <4> QED BY <2>1, <2>3, <2>4, <3>1, <3>2, <3>3, <4>1
    <3>6. (\A j \in 1..i : n(j) < limited[j].limit.max) => new.allowed
      BY <3>3, <3>4
    <3>7. \A k : (\A j \in 1..i : k # key(j)) => Count(new.buckets, k) = Count(buckets, k)
      BY <2>1, <2>5, <3>1, <3>2, <3>3
    <3>8. now \in Nat /\ Begun(buckets, now) => Begun(new.buckets, now)
      BY <2>1, <3>2, <3>3
    <3>9. Good(i)
      BY <3>2, <3>3, <3>5, <3>6, <3>7, <3>8
    <3> QED BY <2>1, <3>9
  <2> QED BY <2>1, <2>6, <2>7
<1>6. \A i \in 0..m : i \in P
  <2> HIDE DEF P
  <2> QED BY <1>4, <1>5, Asking!UpTo
<1>7. Good(m)
  <2>1. m \in 0..m
    OBVIOUS
  <2>2. m \in P
    <3> HIDE DEF P
    <3> QED BY <1>6, <2>1
  <2> HIDE DEF Good
  <2> QED BY <2>2
<1> QED BY <1>7

\* ... and what holds when no window can have expired.
LEMMA AsksQuickly ==
  ASSUME NEW m \in Nat, NEW limited, NEW client, NEW tool, NEW now \in Nat, NEW buckets, NEW f,
         Apart(limited, m, client, tool), Asks(f, buckets, limited, m, client, tool, now),
         Proper(buckets), Begun(buckets, now),
         \A j \in 1..m : now < limited[j].limit.window
  PROVE  /\ \A k : Count(buckets, k) <= Count(f[m].buckets, k)
         /\ f[m].allowed => \A j \in 1..m :
              /\ Count(buckets, KeyOf(limited[j], client, tool)) < limited[j].limit.max
              /\ Count(f[m].buckets, KeyOf(limited[j], client, tool)) =
                   Count(buckets, KeyOf(limited[j], client, tool)) + 1
         /\ ~f[m].allowed => \E j \in 1..m :
              Count(f[m].buckets, KeyOf(limited[j], client, tool)) >= limited[j].limit.max
<1> DEFINE key(j) == KeyOf(limited[j], client, tool)
           n(j) == Count(buckets, key(j))
           Good(i) ==
             /\ f[i].allowed \in BOOLEAN /\ Proper(f[i].buckets) /\ Begun(f[i].buckets, now)
             /\ \A k : Count(buckets, k) <= Count(f[i].buckets, k)
             /\ \A k : (\A j \in 1..i : k # key(j)) => Count(f[i].buckets, k) = Count(buckets, k)
             /\ f[i].allowed => \A j \in 1..i :
                  n(j) < limited[j].limit.max /\ Count(f[i].buckets, key(j)) = n(j) + 1
             /\ ~f[i].allowed => \E j \in 1..i :
                  Count(f[i].buckets, key(j)) >= limited[j].limit.max
           P == {i \in 0..m : Good(i)}
<1>1. \A k : Count(buckets, k) \in Nat
  BY DEF Proper, Count
<1>2. \A j \in 1..m : LimitTyped(limited[j]) /\ limited[j].limit.max \in Nat
  BY DEF Apart, LimitTyped
<1>3. \A i, j \in 1..m : i # j => key(i) # key(j)
  BY DEF Apart
<1>4. 0 \in P
  <2>1. f[0] = [buckets |-> buckets, allowed |-> TRUE]
    BY DEF Asks
  <2>2. Good(0)
    <3> HIDE DEF n, key
    <3> QED BY <1>1, <2>1
  <2> QED BY <2>2
<1>5. ASSUME NEW i \in 1..m, i - 1 \in P PROVE i \in P
  <2>1. Good(i - 1) /\ (i - 1) + 1 = i /\ i \in 0..m
    BY <1>5
  <2>2. f[i] = Asked(f[i - 1], limited[i], client, tool, now)
    BY DEF Asks
  <2>3. \A j \in 1..i - 1 : j \in 1..m /\ j # i /\ key(j) # key(i)
    <3> HIDE DEF key
    <3> QED BY <1>3
  <2>4. \A j \in 1..i : j \in 1..i - 1 \/ j = i
    OBVIOUS
  <2>5. (\A j \in 1..i - 1 : j \in 1..i) /\ i \in 1..i
    OBVIOUS
  <2>6. CASE ~f[i - 1].allowed
    <3>1. f[i] = f[i - 1]
      BY <2>2, <2>6 DEF Asked
    <3>2. PICK j \in 1..i - 1 : Count(f[i - 1].buckets, key(j)) >= limited[j].limit.max
      <4> HIDE DEF key, n
      <4> QED BY <2>1, <2>6
    <3>3. Good(i)
      <4> HIDE DEF n, key
      <4> QED BY <2>1, <2>5, <2>6, <3>1, <3>2
    <3> QED BY <2>1, <3>3
  <2>7. CASE f[i - 1].allowed
    <3>1. PICK k0 : k0 = key(i)
      OBVIOUS
    <3>2. PICK old, new : old = f[i - 1] /\ new = f[i]
      OBVIOUS
    <3>3. /\ new.allowed \in BOOLEAN /\ Proper(new.buckets) /\ Begun(new.buckets, now)
          /\ \A k : k # k0 => Count(new.buckets, k) = Count(old.buckets, k)
          /\ new.allowed <=> Count(old.buckets, k0) < limited[i].limit.max
          /\ Count(new.buckets, k0) =
               IF new.allowed THEN Count(old.buckets, k0) + 1 ELSE Count(old.buckets, k0)
      <4>1. old.allowed /\ Proper(old.buckets) /\ LimitTyped(limited[i]) /\ Begun(old.buckets, now)
        BY <1>2, <2>1, <2>7, <3>2
      <4>2. new = Asked(old, limited[i], client, tool, now) /\ k0 = KeyOf(limited[i], client, tool)
        BY <2>2, <3>1, <3>2
      <4>3. now < limited[i].limit.window
        OBVIOUS
      <4> QED BY <4>1, <4>2, <4>3, AskedOnce
    <3>4. Count(old.buckets, k0) = n(i) /\ n(i) = Count(buckets, k0)
      <4> HIDE DEF key
      <4> QED BY <2>1, <2>3, <3>1, <3>2
    <3>5. n(i) \in Nat /\ limited[i].limit.max \in Nat
      BY <1>1, <1>2
    <3> HIDE DEF n, key
    <3>6. \A k : Count(buckets, k) <= Count(new.buckets, k)
      BY <1>1, <2>1, <3>2, <3>3, <3>4, <3>5
    <3>7. \A k : (\A j \in 1..i : k # key(j)) => Count(new.buckets, k) = Count(buckets, k)
      BY <2>1, <2>5, <3>1, <3>2, <3>3
    <3>8. ASSUME new.allowed, NEW j \in 1..i
          PROVE  n(j) < limited[j].limit.max /\ Count(new.buckets, key(j)) = n(j) + 1
      <4>1. CASE j = i
        BY <3>1, <3>3, <3>4, <3>8, <4>1
      <4>2. CASE j \in 1..i - 1
        BY <2>1, <2>3, <2>7, <3>1, <3>2, <3>3, <4>2
      <4> QED BY <2>4, <4>1, <4>2
    <3>9. ASSUME ~new.allowed
          PROVE  Count(new.buckets, key(i)) >= limited[i].limit.max
      BY <3>1, <3>3, <3>4, <3>5, <3>9
    <3>10. Good(i)
      BY <2>5, <3>2, <3>3, <3>6, <3>7, <3>8, <3>9
    <3> QED BY <2>1, <3>10
  <2> QED BY <2>1, <2>6, <2>7
<1>6. \A i \in 0..m : i \in P
  <2> HIDE DEF P
  <2> QED BY <1>4, <1>5, Asking!UpTo
<1>7. Good(m)
  <2>1. m \in 0..m
    OBVIOUS
  <2>2. m \in P
    <3> HIDE DEF P
    <3> QED BY <1>6, <2>1
  <2> HIDE DEF Good
  <2> QED BY <2>2
<1> QED BY <1>7

-----------------------------------------------------------------------------
(* One call of a session.                                                  *)

\* Names without a colon: each is one part; and no rule is about the tool whose
\* name is empty.
PlainNames ==
  /\ \A e \in Recorded : IsCall(e) => Plain(e.client) /\ Plain(e.call.tool)
  /\ \A f \in GivenFiles : Valid(f) => \A i \in DOMAIN f.rules :
       Plain(f.rules[i].name) /\ NoTool \notin Covers(f, f.rules[i])

LEMMA LimitsApart ==
  ASSUME PlainNames, NEW fl \in GivenFiles, Valid(fl), NEW client, NEW tool,
         Plain(client), Plain(tool)
  PROVE  LET limited == LimitedRules(Compile(fl), tool)
         IN  /\ Len(limited) \in Nat /\ DOMAIN limited = 1..Len(limited)
             /\ Apart(limited, Len(limited), client, tool)
             /\ \A j \in 1..Len(limited) : limited[j].limit.window \in Windows(Compile(fl))
             /\ \A j \in 1..Len(limited) : Plain(limited[j].name)
<1> DEFINE limited == LimitedRules(Compile(fl), tool)
<1>1. /\ Len(limited) \in Nat /\ DOMAIN limited = 1..Len(limited)
      /\ \A j \in 1..Len(limited) :
           /\ LimitTyped(limited[j])
           /\ limited[j].limit.window \in Windows(Compile(fl))
           /\ \E i \in DOMAIN fl.rules : limited[j].name = fl.rules[i].name
      /\ \A i, j \in 1..Len(limited) : i # j => limited[i].name # limited[j].name
  BY LimitsOfFile
<1> HIDE DEF limited
<1>2. \A j \in 1..Len(limited) : Plain(limited[j].name)
  BY <1>1 DEF PlainNames
<1>3. ASSUME NEW i \in 1..Len(limited), NEW j \in 1..Len(limited), i # j
      PROVE  KeyOf(limited[i], client, tool) # KeyOf(limited[j], client, tool)
  <2>1. PICK r, s : r = limited[i] /\ s = limited[j]
    OBVIOUS
  <2>2. /\ LimitTyped(r) /\ LimitTyped(s) /\ Plain(r.name) /\ Plain(s.name) /\ r.name # s.name
    BY <1>1, <1>2, <1>3, <2>1
  <2>3. KeyOf(r, client, tool) # KeyOf(s, client, tool)
    BY <2>2, KeysDiffer
  <2> QED BY <2>1, <2>3
<1>4. Apart(limited, Len(limited), client, tool)
  BY <1>1, <1>3 DEF Apart
<1> QED BY <1>1, <1>2, <1>4 DEF limited

\* The verdict on a call that the rules deny, and on one without limits.
LEMMA EvaluateDenied ==
  ASSUME NEW p, NEW buckets, NEW client, NEW call, NEW now, Evaluate(p, call).action # "allow"
  PROVE  EvaluateIn(p, buckets, client, call, now) = [buckets |-> buckets, allowed |-> FALSE]
  BY DEF EvaluateIn

\* The buckets that the limits have.
KeysOf(limited, client, tool) == {KeyOf(limited[j], client, tool) : j \in 1..Len(limited)}

\* A call keeps the buckets in order, whenever it comes.
LEMMA EvaluateAnyhow ==
  ASSUME PlainNames, NEW fl \in GivenFiles, Valid(fl), NEW buckets, Proper(buckets),
         NEW e, Plain(e.client), Plain(e.call.tool), NEW now,
         NEW limited, limited = LimitedRules(Compile(fl), e.call.tool),
         NEW v, v = EvaluateIn(Compile(fl), buckets, e.client, e.call, now)
  PROVE  /\ v.allowed \in BOOLEAN /\ Proper(v.buckets)
         /\ now \in Nat /\ Begun(buckets, now) => Begun(v.buckets, now)
         /\ v.allowed => Evaluate(Compile(fl), e.call).action = "allow"
         /\ limited = << >> /\ Evaluate(Compile(fl), e.call).action = "allow" => v.allowed
         /\ \A k : k \notin KeysOf(limited, e.client, e.call.tool) =>
              Count(v.buckets, k) = Count(buckets, k)
         /\ \A j \in 1..Len(limited) :
              Count(v.buckets, KeyOf(limited[j], e.client, e.call.tool))
                <= Count(buckets, KeyOf(limited[j], e.client, e.call.tool)) + 1
         /\ /\ Evaluate(Compile(fl), e.call).action = "allow"
            /\ \A j \in 1..Len(limited) :
                 Count(buckets, KeyOf(limited[j], e.client, e.call.tool)) < limited[j].limit.max
            => v.allowed
<1> DEFINE p == Compile(fl)
<1>1. /\ Len(limited) \in Nat /\ DOMAIN limited = 1..Len(limited)
      /\ Apart(limited, Len(limited), e.client, e.call.tool)
  BY LimitsApart
<1>2. \A k : Count(buckets, k) \in Nat
  BY DEF Proper, Count
<1> HIDE DEF p
<1>3. CASE Evaluate(p, e.call).action # "allow"
  <2>1. v = [buckets |-> buckets, allowed |-> FALSE]
    BY <1>3, EvaluateDenied DEF p
  <2>2. \A k : Count(buckets, k) <= Count(buckets, k) + 1
    BY <1>2
  <2> QED BY <1>3, <2>1, <2>2 DEF p
<1>4. CASE Evaluate(p, e.call).action = "allow"
  <2>1. PICK f : /\ Asks(f, buckets, limited, Len(limited), e.client, e.call.tool, now)
                 /\ f[Len(limited)] = v
    BY <1>1, <1>4, EvaluateSteps DEF p
  <2>2. /\ v.allowed \in BOOLEAN /\ Proper(v.buckets)
        /\ now \in Nat /\ Begun(buckets, now) => Begun(v.buckets, now)
        /\ \A k : (\A j \in 1..Len(limited) : k # KeyOf(limited[j], e.client, e.call.tool)) =>
             Count(v.buckets, k) = Count(buckets, k)
        /\ \A j \in 1..Len(limited) :
             Count(v.buckets, KeyOf(limited[j], e.client, e.call.tool))
               <= Count(buckets, KeyOf(limited[j], e.client, e.call.tool)) + 1
        /\ (\A j \in 1..Len(limited) :
              Count(buckets, KeyOf(limited[j], e.client, e.call.tool)) < limited[j].limit.max)
             => v.allowed
    BY <1>1, <2>1, AsksAnyhow
  <2>3. limited = << >> => v.allowed
    <3>1. limited = << >> => Len(limited) = 0
      OBVIOUS
    <3> QED BY <2>1, <3>1 DEF Asks
  <2>4. \A k : k \notin KeysOf(limited, e.client, e.call.tool) =>
          Count(v.buckets, k) = Count(buckets, k)
    BY <2>2 DEF KeysOf
  <2> QED BY <1>4, <2>2, <2>3, <2>4 DEF p
<1> QED BY <1>3, <1>4

\* And when no window can have expired it takes one of each, or some limit is
\* used up.
LEMMA EvaluateQuickly ==
  ASSUME PlainNames, NEW fl \in GivenFiles, Valid(fl), NEW buckets, Proper(buckets),
         NEW e, Plain(e.client), Plain(e.call.tool), NEW now \in Nat, Begun(buckets, now),
         \A w \in Windows(Compile(fl)) : now < w,
         Evaluate(Compile(fl), e.call).action = "allow",
         NEW limited, limited = LimitedRules(Compile(fl), e.call.tool),
         NEW v, v = EvaluateIn(Compile(fl), buckets, e.client, e.call, now)
  PROVE  /\ \A k : Count(buckets, k) <= Count(v.buckets, k)
         /\ v.allowed => \A j \in 1..Len(limited) :
              /\ Count(buckets, KeyOf(limited[j], e.client, e.call.tool)) < limited[j].limit.max
              /\ Count(v.buckets, KeyOf(limited[j], e.client, e.call.tool)) =
                   Count(buckets, KeyOf(limited[j], e.client, e.call.tool)) + 1
         /\ ~v.allowed => \E j \in 1..Len(limited) :
              Count(v.buckets, KeyOf(limited[j], e.client, e.call.tool)) >= limited[j].limit.max
<1>1. /\ Len(limited) \in Nat /\ DOMAIN limited = 1..Len(limited)
      /\ Apart(limited, Len(limited), e.client, e.call.tool)
      /\ \A j \in 1..Len(limited) : limited[j].limit.window \in Windows(Compile(fl))
  BY LimitsApart
<1>2. \A j \in 1..Len(limited) : now < limited[j].limit.window
  BY <1>1
<1>3. PICK f : /\ Asks(f, buckets, limited, Len(limited), e.client, e.call.tool, now)
               /\ f[Len(limited)] = v
  BY <1>1, EvaluateSteps
<1> QED BY <1>1, <1>2, <1>3, AsksQuickly

\* The step of the engine that judged at the recorded times.
LiveNext(p, b, c, sofar, e) == EvaluateIn(p, sofar.buckets, e.client, e.call, e.at)
Living == INSTANCE Folding WITH Op <- LiveNext

Judges(p, events, n, live) ==
  /\ live[0] = [buckets |-> NoBuckets, allowed |-> FALSE]
  /\ \A i \in 1..n :
       live[i] = EvaluateIn(p, live[i - 1].buckets, events[i].client, events[i].call, events[i].at)

LEMMA LiveSteps ==
  ASSUME NEW p, NEW events, NEW n \in Nat, Len(events) = n, DOMAIN events = 1..n
  PROVE  Judges(p, events, n, Live(p, events))
<1> DEFINE base == [buckets |-> NoBuckets, allowed |-> FALSE]
           Value(g, i) == IF i = 0 THEN base
                          ELSE EvaluateIn(p, g[i - 1].buckets,
                                          events[i].client, events[i].call, events[i].at)
           live == CHOOSE g : g = [i \in 0..n |-> Value(g, i)]
<1>1. Live(p, events) = live
  BY DEF Live
<1>2. Living!Unfolds(p, 0, 0, base, n, events)
  BY Living!FoldSteps
<1>3. PICK f : /\ f[0] = base
               /\ \A i \in 1..n : f[i] = LiveNext(p, 0, 0, f[i - 1], events[i])
  BY <1>2 DEF Living!Unfolds
<1> DEFINE h == [i \in 0..n |-> f[i]]
<1>4. h = [i \in 0..n |-> Value(h, i)]
  <2>1. ASSUME NEW i \in 0..n PROVE h[i] = Value(h, i)
    <3>1. CASE i = 0
      BY <1>3, <3>1
    <3>2. CASE i # 0
      <4>1. i \in 1..n /\ i - 1 \in 0..n
        BY <3>2
      <4>2. h[i] = f[i] /\ h[i - 1] = f[i - 1]
        BY <4>1
      <4> HIDE DEF h
      <4> QED BY <1>3, <3>2, <4>1, <4>2 DEF LiveNext
    <3> QED BY <3>1, <3>2
  <2> QED BY <2>1
<1>5. live = [i \in 0..n |-> Value(live, i)]
  <2> HIDE DEF Value, h
  <2> QED BY <1>4
<1>6. \A i \in 0..n : live[i] = Value(live, i)
  <2> HIDE DEF live, Value
  <2> QED BY <1>5
<1> HIDE DEF live
<1>7. live[0] = base
  <2>1. 0 \in 0..n
    OBVIOUS
  <2> QED BY <1>6, <2>1
<1>8. ASSUME NEW i \in 1..n PROVE live[i] = Value(live, i) /\ i # 0
  BY <1>6
<1> QED BY <1>1, <1>7, <1>8 DEF Judges

\* Its buckets are in order.
LEMMA LiveProper ==
  ASSUME PlainNames, NEW fl \in GivenFiles, Valid(fl),
         NEW events, NEW n \in Nat, Len(events) = n, DOMAIN events = 1..n,
         \A i \in 1..n : Plain(events[i].client) /\ Plain(events[i].call.tool)
  PROVE  \A i \in 0..n : Proper(Live(Compile(fl), events)[i].buckets)
<1> DEFINE L == Live(Compile(fl), events)
           P == {i \in 0..n : Proper(L[i].buckets)}
<1>0. Judges(Compile(fl), events, n, L)
  BY LiveSteps
<1> HIDE DEF L
<1>1. /\ L[0] = [buckets |-> NoBuckets, allowed |-> FALSE]
      /\ \A i \in 1..n : L[i] = EvaluateIn(Compile(fl), L[i - 1].buckets,
                                           events[i].client, events[i].call, events[i].at)
  BY <1>0 DEF Judges
<1>2. 0 \in P
  BY <1>1 DEF Proper, NoBuckets
<1>3. ASSUME NEW i \in 1..n, i - 1 \in P PROVE i \in P
  <2>1. PICK e : e = events[i] /\ Plain(e.client) /\ Plain(e.call.tool)
    OBVIOUS
  <2>2. L[i] = EvaluateIn(Compile(fl), L[i - 1].buckets, e.client, e.call, e.at)
    BY <1>1, <2>1
  <2>3. PICK old, new : old = L[i - 1].buckets /\ new = L[i]
    OBVIOUS
  <2>4. Proper(old) /\ new = EvaluateIn(Compile(fl), old, e.client, e.call, e.at)
    BY <1>3, <2>2, <2>3
  <2>5. Proper(new.buckets)
    BY <2>1, <2>4, EvaluateAnyhow
  <2> QED BY <2>3, <2>5
<1>4. \A i \in 0..n : i \in P
  <2> HIDE DEF P
  <2> QED BY <1>2, <1>3, Living!UpTo
<1> QED BY <1>4 DEF L

-----------------------------------------------------------------------------
(* The calls of a recording.                                               *)

CallsNext(a, b, c, calls, e) == IF IsCall(e) THEN Append(calls, e) ELSE calls
Calling == INSTANCE Folding WITH Op <- CallsNext

LEMMA CallsSteps ==
  ASSUME NEW n \in Nat, NEW events, DOMAIN events = 1..n
  PROVE  \E f : /\ f[0] = << >>
                /\ \A i \in 1..n :
                     f[i] = IF IsCall(events[i]) THEN Append(f[i - 1], events[i]) ELSE f[i - 1]
                /\ f[n] = CallsOf(events)
<1>1. CallsOf(events) = Calling!Folded(0, 0, 0, << >>, events)
  BY DEF CallsOf, CallsNext, Calling!Folded, FoldLeft, MapThenFoldSet,
         Calling!FoldLeft, Calling!MapThenFoldSet, Max, Calling!Max
<1>2. Calling!Unfolds(0, 0, 0, << >>, n, events)
  BY Calling!FoldSteps
<1>3. PICK f : /\ f[0] = << >>
               /\ \A i \in 1..n : f[i] = CallsNext(0, 0, 0, f[i - 1], events[i])
               /\ f[n] = Calling!Folded(0, 0, 0, << >>, events)
  BY <1>2 DEF Calling!Unfolds
<1> QED BY <1>1, <1>3 DEF CallsNext

\* Of the first p events, too.
LEMMA CallsOfPrefix ==
  ASSUME NEW T, NEW s \in Seq(T), NEW f, f[0] = << >>,
         \A i \in 1..Len(s) : f[i] = IF IsCall(s[i]) THEN Append(f[i - 1], s[i]) ELSE f[i - 1],
         NEW p \in 0..Len(s)
  PROVE  CallsOf(SubSeq(s, 1, p)) = f[p]
<1> DEFINE t == SubSeq(s, 1, p)
<1>1. p \in Nat /\ DOMAIN t = 1..p /\ \A i \in 1..p : t[i] = s[i] /\ i \in 1..Len(s)
  OBVIOUS
<1> HIDE DEF t
<1>2. PICK g : /\ g[0] = << >>
               /\ \A i \in 1..p : g[i] = IF IsCall(t[i]) THEN Append(g[i - 1], t[i]) ELSE g[i - 1]
               /\ g[p] = CallsOf(t)
  BY <1>1, CallsSteps
<1> DEFINE P == {i \in 0..p : g[i] = f[i]}
<1>3. 0 \in P
  BY <1>2
<1>4. ASSUME NEW i \in 1..p, i - 1 \in P PROVE i \in P
  BY <1>1, <1>2, <1>4
<1>5. \A i \in 0..p : i \in P
  <2> HIDE DEF P
  <2> QED BY <1>1, <1>3, <1>4, Calling!UpTo
<1>6. p \in P
  <2> HIDE DEF P
  <2>1. p \in 0..p
    BY <1>1
  <2> QED BY <1>5, <2>1
<1> QED BY <1>2, <1>6 DEF t

\* The calls among the first p events are the first calls.
LEMMA CallsFacts ==
  ASSUME NEW T, NEW s \in Seq(T)
  PROVE  /\ CallsOf(SubSeq(s, 1, 0)) = << >>
         /\ CallsOf(SubSeq(s, 1, Len(s))) = CallsOf(s)
         /\ \A p \in 0..Len(s) :
              /\ CallsOf(SubSeq(s, 1, p)) \in Seq({e \in T : IsCall(e)})
              /\ Len(CallsOf(SubSeq(s, 1, p))) \in 0..Len(CallsOf(s))
              /\ \A i \in 1..Len(CallsOf(SubSeq(s, 1, p))) :
                   CallsOf(s)[i] = CallsOf(SubSeq(s, 1, p))[i]
         /\ \A p \in 1..Len(s) :
              CallsOf(SubSeq(s, 1, p)) =
                IF IsCall(s[p]) THEN Append(CallsOf(SubSeq(s, 1, p - 1)), s[p])
                ELSE CallsOf(SubSeq(s, 1, p - 1))
<1> DEFINE n == Len(s)
           K == {i \in 1..n : IsCall(s[i])}
           U == {e \in T : IsCall(e)}
           C(p) == CallsOf(SubSeq(s, 1, p))
<1>1. n \in Nat /\ DOMAIN s = 1..n
  OBVIOUS
<1>2. PICK f : /\ f[0] = << >>
               /\ \A i \in 1..n : f[i] = IF IsCall(s[i]) THEN Append(f[i - 1], s[i]) ELSE f[i - 1]
               /\ f[n] = CallsOf(s)
  BY <1>1, CallsSteps
<1>3. \A p \in 0..n : C(p) = f[p]
  BY <1>2, CallsOfPrefix
<1>4. \A i \in K : s[i] \in U
  BY <1>1
<1>5. \A i \in 1..n : f[i] = IF i \in K THEN Append(f[i - 1], s[i]) ELSE f[i - 1]
  BY <1>2
<1> HIDE DEF K, U, C, n
<1>6. \A p \in 0..n : Calling!Gathers(K, s, U, p, f)
  BY <1>1, <1>2, <1>4, <1>5, Calling!Gathered
<1>7. \A p \in 0..n : f[p] \in Seq(U)
  BY <1>6 DEF Calling!Gathers
<1>8. 0 \in 0..n /\ n \in 0..n
  BY <1>1
<1>9. \A p \in 0..n : /\ Len(f[p]) \in 0..Len(f[n])
                      /\ \A i \in 1..Len(f[p]) : f[n][i] = f[p][i]
  BY <1>6, <1>8 DEF Calling!Gathers
<1>10. \A p \in 1..n : p \in 0..n /\ p - 1 \in 0..n
  BY <1>1
<1>11. C(0) = << >> /\ C(n) = CallsOf(s)
  BY <1>2, <1>3, <1>8
<1>12. \A p \in 0..n : /\ C(p) \in Seq(U) /\ Len(C(p)) \in 0..Len(CallsOf(s))
                       /\ \A i \in 1..Len(C(p)) : CallsOf(s)[i] = C(p)[i]
  BY <1>2, <1>3, <1>7, <1>9
<1>13. \A p \in 1..n : C(p) = IF IsCall(s[p]) THEN Append(C(p - 1), s[p]) ELSE C(p - 1)
  BY <1>2, <1>3, <1>10
<1> QED BY <1>11, <1>12, <1>13 DEF C, U, n

-----------------------------------------------------------------------------
(* Two engines that judge one session, one of them quickly.                *)

\* Some limit on the tool is used up.
Blocked(fl, buckets, e) ==
  LET limited == LimitedRules(Compile(fl), e.call.tool)
  IN  \E j \in 1..Len(limited) :
        Count(buckets, KeyOf(limited[j], e.client, e.call.tool)) >= limited[j].limit.max

\* None is used more there than here.
Below(fl, there, here, e) ==
  LET limited == LimitedRules(Compile(fl), e.call.tool)
  IN  \A j \in 1..Len(limited) :
        Count(there, KeyOf(limited[j], e.client, e.call.tool))
          <= Count(here, KeyOf(limited[j], e.client, e.call.tool))

LEMMA AllowedIsNamed ==
  ASSUME PlainNames, NEW fl \in GivenFiles, Valid(fl), NEW call,
         Evaluate(Compile(fl), call).action = "allow"
  PROVE  call.tool # NoTool
<1>1. Len(fl.rules) \in Nat /\ DOMAIN fl.rules = 1..Len(fl.rules)
  BY GivenFilesAssumption
<1>2. Permitted(fl, call)
  BY <1>1, AllowedMeansPermitted
<1>3. \E i \in DOMAIN fl.rules : call.tool \in Covers(fl, fl.rules[i])
  BY <1>2 DEF Permitted
<1> QED BY <1>3 DEF PlainNames

\* Both judge a call with buckets in order, one of them before any window expires.
Judge(fl, here, there, e, now, at, v, w) ==
  /\ fl \in GivenFiles /\ Valid(fl)
  /\ Proper(here) /\ Proper(there)
  /\ Plain(e.client) /\ Plain(e.call.tool)
  /\ now \in Nat /\ Begun(here, now) /\ \A window \in Windows(Compile(fl)) : now < window
  /\ v = EvaluateIn(Compile(fl), here, e.client, e.call, now)
  /\ w = EvaluateIn(Compile(fl), there, e.client, e.call, at)

\* A call that a quick engine allows, the other allows too; and that none is
\* used more there than here, or some limit is used up here, stays so.
LEMMA OneVerdict ==
  ASSUME PlainNames, NEW fl, NEW here, NEW there, NEW e, NEW now, NEW at, NEW v, NEW w,
         Judge(fl, here, there, e, now, at, v, w),
         e.call.tool # NoTool => Blocked(fl, here, e) \/ Below(fl, there, here, e)
  PROVE  /\ v.allowed => w.allowed
         /\ \A d : /\ Plain(d.call.tool)
                   /\ e.call.tool # NoTool => d.client = e.client
                   /\ Blocked(fl, here, d) \/ Below(fl, there, here, d)
                   => Blocked(fl, v.buckets, d) \/ Below(fl, w.buckets, v.buckets, d)
<1> DEFINE p == Compile(fl)
           limited == LimitedRules(p, e.call.tool)
           m == Len(limited)
           key(j) == KeyOf(limited[j], e.client, e.call.tool)
<1>0. /\ fl \in GivenFiles /\ Valid(fl)
      /\ Proper(here) /\ Proper(there)
      /\ Plain(e.client) /\ Plain(e.call.tool)
      /\ now \in Nat /\ Begun(here, now) /\ \A window \in Windows(Compile(fl)) : now < window
      /\ v = EvaluateIn(Compile(fl), here, e.client, e.call, now)
      /\ w = EvaluateIn(Compile(fl), there, e.client, e.call, at)
  BY DEF Judge
<1>1. CASE Evaluate(p, e.call).action # "allow"
  <2>1. v = [buckets |-> here, allowed |-> FALSE] /\ w = [buckets |-> there, allowed |-> FALSE]
    BY <1>0, <1>1, EvaluateDenied
  <2> QED BY <2>1
<1>2. CASE Evaluate(p, e.call).action = "allow"
  <2>1. e.call.tool # NoTool
    BY <1>0, <1>2, AllowedIsNamed
  <2>2. /\ Len(limited) \in Nat /\ DOMAIN limited = 1..Len(limited)
        /\ \A j \in 1..m : LimitTyped(limited[j]) /\ Plain(limited[j].name)
    BY <1>0, LimitsApart DEF Apart
  <2>3. /\ \A k : Count(here, k) <= Count(v.buckets, k)
        /\ v.allowed => \A j \in 1..m :
             Count(here, key(j)) < limited[j].limit.max /\ Count(v.buckets, key(j)) = Count(here, key(j)) + 1
        /\ ~v.allowed => \E j \in 1..m : Count(v.buckets, key(j)) >= limited[j].limit.max
    BY <1>0, <1>2, EvaluateQuickly
  <2>4. /\ \A k : (\A j \in 1..m : k # key(j)) => Count(w.buckets, k) = Count(there, k)
        /\ \A j \in 1..m : Count(w.buckets, key(j)) <= Count(there, key(j)) + 1
        /\ (\A j \in 1..m : Count(there, key(j)) < limited[j].limit.max) => w.allowed
    <3>1. ASSUME NEW k, \A j \in 1..m : k # key(j) PROVE Count(w.buckets, k) = Count(there, k)
      <4>1. PICK l : l = limited
        OBVIOUS
      <4>2. k \notin KeysOf(l, e.client, e.call.tool)
        BY <3>1, <4>1 DEF KeysOf
      <4> QED BY <1>0, <4>1, <4>2, EvaluateAnyhow
    <3>2. \A j \in 1..m : Count(w.buckets, key(j)) <= Count(there, key(j)) + 1
      BY <1>0, EvaluateAnyhow
    <3>3. (\A j \in 1..m : Count(there, key(j)) < limited[j].limit.max) => w.allowed
      BY <1>0, <1>2, EvaluateAnyhow
    <3> QED BY <3>1, <3>2, <3>3
  <2>5. /\ \A k : Count(here, k) \in Nat /\ Count(there, k) \in Nat
        /\ \A j \in 1..m : limited[j].limit.max \in Nat
    BY <1>0, <2>2 DEF Proper, Count, LimitTyped
  <2>6. Proper(v.buckets) /\ Proper(w.buckets)
    BY <1>0, EvaluateAnyhow
  <2>7. \A k : Count(v.buckets, k) \in Nat /\ Count(w.buckets, k) \in Nat
    BY <2>6 DEF Proper, Count
  <2>8. /\ Blocked(fl, here, e) <=> \E j \in 1..m : Count(here, key(j)) >= limited[j].limit.max
        /\ Below(fl, there, here, e) <=> \A j \in 1..m : Count(there, key(j)) <= Count(here, key(j))
        /\ Blocked(fl, v.buckets, e)
             <=> \E j \in 1..m : Count(v.buckets, key(j)) >= limited[j].limit.max
        /\ Below(fl, w.buckets, v.buckets, e)
             <=> \A j \in 1..m : Count(w.buckets, key(j)) <= Count(v.buckets, key(j))
    BY DEF Blocked, Below
  <2>9. v.allowed => \A j \in 1..m : Count(there, key(j)) <= Count(here, key(j))
    <3> HIDE DEF key, m, limited
    <3> SUFFICES ASSUME v.allowed PROVE \A j \in 1..m : Count(there, key(j)) <= Count(here, key(j))
      OBVIOUS
    <3>1. \A j \in 1..m : ~(Count(here, key(j)) >= limited[j].limit.max)
      BY <2>3, <2>5
    <3> QED BY <2>1, <2>8, <3>1
  <2>10. v.allowed => w.allowed
    <3> HIDE DEF key, m, limited
    <3> QED BY <2>3, <2>4, <2>5, <2>9
  <2>11. Blocked(fl, v.buckets, e) \/ Below(fl, w.buckets, v.buckets, e)
    <3> HIDE DEF key, m, limited
    <3>1. CASE v.allowed
      <4>1. ASSUME NEW j \in 1..m PROVE Count(w.buckets, key(j)) <= Count(v.buckets, key(j))
        BY <2>3, <2>4, <2>5, <2>7, <2>9, <3>1
      <4> QED BY <2>8, <4>1
    <3>2. CASE ~v.allowed
      BY <2>3, <2>8, <3>2
    <3> QED BY <3>1, <3>2
  <2>12. ASSUME NEW d, Plain(d.call.tool), d.client = e.client, d.call.tool # e.call.tool,
                Blocked(fl, here, d) \/ Below(fl, there, here, d)
         PROVE  Blocked(fl, v.buckets, d) \/ Below(fl, w.buckets, v.buckets, d)
    <3> DEFINE his == LimitedRules(p, d.call.tool)
               lock(j) == KeyOf(his[j], d.client, d.call.tool)
    <3>1. \A j \in 1..Len(his) : LimitTyped(his[j]) /\ Plain(his[j].name)
      BY <1>0, <2>12, LimitsApart DEF Apart
    <3>2. \A j \in 1..Len(his) : \A i \in 1..m : lock(j) # key(i)
      <4> TAKE j \in 1..Len(his)
      <4> TAKE i \in 1..m
      <4>1. PICK r, s : r = his[j] /\ s = limited[i]
        OBVIOUS
      <4>2. LimitTyped(r) /\ LimitTyped(s) /\ Plain(r.name) /\ Plain(s.name)
        BY <2>2, <3>1, <4>1
      <4>3. KeyOf(r, d.client, d.call.tool) # KeyOf(s, e.client, e.call.tool)
        BY <1>0, <2>12, <4>2, KeysDiffer
      <4> QED BY <4>1, <4>3
    <3>3. \A j \in 1..Len(his) : Count(w.buckets, lock(j)) = Count(there, lock(j))
      <4> HIDE DEF key, lock, m, limited, his
      <4> QED BY <2>4, <3>2
    <3>4. /\ Blocked(fl, here, d) <=> \E j \in 1..Len(his) : Count(here, lock(j)) >= his[j].limit.max
          /\ Below(fl, there, here, d)
               <=> \A j \in 1..Len(his) : Count(there, lock(j)) <= Count(here, lock(j))
          /\ Blocked(fl, v.buckets, d)
               <=> \E j \in 1..Len(his) : Count(v.buckets, lock(j)) >= his[j].limit.max
          /\ Below(fl, w.buckets, v.buckets, d)
               <=> \A j \in 1..Len(his) : Count(w.buckets, lock(j)) <= Count(v.buckets, lock(j))
      BY DEF Blocked, Below
    <3>5. \A j \in 1..Len(his) : his[j].limit.max \in Nat
      BY <3>1 DEF LimitTyped
    <3> HIDE DEF lock, his
    <3>6. CASE Blocked(fl, here, d)
      <4>1. PICK j \in 1..Len(his) : Count(here, lock(j)) >= his[j].limit.max
        BY <3>4, <3>6
      <4>2. Count(v.buckets, lock(j)) >= his[j].limit.max
        BY <2>3, <2>5, <2>7, <3>5, <4>1
      <4> QED BY <3>4, <4>2
    <3>7. CASE Below(fl, there, here, d)
      <4>1. ASSUME NEW j \in 1..Len(his) PROVE Count(w.buckets, lock(j)) <= Count(v.buckets, lock(j))
        BY <2>3, <2>5, <2>7, <3>3, <3>4, <3>7
      <4> QED BY <3>4, <4>1
    <3> QED BY <2>12, <3>6, <3>7
  <2>13. ASSUME NEW d, d.client = e.client, d.call.tool = e.call.tool
         PROVE  Blocked(fl, v.buckets, d) \/ Below(fl, w.buckets, v.buckets, d)
    BY <2>11, <2>13 DEF Blocked, Below
  <2> QED BY <2>1, <2>10, <2>12, <2>13
<1> QED BY <1>1, <1>2

-----------------------------------------------------------------------------
(* The policy check.                                                       *)

Judged == CallsOf(session)
AsRecorded == Live(Compile(given), Judged)
Quick == \A w \in Windows(Compile(given)) : time < w

\* What is said of one line.
HonestLine(i) ==
  LET call == Judged[i].call
      rule == Evaluate(Compile(given), call).action
  IN  /\ lines[i].event = Judged[i]
      /\ LimitedRules(Compile(given), call.tool) = << >> => lines[i].decision = rule
      /\ lines[i].decision = "allow" => rule = "allow" /\ (Quick => AsRecorded[i].allowed)

\* The lines are about the calls among the events read.
Scanned ==
  \E p \in 0..Len(session) :
    /\ left = SubSeq(session, p + 1, Len(session))
    /\ Len(lines) = Len(CallsOf(SubSeq(session, 1, p)))

Line == [event : Recorded, tag : {"=", "CHANGED"}, decision : {"allow", "deny"}]

CheckInv ==
  /\ given \in GivenFiles /\ Valid(given)
  /\ lines \in Seq(Line)
  /\ Scanned
  /\ stage = "done" => left = << >>
  /\ Proper(tokens) /\ Begun(tokens, time)
  /\ \A i \in 1..Len(lines) : HonestLine(i)
  /\ Quick =>
       \A i \in 1..Len(Judged) :
         Judged[i].call.tool # NoTool =>
           \/ Blocked(given, tokens, Judged[i])
           \/ Below(given, AsRecorded[Len(lines)].buckets, tokens, Judged[i])

\* It holds from the moment the policy has been loaded.
HonestInv ==
  mode = "policy-check" =>
    /\ time \in Nat /\ session \in Recordings /\ given \in GivenFiles \cup {NoFile}
    /\ stage = "open" => left = session /\ tokens = NoBuckets /\ lines = << >>
    /\ stage \in {"scanning", "done"} => CheckInv

LEMMA JudgedFacts ==
  ASSUME PlainNames, session \in Recordings
  PROVE  /\ session \in Seq(Recorded) /\ Len(Judged) \in Nat /\ DOMAIN Judged = 1..Len(Judged)
         /\ \A i \in 1..Len(Judged) : /\ Judged[i] \in Recorded /\ IsCall(Judged[i])
                                      /\ Plain(Judged[i].client) /\ Plain(Judged[i].call.tool)
         /\ \A i, j \in 1..Len(Judged) :
              NoTool \notin {Judged[i].call.tool, Judged[j].call.tool} =>
                Judged[i].client = Judged[j].client
<1> DEFINE T == {session[i] : i \in DOMAIN session}
           U == {e \in T : IsCall(e)}
<1>1. session \in Seq(Recorded)
  BY RecordingsAssumption
<1>2. session \in Seq(T)
  BY <1>1
<1>3. CallsOf(SubSeq(session, 1, Len(session))) \in Seq(U)
  <2>1. Len(session) \in 0..Len(session)
    BY <1>1
  <2> HIDE DEF T
  <2> QED BY <1>2, <2>1, CallsFacts
<1>4. Judged \in Seq(U)
  <2> HIDE DEF T
  <2> QED BY <1>2, <1>3, CallsFacts DEF Judged
<1>5. Len(Judged) \in Nat /\ DOMAIN Judged = 1..Len(Judged) /\ \A i \in 1..Len(Judged) : Judged[i] \in U
  <2> HIDE DEF U
  <2> QED BY <1>4
<1>6. \A i \in 1..Len(Judged) :
        IsCall(Judged[i]) /\ \E q \in DOMAIN session : Judged[i] = session[q]
  BY <1>5
<1>7. \A q \in DOMAIN session : session[q] \in Recorded
  BY <1>1
<1>8. \A i \in 1..Len(Judged) : Judged[i] \in Recorded
  BY <1>6, <1>7
<1>9. \A i \in 1..Len(Judged) : Plain(Judged[i].client) /\ Plain(Judged[i].call.tool)
  BY <1>6, <1>8 DEF PlainNames
<1>10. ASSUME NEW i \in 1..Len(Judged), NEW j \in 1..Len(Judged),
              NoTool \notin {Judged[i].call.tool, Judged[j].call.tool}
       PROVE  Judged[i].client = Judged[j].client
  <2>1. PICK q \in DOMAIN session : Judged[i] = session[q]
    BY <1>6
  <2>2. PICK r \in DOMAIN session : Judged[j] = session[r]
    BY <1>6
  <2>3. IsCall(session[q]) /\ IsCall(session[r])
    BY <1>6, <2>1, <2>2
  <2>4. session[q].client = session[r].client
    BY <1>10, <2>1, <2>2, <2>3, RecordingsAssumption
  <2> QED BY <2>1, <2>2, <2>4
<1> QED BY <1>1, <1>5, <1>6, <1>8, <1>9, <1>10

\* The event that is read next.
LEMMA NextEvent ==
  ASSUME session \in Seq(Recorded), Len(lines) \in Nat, left # << >>,
         NEW p \in 0..Len(session), left = SubSeq(session, p + 1, Len(session)),
         Len(lines) = Len(CallsOf(SubSeq(session, 1, p))), left' = Tail(left)
  PROVE  /\ p + 1 \in 0..Len(session)
         /\ left' = SubSeq(session, (p + 1) + 1, Len(session))
         /\ Head(left) = session[p + 1] /\ Head(left) \in Recorded
         /\ ~IsCall(Head(left)) => Len(lines) = Len(CallsOf(SubSeq(session, 1, p + 1)))
         /\ IsCall(Head(left)) =>
              /\ Len(CallsOf(SubSeq(session, 1, p + 1))) = Len(lines) + 1
              /\ Len(lines) + 1 \in 1..Len(Judged) /\ Judged[Len(lines) + 1] = Head(left)
<1> DEFINE n == Len(session)
           q == p + 1
           C(i) == CallsOf(SubSeq(session, 1, i))
           e == session[q]
<1>1. p \in Nat /\ n \in Nat
  OBVIOUS
<1>2. q \in 1..n
  <2>1. Len(left) = IF q <= n THEN n - p ELSE 0
    BY <1>1
  <2> QED BY <1>1
<1>3. left' = SubSeq(session, q + 1, n) /\ Head(left) = e /\ e \in Recorded
  BY <1>2
<1>4. /\ C(q) = IF IsCall(e) THEN Append(C(p), e) ELSE C(p)
      /\ C(p) \in Seq({x \in Recorded : IsCall(x)})
      /\ C(q) \in Seq({x \in Recorded : IsCall(x)})
      /\ Len(C(q)) \in 0..Len(Judged)
      /\ \A i \in 1..Len(C(q)) : Judged[i] = C(q)[i]
  <2>1. q - 1 = p /\ q \in 0..n
    BY <1>2
  <2> HIDE DEF q, n
  <2> QED BY <1>2, <2>1, CallsFacts DEF Judged, n
<1> HIDE DEF C, n
<1>5. ASSUME IsCall(e)
      PROVE  /\ Len(C(q)) = Len(lines) + 1
             /\ Len(lines) + 1 \in 1..Len(Judged) /\ Judged[Len(lines) + 1] = e
  <2>1. C(q) = Append(C(p), e) /\ Len(C(p)) = Len(lines)
    BY <1>4, <1>5 DEF C
  <2>2. Len(C(q)) = Len(lines) + 1 /\ C(q)[Len(lines) + 1] = e
    BY <1>3, <1>4, <2>1
  <2>3. Len(lines) + 1 \in 1..Len(C(q))
    BY <2>2
  <2> QED BY <1>4, <2>2, <2>3
<1>6. ~IsCall(e) => Len(C(q)) = Len(lines)
  BY <1>4 DEF C
<1> QED BY <1>2, <1>3, <1>5, <1>6 DEF C, n

\* It holds at first.
LEMMA CheckBegins ==
  ASSUME PlainNames, session \in Recordings, given \in GivenFiles, Valid(given),
         left = session, tokens = NoBuckets, lines = << >>, stage = "open"
  PROVE  CheckInv
<1>1. /\ session \in Seq(Recorded) /\ Len(Judged) \in Nat /\ DOMAIN Judged = 1..Len(Judged)
  BY JudgedFacts
<1>2. Scanned
  <2>1. 0 \in 0..Len(session) /\ left = SubSeq(session, 0 + 1, Len(session))
    BY <1>1
  <2>2. CallsOf(SubSeq(session, 1, 0)) = << >>
    BY <1>1, CallsFacts
  <2> QED BY <2>1, <2>2 DEF Scanned
<1>3. Len(lines) = 0 /\ lines \in Seq(Line) /\ 1..0 = {}
  OBVIOUS
<1>4. Proper(tokens) /\ Begun(tokens, time)
  BY DEF Proper, Begun, NoBuckets
<1>5. AsRecorded[Len(lines)].buckets = tokens
  <2>1. Judges(Compile(given), Judged, Len(Judged), AsRecorded)
    BY <1>1, LiveSteps DEF AsRecorded
  <2> QED BY <1>3, <2>1 DEF Judges
<1>6. \A i \in 1..Len(Judged) : Below(given, tokens, tokens, Judged[i])
  <2>1. \A k : Count(tokens, k) <= Count(tokens, k)
    BY DEF Count, NoBuckets
  <2> QED BY <2>1 DEF Below
<1> QED BY <1>2, <1>3, <1>4, <1>5, <1>6 DEF CheckInv

\* An event that is no call is skipped.
LEMMA CheckSkips ==
  ASSUME PlainNames, session \in Recordings, CheckInv, SkipEvent
  PROVE  CheckInv'
<1>1. /\ UNCHANGED <<stage, given, session, time, tokens, lines>> /\ left' = Tail(left)
      /\ left # << >> /\ ~IsCall(Head(left)) /\ stage = "scanning"
  BY DEF SkipEvent
<1>2. session \in Seq(Recorded) /\ Len(lines) \in Nat
  BY JudgedFacts DEF CheckInv
<1>3. PICK p \in 0..Len(session) : /\ left = SubSeq(session, p + 1, Len(session))
                                   /\ Len(lines) = Len(CallsOf(SubSeq(session, 1, p)))
  BY DEF CheckInv, Scanned
<1>4. /\ p + 1 \in 0..Len(session) /\ left' = SubSeq(session, (p + 1) + 1, Len(session))
      /\ Len(lines) = Len(CallsOf(SubSeq(session, 1, p + 1)))
  BY <1>1, <1>2, <1>3, NextEvent
<1>5. Scanned'
  BY <1>1, <1>4 DEF Scanned
<1>6. Judged' = Judged /\ Quick' = Quick /\ AsRecorded' = AsRecorded
  BY <1>1 DEF Judged, Quick, AsRecorded
<1>7. \A i \in 1..Len(lines) : HonestLine(i) <=> HonestLine(i)'
  BY <1>1, <1>6 DEF HonestLine
<1> QED BY <1>1, <1>5, <1>6, <1>7 DEF CheckInv

\* Time passes.
LEMMA CheckWaits ==
  ASSUME session \in Recordings, CheckInv, time \in Nat,
         UNCHANGED <<given, session, left, tokens, lines>>,
         stage' = "done" => left = << >>, time' \in {time, time + 1}
  PROVE  CheckInv'
<1>1. Judged' = Judged /\ AsRecorded' = AsRecorded
  BY DEF Judged, AsRecorded
<1>2. Quick' => Quick
  <2>1. \A w \in Windows(Compile(given)) : time + 1 < w => time < w
    <3>1. \A w \in Windows(Compile(given)) : w \in Int
      <4>1. PICK p : p = Compile(given)
        OBVIOUS
      <4>2. \A i \in DOMAIN p.allow : p.allow[i].limit # NoLimit => p.allow[i].limit.window \in Int
        <5>1. PICK a : ListsIn(given, "allow", OfAction(given, "allow"), a)
          BY GivenFilesAssumption, CompiledRules DEF CheckInv
        <5>2. p.allow = OfAction(given, "allow")
          BY <4>1 DEF Compile
        <5>3. ASSUME NEW i \in DOMAIN p.allow, p.allow[i].limit # NoLimit
              PROVE  p.allow[i].limit.window \in Int
          <6>1. /\ a[i] \in DOMAIN given.rules
                /\ p.allow[i] = CompileRule(given, given.rules[a[i]])
            BY <5>1, <5>2, <5>3 DEF ListsIn, RulesOf
          <6>2. LimitTyped(p.allow[i])
            BY <5>3, <6>1, CompiledLimits DEF CheckInv
          <6> QED BY <6>2 DEF LimitTyped
        <5> QED BY <5>3
      <4> QED BY <4>1, <4>2 DEF Windows
    <3> QED BY <3>1
  <2> QED BY <2>1 DEF Quick
<1>3. Begun(tokens, time')
  <2>1. \A s \in 0..time : s \in 0..time'
    OBVIOUS
  <2> QED BY <2>1 DEF CheckInv, Begun
<1>4. \A i \in 1..Len(lines) : HonestLine(i) => HonestLine(i)'
  BY <1>1, <1>2 DEF HonestLine
<1>5. Scanned'
  BY DEF CheckInv, Scanned
<1> QED BY <1>1, <1>2, <1>3, <1>4, <1>5 DEF CheckInv

\* A call is judged.
LEMMA CheckJudges ==
  ASSUME PlainNames, session \in Recordings, CheckInv, time \in Nat, JudgeEvent
  PROVE  CheckInv'
<1> DEFINE e == Head(left)
           j == Len(lines)
           there == AsRecorded[j].buckets
           next == AsRecorded[j + 1]
<1>1. /\ UNCHANGED <<stage, mode, given, session, time>> /\ left' = Tail(left)
      /\ left # << >> /\ IsCall(e) /\ stage = "scanning"
  BY DEF JudgeEvent
<1>2. PICK v, decision, line :
        /\ v = EvaluateIn(Compile(given), tokens, e.client, e.call, time)
        /\ decision = IF v.allowed THEN "allow" ELSE "deny"
        /\ line = [event |-> e, decision |-> decision,
                   tag |-> IF decision = e.decision THEN "=" ELSE "CHANGED"]
        /\ tokens' = v.buckets /\ lines' = Append(lines, line)
  BY DEF JudgeEvent, TokensAfter
<1>3. /\ given \in GivenFiles /\ Valid(given) /\ lines \in Seq(Line) /\ j \in Nat
      /\ Proper(tokens) /\ Begun(tokens, time)
  BY DEF CheckInv
<1>4. /\ session \in Seq(Recorded) /\ Len(Judged) \in Nat /\ DOMAIN Judged = 1..Len(Judged)
      /\ \A i \in 1..Len(Judged) : Plain(Judged[i].client) /\ Plain(Judged[i].call.tool)
      /\ \A i, k \in 1..Len(Judged) :
           NoTool \notin {Judged[i].call.tool, Judged[k].call.tool} =>
             Judged[i].client = Judged[k].client
  BY JudgedFacts
<1>5. PICK p \in 0..Len(session) : /\ left = SubSeq(session, p + 1, Len(session))
                                   /\ j = Len(CallsOf(SubSeq(session, 1, p)))
  BY DEF CheckInv, Scanned
<1>6. /\ p + 1 \in 0..Len(session) /\ left' = SubSeq(session, (p + 1) + 1, Len(session))
      /\ e \in Recorded /\ Len(CallsOf(SubSeq(session, 1, p + 1))) = j + 1
      /\ j + 1 \in 1..Len(Judged) /\ Judged[j + 1] = e
  BY <1>1, <1>3, <1>4, <1>5, NextEvent
<1>7. Plain(e.client) /\ Plain(e.call.tool)
  BY <1>4, <1>6
<1> HIDE DEF e, j
<1>8. Judged' = Judged /\ Quick' = Quick /\ AsRecorded' = AsRecorded
  BY <1>1 DEF Judged, Quick, AsRecorded
<1>9. next = EvaluateIn(Compile(given), there, e.client, e.call, e.at)
  <2>0. Judges(Compile(given), Judged, Len(Judged), AsRecorded)
    BY <1>4, LiveSteps DEF AsRecorded
  <2>1. AsRecorded[j + 1] = EvaluateIn(Compile(given), AsRecorded[(j + 1) - 1].buckets,
          Judged[j + 1].client, Judged[j + 1].call, Judged[j + 1].at)
    BY <1>6, <2>0 DEF Judges
  <2>2. (j + 1) - 1 = j
    BY <1>3
  <2> QED BY <1>6, <2>1, <2>2
<1>10. Proper(there)
  <2>1. j \in 0..Len(Judged)
    BY <1>3, <1>6
  <2> QED BY <1>3, <1>4, <2>1, LiveProper DEF AsRecorded
<1> HIDE DEF there, next
<1>11. /\ v.allowed \in BOOLEAN /\ Proper(v.buckets) /\ Begun(v.buckets, time)
       /\ v.allowed => Evaluate(Compile(given), e.call).action = "allow"
       /\ LimitedRules(Compile(given), e.call.tool) = << >> /\ Evaluate(Compile(given), e.call).action = "allow"
            => v.allowed
  <2>1. PICK limited : limited = LimitedRules(Compile(given), e.call.tool)
    OBVIOUS
  <2>2. v = EvaluateIn(Compile(given), tokens, e.client, e.call, time)
    BY <1>2
  <2>3. /\ v.allowed \in BOOLEAN /\ Proper(v.buckets)
        /\ v.allowed => Evaluate(Compile(given), e.call).action = "allow"
        /\ limited = << >> /\ Evaluate(Compile(given), e.call).action = "allow" => v.allowed
    BY <1>3, <1>7, <2>1, <2>2, EvaluateAnyhow
  <2>4. Begun(v.buckets, time)
    BY <1>3, <1>7, <2>1, <2>2, EvaluateAnyhow
  <2> QED BY <2>1, <2>3, <2>4
<1>12. Evaluate(Compile(given), e.call).action \in {"allow", "deny"}
  BY DEF Evaluate, Decision
<1>13. line \in Line /\ lines' \in Seq(Line) /\ Len(lines') = j + 1
       /\ lines'[j + 1] = line /\ \A i \in 1..j : lines'[i] = lines[i]
  <2>1. line \in Line
    BY <1>2, <1>6 DEF Line
  <2> HIDE DEF Line
  <2> QED BY <1>2, <1>3, <2>1 DEF j
<1>14. ASSUME Quick, NEW i \in 1..Len(Judged), Judged[i].call.tool # NoTool
       PROVE  Blocked(given, tokens, Judged[i]) \/ Below(given, there, tokens, Judged[i])
  BY <1>14 DEF CheckInv, there, j
<1>15. ASSUME Quick
       PROVE  /\ v.allowed => next.allowed
              /\ \A i \in 1..Len(Judged) : Judged[i].call.tool # NoTool =>
                   \/ Blocked(given, v.buckets, Judged[i])
                   \/ Below(given, next.buckets, v.buckets, Judged[i])
  <2>1. \A w \in Windows(Compile(given)) : time < w
    BY <1>15 DEF Quick
  <2>2. e.call.tool # NoTool => Blocked(given, tokens, e) \/ Below(given, there, tokens, e)
    BY <1>6, <1>14, <1>15
  <2>3. /\ v.allowed => next.allowed
        /\ \A d : /\ Plain(d.call.tool)
                  /\ e.call.tool # NoTool => d.client = e.client
                  /\ Blocked(given, tokens, d) \/ Below(given, there, tokens, d)
                  => Blocked(given, v.buckets, d) \/ Below(given, next.buckets, v.buckets, d)
    <3>1. PICK at : at = e.at
      OBVIOUS
    <3>2. next = EvaluateIn(Compile(given), there, e.client, e.call, at)
      BY <1>9, <3>1
    <3>3. v = EvaluateIn(Compile(given), tokens, e.client, e.call, time)
      BY <1>2
    <3>4. Judge(given, tokens, there, e, time, at, v, next)
      BY <1>3, <1>7, <1>10, <2>1, <3>2, <3>3 DEF Judge
    <3> QED BY <2>2, <3>4, OneVerdict
  <2>4. ASSUME NEW i \in 1..Len(Judged), Judged[i].call.tool # NoTool
        PROVE  \/ Blocked(given, v.buckets, Judged[i])
               \/ Below(given, next.buckets, v.buckets, Judged[i])
    <3>1. Plain(Judged[i].call.tool) /\ (e.call.tool # NoTool => Judged[i].client = e.client)
      BY <1>4, <1>6, <2>4
    <3>2. Blocked(given, tokens, Judged[i]) \/ Below(given, there, tokens, Judged[i])
      BY <1>14, <1>15, <2>4
    <3> QED BY <2>3, <3>1, <3>2
  <2> QED BY <2>3, <2>4
<1>16. ASSUME NEW i \in 1..Len(lines') PROVE HonestLine(i)'
  <2>1. CASE i \in 1..j
    <3>1. HonestLine(i) /\ lines'[i] = lines[i]
      BY <1>13, <2>1 DEF CheckInv, j
    <3> QED BY <1>1, <1>8, <3>1 DEF HonestLine
  <2>2. CASE i = j + 1
    <3>1. lines'[i].event = Judged[i] /\ lines'[i].decision = decision /\ Judged[i] = e
      BY <1>2, <1>6, <1>13, <2>2
    <3>2. decision = "allow" <=> v.allowed
      BY <1>2, <1>11
    <3>3. decision \in {"allow", "deny"}
      BY <1>2
    <3>4. LimitedRules(Compile(given), e.call.tool) = << >> =>
            decision = Evaluate(Compile(given), e.call).action
      BY <1>11, <1>12, <3>2, <3>3
    <3>5. decision = "allow" => /\ Evaluate(Compile(given), e.call).action = "allow"
                                /\ Quick => AsRecorded[i].allowed
      BY <1>11, <1>15, <2>2, <3>2 DEF next
    <3> QED BY <1>1, <1>8, <3>1, <3>4, <3>5 DEF HonestLine
  <2> QED BY <1>3, <1>13, <2>1, <2>2
<1>17. Scanned'
  BY <1>1, <1>6, <1>13 DEF Scanned
<1>18. Quick' => \A i \in 1..Len(Judged') :
         Judged'[i].call.tool # NoTool =>
           \/ Blocked(given', tokens', Judged'[i])
           \/ Below(given', AsRecorded'[Len(lines')].buckets, tokens', Judged'[i])
  BY <1>1, <1>2, <1>8, <1>13, <1>15 DEF next
<1> QED BY <1>1, <1>2, <1>3, <1>11, <1>13, <1>16, <1>17, <1>18 DEF CheckInv

LEMMA StepHonest ==
  ASSUME PlainNames, HonestInv, [Next]_commandVars
  PROVE  HonestInv'
<1> SUFFICES ASSUME mode' = "policy-check"
             PROVE  HonestInv'
  BY DEF HonestInv
<1>1. ReplayNext \/ UNCHANGED replayVars
  BY DEF Next, RunServe, RunReplay, commandVars, serveVars
<1>2. mode = "policy-check" /\ UNCHANGED <<mode, given, session>>
  BY <1>1 DEF ReplayNext, StartReplay, ShowEvent, SkipEvent, JudgeEvent, EndReplay, ReplayFails,
              Elapse, replayVars
<1>3. /\ time \in Nat /\ session \in Recordings /\ given \in GivenFiles \cup {NoFile}
      /\ stage = "open" => left = session /\ tokens = NoBuckets /\ lines = << >>
      /\ stage \in {"scanning", "done"} => CheckInv
  BY <1>2 DEF HonestInv
<1>4. CASE StartReplay
  <2>1. stage = "open" /\ UNCHANGED <<left, time, tokens, lines>> /\ stage' \in {"scanning", "error"}
    BY <1>4 DEF StartReplay
  <2>2. stage' = "scanning" => given \in GivenFiles /\ Valid(given)
    BY <1>2, <1>3, <1>4 DEF StartReplay, Replayable
  <2>3. ASSUME stage' = "scanning" PROVE CheckInv'
    <3>1. CheckInv
      BY <1>3, <2>1, <2>2, <2>3, CheckBegins
    <3> QED BY <1>2, <1>3, <2>1, <2>3, <3>1, CheckWaits
  <2> QED BY <1>2, <1>3, <2>1, <2>3 DEF HonestInv
<1>5. CASE SkipEvent
  <2>1. CheckInv'
    BY <1>3, <1>5, CheckSkips DEF SkipEvent
  <2> QED BY <1>2, <1>3, <1>5, <2>1 DEF HonestInv, SkipEvent
<1>6. CASE JudgeEvent
  <2>1. CheckInv'
    BY <1>3, <1>6, CheckJudges DEF JudgeEvent
  <2> QED BY <1>2, <1>3, <1>6, <2>1 DEF HonestInv, JudgeEvent
<1>7. CASE EndReplay \/ Elapse
  <2>1. /\ UNCHANGED <<given, session, left, tokens, lines>> /\ stage = "scanning"
        /\ stage' \in {"scanning", "done"} /\ (stage' = "done" => left = << >>)
        /\ time' \in {time, time + 1} /\ time' \in Nat
    BY <1>3, <1>7 DEF EndReplay, Elapse
  <2>2. CheckInv'
    BY <1>3, <2>1, CheckWaits
  <2> QED BY <1>2, <1>3, <2>1, <2>2 DEF HonestInv
<1>8. CASE ReplayFails
  BY <1>2, <1>3, <1>8 DEF HonestInv, ReplayFails
<1>9. CASE UNCHANGED replayVars
  <2>1. UNCHANGED <<stage, mode, given, session, left, time, tokens, lines>>
    BY <1>9 DEF replayVars
  <2>2. CASE stage \in {"scanning", "done"}
    <3>1. CheckInv /\ (stage' = "done" => left = << >>)
      BY <1>3, <2>1, <2>2 DEF CheckInv
    <3>2. CheckInv'
      BY <1>3, <2>1, <3>1, CheckWaits
    <3> QED BY <1>3, <2>1, <2>2, <3>2 DEF HonestInv
  <2>3. CASE stage \notin {"scanning", "done"}
    BY <1>3, <2>1, <2>3 DEF HonestInv
  <2> QED BY <2>2, <2>3
<1>10. ~ShowEvent
  BY <1>2 DEF ShowEvent
<1> QED BY <1>1, <1>4, <1>5, <1>6, <1>7, <1>8, <1>9, <1>10 DEF ReplayNext

\* A policy check does not promise more than the policy would keep, for any
\* recordings and files whose names have no colon, and no rule about a tool
\* without a name: a quick check allows no call that the live engine would
\* have denied.
\* (ReplayHonest: ReplayPolicyCheck with Evaluate and Allow)
THEOREM TheReplayIsHonest == PlainNames => (FairSpec => []ReplayHonest)
<1> SUFFICES ASSUME PlainNames PROVE FairSpec => []ReplayHonest
  OBVIOUS
<1>1. Init => HonestInv
  BY DEF Init, ReplayInit, HonestInv
<1>2. HonestInv => ReplayHonest
  <2> SUFFICES ASSUME HonestInv, stage \in {"scanning", "done"}, mode = "policy-check"
               PROVE  ReplayHonest
    BY DEF ReplayHonest
  <2>1. CheckInv /\ session \in Recordings
    BY DEF HonestInv
  <2>2. DOMAIN lines = 1..Len(lines)
    BY <2>1 DEF CheckInv
  <2>3. \A i \in DOMAIN lines : HonestLine(i)
    BY <2>1, <2>2 DEF CheckInv
  <2>4. stage = "done" => Len(lines) = Len(Judged)
    <3> SUFFICES ASSUME stage = "done" PROVE Len(lines) = Len(Judged)
      OBVIOUS
    <3>1. session \in Seq(Recorded)
      BY <2>1, RecordingsAssumption
    <3>2. PICK p \in 0..Len(session) : /\ left = SubSeq(session, p + 1, Len(session))
                                       /\ Len(lines) = Len(CallsOf(SubSeq(session, 1, p)))
      BY <2>1 DEF CheckInv, Scanned
    <3>3. left = << >>
      BY <2>1 DEF CheckInv
    <3>4. p = Len(session)
      <4>1. Len(SubSeq(session, p + 1, Len(session))) = 0
        <5>1. Len(left) = 0
          BY <3>3
        <5> QED BY <3>2, <5>1
      <4>2. p + 1 <= Len(session) => Len(SubSeq(session, p + 1, Len(session))) = Len(session) - p
        BY <3>1
      <4> QED BY <3>1, <4>1, <4>2
    <3> QED BY <3>1, <3>2, <3>4, CallsFacts DEF Judged
  <2> QED BY <2>3, <2>4 DEF ReplayHonest, HonestLine, Judged, AsRecorded, Quick
<1> QED BY <1>1, <1>2, StepHonest, PTL DEF FairSpec
===============================================================================
