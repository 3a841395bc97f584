---------------------------- MODULE UpstreamManager ----------------------------
(***************************************************************************)
(* The tools cache of internal/upstream/manager.go and the warmup loop of  *)
(* cmd/mcpshield/main.go.  Warmup loads the cache once for all its         *)
(* callers; requests are answered from the cache, stale or not, and a      *)
(* stale one starts one refresh in the background.                         *)
(*                                                                         *)
(* An upstream is its position in the configuration, and its tools/list is *)
(* a version number that the upstream raises whenever its tools change.    *)
(* Time is not counted: a cache is fresh until it expires, which may       *)
(* happen at any moment.  A name with an underscore is a deliberate bug.   *)
(***************************************************************************)
EXTENDS Integers, Sequences, FiniteSets, FiniteSetsExt, Functions

CONSTANTS
  N,            \* number of configured upstreams
  Names,        \* tool names, prefix included
  Offers,       \* Offers[u][v]: the names upstream u lists at version v
  Warmers,      \* goroutines that run runWarmupUntilReady
  Callers,      \* goroutines that call ToolsList or ToolsCall
  Workers,      \* goroutines getCache may start
  Invalidation, \* InvalidateCache is called
  NoOne,        \* not a warmer
  MaxVersion,   \* bound: versions of an upstream
  Changing,     \* bound: the upstreams whose tools change
  Fragile       \* bound: the upstreams that may fail

Upstreams == 1..N
Versions == 0..MaxVersion

ASSUME BoundsAssumption == N \in Nat /\ MaxVersion \in Nat /\ Invalidation \in BOOLEAN
                            /\ Changing \subseteq Upstreams /\ Fragile \subseteq Upstreams
ASSUME OffersAssumption == Offers \in [Upstreams -> [Versions -> SUBSET Names]]
ASSUME ActorsAssumption == NoOne \notin Warmers /\ Warmers \cap Workers = {}

VARIABLES
  version,     \* version[u]: what tools/list of upstream u returns now
  down,        \* upstreams that fail or answer too late
  cached,      \* realManager.cached
  loading,     \* realManager.loading: the warmer that made the channel
  bgRefresh,   \* realManager.bgRefresh
  wpc,         \* wpc[w]: where warmer w is
  waitOn,      \* waitOn[w]: the warmer whose channel w waits for
  bpc,         \* bpc[b]: where background goroutine b is
  got,         \* got[r]: the lists doRefresh of r has received, in order
  cpc,         \* cpc[c]: where caller c is
  view,        \* view[c]: the cache getCache returned to c
  shutdown,    \* the server's context is done
  \* History, read by the properties and by no guard:
  since,       \* since[r]: the versions when doRefresh of r began
  invalidated  \* InvalidateCache has been called

environment == <<version, down, shutdown>>
warmVars == <<loading, wpc, waitOn>>
bgVars == <<bgRefresh, bpc>>
refreshVars == <<got, since>>
callVars == <<cpc, view>>
vars == <<environment, cached, warmVars, bgVars, refreshVars, callVars, invalidated>>

Refreshers == Warmers \cup Workers
NoCache == [nil |-> TRUE]

-----------------------------------------------------------------------------
(* The merged tool list.                                                   *)

NoRoute == 0

RouteOf_LastEntry(lists, n) == IF n \in Offers[N][lists[N]] THEN N ELSE NoRoute

\* doRefresh fills routeMap in the order of the entries, so of two upstreams
\* with the same prefixed name the later one is called.
RouteOf(lists, n) ==
  LET owners == {u \in Upstreams : n \in Offers[u][lists[u]]}
  IN  IF owners = {} THEN NoRoute ELSE Max(owners)

Ready == cached # NoCache

-----------------------------------------------------------------------------
Init ==
  /\ version = [u \in Upstreams |-> 0]
  /\ down \in SUBSET Fragile
  /\ cached = NoCache
  /\ loading = NoOne
  /\ bgRefresh = FALSE
  /\ wpc = [w \in Warmers |-> "loop"]
  /\ waitOn = [w \in Warmers |-> NoOne]
  /\ bpc = [b \in Workers |-> "idle"]
  /\ got = [r \in Refreshers |-> << >>]
  /\ cpc = [c \in Callers |-> "idle"]
  /\ view = [c \in Callers |-> NoCache]
  /\ shutdown = FALSE
  /\ since = [r \in Refreshers |-> << >>]
  /\ invalidated = FALSE

-----------------------------------------------------------------------------
(* doRefresh, run by a warmer or by a background goroutine.                *)

\* It starts with no lists.
BeginRefresh(r) ==
  /\ got' = [got EXCEPT ![r] = << >>]
  /\ since' = [since EXCEPT ![r] = version]

\* It returns, with or without a cache.
EndRefresh(r) ==
  /\ got' = [got EXCEPT ![r] = << >>]
  /\ since' = [since EXCEPT ![r] = << >>]

ListOf_Kept(u) == IF Ready THEN cached.lists[u] ELSE version[u]
\* What tools/list of u returns.
ListOf(u) == version[u]

\* entry.Client.ToolsList succeeds for the next entry.
FetchOk(r) ==
  LET u == Len(got[r]) + 1
  IN  /\ u \in Upstreams \ down
      /\ ~shutdown
      /\ got' = [got EXCEPT ![r] = Append(@, ListOf(u))]
      /\ UNCHANGED since

FetchFails(r) ==
  LET u == Len(got[r]) + 1
  IN  u \in Upstreams /\ (u \in down \/ shutdown)

AllFetched(r) == Len(got[r]) = N

\* All lists are here: the cache is replaced.  Its expiry was computed before
\* the lock was taken.
Publish(r) ==
  /\ AllFetched(r)
  /\ \E fresh \in BOOLEAN :
       cached' = [lists |-> got[r], fresh |-> fresh, since |-> since[r]]

-----------------------------------------------------------------------------
(* runWarmupUntilReady and Warmup.                                         *)

\* if mgr.Ready() { return }
CheckReady(w) ==
  /\ wpc[w] = "loop"
  /\ wpc' = [wpc EXCEPT ![w] = IF Ready THEN "returned" ELSE "warmup"]
  /\ UNCHANGED <<environment, cached, loading, waitOn, bgVars, refreshVars, callVars, invalidated>>

\* Warmup takes the lock; the cache may have come since the loop looked.
WarmupReady(w) ==
  /\ wpc[w] = "warmup" /\ Ready
  /\ wpc' = [wpc EXCEPT ![w] = "returned"]
  /\ UNCHANGED <<environment, cached, loading, waitOn, bgVars, refreshVars, callVars, invalidated>>

WarmupJoin(w) ==
  /\ wpc[w] = "warmup" /\ ~Ready /\ loading # NoOne
  /\ wpc' = [wpc EXCEPT ![w] = "waiting"]
  /\ waitOn' = [waitOn EXCEPT ![w] = loading]
  /\ UNCHANGED <<environment, cached, loading, bgVars, refreshVars, callVars, invalidated>>

\* if m.loading != nil: at most one warmer loads.
MayLead == loading = NoOne

WarmupLead(w) ==
  /\ wpc[w] = "warmup" /\ ~Ready /\ MayLead
  /\ loading' = w
  /\ wpc' = [wpc EXCEPT ![w] = "fetch"]
  /\ BeginRefresh(w)
  /\ UNCHANGED <<environment, cached, waitOn, bgVars, callVars, invalidated>>

WarmupFetch(w) ==
  /\ wpc[w] = "fetch"
  /\ FetchOk(w)
  /\ UNCHANGED <<environment, cached, warmVars, bgVars, callVars, invalidated>>

WarmupFetchFails(w) ==
  /\ wpc[w] = "fetch"
  /\ FetchFails(w)
  /\ wpc' = [wpc EXCEPT ![w] = "failed"]
  /\ EndRefresh(w)
  /\ UNCHANGED <<environment, cached, loading, waitOn, bgVars, callVars, invalidated>>

WarmupPublish(w) ==
  /\ wpc[w] = "fetch"
  /\ Publish(w)
  /\ wpc' = [wpc EXCEPT ![w] = "loaded"]
  /\ EndRefresh(w)
  /\ UNCHANGED <<environment, loading, waitOn, bgVars, callVars, invalidated>>

\* m.loading = nil, under the lock; the channel is closed after it.
WarmupUnload(w) ==
  /\ wpc[w] \in {"failed", "loaded"}
  /\ loading' = NoOne
  /\ wpc' = [wpc EXCEPT ![w] = IF wpc[w] = "loaded" THEN "close_ok" ELSE "close_err"]
  /\ UNCHANGED <<environment, cached, waitOn, bgVars, refreshVars, callVars, invalidated>>

\* Those that wait on the channel of w.
Woken(w) == {v \in Warmers : wpc[v] = "waiting" /\ waitOn[v] = w}

\* close(ch), and Warmup returns err to the loop.
WarmupClose(w) ==
  /\ wpc[w] \in {"close_ok", "close_err"}
  /\ wpc' = [v \in Warmers |->
       CASE v = w         -> IF wpc[w] = "close_ok" THEN "returned" ELSE "sleep"
         [] v \in Woken(w) -> "woken"
         [] OTHER          -> wpc[v]]
  /\ waitOn' = [v \in Warmers |-> IF v \in Woken(w) THEN NoOne ELSE waitOn[v]]
  /\ UNCHANGED <<environment, cached, loading, bgVars, refreshVars, callVars, invalidated>>

\* A waiter looks whether the load it waited for left a cache.
WarmupWoken(w) ==
  /\ wpc[w] = "woken"
  /\ wpc' = [wpc EXCEPT ![w] = IF Ready THEN "returned" ELSE "sleep"]
  /\ UNCHANGED <<environment, cached, loading, waitOn, bgVars, refreshVars, callVars, invalidated>>

\* ... or its own context ends first.
WarmupGiveUp(w) ==
  /\ wpc[w] = "waiting"
  /\ wpc' = [wpc EXCEPT ![w] = "sleep"]
  /\ waitOn' = [waitOn EXCEPT ![w] = NoOne]
  /\ UNCHANGED <<environment, cached, loading, bgVars, refreshVars, callVars, invalidated>>

AfterSleep_GiveUp == "returned"
AfterSleep_Retry == "loop"
\* The retry timer fires, or the server shuts down.
AfterSleep == IF shutdown THEN "returned" ELSE "loop"

Retry(w) ==
  /\ wpc[w] = "sleep"
  /\ wpc' = [wpc EXCEPT ![w] = AfterSleep]
  /\ UNCHANGED <<environment, cached, loading, waitOn, bgVars, refreshVars, callVars, invalidated>>

Warm(w) ==
  \/ CheckReady(w)
  \/ WarmupReady(w) \/ WarmupJoin(w) \/ WarmupLead(w)
  \/ WarmupFetch(w) \/ WarmupFetchFails(w) \/ WarmupPublish(w)
  \/ WarmupUnload(w) \/ WarmupClose(w)
  \/ WarmupWoken(w)
  \/ Retry(w)

-----------------------------------------------------------------------------
(* getCache and the background refresh.                                    *)

\* The lock is held while the cache is examined.  ErrNotReady changes nothing,
\* and the caller does not look at the expiry of the cache it is given.
GetCache(c) ==
  /\ cpc[c] = "idle"
  /\ Ready
  /\ view' = [view EXCEPT ![c] = [cached EXCEPT !.fresh = FALSE]]
  /\ cpc' = [cpc EXCEPT ![c] = IF cached.fresh THEN "route" ELSE "stale"]
  /\ UNCHANGED <<environment, cached, warmVars, bgVars, refreshVars, invalidated>>

MayRefresh_Always == TRUE
\* bgRefresh.CompareAndSwap(false, true) succeeds.
MayRefresh == ~bgRefresh

StartRefresh(c) ==
  /\ cpc[c] = "stale" /\ MayRefresh
  /\ bgRefresh' = TRUE
  /\ \E b \in Workers : bpc[b] = "idle"
  /\ LET b == CHOOSE w \in Workers : bpc[w] = "idle"
     IN  /\ bpc' = [bpc EXCEPT ![b] = "fetch"]
         /\ BeginRefresh(b)
  /\ cpc' = [cpc EXCEPT ![c] = "route"]
  /\ UNCHANGED <<environment, cached, warmVars, view, invalidated>>

LeaveRefresh(c) ==
  /\ cpc[c] = "stale" /\ ~MayRefresh
  /\ cpc' = [cpc EXCEPT ![c] = "route"]
  /\ UNCHANGED <<environment, cached, warmVars, bgVars, refreshVars, view, invalidated>>

\* The tools are returned, or the call is routed to its upstream.
Return(c) ==
  /\ cpc[c] = "route"
  /\ cpc' = [cpc EXCEPT ![c] = "idle"]
  /\ view' = [view EXCEPT ![c] = NoCache]
  /\ UNCHANGED <<environment, cached, warmVars, bgVars, refreshVars, invalidated>>

RefreshFetch(b) ==
  /\ bpc[b] = "fetch"
  /\ FetchOk(b)
  /\ UNCHANGED <<environment, cached, warmVars, bgVars, callVars, invalidated>>

AfterFailure_Cleared == NoCache
\* A failed refresh leaves the old cache in place.
AfterFailure == cached

RefreshFails(b) ==
  /\ bpc[b] = "fetch"
  /\ FetchFails(b)
  /\ cached' = AfterFailure
  /\ bpc' = [bpc EXCEPT ![b] = "release"]
  /\ EndRefresh(b)
  /\ UNCHANGED <<environment, warmVars, bgRefresh, callVars, invalidated>>

RefreshPublish(b) ==
  /\ bpc[b] = "fetch"
  /\ Publish(b)
  /\ bpc' = [bpc EXCEPT ![b] = "release"]
  /\ EndRefresh(b)
  /\ UNCHANGED <<environment, warmVars, bgRefresh, callVars, invalidated>>

Released_Never(b) == TRUE
\* defer m.bgRefresh.Store(false): the value the goroutine leaves behind.
Released(b) == FALSE

RefreshRelease(b) ==
  /\ bpc[b] = "release"
  /\ bgRefresh' = Released(b)
  /\ bpc' = [bpc EXCEPT ![b] = "idle"]
  /\ UNCHANGED <<environment, cached, warmVars, refreshVars, callVars, invalidated>>

Refresh(b) ==
  RefreshFetch(b) \/ RefreshFails(b) \/ RefreshPublish(b) \/ RefreshRelease(b)

Serve(c) == StartRefresh(c) \/ LeaveRefresh(c) \/ Return(c)

InvalidateCache ==
  /\ Invalidation
  /\ cached' = NoCache
  /\ invalidated' = TRUE
  /\ UNCHANGED <<environment, warmVars, bgVars, refreshVars, callVars>>

\* Somebody warms the cache again.
WarmAgain(w) ==
  /\ invalidated /\ wpc[w] = "returned"
  /\ wpc' = [wpc EXCEPT ![w] = "loop"]
  /\ UNCHANGED <<environment, cached, loading, waitOn, bgVars, refreshVars, callVars, invalidated>>

-----------------------------------------------------------------------------
(* The environment.                                                        *)

\* The cache's TTL has passed.
Expire ==
  /\ Ready /\ cached.fresh
  /\ cached' = [cached EXCEPT !.fresh = FALSE]
  /\ UNCHANGED <<environment, warmVars, bgVars, refreshVars, callVars, invalidated>>

ToolsChange(u) ==
  /\ version[u] < MaxVersion
  /\ version' = [version EXCEPT ![u] = @ + 1]
  /\ UNCHANGED <<down, shutdown, cached, warmVars, bgVars, refreshVars, callVars, invalidated>>

FailOrRecover(u) ==
  /\ down' = IF u \in down THEN down \ {u} ELSE down \cup {u}
  /\ UNCHANGED <<version, shutdown, cached, warmVars, bgVars, refreshVars, callVars, invalidated>>

\* SIGINT or SIGTERM.
Shutdown ==
  /\ ~shutdown
  /\ shutdown' = TRUE
  /\ UNCHANGED <<version, down, cached, warmVars, bgVars, refreshVars, callVars, invalidated>>

Next ==
  \/ \E w \in Warmers : Warm(w) \/ WarmupGiveUp(w) \/ WarmAgain(w)
  \/ \E b \in Workers : Refresh(b)
  \/ \E c \in Callers : GetCache(c) \/ Serve(c)
  \/ InvalidateCache
  \/ Expire
  \/ \E u \in Changing : ToolsChange(u)
  \/ \E u \in Fragile : FailOrRecover(u)
  \/ Shutdown

Spec == Init /\ [][Next]_vars

\* The scheduler runs every goroutine, and a call to an upstream ends: it
\* answers, fails, or runs into the timeout of its context.  A shutdown ends
\* every context for good.
FairSpec ==
  /\ Spec
  /\ \A w \in Warmers : WF_vars(Warm(w)) /\ WF_vars(shutdown /\ WarmupGiveUp(w))
  /\ \A b \in Workers : WF_vars(Refresh(b))
  /\ \A c \in Callers : WF_vars(Serve(c))

-----------------------------------------------------------------------------
(* Properties.                                                             *)

Lists == [Upstreams -> Versions]
Cache == [lists : Lists, fresh : BOOLEAN, since : Lists] \cup {NoCache}

\* Types, and what doRefresh holds while it fetches.
TypeOK ==
  /\ version \in Lists /\ down \subseteq Upstreams /\ shutdown \in BOOLEAN
  /\ cached \in Cache
  /\ loading \in Warmers \cup {NoOne} /\ bgRefresh \in BOOLEAN
  /\ wpc \in [Warmers -> {"loop", "warmup", "waiting", "woken", "sleep", "returned",
                          "fetch", "failed", "loaded", "close_ok", "close_err"}]
  /\ waitOn \in [Warmers -> Warmers \cup {NoOne}]
  /\ bpc \in [Workers -> {"idle", "fetch", "release"}]
  /\ got \in [Refreshers -> Seq(Versions)] /\ \A r \in Refreshers : Len(got[r]) <= N
  /\ since \in [Refreshers -> Lists \cup {<< >>}]
  /\ cpc \in [Callers -> {"idle", "stale", "route"}]
  /\ view \in [Callers -> Cache]
  /\ \A c \in Callers : cpc[c] # "idle" => view[c] # NoCache
  /\ invalidated \in BOOLEAN

Loaders == {w \in Warmers : wpc[w] \in {"fetch", "failed", "loaded"}}
Fetchers == {w \in Warmers : wpc[w] = "fetch"}
Busy == {b \in Workers : bpc[b] # "idle"}

\* However many goroutines warm the cache and find it stale, one of them loads
\* and one refreshes, and never both at once unless InvalidateCache came in
\* between; a waiter waits for a channel its maker is still to close.
OneRefresh ==
  /\ Loaders = IF loading = NoOne THEN {} ELSE {loading}
  /\ Busy # {} <=> bgRefresh
  /\ \A a, b \in Busy : a = b
  /\ ~invalidated => Fetchers = {} \/ (Busy = {} /\ ~Ready)
  /\ \A w \in Warmers : wpc[w] = "waiting" =>
       waitOn[w] \in Loaders \cup {v \in Warmers : wpc[v] \in {"close_ok", "close_err"}}

\* Every list in the cache, and in a cache a caller still works with, is one
\* its upstream gave after the refresh began.
SnapshotsCurrent ==
  \A k \in {cached} \cup Range(view) : k # NoCache =>
    \A u \in Upstreams : k.since[u] <= k.lists[u] /\ k.lists[u] <= version[u]

\* A tool that one upstream, and no other, has listed since the refresh began
\* is routed to it, by the cache and by every cache a caller works with.
Listed(u, n, from) == \A v \in from..version[u] : n \in Offers[u][v]
Unlisted(u, n, from) == \A v \in from..version[u] : n \notin Offers[u][v]
StableRoutes ==
  \A k \in {cached} \cup Range(view) : k # NoCache =>
    \A n \in Names, u \in Upstreams :
      /\ Listed(u, n, k.since[u])
      /\ \A x \in Upstreams \ {u} : Unlisted(x, n, k.since[x])
      => RouteOf(k.lists, n) = u

\* Without InvalidateCache readiness is never lost, whatever fails, and the
\* tools of no upstream go back to an older list.
CacheAdvances ==
  [][Ready /\ ~invalidated' =>
       Ready' /\ \A u \in Upstreams : cached.lists[u] <= cached'.lists[u]]_vars

\* When the upstreams answer at last the gateway becomes ready.
BecomesReady == <>[](down = {} /\ ~shutdown /\ ~invalidated) => <>Ready

\* Shutdown ends every warmup loop, the ones that wait for another's load too.
WarmupStops == \A w \in Warmers : shutdown ~> wpc[w] = "returned"
=============================================================================
