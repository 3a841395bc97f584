------------------------ MODULE UpstreamManager_proofs ------------------------
(***************************************************************************)
(* Proofs about UpstreamManager, for any number of warmers, callers,       *)
(* background goroutines and upstreams.                                    *)
(***************************************************************************)
EXTENDS UpstreamManager, TLAPS

\* Whoever fetches knows the versions its refresh began with.
SinceTyped ==
  /\ \A w \in Warmers : wpc[w] = "fetch" => since[w] \in Lists
  /\ \A b \in Workers : bpc[b] = "fetch" => since[b] \in Lists

Typed == TypeOK /\ SinceTyped

-----------------------------------------------------------------------------
LEMMA NoCacheDiffers ==
  ASSUME NEW l, NEW f, NEW s
  PROVE  [lists |-> l, fresh |-> f, since |-> s] # NoCache
BY DEF NoCache

LEMMA FetchedLists ==
  ASSUME TypeOK, NEW r \in Refreshers, AllFetched(r)
  PROVE  got[r] \in Lists
BY BoundsAssumption DEF TypeOK, AllFetched, Lists, Upstreams, Versions

LEMMA InitTyped == Init => Typed
<1> SUFFICES ASSUME Init PROVE Typed
  OBVIOUS
<1>1. /\ version \in Lists /\ down \subseteq Upstreams /\ shutdown \in BOOLEAN
      /\ cached \in Cache /\ loading \in Warmers \cup {NoOne} /\ bgRefresh \in BOOLEAN
      /\ invalidated \in BOOLEAN
  <2>1. 0 \in Versions
    BY BoundsAssumption DEF Versions
  <2>2. down \subseteq Upstreams
    BY BoundsAssumption DEF Init
  <2> QED BY <2>1, <2>2 DEF Init, Lists, Cache
<1>2. /\ wpc \in [Warmers -> {"loop", "warmup", "waiting", "woken", "sleep", "returned",
                          "fetch", "failed", "loaded", "close_ok", "close_err"}]
      /\ waitOn \in [Warmers -> Warmers \cup {NoOne}]
      /\ bpc \in [Workers -> {"idle", "fetch", "release"}]
      /\ cpc \in [Callers -> {"idle", "stale", "route"}]
      /\ view \in [Callers -> Cache]
  BY DEF Init, Cache
<1>3. /\ got \in [Refreshers -> Seq(Versions)] /\ \A r \in Refreshers : Len(got[r]) <= N
      /\ since \in [Refreshers -> Lists \cup {<< >>}]
  BY BoundsAssumption DEF Init
<1> QED BY <1>1, <1>2, <1>3 DEF Init, Typed, TypeOK, SinceTyped

\* Actions of the warmers that leave the cache and the lists alone.
LEMMA WarmerMoves ==
  ASSUME Typed, NEW w \in Warmers,
         \/ CheckReady(w) \/ WarmupReady(w) \/ WarmupJoin(w) \/ WarmupUnload(w)
         \/ WarmupClose(w) \/ WarmupWoken(w) \/ WarmupGiveUp(w) \/ Retry(w) \/ WarmAgain(w)
  PROVE  Typed'
<1>1. UNCHANGED <<version, down, shutdown, cached, bgRefresh, bpc, got, since, cpc, view, invalidated>>
  BY DEF CheckReady, WarmupReady, WarmupJoin, WarmupUnload, WarmupClose, WarmupWoken,
         WarmupGiveUp, Retry, WarmAgain, environment, bgVars, refreshVars, callVars
<1>2. /\ wpc' \in [Warmers -> {"loop", "warmup", "waiting", "woken", "sleep", "returned",
                          "fetch", "failed", "loaded", "close_ok", "close_err"}]
      /\ \A v \in Warmers : wpc'[v] = "fetch" => wpc[v] = "fetch"
  BY DEF Typed, TypeOK, CheckReady, WarmupReady, WarmupJoin, WarmupUnload, WarmupClose,
         WarmupWoken, WarmupGiveUp, Retry, WarmAgain, AfterSleep
<1>3. waitOn' \in [Warmers -> Warmers \cup {NoOne}] /\ loading' \in Warmers \cup {NoOne}
  BY DEF Typed, TypeOK, CheckReady, WarmupReady, WarmupJoin, WarmupUnload, WarmupClose,
         WarmupWoken, WarmupGiveUp, Retry, WarmAgain
<1> QED BY <1>1, <1>2, <1>3 DEF Typed, TypeOK, SinceTyped

LEMMA BeginTyped ==
  ASSUME Typed, NEW r \in Refreshers, BeginRefresh(r)
  PROVE  /\ got' \in [Refreshers -> Seq(Versions)] /\ \A q \in Refreshers : Len(got'[q]) <= N
         /\ since' \in [Refreshers -> Lists \cup {<< >>}]
         /\ since'[r] \in Lists
         /\ \A q \in Refreshers : since[q] \in Lists => since'[q] \in Lists
BY BoundsAssumption DEF Typed, TypeOK, BeginRefresh

LEMMA EndTyped ==
  ASSUME Typed, NEW r \in Refreshers, EndRefresh(r)
  PROVE  /\ got' \in [Refreshers -> Seq(Versions)] /\ \A q \in Refreshers : Len(got'[q]) <= N
         /\ since' \in [Refreshers -> Lists \cup {<< >>}]
         /\ \A q \in Refreshers \ {r} : since'[q] = since[q]
BY BoundsAssumption DEF Typed, TypeOK, EndRefresh

LEMMA FetchTyped ==
  ASSUME Typed, NEW r \in Refreshers, FetchOk(r)
  PROVE  /\ got' \in [Refreshers -> Seq(Versions)] /\ \A q \in Refreshers : Len(got'[q]) <= N
         /\ since' = since
<1> DEFINE u == Len(got[r]) + 1
<1>1. u \in Upstreams /\ version[u] \in Versions /\ got[r] \in Seq(Versions)
  BY DEF Typed, TypeOK, FetchOk, Lists
<1>2. got' = [got EXCEPT ![r] = Append(got[r], version[u])] /\ since' = since
  BY DEF FetchOk, ListOf
<1>3. Append(got[r], version[u]) \in Seq(Versions) /\ Len(Append(got[r], version[u])) <= N
  BY <1>1, BoundsAssumption DEF Upstreams
<1> QED BY <1>2, <1>3 DEF Typed, TypeOK

LEMMA PublishTyped ==
  ASSUME Typed, NEW r \in Refreshers, since[r] \in Lists, Publish(r)
  PROVE  cached' \in Cache /\ cached' # NoCache
<1>1. got[r] \in Lists
  BY FetchedLists DEF Publish, Typed
<1>2. PICK fresh \in BOOLEAN :
        cached' = [lists |-> got[r], fresh |-> fresh, since |-> since[r]]
  BY DEF Publish
<1> QED BY <1>1, <1>2, NoCacheDiffers DEF Cache

LEMMA StepTyped == Typed /\ [Next]_vars => Typed'
<1> SUFFICES ASSUME Typed, [Next]_vars PROVE Typed'
  OBVIOUS
<1> USE DEF Typed
<1>1. ASSUME NEW w \in Warmers, Warm(w) \/ WarmupGiveUp(w) \/ WarmAgain(w) PROVE Typed'
  <2> w \in Refreshers
    BY DEF Refreshers
  <2>1. CASE WarmupLead(w)
    <3>1. BeginRefresh(w)
      BY <2>1 DEF WarmupLead
    <3> QED BY <2>1, <3>1, BeginTyped
            DEF WarmupLead, TypeOK, SinceTyped, environment, bgVars, callVars, Refreshers
  <2>2. CASE WarmupFetch(w)
    <3>1. FetchOk(w)
      BY <2>2 DEF WarmupFetch
    <3> QED BY <2>2, <3>1, FetchTyped
            DEF WarmupFetch, TypeOK, SinceTyped, environment, warmVars, bgVars, callVars
  <2>3. CASE WarmupFetchFails(w)
    <3>1. EndRefresh(w)
      BY <2>3 DEF WarmupFetchFails
    <3> QED BY <2>3, <3>1, EndTyped, ActorsAssumption
            DEF WarmupFetchFails, TypeOK, SinceTyped, environment, bgVars, callVars, Refreshers
  <2>4. CASE WarmupPublish(w)
    <3>1. EndRefresh(w) /\ Publish(w) /\ since[w] \in Lists
      BY <2>4 DEF WarmupPublish, SinceTyped
    <3> QED BY <2>4, <3>1, EndTyped, PublishTyped, ActorsAssumption
            DEF WarmupPublish, TypeOK, SinceTyped, environment, bgVars, callVars, Refreshers
  <2> QED BY <1>1, <2>1, <2>2, <2>3, <2>4, WarmerMoves DEF Warm
<1>2. ASSUME NEW b \in Workers, Refresh(b) PROVE Typed'
  <2> b \in Refreshers
    BY DEF Refreshers
  <2>1. CASE RefreshFetch(b)
    <3>1. FetchOk(b)
      BY <2>1 DEF RefreshFetch
    <3> QED BY <2>1, <3>1, FetchTyped
            DEF RefreshFetch, TypeOK, SinceTyped, environment, warmVars, bgVars, callVars
  <2>2. CASE RefreshFails(b)
    <3>1. EndRefresh(b)
      BY <2>2 DEF RefreshFails
    <3> QED BY <2>2, <3>1, EndTyped, ActorsAssumption
            DEF RefreshFails, AfterFailure, TypeOK, SinceTyped, environment, warmVars,
                callVars, Refreshers
  <2>3. CASE RefreshPublish(b)
    <3>1. EndRefresh(b) /\ Publish(b) /\ since[b] \in Lists
      BY <2>3 DEF RefreshPublish, SinceTyped
    <3> QED BY <2>3, <3>1, EndTyped, PublishTyped, ActorsAssumption
            DEF RefreshPublish, TypeOK, SinceTyped, environment, warmVars, callVars, Refreshers
  <2>4. CASE RefreshRelease(b)
    BY <2>4 DEF RefreshRelease, Released, TypeOK, SinceTyped, environment, warmVars,
                refreshVars, callVars
  <2> QED BY <1>2, <2>1, <2>2, <2>3, <2>4 DEF Refresh
<1>3. ASSUME NEW c \in Callers, GetCache(c) \/ Serve(c) PROVE Typed'
  <2>1. CASE GetCache(c)
    <3>1. [cached EXCEPT !.fresh = FALSE] \in Cache /\ [cached EXCEPT !.fresh = FALSE] # NoCache
      BY <2>1, NoCacheDiffers DEF GetCache, Ready, TypeOK, Cache
    <3> QED BY <2>1, <3>1 DEF GetCache, TypeOK, SinceTyped, environment, warmVars, bgVars, refreshVars
  <2>2. CASE StartRefresh(c)
    <3> DEFINE b == CHOOSE w \in Workers : bpc[w] = "idle"
    <3>1. b \in Workers /\ bpc[b] = "idle"
      BY <2>2 DEF StartRefresh
    <3>2. BeginRefresh(b) /\ bpc' = [bpc EXCEPT ![b] = "fetch"]
      BY <2>2 DEF StartRefresh
    <3> HIDE DEF b
    <3>3. b \in Refreshers
      BY <3>1 DEF Refreshers
    <3>4. /\ bgRefresh' = TRUE /\ cpc' = [cpc EXCEPT ![c] = "route"]
          /\ UNCHANGED <<version, down, shutdown, cached, loading, wpc, waitOn, view, invalidated>>
      BY <2>2 DEF StartRefresh, environment, warmVars
    <3>5. /\ got' \in [Refreshers -> Seq(Versions)] /\ \A q \in Refreshers : Len(got'[q]) <= N
          /\ since' \in [Refreshers -> Lists \cup {<< >>}]
          /\ since'[b] \in Lists
          /\ \A q \in Refreshers : since[q] \in Lists => since'[q] \in Lists
      BY <3>2, <3>3, BeginTyped
    <3>6. SinceTyped'
      <4>1. \A w \in Warmers : wpc'[w] = "fetch" => since'[w] \in Lists
        BY <3>4, <3>5 DEF SinceTyped, Refreshers
      <4>2. ASSUME NEW w \in Workers, bpc'[w] = "fetch" PROVE since'[w] \in Lists
        <5>1. w = b \/ bpc[w] = "fetch"
          BY <3>2, <4>2 DEF TypeOK
        <5> QED BY <3>5, <5>1 DEF SinceTyped, Refreshers
      <4> QED BY <4>1, <4>2 DEF SinceTyped
    <3>7. bpc' \in [Workers -> {"idle", "fetch", "release"}] /\ cpc' \in [Callers -> {"idle", "stale", "route"}]
      BY <3>1, <3>2, <3>4 DEF TypeOK
    <3>8. \A d \in Callers : cpc'[d] # "idle" => view'[d] # NoCache
      BY <2>2, <3>4 DEF StartRefresh, TypeOK
    <3>9. TypeOK'
      BY <3>4, <3>5, <3>7, <3>8 DEF TypeOK
    <3> QED BY <3>6, <3>9
  <2>3. CASE LeaveRefresh(c)
    BY <2>3 DEF LeaveRefresh, TypeOK, SinceTyped, environment, warmVars, bgVars, refreshVars
  <2>4. CASE Return(c)
    BY <2>4 DEF Return, TypeOK, SinceTyped, Cache, environment, warmVars, bgVars, refreshVars
  <2> QED BY <1>3, <2>1, <2>2, <2>3, <2>4 DEF Serve
<1>4. CASE InvalidateCache
  BY <1>4 DEF InvalidateCache, TypeOK, SinceTyped, Cache, environment, warmVars, bgVars, refreshVars, callVars
<1>5. CASE Expire
  <2>1. [cached EXCEPT !.fresh = FALSE] \in Cache
    BY <1>5 DEF Expire, Ready, TypeOK, Cache
  <2> QED BY <1>5, <2>1 DEF Expire, TypeOK, SinceTyped, environment, warmVars, bgVars, refreshVars, callVars
<1>6. ASSUME NEW u \in Changing, ToolsChange(u) PROVE Typed'
  <2>1. version' \in Lists
    BY <1>6, BoundsAssumption DEF ToolsChange, TypeOK, Lists, Versions
  <2> QED BY <1>6, <2>1 DEF ToolsChange, TypeOK, SinceTyped, warmVars, bgVars, refreshVars, callVars
<1>7. ASSUME NEW u \in Fragile, FailOrRecover(u) PROVE Typed'
  BY <1>7, BoundsAssumption DEF FailOrRecover, TypeOK, SinceTyped, warmVars, bgVars, refreshVars, callVars
<1>8. CASE Shutdown
  BY <1>8 DEF Shutdown, TypeOK, SinceTyped, warmVars, bgVars, refreshVars, callVars
<1>9. CASE UNCHANGED vars
  BY <1>9 DEF vars, environment, warmVars, bgVars, refreshVars, callVars, TypeOK, SinceTyped
<1> QED BY <1>1, <1>2, <1>3, <1>4, <1>5, <1>6, <1>7, <1>8, <1>9 DEF Next

-----------------------------------------------------------------------------
(* One load and one refresh.                                               *)

\* Before the first cache nobody serves and nobody refreshes.
Quiet == ~invalidated /\ ~Ready => Busy = {} /\ \A c \in Callers : cpc[c] = "idle"

Single == OneRefresh /\ Quiet

LEMMA InitSingle == Init => Single
BY ActorsAssumption DEF Init, Single, OneRefresh, Quiet, Loaders, Fetchers, Busy, Ready

\* What an action of the warmers that starts or ends no fetch preserves.
LEMMA WarmerSingle ==
  ASSUME Typed, Single, NEW w \in Warmers,
         \/ CheckReady(w) \/ WarmupReady(w) \/ WarmupJoin(w) \/ WarmupWoken(w)
         \/ WarmupGiveUp(w) \/ Retry(w) \/ WarmAgain(w)
  PROVE  Single'
<1>1. UNCHANGED <<cached, bgRefresh, bpc, cpc, invalidated, loading>>
  BY DEF CheckReady, WarmupReady, WarmupJoin, WarmupWoken, WarmupGiveUp, Retry, WarmAgain,
         bgVars, callVars
<1>2. /\ \A v \in Warmers \ {w} : wpc'[v] = wpc[v] /\ waitOn'[v] = waitOn[v]
      /\ wpc[w] \in {"loop", "warmup", "waiting", "woken", "sleep", "returned"}
      /\ wpc'[w] \in {"loop", "warmup", "waiting", "woken", "sleep", "returned"}
      /\ wpc'[w] = "waiting" => waitOn'[w] = loading /\ loading # NoOne
  BY DEF Typed, TypeOK, CheckReady, WarmupReady, WarmupJoin, WarmupWoken, WarmupGiveUp,
         Retry, WarmAgain, AfterSleep
<1>3. UNCHANGED <<Loaders, Fetchers, Busy, Ready>>
  BY <1>1, <1>2 DEF Loaders, Fetchers, Busy, Ready
<1>4. Loaders = IF loading = NoOne THEN {} ELSE {loading}
  BY DEF Single, OneRefresh
<1>5. \A v \in Warmers : wpc'[v] = "waiting" =>
        waitOn'[v] \in Loaders \cup {x \in Warmers : wpc'[x] \in {"close_ok", "close_err"}}
  <2> SUFFICES ASSUME NEW v \in Warmers, wpc'[v] = "waiting"
               PROVE  waitOn'[v] \in Loaders \cup {x \in Warmers : wpc'[x] \in {"close_ok", "close_err"}}
    OBVIOUS
  <2>1. CASE v = w
    BY <2>1, <1>2, <1>4
  <2>2. CASE v # w
    BY <2>2, <1>2 DEF Single, OneRefresh
  <2> QED BY <2>1, <2>2
<1> QED BY <1>1, <1>3, <1>5 DEF Single, OneRefresh, Quiet

LEMMA StepSingle == Typed /\ Typed' /\ Single /\ [Next]_vars => Single'
<1> SUFFICES ASSUME Typed, Typed', Single, [Next]_vars PROVE Single'
  OBVIOUS
<1>1. ASSUME NEW w \in Warmers, Warm(w) \/ WarmupGiveUp(w) \/ WarmAgain(w) PROVE Single'
  <2>1. CASE WarmupLead(w)
    <3>1. /\ UNCHANGED <<cached, bgRefresh, bpc, cpc, invalidated, waitOn>>
          /\ loading = NoOne /\ loading' = w /\ ~Ready
          /\ wpc[w] = "warmup" /\ wpc' = [wpc EXCEPT ![w] = "fetch"]
      BY <2>1 DEF WarmupLead, MayLead, bgVars, callVars
    <3>2. Loaders' = {w} /\ w # NoOne
      BY <3>1, ActorsAssumption DEF Loaders, Single, OneRefresh, Typed, TypeOK
    <3>3. Busy' = Busy /\ Ready' = Ready /\ (~invalidated => Busy = {})
      BY <3>1 DEF Busy, Ready, Single, Quiet
    <3>4. \A v \in Warmers : wpc'[v] = "waiting" =>
            waitOn'[v] \in Loaders' \cup {x \in Warmers : wpc'[x] \in {"close_ok", "close_err"}}
      BY <3>1, <3>2 DEF Single, OneRefresh, Typed, TypeOK
    <3> QED BY <3>1, <3>2, <3>3, <3>4 DEF Single, OneRefresh, Quiet
  <2>2. CASE WarmupFetch(w)
    <3>1. UNCHANGED <<cached, bgRefresh, bpc, cpc, invalidated, waitOn, wpc, loading>>
      BY <2>2 DEF WarmupFetch, bgVars, callVars, warmVars
    <3> QED BY <3>1 DEF Single, OneRefresh, Quiet, Loaders, Fetchers, Busy, Ready
  <2>3. CASE WarmupFetchFails(w) \/ WarmupPublish(w)
    <3>1. /\ UNCHANGED <<bgRefresh, bpc, cpc, invalidated, waitOn, loading>>
          /\ wpc[w] = "fetch" /\ wpc'[w] \in {"failed", "loaded"}
          /\ \A v \in Warmers \ {w} : wpc'[v] = wpc[v]
      BY <2>3 DEF WarmupFetchFails, WarmupPublish, Typed, TypeOK, bgVars, callVars
    <3>2. Loaders' = Loaders /\ Busy' = Busy
      BY <3>1 DEF Loaders, Busy
    <3>3. Loaders = {w}
      BY <3>1 DEF Loaders, Single, OneRefresh
    <3>4. Fetchers' = {}
      BY <3>1, <3>2, <3>3 DEF Fetchers, Loaders
    <3>5. Quiet'
      BY <3>1, <3>2 DEF Single, OneRefresh, Quiet, Fetchers
    <3>6. \A v \in Warmers : wpc'[v] = "waiting" =>
            waitOn'[v] \in Loaders' \cup {x \in Warmers : wpc'[x] \in {"close_ok", "close_err"}}
      BY <3>1, <3>2 DEF Single, OneRefresh
    <3> QED BY <3>1, <3>2, <3>4, <3>5, <3>6 DEF Single, OneRefresh
  <2>4. CASE WarmupUnload(w)
    <3>1. /\ UNCHANGED <<cached, bgRefresh, bpc, cpc, invalidated, waitOn>>
          /\ loading' = NoOne
          /\ wpc[w] \in {"failed", "loaded"} /\ wpc'[w] \in {"close_ok", "close_err"}
          /\ \A v \in Warmers \ {w} : wpc'[v] = wpc[v]
      BY <2>4 DEF WarmupUnload, Typed, TypeOK, bgVars, callVars
    <3>2. Loaders = {w}
      BY <3>1 DEF Loaders, Single, OneRefresh
    <3>3. Loaders' = {} /\ Fetchers' = {} /\ Busy' = Busy /\ Ready' = Ready
      BY <3>1, <3>2 DEF Loaders, Fetchers, Busy, Ready
    <3>4. \A v \in Warmers : wpc'[v] = "waiting" =>
            waitOn'[v] \in Loaders' \cup {x \in Warmers : wpc'[x] \in {"close_ok", "close_err"}}
      BY <3>1, <3>2 DEF Single, OneRefresh
    <3> QED BY <3>1, <3>3, <3>4 DEF Single, OneRefresh, Quiet
  <2>5. CASE WarmupClose(w)
    <3>1. /\ UNCHANGED <<cached, bgRefresh, bpc, cpc, invalidated, loading>>
          /\ wpc[w] \in {"close_ok", "close_err"} /\ wpc'[w] \in {"returned", "sleep"}
          /\ \A v \in Woken(w) \ {w} : wpc[v] = "waiting" /\ wpc'[v] = "woken"
          /\ \A v \in Warmers \ (Woken(w) \cup {w}) : wpc'[v] = wpc[v] /\ waitOn'[v] = waitOn[v]
      BY <2>5 DEF WarmupClose, Woken, bgVars, callVars
    <3>2. UNCHANGED <<Loaders, Fetchers, Busy, Ready>>
      BY <3>1 DEF Loaders, Fetchers, Busy, Ready
    <3>3. ASSUME NEW v \in Warmers, wpc'[v] = "waiting"
          PROVE  waitOn'[v] \in Loaders' \cup {x \in Warmers : wpc'[x] \in {"close_ok", "close_err"}}
      <4>1. wpc[v] = "waiting" /\ waitOn'[v] = waitOn[v] /\ waitOn[v] # w
        BY <3>1, <3>3 DEF Woken
      <4> QED BY <4>1, <3>1, <3>2 DEF Single, OneRefresh, Woken
    <3> QED BY <3>1, <3>2, <3>3 DEF Single, OneRefresh, Quiet
  <2> QED BY <1>1, <2>1, <2>2, <2>3, <2>4, <2>5, WarmerSingle DEF Warm
<1>2. ASSUME NEW b \in Workers, Refresh(b) PROVE Single'
  <2>1. CASE RefreshFetch(b)
    <3>1. UNCHANGED <<cached, bgRefresh, bpc, cpc, invalidated, waitOn, wpc, loading>>
      BY <2>1 DEF RefreshFetch, bgVars, callVars, warmVars
    <3> QED BY <3>1 DEF Single, OneRefresh, Quiet, Loaders, Fetchers, Busy, Ready
  <2>2. CASE RefreshFails(b) \/ RefreshPublish(b)
    <3>1. /\ UNCHANGED <<bgRefresh, cpc, invalidated, waitOn, wpc, loading>>
          /\ b \in Busy /\ bpc' = [bpc EXCEPT ![b] = "release"]
      BY <2>2 DEF RefreshFails, RefreshPublish, Busy, callVars, warmVars
    <3>2. Busy' = Busy /\ UNCHANGED <<Loaders, Fetchers>>
      BY <3>1 DEF Busy, Loaders, Fetchers, Typed, TypeOK
    <3>3. ~invalidated => Fetchers = {} /\ Ready
      BY <3>1 DEF Single, OneRefresh, Quiet
    <3>4. ~invalidated => Ready'
      <4>1. CASE RefreshFails(b)
        BY <4>1, <3>3 DEF RefreshFails, AfterFailure, Ready
      <4>2. CASE RefreshPublish(b)
        BY <4>2, NoCacheDiffers DEF RefreshPublish, Publish, Ready
      <4> QED BY <2>2, <4>1, <4>2
    <3> QED BY <3>1, <3>2, <3>3, <3>4 DEF Single, OneRefresh, Quiet
  <2>3. CASE RefreshRelease(b)
    <3>1. /\ UNCHANGED <<cached, cpc, invalidated, waitOn, wpc, loading>>
          /\ b \in Busy /\ bpc' = [bpc EXCEPT ![b] = "idle"] /\ bgRefresh' = FALSE
      BY <2>3 DEF RefreshRelease, Released, Busy, callVars, warmVars
    <3>2. Busy' = {} /\ UNCHANGED <<Loaders, Fetchers, Ready>>
      BY <3>1 DEF Busy, Loaders, Fetchers, Ready, Typed, TypeOK, Single, OneRefresh
    <3> QED BY <3>1, <3>2 DEF Single, OneRefresh, Quiet
  <2> QED BY <1>2, <2>1, <2>2, <2>3 DEF Refresh
<1>3. ASSUME NEW c \in Callers, GetCache(c) \/ Serve(c) PROVE Single'
  <2>1. CASE StartRefresh(c)
    <3> DEFINE b == CHOOSE w \in Workers : bpc[w] = "idle"
    <3>1. b \in Workers
      BY <2>1 DEF StartRefresh
    <3>2. /\ bpc' = [bpc EXCEPT ![b] = "fetch"] /\ cpc[c] = "stale"
          /\ UNCHANGED <<cached, invalidated, waitOn, wpc, loading>>
          /\ ~bgRefresh /\ bgRefresh'
      BY <2>1 DEF StartRefresh, MayRefresh, warmVars
    <3> HIDE DEF b
    <3>3. Busy = {} /\ Busy' = {b} /\ UNCHANGED <<Loaders, Fetchers, Ready>>
      BY <3>1, <3>2 DEF Busy, Loaders, Fetchers, Ready, Typed, TypeOK, Single, OneRefresh
    <3>4. ~invalidated => Ready
      BY <3>2 DEF Single, Quiet
    <3> QED BY <3>2, <3>3, <3>4 DEF Single, OneRefresh, Quiet
  <2>2. CASE GetCache(c) \/ LeaveRefresh(c) \/ Return(c)
    <3>1. /\ UNCHANGED <<cached, bgRefresh, bpc, invalidated, waitOn, wpc, loading>>
          /\ Ready \/ cpc[c] # "idle"
      BY <2>2 DEF GetCache, LeaveRefresh, Return, warmVars, bgVars
    <3>2. UNCHANGED <<Loaders, Fetchers, Busy, Ready>> /\ (~invalidated => Ready)
      BY <3>1 DEF Loaders, Fetchers, Busy, Ready, Single, Quiet
    <3> QED BY <3>1, <3>2 DEF Single, OneRefresh, Quiet
  <2> QED BY <1>3, <2>1, <2>2 DEF Serve
<1>4. CASE InvalidateCache
  <2>1. invalidated' /\ UNCHANGED <<bgRefresh, bpc, cpc, waitOn, wpc, loading>>
    BY <1>4 DEF InvalidateCache, warmVars, bgVars, callVars
  <2>2. UNCHANGED <<Loaders, Fetchers, Busy>>
    BY <2>1 DEF Loaders, Fetchers, Busy
  <2> QED BY <2>1, <2>2 DEF Single, OneRefresh, Quiet
<1>5. CASE Expire
  <2>1. /\ UNCHANGED <<bgRefresh, bpc, cpc, invalidated, waitOn, wpc, loading>>
        /\ Ready /\ cached' = [cached EXCEPT !.fresh = FALSE]
    BY <1>5 DEF Expire, warmVars, bgVars, callVars
  <2>2. Ready'
    BY <2>1, NoCacheDiffers DEF Ready, Typed, TypeOK, Cache
  <2>3. UNCHANGED <<Loaders, Fetchers, Busy>>
    BY <2>1 DEF Loaders, Fetchers, Busy
  <2> QED BY <2>1, <2>2, <2>3 DEF Single, OneRefresh, Quiet
<1>6. CASE \/ \E u \in Changing : ToolsChange(u)
           \/ \E u \in Fragile : FailOrRecover(u)
           \/ Shutdown \/ UNCHANGED vars
  <2>1. UNCHANGED <<cached, bgRefresh, bpc, cpc, invalidated, waitOn, wpc, loading>>
    BY <1>6 DEF ToolsChange, FailOrRecover, Shutdown, vars, warmVars, bgVars, callVars
  <2>2. UNCHANGED <<Loaders, Fetchers, Busy, Ready>>
    BY <2>1 DEF Loaders, Fetchers, Busy, Ready
  <2> QED BY <2>1, <2>2 DEF Single, OneRefresh, Quiet
<1> QED BY <1>1, <1>2, <1>3, <1>4, <1>5, <1>6 DEF Next

-----------------------------------------------------------------------------
(* What the cache holds.                                                   *)

Current(k) ==
  k # NoCache =>
    \A u \in Upstreams : k.since[u] <= k.lists[u] /\ k.lists[u] <= version[u]

Fetching(r) == (r \in Warmers /\ wpc[r] = "fetch") \/ (r \in Workers /\ bpc[r] = "fetch")

\* The lists r holds so far.
GotCurrent(r) ==
  Fetching(r) =>
    /\ \A u \in Upstreams : since[r][u] <= version[u]
    /\ \A u \in 1..Len(got[r]) : since[r][u] <= got[r][u] /\ got[r][u] <= version[u]

AllCurrent ==
  /\ Current(cached)
  /\ \A c \in Callers : Current(view[c])
  /\ \A r \in Refreshers : GotCurrent(r)

\* A background refresh began after the cache it is to replace was made.
Ahead ==
  ~invalidated =>
    \A b \in Workers : bpc[b] = "fetch" =>
      \A u \in Upstreams : cached.lists[u] <= since[b][u]

IInv == Typed /\ Single /\ AllCurrent /\ Ahead

LEMMA InitIInv == Init => IInv
<1>1. Init => AllCurrent /\ Ahead
  BY ActorsAssumption DEF Init, AllCurrent, Ahead, Current, GotCurrent, Fetching
<1> QED BY <1>1, InitTyped, InitSingle DEF IInv

LEMMA ListsTyped ==
  ASSUME Typed
  PROVE  /\ \A u \in Upstreams : version[u] \in Nat
         /\ \A r \in Refreshers : Fetching(r) => \A u \in Upstreams : since[r][u] \in Nat
         /\ \A r \in Refreshers : Len(got[r]) \in Nat /\ Len(got[r]) <= N
                                  /\ \A u \in 1..Len(got[r]) : got[r][u] \in Nat /\ u \in Upstreams
         /\ \A k : k \in Cache /\ k # NoCache =>
              \A u \in Upstreams : k.lists[u] \in Nat /\ k.since[u] \in Nat
<1>1. \A l \in Lists, u \in Upstreams : l[u] \in Nat
  BY DEF Lists, Versions
<1>2. version \in Lists /\ \A r \in Refreshers : Fetching(r) => since[r] \in Lists
  BY DEF Typed, TypeOK, SinceTyped, Fetching
<1>3. ASSUME NEW r \in Refreshers
      PROVE  /\ Len(got[r]) \in Nat /\ Len(got[r]) <= N
             /\ \A u \in 1..Len(got[r]) : got[r][u] \in Nat /\ u \in Upstreams
  <2>1. got[r] \in Seq(Versions) /\ Len(got[r]) <= N
    BY DEF Typed, TypeOK
  <2>2. Len(got[r]) \in Nat /\ \A u \in 1..Len(got[r]) : got[r][u] \in Versions
    BY <2>1
  <2>3. \A u \in 1..Len(got[r]) : u \in Upstreams
    BY <2>1, <2>2, BoundsAssumption DEF Upstreams
  <2> QED BY <2>1, <2>2, <2>3 DEF Versions
<1>4. \A k : k \in Cache /\ k # NoCache => k.lists \in Lists /\ k.since \in Lists
  BY DEF Cache
<1> QED BY <1>1, <1>2, <1>3, <1>4

\* A refresh of r that begins, receives a list, or ends.
LEMMA BeginCurrent ==
  ASSUME Typed, Typed', AllCurrent, NEW r \in Refreshers, BeginRefresh(r),
         UNCHANGED <<version, cached, view>>,
         \A q \in Refreshers \ {r} : Fetching(q)' => Fetching(q)
  PROVE  AllCurrent'
<1>1. since'[r] = version /\ got'[r] = << >>
  BY DEF BeginRefresh, Typed, TypeOK
<1>2. \A q \in Refreshers \ {r} : since'[q] = since[q] /\ got'[q] = got[q]
  BY DEF BeginRefresh, Typed, TypeOK
<1>3. GotCurrent(r)'
  <2>1. \A u \in Upstreams : version[u] <= version[u]
    BY ListsTyped
  <2>2. 1..Len(got'[r]) = {}
    BY <1>1
  <2> QED BY <1>1, <2>1, <2>2 DEF GotCurrent
<1>4. \A q \in Refreshers \ {r} : GotCurrent(q)'
  BY <1>2 DEF AllCurrent, GotCurrent
<1> QED BY <1>3, <1>4 DEF AllCurrent, Current

LEMMA FetchCurrent ==
  ASSUME Typed, AllCurrent, NEW r \in Refreshers, FetchOk(r),
         UNCHANGED <<version, cached, view, wpc, bpc>>
  PROVE  AllCurrent'
<1> DEFINE n == Len(got[r]) + 1
<1>1. n \in Upstreams /\ got[r] \in Seq(Versions) /\ version[n] \in Versions
  BY DEF FetchOk, Typed, TypeOK, Lists
<1>2. got'[r] = Append(got[r], version[n]) /\ since' = since
      /\ \A q \in Refreshers \ {r} : got'[q] = got[q]
  BY DEF FetchOk, ListOf, Typed, TypeOK
<1>3. GotCurrent(r)'
  <2> SUFFICES ASSUME Fetching(r)'
               PROVE  /\ \A u \in Upstreams : since'[r][u] <= version'[u]
                      /\ \A u \in 1..Len(got'[r]) : since'[r][u] <= got'[r][u]
                                                    /\ got'[r][u] <= version'[u]
    BY DEF GotCurrent
  <2>1. /\ \A u \in Upstreams : since[r][u] <= version[u]
        /\ \A u \in 1..Len(got[r]) : since[r][u] <= got[r][u] /\ got[r][u] <= version[u]
    BY DEF Fetching, AllCurrent, GotCurrent
  <2>2. /\ Len(got'[r]) = n /\ got'[r][n] = version[n]
        /\ \A u \in 1..Len(got[r]) : got'[r][u] = got[r][u]
    BY <1>1, <1>2
  <2>3. version[n] <= version[n] /\ n \in Nat
    BY <1>1, ListsTyped DEF Upstreams
  <2>4. \A u \in 1..n : u = n \/ u \in 1..Len(got[r])
    BY <1>1
  <2> QED BY <1>1, <1>2, <2>1, <2>2, <2>3, <2>4
<1>4. \A q \in Refreshers \ {r} : GotCurrent(q)'
  BY <1>2 DEF AllCurrent, GotCurrent, Fetching
<1> QED BY <1>3, <1>4 DEF AllCurrent, Current

LEMMA EndCurrent ==
  ASSUME Typed, AllCurrent, NEW r \in Refreshers, EndRefresh(r), ~Fetching(r)',
         UNCHANGED <<version, view>>, Current(cached)',
         \A q \in Refreshers \ {r} : Fetching(q)' => Fetching(q)
  PROVE  AllCurrent'
<1>1. \A q \in Refreshers \ {r} : since'[q] = since[q] /\ got'[q] = got[q]
  BY DEF EndRefresh, Typed, TypeOK
<1>2. \A q \in Refreshers \ {r} : GotCurrent(q)'
  BY <1>1 DEF AllCurrent, GotCurrent
<1>3. GotCurrent(r)'
  BY DEF GotCurrent
<1> QED BY <1>2, <1>3 DEF AllCurrent, Current

LEMMA PublishCurrent ==
  ASSUME Typed, AllCurrent, NEW r \in Refreshers, Fetching(r), Publish(r), version' = version
  PROVE  Current(cached)' /\ cached'.lists = got[r]
<1>1. PICK fresh \in BOOLEAN :
        cached' = [lists |-> got[r], fresh |-> fresh, since |-> since[r]]
  BY DEF Publish
<1>2. \A u \in Upstreams : since[r][u] <= got[r][u] /\ got[r][u] <= version[u]
  BY BoundsAssumption DEF AllCurrent, GotCurrent, Publish, AllFetched, Upstreams
<1> QED BY <1>1, <1>2 DEF Current

\* The other actions: nobody begins, receives or publishes a list.
LEMMA OthersCurrent ==
  ASSUME Typed, Typed', AllCurrent,
         UNCHANGED <<got, since>>,
         \A r \in Refreshers : Fetching(r)' => Fetching(r),
         \A u \in Upstreams : version[u] <= version'[u],
         \/ cached' \in {cached, NoCache}
         \/ cached # NoCache /\ cached' = [cached EXCEPT !.fresh = FALSE],
         \A c \in Callers :
           \/ view'[c] \in {view[c], NoCache}
           \/ cached # NoCache /\ view'[c] = [cached EXCEPT !.fresh = FALSE]
  PROVE  AllCurrent'
<1>1. \A u \in Upstreams : version[u] \in Nat /\ version'[u] \in Nat
  <2>1. version \in Lists /\ version' \in Lists
    BY DEF Typed, TypeOK
  <2> QED BY <2>1 DEF Lists, Versions
<1>2. ASSUME NEW k \in Cache, Current(k)
      PROVE  k # NoCache => \A u \in Upstreams : k.since[u] <= k.lists[u] /\ k.lists[u] <= version'[u]
  BY <1>1, <1>2, ListsTyped DEF Current
<1>3. cached \in Cache /\ Current(cached) /\ \A c \in Callers : view[c] \in Cache /\ Current(view[c])
  BY DEF Typed, TypeOK, AllCurrent
<1>4. cached # NoCache =>
        /\ [cached EXCEPT !.fresh = FALSE].lists = cached.lists
        /\ [cached EXCEPT !.fresh = FALSE].since = cached.since
  BY <1>3 DEF Cache
<1>5. Current(cached)'
  <2>1. CASE cached' = cached
    BY <2>1, <1>2, <1>3 DEF Current
  <2>2. CASE cached' = NoCache
    BY <2>2 DEF Current
  <2>3. CASE cached # NoCache /\ cached' = [cached EXCEPT !.fresh = FALSE]
    <3>1. cached'.lists = cached.lists /\ cached'.since = cached.since
      BY <2>3, <1>4
    <3> QED BY <3>1, <2>3, <1>2, <1>3 DEF Current
  <2> QED BY <2>1, <2>2, <2>3
<1>6. \A c \in Callers : Current(view[c])'
  BY <1>2, <1>3, <1>4 DEF Current
<1>7. ASSUME NEW r \in Refreshers PROVE GotCurrent(r)'
  <2> SUFFICES ASSUME Fetching(r)'
               PROVE  /\ \A u \in Upstreams : since[r][u] <= version'[u]
                      /\ \A u \in 1..Len(got[r]) : since[r][u] <= got[r][u]
                                                    /\ got[r][u] <= version'[u]
    BY DEF GotCurrent
  <2>1. Fetching(r)
    OBVIOUS
  <2>2. /\ \A u \in Upstreams : since[r][u] <= version[u]
        /\ \A u \in 1..Len(got[r]) : since[r][u] <= got[r][u] /\ got[r][u] <= version[u]
    BY <2>1 DEF AllCurrent, GotCurrent
  <2> QED BY <1>1, <2>1, <2>2, ListsTyped
<1> QED BY <1>5, <1>6, <1>7 DEF AllCurrent

LEMMA StepCurrent ==
  ASSUME Typed, Typed', AllCurrent, [Next]_vars
  PROVE  AllCurrent'
<1> USE DEF Fetching
<1>1. ASSUME NEW w \in Warmers, Warm(w) \/ WarmupGiveUp(w) \/ WarmAgain(w) PROVE AllCurrent'
  <2> w \in Refreshers
    BY DEF Refreshers
  <2>1. CASE WarmupLead(w)
    BY <2>1, BeginCurrent DEF WarmupLead, environment, bgVars, callVars, Typed, TypeOK, Refreshers
  <2>2. CASE WarmupFetch(w)
    BY <2>2, FetchCurrent DEF WarmupFetch, environment, warmVars, bgVars, callVars
  <2>3. CASE WarmupFetchFails(w)
    <3>1. /\ EndRefresh(w) /\ UNCHANGED <<version, view, cached, bpc>>
          /\ wpc' = [wpc EXCEPT ![w] = "failed"]
      BY <2>3 DEF WarmupFetchFails, environment, bgVars, callVars
    <3>2. ~Fetching(w)' /\ \A q \in Refreshers \ {w} : Fetching(q)' => Fetching(q)
      BY <3>1, ActorsAssumption DEF Typed, TypeOK, Refreshers
    <3>3. Current(cached)'
      BY <3>1 DEF AllCurrent, Current
    <3> QED BY <3>1, <3>2, <3>3, EndCurrent
  <2>4. CASE WarmupPublish(w)
    <3>1. /\ EndRefresh(w) /\ UNCHANGED <<version, view, bpc>> /\ Publish(w) /\ Fetching(w)
          /\ wpc' = [wpc EXCEPT ![w] = "loaded"]
      BY <2>4 DEF WarmupPublish, environment, bgVars, callVars
    <3>2. ~Fetching(w)' /\ \A q \in Refreshers \ {w} : Fetching(q)' => Fetching(q)
      BY <3>1, ActorsAssumption DEF Typed, TypeOK, Refreshers
    <3>3. Current(cached)'
      BY <3>1, PublishCurrent
    <3> QED BY <3>1, <3>2, <3>3, EndCurrent
  <2>5. CASE \/ CheckReady(w) \/ WarmupReady(w) \/ WarmupJoin(w) \/ WarmupUnload(w)
             \/ WarmupClose(w) \/ WarmupWoken(w) \/ WarmupGiveUp(w) \/ Retry(w) \/ WarmAgain(w)
    <3>1. UNCHANGED <<version, cached, view, got, since, bpc>>
      BY <2>5 DEF CheckReady, WarmupReady, WarmupJoin, WarmupUnload, WarmupClose, WarmupWoken,
         WarmupGiveUp, Retry, WarmAgain, environment, bgVars, refreshVars, callVars
    <3>2. \A v \in Warmers : wpc'[v] = "fetch" => wpc[v] = "fetch"
      BY <2>5 DEF Typed, TypeOK, CheckReady, WarmupReady, WarmupJoin, WarmupUnload, WarmupClose,
         WarmupWoken, WarmupGiveUp, Retry, WarmAgain, AfterSleep
    <3> QED BY <3>1, <3>2 DEF AllCurrent, Current, GotCurrent
  <2> QED BY <1>1, <2>1, <2>2, <2>3, <2>4, <2>5 DEF Warm
<1>2. ASSUME NEW b \in Workers, Refresh(b) PROVE AllCurrent'
  <2> b \in Refreshers
    BY DEF Refreshers
  <2>1. CASE RefreshFetch(b)
    BY <2>1, FetchCurrent DEF RefreshFetch, environment, warmVars, bgVars, callVars
  <2>2. CASE RefreshFails(b) \/ RefreshPublish(b)
    <3>1. /\ EndRefresh(b) /\ UNCHANGED <<version, view, wpc>> /\ Fetching(b)
          /\ bpc' = [bpc EXCEPT ![b] = "release"] /\ (cached' = cached \/ Publish(b))
      BY <2>2 DEF RefreshFails, RefreshPublish, AfterFailure, environment, warmVars, callVars
    <3>2. ~Fetching(b)' /\ \A q \in Refreshers \ {b} : Fetching(q)' => Fetching(q)
      BY <3>1, ActorsAssumption DEF Typed, TypeOK, Refreshers
    <3>3. Current(cached)'
      <4>1. CASE Publish(b)
        BY <4>1, <3>1, PublishCurrent
      <4>2. CASE cached' = cached
        BY <4>2, <3>1 DEF AllCurrent, Current
      <4> QED BY <3>1, <4>1, <4>2
    <3> QED BY <3>1, <3>2, <3>3, EndCurrent
  <2>3. CASE RefreshRelease(b)
    <3>1. UNCHANGED <<version, cached, view, got, since, wpc>> /\ bpc' = [bpc EXCEPT ![b] = "idle"]
      BY <2>3 DEF RefreshRelease, environment, warmVars, refreshVars, callVars
    <3>2. \A r \in Workers : bpc'[r] = "fetch" => bpc[r] = "fetch"
      BY <3>1 DEF Typed, TypeOK
    <3> QED BY <3>1, <3>2 DEF AllCurrent, Current, GotCurrent
  <2> QED BY <1>2, <2>1, <2>2, <2>3 DEF Refresh
<1>3. ASSUME NEW c \in Callers, GetCache(c) \/ Serve(c) PROVE AllCurrent'
  <2>1. CASE StartRefresh(c)
    <3> DEFINE b == CHOOSE w \in Workers : bpc[w] = "idle"
    <3>1. b \in Workers
      BY <2>1 DEF StartRefresh
    <3>2. BeginRefresh(b) /\ bpc' = [bpc EXCEPT ![b] = "fetch"] /\ UNCHANGED <<version, cached, view, wpc>>
      BY <2>1 DEF StartRefresh, environment, warmVars
    <3> HIDE DEF b
    <3>3. \A q \in Refreshers \ {b} : Fetching(q)' => Fetching(q)
      BY <3>1, <3>2 DEF Typed, TypeOK
    <3> QED BY <3>1, <3>2, <3>3, BeginCurrent DEF Refreshers
  <2>2. CASE LeaveRefresh(c) \/ Return(c) \/ GetCache(c)
    <3>1. /\ UNCHANGED <<version, cached, got, since, wpc, bpc>>
          /\ \A d \in Callers :
               \/ view'[d] \in {view[d], NoCache}
               \/ cached # NoCache /\ view'[d] = [cached EXCEPT !.fresh = FALSE]
      BY <2>2 DEF LeaveRefresh, Return, GetCache, Ready, Typed, TypeOK,
                  environment, warmVars, bgVars, refreshVars
    <3>2. \A u \in Upstreams : version[u] <= version'[u]
      BY <3>1, ListsTyped
    <3> QED BY <3>1, <3>2, OthersCurrent
  <2> QED BY <1>3, <2>1, <2>2 DEF Serve
<1>4. CASE \/ InvalidateCache \/ Expire \/ \E u \in Changing : ToolsChange(u)
           \/ \E u \in Fragile : FailOrRecover(u)
           \/ Shutdown \/ UNCHANGED vars
  <2>1. UNCHANGED <<got, since, wpc, bpc, view>>
    BY <1>4 DEF InvalidateCache, Expire, ToolsChange, FailOrRecover, Shutdown, vars,
                warmVars, bgVars, refreshVars, callVars
  <2>2. \/ cached' \in {cached, NoCache}
        \/ cached # NoCache /\ cached' = [cached EXCEPT !.fresh = FALSE]
    BY <1>4 DEF InvalidateCache, Expire, ToolsChange, FailOrRecover, Shutdown, vars, Ready
  <2>3. \A u \in Upstreams : version[u] <= version'[u]
    <3>1. version' = version \/ \E u \in Upstreams : version' = [version EXCEPT ![u] = @ + 1]
      BY <1>4, BoundsAssumption DEF InvalidateCache, Expire, ToolsChange, FailOrRecover,
                                    Shutdown, vars, environment
    <3>2. version \in Lists
      BY DEF Typed, TypeOK
    <3> QED BY <3>1, <3>2, ListsTyped DEF Lists
  <2> QED BY <2>1, <2>2, <2>3, OthersCurrent
<1> QED BY <1>1, <1>2, <1>3, <1>4 DEF Next

-----------------------------------------------------------------------------
(* The cache advances.                                                     *)

LEMMA ExpiredLists ==
  ASSUME Typed, Ready
  PROVE  [cached EXCEPT !.fresh = FALSE].lists = cached.lists
BY DEF Typed, TypeOK, Cache, Ready

\* How a step changes the cache.
LEMMA CacheSteps ==
  ASSUME IInv, [Next]_vars
  PROVE  \/ cached' = cached
         \/ invalidated'
         \/ Ready /\ cached' = [cached EXCEPT !.fresh = FALSE] /\ bpc' = bpc /\ since' = since
         \/ \E w \in Warmers : WarmupPublish(w)
         \/ \E b \in Workers : RefreshPublish(b)
BY DEF vars, Next, Warm, Refresh, Serve,
       CheckReady, WarmupReady, WarmupJoin, WarmupLead, WarmupFetch, WarmupFetchFails,
       WarmupUnload, WarmupClose, WarmupWoken, WarmupGiveUp, Retry, WarmAgain,
       RefreshFetch, RefreshFails, AfterFailure, RefreshRelease,
       GetCache, StartRefresh, LeaveRefresh, Return,
       InvalidateCache, Expire, ToolsChange, FailOrRecover, Shutdown,
       environment, warmVars, bgVars, refreshVars, callVars

LEMMA InvalidatedStays == [Next]_vars /\ ~invalidated' => invalidated' = invalidated
BY DEF vars, Next, Warm, Refresh, Serve,
       CheckReady, WarmupReady, WarmupJoin, WarmupLead, WarmupFetch, WarmupFetchFails,
       WarmupPublish, WarmupUnload, WarmupClose, WarmupWoken, WarmupGiveUp, Retry, WarmAgain,
       RefreshFetch, RefreshFails, RefreshPublish, RefreshRelease,
       GetCache, StartRefresh, LeaveRefresh, Return,
       InvalidateCache, Expire, ToolsChange, FailOrRecover, Shutdown

\* How a background goroutine comes to fetch.
LEMMA FetchSteps ==
  ASSUME IInv, [Next]_vars, NEW b \in Workers, bpc'[b] = "fetch"
  PROVE  \/ bpc[b] = "fetch" /\ since'[b] = since[b]
         \/ since'[b] = version /\ cached' = cached /\ \E c \in Callers : cpc[c] = "stale"
<1> b \in Refreshers /\ b \notin Warmers
  BY ActorsAssumption DEF Refreshers
<1> bpc \in [Workers -> {"idle", "fetch", "release"}] /\ DOMAIN since = Refreshers
  BY DEF IInv, Typed, TypeOK
<1>1. ASSUME NEW w \in Warmers, Warm(w) \/ WarmupGiveUp(w) \/ WarmAgain(w)
      PROVE  bpc' = bpc /\ since'[b] = since[b]
  BY <1>1 DEF Warm, CheckReady, WarmupReady, WarmupJoin, WarmupLead, WarmupFetch,
         WarmupFetchFails, WarmupPublish, WarmupUnload, WarmupClose, WarmupWoken, WarmupGiveUp,
         Retry, WarmAgain, BeginRefresh, FetchOk, EndRefresh, bgVars, refreshVars
<1>2. ASSUME NEW x \in Workers, Refresh(x)
      PROVE  bpc[b] = "fetch" /\ since'[b] = since[b]
  <2> x \in Refreshers
    BY DEF Refreshers
  <2>1. CASE RefreshFetch(x)
    BY <2>1 DEF RefreshFetch, FetchOk, bgVars
  <2>2. CASE RefreshFails(x) \/ RefreshPublish(x)
    BY <2>2 DEF RefreshFails, RefreshPublish, EndRefresh
  <2>3. CASE RefreshRelease(x)
    BY <2>3 DEF RefreshRelease, refreshVars
  <2> QED BY <1>2, <2>1, <2>2, <2>3 DEF Refresh
<1>3. ASSUME NEW c \in Callers, StartRefresh(c)
      PROVE  \/ bpc[b] = "fetch" /\ since'[b] = since[b]
             \/ since'[b] = version /\ cached' = cached /\ cpc[c] = "stale"
  <2> DEFINE x == CHOOSE v \in Workers : bpc[v] = "idle"
  <2>1. x \in Workers /\ BeginRefresh(x) /\ bpc' = [bpc EXCEPT ![x] = "fetch"]
        /\ cached' = cached /\ cpc[c] = "stale"
    BY <1>3 DEF StartRefresh
  <2> HIDE DEF x
  <2> QED BY <2>1 DEF BeginRefresh, Refreshers
<1>4. CASE \/ \E c \in Callers : GetCache(c) \/ LeaveRefresh(c) \/ Return(c)
           \/ InvalidateCache \/ Expire
           \/ \E u \in Changing : ToolsChange(u)
           \/ \E u \in Fragile : FailOrRecover(u)
           \/ Shutdown \/ UNCHANGED vars
  BY <1>4 DEF GetCache, LeaveRefresh, Return, InvalidateCache, Expire, ToolsChange,
              FailOrRecover, Shutdown, vars, bgVars, refreshVars
<1> QED BY <1>1, <1>2, <1>3, <1>4 DEF Next, Serve

LEMMA StepAdvances ==
  ASSUME IInv, [Next]_vars, Ready, ~invalidated'
  PROVE  Ready' /\ \A u \in Upstreams : cached.lists[u] <= cached'.lists[u]
<1>0. ~invalidated
  BY InvalidatedStays
<1>1. Typed /\ AllCurrent /\ \A u \in Upstreams : cached.lists[u] \in Nat
  BY ListsTyped DEF IInv, Typed, TypeOK, Ready
<1>2. CASE cached' = cached
  BY <1>2, <1>1 DEF Ready
<1>3. CASE cached' = [cached EXCEPT !.fresh = FALSE]
  <2>1. cached'.lists = cached.lists
    BY <1>3, <1>1, ExpiredLists
  <2>2. cached' # NoCache
    BY <1>3, <1>1, NoCacheDiffers DEF Typed, TypeOK, Cache, Ready
  <2> QED BY <2>1, <2>2, <1>1 DEF Ready
<1>4. ASSUME NEW w \in Warmers, WarmupPublish(w) PROVE FALSE
  BY <1>0, <1>4 DEF IInv, Single, OneRefresh, Fetchers, WarmupPublish
<1>5. ASSUME NEW b \in Workers, RefreshPublish(b)
      PROVE  Ready' /\ \A u \in Upstreams : cached.lists[u] <= cached'.lists[u]
  <2> b \in Refreshers
    BY DEF Refreshers
  <2>1. Publish(b) /\ Fetching(b) /\ bpc[b] = "fetch"
    BY <1>5 DEF RefreshPublish, Fetching
  <2>2. cached'.lists = got[b] /\ cached' # NoCache
    BY <2>1, NoCacheDiffers DEF Publish
  <2>3. ASSUME NEW u \in Upstreams PROVE cached.lists[u] <= got[b][u]
    <3>1. Len(got[b]) = N
      BY <2>1 DEF Publish, AllFetched
    <3>2. since[b][u] <= got[b][u]
      BY <1>1, <2>1, <3>1 DEF AllCurrent, GotCurrent, Upstreams
    <3>3. cached.lists[u] <= since[b][u]
      BY <1>0, <2>1 DEF IInv, Ahead
    <3>4. since[b][u] \in Nat /\ got[b][u] \in Nat
      BY <1>1, <2>1, <3>1, ListsTyped DEF Upstreams
    <3> QED BY <1>1, <3>2, <3>3, <3>4
  <2> QED BY <2>2, <2>3 DEF Ready
<1> QED BY <1>2, <1>3, <1>4, <1>5, CacheSteps

LEMMA StepAhead == IInv /\ [Next]_vars => Ahead'
<1> SUFFICES ASSUME IInv, [Next]_vars, ~invalidated', NEW b \in Workers, bpc'[b] = "fetch",
                    NEW u \in Upstreams
             PROVE  cached'.lists[u] <= since'[b][u]
  BY DEF Ahead
<1>0. ~invalidated
  BY InvalidatedStays
<1>1. CASE bpc[b] = "fetch" /\ since'[b] = since[b]
  <2>1. cached.lists[u] <= since[b][u] /\ b \in Busy
    BY <1>0, <1>1 DEF IInv, Ahead, Busy
  <2>2. Ready
    BY <1>0, <2>1 DEF IInv, Single, Quiet
  <2>3. CASE cached' = cached
    BY <2>1, <2>3, <1>1
  <2>4. CASE cached' = [cached EXCEPT !.fresh = FALSE]
    BY <2>1, <2>2, <2>4, <1>1, ExpiredLists DEF IInv
  <2>5. ASSUME NEW w \in Warmers, WarmupPublish(w) PROVE FALSE
    BY <1>0, <2>1, <2>5 DEF IInv, Single, OneRefresh, Fetchers, WarmupPublish
  <2>6. ASSUME NEW x \in Workers, RefreshPublish(x) PROVE FALSE
    <3>1. x = b
      BY <2>1, <2>6 DEF IInv, Single, OneRefresh, Busy, RefreshPublish
    <3>2. bpc'[x] = "release"
      BY <2>6 DEF IInv, Typed, TypeOK, RefreshPublish
    <3> QED BY <3>1, <3>2
  <2> QED BY <2>3, <2>4, <2>5, <2>6, CacheSteps
<1>2. CASE since'[b] = version /\ cached' = cached /\ \E c \in Callers : cpc[c] = "stale"
  <2>1. Ready
    BY <1>0, <1>2 DEF IInv, Single, Quiet
  <2> QED BY <1>2, <2>1 DEF IInv, AllCurrent, Current, Ready
<1> QED BY <1>1, <1>2, FetchSteps

LEMMA StepIInv == IInv /\ [Next]_vars => IInv'
BY StepTyped, StepSingle, StepCurrent, StepAhead DEF IInv

LEMMA InvariantIInv == Spec => []IInv
<1> QED BY InitIInv, StepIInv, PTL DEF Spec

-----------------------------------------------------------------------------
(* The theorems.                                                           *)

\* The variables have their types.
THEOREM TypeCorrect == Spec => []TypeOK
<1>1. IInv => TypeOK
  BY DEF IInv, Typed
<1> QED BY <1>1, InvariantIInv, PTL

\* At most one goroutine loads the cache for the warmers and at most one
\* refreshes it in the background, never both before InvalidateCache is called,
\* and nobody waits for a channel that nobody will close.
\* (Warmup, getCache and startBackgroundRefresh in manager.go)
THEOREM RefreshesAreSingle == Spec => []OneRefresh
<1>1. IInv => OneRefresh
  BY DEF IInv, Single
<1> QED BY <1>1, InvariantIInv, PTL

\* What the cache holds is what the upstreams listed after its refresh began.
\* (doRefresh)
THEOREM SnapshotsAreCurrent == Spec => []SnapshotsCurrent
<1>1. IInv => SnapshotsCurrent
  <2> SUFFICES ASSUME IInv, NEW k \in {cached} \cup Range(view), k # NoCache
               PROVE  \A u \in Upstreams : k.since[u] <= k.lists[u] /\ k.lists[u] <= version[u]
    BY DEF SnapshotsCurrent
  <2>1. Current(k)
    BY DEF Range, IInv, AllCurrent, Typed, TypeOK
  <2> QED BY <2>1 DEF Current
<1> QED BY <1>1, InvariantIInv, PTL

\* A tool that exactly one upstream has listed since a refresh began is routed
\* to that upstream.  (the routeMap of doRefresh)
THEOREM RoutesAreStable == Spec => []StableRoutes
<1>1. IInv => StableRoutes
  <2> SUFFICES ASSUME IInv, NEW k \in {cached} \cup Range(view), k # NoCache,
                      NEW n \in Names, NEW u \in Upstreams,
                      Listed(u, n, k.since[u]),
                      \A x \in Upstreams \ {u} : Unlisted(x, n, k.since[x])
               PROVE  RouteOf(k.lists, n) = u
    BY DEF StableRoutes
  <2>1. Current(k) /\ k \in Cache
    BY DEF Range, IInv, AllCurrent, Typed, TypeOK
  <2>2. ASSUME NEW x \in Upstreams PROVE k.lists[x] \in k.since[x]..version[x]
    <3>1. k.since[x] <= k.lists[x] /\ k.lists[x] <= version[x]
      BY <2>1 DEF Current
    <3>2. k.since[x] \in Nat /\ k.lists[x] \in Nat /\ version[x] \in Nat
      BY <2>1, ListsTyped DEF IInv
    <3> QED BY <3>1, <3>2
  <2>3. n \in Offers[u][k.lists[u]] /\ \A x \in Upstreams \ {u} : n \notin Offers[x][k.lists[x]]
    BY <2>2 DEF Listed, Unlisted
  <2>4. {x \in Upstreams : n \in Offers[x][k.lists[x]]} = {u}
    BY <2>3
  <2>5. Max({u}) = u
    BY DEF Max, Upstreams
  <2> QED BY <2>4, <2>5 DEF RouteOf
<1> QED BY <1>1, InvariantIInv, PTL

\* Without InvalidateCache readiness is never lost and no upstream's tools go
\* back to an older list, whatever fails and whoever refreshes.
THEOREM TheCacheAdvances == Spec => CacheAdvances
<1>1. IInv /\ [Next]_vars =>
        [Ready /\ ~invalidated' =>
           Ready' /\ \A u \in Upstreams : cached.lists[u] <= cached'.lists[u]]_vars
  BY StepAdvances
<1> QED BY <1>1, InvariantIInv, PTL DEF Spec, CacheAdvances
=============================================================================
