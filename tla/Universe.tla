------------------------------- MODULE Universe -------------------------------
(***************************************************************************)
(* UniverseManager: the contract mapping of the dynamic tokens, which the  *)
(* executor needs to quote and to trade them, and the record of the last   *)
(* successful round-trip probe of every token, which entries need.  Both   *)
(* are rebuilt by a refresh and cached on disk for the next start.         *)
(***************************************************************************)
EXTENDS Integers, FiniteSets

CONSTANTS
    Base,         \* tokens of the static contracts file
    Dynamic,      \* further tokens of the resolved contracts file
    MaxAssets,    \* universe.max_assets
    RefreshEvery, \* universe.refresh_hours
    Retain,       \* universe.retain_last_good_hours
    AgeCap        \* bound: ages are not told apart from here on

ASSUME UniverseConstants ==
    /\ IsFiniteSet(Base) /\ IsFiniteSet(Dynamic) /\ Base \cap Dynamic = {}
    /\ {MaxAssets, RefreshEvery, Retain, AgeCap} \subseteq Nat
    /\ Retain < AgeCap /\ RefreshEvery <= AgeCap

All == Base \cup Dynamic
Unknown == -1     \* a token without metrics
Ages == 0..AgeCap

VARIABLES
    assets,     \* the mapped dynamic tokens
    metrics,    \* universe_runtime: time since validated_at
    refreshed,  \* time since last_refresh
    cache,      \* the cache file
    probed,     \* history: time since the last probe that was accepted
    unsaved,    \* history: dynamic tokens whose last accepted probe is not in the file
    lost        \* history: dynamic tokens whose last accepted probe a restart forgot

universeVars == <<assets, metrics, refreshed, cache, probed, unsaved, lost>>

Overlays == [assets : SUBSET Dynamic, metrics : [All -> Ages \cup {Unknown}], refreshed : Ages]

\* What the next start makes of a missing cache file.
NoCache == [assets |-> {}, metrics |-> [t \in All |-> Unknown], refreshed |-> AgeCap]

Mapped == Base \cup assets

UniverseTypeOK ==
    /\ [assets |-> assets, metrics |-> metrics, refreshed |-> refreshed] \in Overlays
    /\ cache \in Overlays
    /\ probed \in [All -> Ages] /\ {unsaved, lost} \subseteq SUBSET Dynamic

UniverseInit ==
    /\ assets = {} /\ metrics = NoCache.metrics /\ refreshed = AgeCap
    /\ cache = NoCache /\ probed = [t \in All |-> AgeCap]
    /\ unsaved = {} /\ lost = {}

Older(a, d) == IF a = Unknown THEN Unknown ELSE IF a + d >= AgeCap THEN AgeCap ELSE a + d

\* d units of time pass, for the process and for its file.
GrowOlder(d) ==
    /\ metrics' = [t \in All |-> Older(metrics[t], d)]
    /\ refreshed' = Older(refreshed, d)
    /\ cache' = [cache EXCEPT !.metrics = [t \in All |-> Older(cache.metrics[t], d)],
                              !.refreshed = Older(cache.refreshed, d)]
    /\ probed' = [t \in All |-> Older(probed[t], d)]
    /\ UNCHANGED <<assets, unsaved, lost>>

RefreshDue == refreshed >= RefreshEvery

\* Mutant of Refreshed: a retained asset is stamped as validated now.
RefreshedStamped(good) ==
    LET kept == {t \in assets \ good : metrics[t] \in 0..Retain}
    IN [assets |-> (good \cap Dynamic) \cup kept,
        metrics |-> [t \in All |-> IF t \in good \cup kept THEN 0 ELSE Unknown],
        refreshed |-> 0]

\* Mutant of Refreshed: the retention ends one step early.
RefreshedEarly(good) ==
    LET kept == {t \in assets \ good : metrics[t] # Unknown /\ metrics[t] < Retain}
    IN [assets |-> (good \cap Dynamic) \cup kept,
        metrics |-> [t \in All |-> IF t \in good THEN 0
                                   ELSE IF t \in kept THEN metrics[t] ELSE Unknown],
        refreshed |-> 0]

\* The probed assets, and those validated recently enough to be retained; base
\* tokens stay mapped but keep no metrics of an earlier probe.
Refreshed(good) ==
    LET kept == {t \in assets \ good : metrics[t] \in 0..Retain}
    IN [assets |-> (good \cap Dynamic) \cup kept,
        metrics |-> [t \in All |-> IF t \in good THEN 0
                                   ELSE IF t \in kept THEN metrics[t] ELSE Unknown],
        refreshed |-> 0]

\* refresh, with the tokens whose probe succeeds and, of these, the ones with
\* the lowest friction.  _apply precedes the write of the cache, which may
\* fail; run_tick takes that for a failed refresh and goes on with what was
\* applied.
Refresh(good, written) ==
    /\ RefreshDue
    /\ Cardinality(good) <= MaxAssets
    /\ LET new == Refreshed(good)
       IN /\ assets' = new.assets /\ metrics' = new.metrics /\ refreshed' = new.refreshed
          /\ cache' = IF written THEN new ELSE cache
    /\ probed' = [t \in All |-> IF t \in good THEN 0 ELSE probed[t]]
    /\ unsaved' = IF written THEN {} ELSE unsaved \cup (good \cap Dynamic)
    /\ lost' = lost \ good

\* load_config and _load_cache: the overlay of the cache, whatever its age.  The
\* probes whose write had failed are forgotten with the process that made them.
LoadCache ==
    /\ assets' = cache.assets /\ metrics' = cache.metrics /\ refreshed' = cache.refreshed
    /\ lost' = lost \cup unsaved /\ unsaved' = {}
    /\ UNCHANGED <<cache, probed>>

-----------------------------------------------------------------------------

\* A dynamic token whose round trip was validated within the retention time is
\* mapped, whatever refreshes missed it since and however often the process
\* started from the cache: a transient miss must not take away the route a
\* holding is quoted and sold by.  The probes that never reached the file are
\* lost with the process, and only those.
RecentStaysMapped == \A t \in Dynamic \ lost : probed[t] <= Retain => t \in assets

\* Metrics that allow an entry come from a real probe, at most the retention
\* time older than the last refresh; retention never makes them younger.
ValidationIsReal ==
    \A t \in All :
        metrics[t] # Unknown =>
            /\ probed[t] <= metrics[t]
            /\ metrics[t] <= Retain + refreshed
===============================================================================
