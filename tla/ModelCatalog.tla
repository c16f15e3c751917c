---------------------------- MODULE ModelCatalog ----------------------------
(***************************************************************************)
(* The model catalog of the provider layer (provider/catalog_runtime.rs    *)
(* and model_candidate_resolver_runtime.rs): a cache with a fresh and a    *)
(* stale window, and the single flight in front of the fetch.  The first   *)
(* request that misses registers a slot and leads the fetch, the others    *)
(* subscribe to the slot's watch channel; a follower that has waited long  *)
(* enough evicts the slot of a stalled leader and tries to lead itself.    *)
(*                                                                         *)
(* The registry and the cache have their own locks: an action is what one  *)
(* of them protects, or what a request does between two awaits.  A slot is *)
(* identified by its leader and its key: a request fetches a key at most   *)
(* once (the closure is FnOnce).                                           *)
(***************************************************************************)
EXTENDS Naturals, FiniteSets

CONSTANTS
    Requests,     \* calls of resolve_request_models
    Keys,         \* cache keys: endpoint, headers and auth profile
    NoOne,        \* no slot is registered
    HasFallback   \* provider.preferred_models is configured

ASSUME NoOneAssumption == NoOne \notin Requests
ASSUME FallbackAssumption == HasFallback \in BOOLEAN

VARIABLES
    cache,      \* MODEL_CATALOG_CACHE
    slot,       \* MODEL_CATALOG_FETCHES: the leader of the registered slot
    fetch       \* what each request is doing

catalogVars == <<cache, slot, fetch>>

-----------------------------------------------------------------------------
(* Types                                                                   *)

\* "empty": the provider answered with an empty list.
Results == {"models", "empty", "error"}
FetchSteps == {"idle", "join", "follow", "fetch", "stalled", "publish",
               "settle", "resolved", "failed", "dropped"}
Fetch ==
    [at : FetchSteps,
     key : Keys,
     stale : BOOLEAN,                   \* it has found a stale list
     leader : Requests \cup {NoOne},    \* whose slot it follows
     result : Results \cup {"none"},    \* what the fetch, or its receiver, holds
     aged : BOOLEAN]                    \* it leads a slot of the stale-slot age

NoFetch == [at |-> "idle", key |-> CHOOSE k \in Keys : TRUE, stale |-> FALSE,
            leader |-> NoOne, result |-> "none", aged |-> FALSE]

Goto(r, step) == fetch' = [fetch EXCEPT ![r].at = step]

-----------------------------------------------------------------------------
(* The cache                                                               *)

\* The lookup of resolve_request_models: a fresh list is used at once, a stale
\* one is kept in case the fetch fails.
Lookup(r, k) ==
    /\ fetch[r].at = "idle"
    /\ fetch' = [fetch EXCEPT ![r] =
                   [NoFetch EXCEPT !.at = IF cache[k] = "fresh" THEN "resolved" ELSE "join",
                                   !.key = k,
                                   !.stale = cache[k] = "stale"]]
    /\ UNCHANGED <<cache, slot>>

\* Time passes: the entry leaves its fresh window, and is dead after its stale
\* window.
AgeCache(k) ==
    /\ cache[k] # "none"
    /\ cache' = [cache EXCEPT ![k] = IF @ = "fresh" THEN "stale" ELSE "none"]
    /\ UNCHANGED <<slot, fetch>>

\* What resolve_request_models makes of the fetch: a non-empty list is stored
\* by everyone who got it; an error falls back to the stale list or to the
\* configured models.
Usable(f) ==
    \/ f.result = "models"
    \/ f.result = "error" /\ (f.stale \/ HasFallback)

Settle(r) ==
    /\ fetch[r].at = "settle"
    /\ cache' = IF fetch[r].result = "models"
                THEN [cache EXCEPT ![fetch[r].key] = "fresh"] ELSE cache
    /\ fetch' = [fetch EXCEPT ![r] =
                   [NoFetch EXCEPT !.at = IF Usable(fetch[r]) THEN "resolved" ELSE "failed"]]
    /\ UNCHANGED slot

-----------------------------------------------------------------------------
(* The single flight                                                       *)

Leads(q, k) == fetch[q].at \in {"fetch", "stalled", "publish"} /\ fetch[q].key = k
Follows(r, q, k) == fetch[r].at = "follow" /\ fetch[r].key = k /\ fetch[r].leader = q

\* Under the lock of the registry: subscribe to the slot that is there, whose
\* channel may have a value already, or register one and lead.
Join(r) ==
    LET k == fetch[r].key IN
    /\ fetch[r].at = "join"
    /\ IF slot[k] # NoOne
       THEN /\ fetch' = [fetch EXCEPT ![r].at = "follow", ![r].leader = slot[k],
                                      ![r].result = fetch[slot[k]].result]
            /\ UNCHANGED slot
       ELSE slot' = [slot EXCEPT ![k] = r] /\ Goto(r, "fetch")
    /\ UNCHANGED cache

\* The fetch hangs; it may still come back, but nothing says that it will.
Stall(r) ==
    /\ fetch[r].at = "fetch"
    /\ Goto(r, "stalled")
    /\ UNCHANGED <<cache, slot>>

\* The fetch returns, and the leader sends the result to its receivers.
Publish(r, result) ==
    /\ fetch[r].at \in {"fetch", "stalled"}
    /\ fetch' = [q \in Requests |->
                   IF q = r THEN [fetch[r] EXCEPT !.at = "publish", !.result = result]
                   ELSE IF Follows(q, r, fetch[r].key) THEN [fetch[q] EXCEPT !.result = result]
                   ELSE fetch[q]]
    /\ UNCHANGED <<cache, slot>>

\* ModelCatalogFetchLeaderGuard::drop removes the slot if it still is the
\* leader's own.  (Withdraw_Never: a slot is removed by its followers only.)
Withdraw_Never(r) == UNCHANGED slot
Withdraw(r) ==
    slot' = [slot EXCEPT ![fetch[r].key] = IF @ = r THEN NoOne ELSE @]

\* drop(leader_guard) after the send.
Unregister(r) ==
    /\ fetch[r].at = "publish"
    /\ Withdraw(r)
    /\ fetch' = [fetch EXCEPT ![r].at = "settle", ![r].aged = FALSE]
    /\ UNCHANGED cache

\* The future of a request is dropped, or its fetch panics.
Abandon(r) ==
    /\ fetch[r].at \in {"follow", "fetch", "stalled"}
    /\ IF fetch[r].at = "follow" THEN UNCHANGED slot ELSE Withdraw(r)
    /\ fetch' = [fetch EXCEPT ![r] = [NoFetch EXCEPT !.at = "dropped"]]
    /\ UNCHANGED cache

\* A follower finds the result in its receiver.
Receive(r) ==
    /\ fetch[r].at = "follow"
    /\ fetch[r].result # "none"
    /\ fetch' = [fetch EXCEPT ![r].at = "settle", ![r].leader = NoOne]
    /\ UNCHANGED <<cache, slot>>

Rejoin(r) == fetch' = [fetch EXCEPT ![r].at = "join", ![r].leader = NoOne, ![r].result = "none"]

\* receiver.changed() fails: the sender is gone, and nothing was published.
SenderGone(r) ==
    /\ fetch[r].at = "follow"
    /\ fetch[r].result = "none"
    /\ slot[fetch[r].key] # fetch[r].leader /\ ~Leads(fetch[r].leader, fetch[r].key)
    /\ Rejoin(r)
    /\ UNCHANGED <<cache, slot>>

\* The follower's wait times out and the slot is old: if it still is the
\* registered one the follower evicts it and joins again; if not, it goes on
\* waiting on its receiver, and the step changes nothing.  (Evict_Young: after
\* the first wait, whatever the age of the slot.  Evict_NeverOld: no slot is old
\* enough.)
Evict_Young(r) ==
    /\ fetch[r].at = "follow"
    /\ slot[fetch[r].key] = fetch[r].leader
    /\ slot' = [slot EXCEPT ![fetch[r].key] = NoOne]
    /\ Rejoin(r)
    /\ UNCHANGED cache
Evict_NeverOld(r) == FALSE /\ UNCHANGED catalogVars
Evict(r) ==
    /\ fetch[r].at = "follow"
    /\ fetch[fetch[r].leader].aged /\ slot[fetch[r].key] = fetch[r].leader
    /\ slot' = [slot EXCEPT ![fetch[r].key] = NoOne]
    /\ Rejoin(r)
    /\ UNCHANGED cache

\* Time passes: the slot reaches the age at which it may be evicted.
AgeSlot(q) ==
    /\ \E k \in Keys : Leads(q, k)
    /\ ~fetch[q].aged
    /\ fetch' = [fetch EXCEPT ![q].aged = TRUE]
    /\ UNCHANGED <<cache, slot>>

-----------------------------------------------------------------------------
(* Specification                                                           *)

CatalogInit ==
    /\ cache = [k \in Keys |-> "none"]
    /\ slot = [k \in Keys |-> NoOne]
    /\ fetch = [r \in Requests |-> NoFetch]

\* What a request does by itself.
FetchStep(r) ==
    \/ Join(r) \/ Settle(r) \/ Unregister(r)
    \/ Receive(r) \/ SenderGone(r) \/ Evict(r)

\* What the world does to it.
FetchEvent(r) ==
    \/ Stall(r) \/ Abandon(r)
    \/ \E result \in Results : Publish(r, result)

Passage ==
    \/ \E k \in Keys : AgeCache(k)
    \/ \E q \in Requests : AgeSlot(q)

CatalogNext ==
    \/ \E r \in Requests : FetchStep(r) \/ FetchEvent(r) \/ \E k \in Keys : Lookup(r, k)
    \/ Passage

\* Ready futures are polled, time passes, and a fetch that does not hang ends.
CatalogFairness ==
    /\ \A r \in Requests :
          /\ WF_catalogVars(FetchStep(r))
          /\ WF_catalogVars(fetch[r].at = "fetch" /\ \E result \in Results : Publish(r, result))
    /\ WF_catalogVars(\E q \in Requests : AgeSlot(q))

CatalogSpec == CatalogInit /\ [][CatalogNext]_catalogVars /\ CatalogFairness

-----------------------------------------------------------------------------
(* Properties                                                              *)

\* Type invariant: the cache entry and the single-flight slot of every key,
\* and every request's position in its fetch.
CatalogTypeOK ==
    /\ cache \in [Keys -> {"none", "fresh", "stale"}]
    /\ slot \in [Keys -> Requests \cup {NoOne}]
    /\ fetch \in [Requests -> Fetch]

\* The single flight: of the fetches of one key that are in progress at most
\* one is younger than the stale-slot age, whatever is dropped, evicted or
\* late.
OneFetch ==
    \A k \in Keys : \A q, r \in Requests :
       /\ Leads(q, k) /\ fetch[q].at # "publish" /\ ~fetch[q].aged
       /\ Leads(r, k) /\ fetch[r].at # "publish" /\ ~fetch[r].aged
       => q = r

\* A leader that hangs does not keep its slot as long as somebody waits on it:
\* the slot is taken away, or everybody leaves.
StalledSlotIsFreed ==
    []<>~\E k \in Keys : \E q, r \in Requests :
            slot[k] = q /\ fetch[q].at = "stalled" /\ Follows(r, q, k)

\* docs/design-docs/provider-runtime-roadmap.md, on catalog_runtime.rs: "Added
\* stale singleflight leader takeover to prevent follower starvation when a
\* leader stalls abnormally": a follower does not wait for ever.
NoFollowerStarves ==
    \A r \in Requests : fetch[r].at = "follow" ~> fetch[r].at # "follow"
=============================================================================
