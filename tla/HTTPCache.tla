----------------------------- MODULE HTTPCache -----------------------------
(***************************************************************************)
(* The HTTP response cache (pkg/cache/cache.go): a middleware over an      *)
(* LRUCache.  A GET that misses runs the handler without a lock and stores *)
(* what it answered; meanwhile the application may invalidate the key, use *)
(* the cache in other ways, or time may pass.  Requests that are not GET   *)
(* pass by.  One miss is in flight at a time.                              *)
(***************************************************************************)
EXTENDS LRUCache

CONSTANTS
  Asked,   \* the keys GET requests miss: a bound, all keys are alike
  Prefix   \* the sets of keys that share a prefix somebody invalidates

ASSUME HTTPAssumption == Asked \subseteq Key /\ Prefix \subseteq SUBSET Key

VARIABLES
  fill,   \* the miss whose handler runs: its key, and whether that was invalidated since
  stale   \* history: values stored by a miss that was overtaken by an invalidation

http == <<fill, stale>>
httpVars == <<vars, http>>

NoFill == [key |-> "none", overtaken |-> FALSE]

HTTPInit == Init /\ fill = NoFill /\ stale = {}

\* The key is asked for and neither held nor, if it was, still valid: an expired entry is removed.
Miss(k) ==
  /\ fill = NoFill
  /\ \/ Unlocked /\ k \notin items /\ UNCHANGED vars
     \/ GetExpired(k)
  /\ fill' = [key |-> k, overtaken |-> FALSE]
  /\ UNCHANGED stale

\* Mutant: the response is stored with a time to live that never ends.
StoreForEver(size) ==
  /\ fill # NoFill
  /\ Set(fill.key, size, -1)
  /\ stale' = IF fill.overtaken THEN stale \cup {sets + 1} ELSE stale
  /\ fill' = NoFill

\* The handler answered with status 200: the response is stored under the key looked up before, with
\* HTTPCacheConfig.DefaultTTL, which is positive.
StoreResponse(size) ==
  /\ fill # NoFill
  /\ Set(fill.key, size, 1)
  /\ stale' = IF fill.overtaken THEN stale \cup {sets + 1} ELSE stale
  /\ fill' = NoFill

\* It answered with another status: nothing is stored.
PassResponse ==
  /\ fill # NoFill
  /\ fill' = NoFill
  /\ UNCHANGED <<vars, stale>>

\* The keys of ks are invalidated: a miss under way for one of them is overtaken.
Overtake(ks) ==
  /\ fill' = IF fill.key \in ks THEN [fill EXCEPT !.overtaken = TRUE] ELSE fill
  /\ UNCHANGED stale

Invalidate(k) ==
  /\ Delete(k) \/ (Unlocked /\ k \notin items /\ UNCHANGED vars)
  /\ Overtake({k})

\* InvalidateByPrefix goes through the map of the LRUCache under its lock.
InvalidateByPrefix(ks) ==
  /\ Unlocked
  /\ RemoveElements(Found(ks))
  /\ UNCHANGED <<pending, closed, sets, overwritten, recent>>
  /\ Overtake(ks)

HTTPNext ==
  \/ \E k \in Key :
       \/ k \in Asked /\ Miss(k)
       \/ Invalidate(k)
       \/ GetHit(k) /\ UNCHANGED http
       \/ GetExpired(k) /\ UNCHANGED http
       \/ Expire(k) /\ UNCHANGED http
       \/ \E size \in Size, ttl \in -1..0, tags \in SUBSET Tag : SetWithTags(k, size, ttl, tags) /\ UNCHANGED http
  \/ \E size \in Size : StoreResponse(size)
  \/ PassResponse
  \/ \E ks \in Prefix : InvalidateByPrefix(ks)
  \/ Clear /\ Overtake(Key)
  \/ (EvictOldest \/ Insert \/ Cleanup \/ Close) /\ UNCHANGED http
  \/ (\E t \in Tag : DeleteByTag(t)) /\ UNCHANGED http

\* As for the LRUCache; in addition time goes on.
HTTPFairness ==
  /\ WF_httpVars(EvictOldest /\ UNCHANGED http)
  /\ WF_httpVars(Insert /\ UNCHANGED http)
  /\ SF_httpVars(Cleanup /\ UNCHANGED http)
  /\ \A k \in Key : WF_httpVars(Expire(k) /\ UNCHANGED http)

HTTPSpec == HTTPInit /\ [][HTTPNext]_httpVars /\ HTTPFairness

----------------------------------------------------------------------------
(* Properties *)

\* A response that was computed before its key was invalidated and stored after it is served for a
\* while only: the middleware always stores with a time to live, so the cleanup, a later request or
\* an eviction removes it.
StaleResponseLeaves == \A v \in Values : (v \in stale /\ Stored(v)) ~> (~Stored(v) \/ closed \/ Spins)
=============================================================================
