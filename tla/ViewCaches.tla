----------------------------- MODULE ViewCaches -----------------------------
(***************************************************************************)
(* The short-lived caches of the API in Redis, and what a reader is told   *)
(* through them.  A search response has a cache entry per normalized query *)
(* and configuration, with an entry for the embedding of the query before  *)
(* it; a branch view has an entry per surface (root, node, route path), and*)
(* is built from descendant counts that have an entry of their own.        *)
(*                                                                         *)
(* Time is discrete and relative: what was true at a time is told apart by *)
(* how long ago that is, and an entry is the age of the oldest data in it  *)
(* and the time it has left.                                               *)
(***************************************************************************)
EXTENDS Integers, FiniteSets

CONSTANTS
    Reader,         \* API requests
    BranchSurface,  \* root view, node views, path views
    ViewTtl,        \* TTL of branch views and descendant counts
    SearchTtl,      \* TTL of search responses and embeddings
    Patience,       \* bound: time a request takes
    MaxCacheFaults  \* bound: failed or lost cache calls

ASSUME CacheConstants ==
    /\ {"response", "embedding", "counts", "search", "targets"} \cap BranchSurface = {}
    /\ ViewTtl \in Nat \ {0} /\ SearchTtl \in Nat \ {0}
    /\ Patience \in Nat /\ MaxCacheFaults \in Nat

VARIABLES
    cache,          \* the entry of each key, or NoEntry
    reader,         \* what each request is doing, with what data, since when
    cacheFaults

cacheVars == <<cache, reader, cacheFaults>>

Surface == BranchSurface \cup {"search", "targets"}
CacheKey == BranchSurface \cup {"response", "embedding", "counts"}
NoEntry == [age |-> 0, left |-> 0]
Nobody == [at |-> "idle", surface |-> "search", age |-> 0, spent |-> 0]

CacheInit ==
    /\ cache = [k \in CacheKey |-> NoEntry]
    /\ reader = [r \in Reader |-> Nobody]
    /\ cacheFaults = 0

CacheFault == cacheFaults < MaxCacheFaults /\ cacheFaults' = cacheFaults + 1

\* What the caches may add to the age of an answer.  "Temporarily stale
\* within the configured TTL window" is true of search; a branch view may be
\* two windows old, because it may be built from counts that are about to
\* expire, and a precompute run may start from counts one window old.
Window(s) ==
    CASE s = "search" -> SearchTtl
      [] s = "targets" -> ViewTtl
      [] OTHER -> 2 * ViewTtl

Limit(s) == Window(s) + (IF s = "search" THEN 1 ELSE 2) * Patience

\* Ages are told apart up to one that no answer may have.
Oldest == 2 * (ViewTtl + Patience) + SearchTtl + 1
Older(age) == IF age < Oldest THEN age + 1 ELSE age

\* Time passes; a request has Patience to be answered.
CacheTick ==
    /\ \A r \in Reader : reader[r].at = "idle" \/ reader[r].spent < Patience
    /\ cache' = [k \in CacheKey |->
                    IF cache[k].left <= 1 THEN NoEntry
                    ELSE [age |-> Older(cache[k].age), left |-> cache[k].left - 1]]
    /\ reader' = [r \in Reader |->
                    IF reader[r].at = "idle" THEN Nobody
                    ELSE [reader[r] EXCEPT !.age = Older(@), !.spent = @ + 1]]
    /\ UNCHANGED cacheFaults

-----------------------------------------------------------------------------
(* JsonRedisCache and TaxonomyViewRedisCache *)

\* GET: an entry that has not expired.
Hit(k) == cache[k].left > 0

TtlOf(k) == IF k \in {"response", "embedding"} THEN SearchTtl ELSE ViewTtl

\* The reader goes on with what it found; a GET that raises is logged, and
\* the reader goes on as if there were no entry.
GetEntry(r, k, found, missed) ==
    \/ /\ Hit(k)
       /\ found
       /\ UNCHANGED cacheFaults
    \/ /\ ~ Hit(k)
       /\ missed
       /\ UNCHANGED cacheFaults
    \/ /\ Hit(k) /\ CacheFault
       /\ missed

\* Mutant: one entry is kept for the time of both.
SetEntryForLonger(k, age) ==
    \/ /\ cache' = [cache EXCEPT ![k] = [age |-> age, left |-> ViewTtl + SearchTtl]]
       /\ UNCHANGED cacheFaults
    \/ /\ CacheFault
       /\ UNCHANGED cache

\* SET with EX.
Stored(k, age) == cache' = [cache EXCEPT ![k] = [age |-> age, left |-> TtlOf(k)]]

\* A SET that raises is logged, and the answer given all the same.
SetEntry(k, age) ==
    \/ /\ Stored(k, age)
       /\ UNCHANGED cacheFaults
    \/ /\ CacheFault
       /\ UNCHANGED cache

GoesTo(r, at, age) == reader' = [reader EXCEPT ![r].at = at, ![r].age = age]

Answers(r) == reader' = [reader EXCEPT ![r] = Nobody]

Asks(r, s) ==
    /\ reader[r].at = "idle"
    /\ reader' = [reader EXCEPT ![r] = [at |-> IF s = "targets" THEN "counts" ELSE "cached",
                                         surface |-> s, age |-> 0, spent |-> 0]]
    /\ UNCHANGED <<cache, cacheFaults>>

-----------------------------------------------------------------------------
(* SearchService.search *)

SearchCached(r) ==
    /\ reader[r].surface = "search" /\ reader[r].at = "cached"
    /\ GetEntry(r, "response",
          Answers(r),
          GoesTo(r, "embedding", 0))
    /\ UNCHANGED cache

\* An embedding depends on the query and the model only.
SearchEmbedding(r) ==
    /\ reader[r].at = "embedding"
    /\ GetEntry(r, "embedding", GoesTo(r, "retrieve", 0), GoesTo(r, "embed", 0))
    /\ UNCHANGED cache

\* _embed_query, or the embedding service is not available.
SearchEmbeds(r) ==
    /\ reader[r].at = "embed"
    /\ \/ GoesTo(r, "retrieve", 0) /\ SetEntry("embedding", 0)
       \/ Answers(r) /\ UNCHANGED <<cache, cacheFaults>>

SearchRetrieves(r) ==
    /\ reader[r].at = "retrieve"
    /\ GoesTo(r, "titles", 0)
    /\ UNCHANGED <<cache, cacheFaults>>

\* The connected titles are a second query of a later time.
SearchAnswers(r) ==
    /\ reader[r].at = "titles"
    /\ SetEntry("response", reader[r].age)
    /\ Answers(r)

-----------------------------------------------------------------------------
(* Branch views and precompute targets *)

\* get_root_view, get_node_view and get_node_view_by_route_path.
ViewCached(r) ==
    LET s == reader[r].surface IN
    /\ s \in BranchSurface /\ reader[r].at = "cached"
    /\ GetEntry(r, s, Answers(r), GoesTo(r, "counts", 0))
    /\ UNCHANGED cache

\* _get_cached_descendant_counts.
CountsCached(r) ==
    /\ reader[r].at = "counts"
    /\ GetEntry(r, "counts", GoesTo(r, "answer", cache["counts"].age), GoesTo(r, "lock", 0))
    /\ UNCHANGED cache

\* _acquire_descendant_counts_lock: whether it was acquired makes no difference.
CountsLock(r) ==
    /\ reader[r].at = "lock"
    /\ GoesTo(r, "count", 0)
    /\ UNCHANGED <<cache, cacheFaults>>

\* _load_direct_card_counts.
CountsRead(r) ==
    /\ reader[r].at = "count"
    /\ GoesTo(r, "setCounts", 0)
    /\ UNCHANGED <<cache, cacheFaults>>

CountsSet(r) ==
    /\ reader[r].at = "setCounts"
    /\ GoesTo(r, "answer", reader[r].age)
    /\ SetEntry("counts", reader[r].age)

\* A branch view is cached before it is returned; a list of targets is not.
ViewAnswers(r) ==
    /\ reader[r].at = "answer"
    /\ Answers(r)
    /\ IF reader[r].surface = "targets" THEN UNCHANGED <<cache, cacheFaults>>
       ELSE SetEntry(reader[r].surface, reader[r].age)

-----------------------------------------------------------------------------

CacheNext ==
    \/ CacheTick
    \/ \E r \in Reader :
        \/ \E s \in Surface : Asks(r, s)
        \/ SearchCached(r) \/ SearchEmbedding(r) \/ SearchEmbeds(r)
        \/ SearchRetrieves(r) \/ SearchAnswers(r)
        \/ ViewCached(r) \/ CountsCached(r) \/ CountsLock(r)
        \/ CountsRead(r) \/ CountsSet(r) \/ ViewAnswers(r)

CacheSpec == CacheInit /\ [][CacheNext]_cacheVars

\* However requests overlap and whatever fails, no answer is older than its
\* windows and the time that the requests took which filled them: neither
\* what a request is about to answer nor what an entry would answer.
AnswersAreRecent ==
    /\ \A r \in Reader : reader[r].at \in {"titles", "answer"} => reader[r].age <= Limit(reader[r].surface)
    /\ \A s \in BranchSurface : Hit(s) => cache[s].age <= Limit(s)
    /\ Hit("response") => cache["response"].age <= Limit("search")
=============================================================================
