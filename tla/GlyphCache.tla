------------------------------ MODULE GlyphCache -----------------------------
(***************************************************************************)
(* The glyph cache of FontRenderer (rendering/font.rs): ensure_cached,     *)
(* evict_lru and get_cached.  A glyph stands for a character at a size,    *)
(* the key of the BTreeMap.  set_max_cache_size has no caller: the limit   *)
(* is a constant.                                                          *)
(***************************************************************************)
EXTENDS Naturals, FiniteSets

CONSTANTS Glyphs, max_cache_size

ASSUME CacheAssumption ==
    /\ IsFiniteSet(Glyphs)
    /\ max_cache_size \in Nat \ {0}

VARIABLES
    cache,              \* last_used of the glyphs that are cached
    access_counter,
    wanted              \* the glyph that draw_text is about to use, {} for none

cacheVars == <<cache, access_counter, wanted>>

CacheInit ==
    /\ cache = [g \in {} |-> 0]
    /\ access_counter = 0
    /\ wanted = {}

Cached == DOMAIN cache

-----------------------------------------------------------------------------
LeastRecentlyUsed == {g \in Cached : \A h \in Cached : cache[g] <= cache[h]}

Without(gs) == [g \in Cached \ gs |-> cache[g]]

Stamped(c, g) == [h \in DOMAIN c \union {g} |-> IF h = g THEN access_counter ELSE c[h]]

\* Mutant: a hit is not stamped.
EnsureHitUnstamped(g) ==
    /\ wanted = {} /\ g \in Cached
    /\ access_counter' = access_counter + 1
    /\ wanted' = {g}
    /\ UNCHANGED cache

EnsureHit(g) ==
    /\ wanted = {} /\ g \in Cached
    /\ cache' = Stamped(cache, g)
    /\ access_counter' = access_counter + 1
    /\ wanted' = {g}

\* Mutant: the eviction comes after the insertion, before the stamp.
EnsureMissEvictsLast(g) ==
    /\ wanted = {} /\ g \notin Cached
    /\ LET grown == [h \in Cached \union {g} |-> IF h = g THEN 0 ELSE cache[h]]
           oldest == CHOOSE h \in DOMAIN grown :
                        \A k \in DOMAIN grown : grown[h] <= grown[k]
       IN  cache' = IF Cardinality(DOMAIN grown) > max_cache_size
                    THEN [h \in DOMAIN grown \ {oldest} |-> grown[h]]
                    ELSE Stamped(cache, g)
    /\ access_counter' = access_counter + 1
    /\ wanted' = {g}

\* The glyph is rasterised; when the cache is full, one entry goes first.
EnsureMiss(g) ==
    /\ wanted = {} /\ g \notin Cached
    /\ cache' = Stamped(IF Cardinality(Cached) >= max_cache_size
                        THEN Without(LeastRecentlyUsed) ELSE cache, g)
    /\ access_counter' = access_counter + 1
    /\ wanted' = {g}

EnsureCached(g) == EnsureHit(g) \/ EnsureMiss(g)

\* get_cached, which panics without it; the glyph is drawn.
GetCached(g) ==
    /\ wanted = {g}
    /\ g \in Cached
    /\ wanted' = {}
    /\ UNCHANGED <<cache, access_counter>>

CacheNext == \E g \in Glyphs : EnsureCached(g) \/ GetCached(g)

CacheSpec == CacheInit /\ [][CacheNext]_cacheVars

-----------------------------------------------------------------------------
\* The type invariant: every stamp was once the counter.
CacheTypeOK ==
    /\ Cached \subseteq Glyphs
    /\ cache \in [Cached -> Nat]
    /\ access_counter \in Nat
    /\ \A g \in Cached : cache[g] < access_counter
    /\ wanted \subseteq Glyphs

\* font.rs 253: one eviction for an insertion keeps the cache at its limit, and
\* one entry goes, not several: stamps are never equal.
CacheWithinLimit ==
    /\ Cardinality(Cached) <= max_cache_size
    /\ \A g, h \in Cached : cache[g] = cache[h] => g = h

\* font.rs 289: get_cached expects the glyph that ensure_cached put there, and
\* the eviction for it has not taken it again.
GlyphIsThere == wanted \subseteq Cached

\* font.rs 251-290: the glyph wanted is there, in a cache that stays within its
\* limit.
CacheServes == CacheWithinLimit /\ GlyphIsThere

\* s lists the glyphs of c from the most to the least recently used.
IsRecency(s, c) ==
    /\ {s[n] : n \in DOMAIN s} = DOMAIN c
    /\ \A m, n \in DOMAIN s : m < n => c[s[m]] > c[s[n]]

Recency ==
    CHOOSE s \in [1 .. Cardinality(Cached) -> Cached] : IsRecency(s, cache)
=============================================================================
