--------------------------- MODULE SnapshotCache ---------------------------
(***************************************************************************)
(* The snapshot the server computes and keeps: snapshot() of server.js.    *)
(* A snapshot is represented by what it misses: the age of the oldest      *)
(* change committed since it was built.  The database's data_version       *)
(* tells a connection of the commits of others, not of its own.            *)
(***************************************************************************)
EXTENDS Integers

CONSTANTS
    CacheMaxAge,   \* SNAPSHOT_CACHE_MAX_AGE_MS, in ticks
    CacheLagCap    \* where the age of a missing change stops counting (bound of the model)

ASSUME CacheAssumption == CacheMaxAge \in Nat \ {0} /\ CacheLagCap \in Nat \ {0}

VARIABLES
    builtFor,      \* age of the cached snapshot
    cacheLag,      \* age of the oldest change it misses
    versionMoved   \* data_version has changed since it was built

cacheVars == <<builtFor, cacheLag, versionMoved>>

-----------------------------------------------------------------------------
NoSnapshot == -1
NoLag == -1

Valid == builtFor # NoSnapshot /\ ~versionMoved /\ builtFor < CacheMaxAge

\* snapshot(): the cached one while it is valid, else a new one that misses nothing.
MutantServe ==
    IF builtFor # NoSnapshot /\ ~versionMoved THEN UNCHANGED cacheVars
    ELSE builtFor' = 0 /\ cacheLag' = NoLag /\ versionMoved' = FALSE
Serve ==
    IF Valid THEN UNCHANGED cacheVars
    ELSE builtFor' = 0 /\ cacheLag' = NoLag /\ versionMoved' = FALSE

\* A commit by the server's own connection, or by the curator's process.
CacheMissesChange(foreign) ==
    /\ cacheLag' = IF builtFor # NoSnapshot /\ cacheLag = NoLag THEN 0 ELSE cacheLag
    /\ versionMoved' = (versionMoved \/ (foreign /\ builtFor # NoSnapshot))
    /\ UNCHANGED builtFor

CacheTick ==
    /\ builtFor' = IF builtFor \in {NoSnapshot, CacheMaxAge} THEN builtFor ELSE builtFor + 1
    /\ cacheLag' = IF cacheLag \in {NoLag, CacheLagCap} THEN cacheLag ELSE cacheLag + 1
    /\ UNCHANGED versionMoved

\* The server's process starts without one.
CacheInit == builtFor = NoSnapshot /\ cacheLag = NoLag /\ versionMoved = FALSE
=============================================================================
