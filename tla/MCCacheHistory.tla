--------------------------- MODULE MCCacheHistory ---------------------------
(***************************************************************************)
(* The instances of MCArchiveCache with the record of what was published.  *)
(***************************************************************************)
EXTENDS MCArchiveCache, CacheHistory
=============================================================================
