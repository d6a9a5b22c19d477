--------------------------- MODULE MCCacheDbPool ---------------------------
(***************************************************************************)
(* Instances of CacheDbPool for TLC.                                       *)
(***************************************************************************)
EXTENDS CacheDbPool, TLC
=============================================================================
