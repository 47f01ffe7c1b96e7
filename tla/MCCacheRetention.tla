-------------------------- MODULE MCCacheRetention --------------------------
(***************************************************************************)
(* A small instance of CacheRetention for TLC: one recipe keeps its layers *)
(* for ever, one longer than the time between two sweeps, which is longer  *)
(* than the fallback: the order of 900 s, 3600 s and a day, in fewer ticks.*)
(***************************************************************************)
EXTENDS CacheRetention

CONSTANTS forever, long, short, d1, i1

MCTtl == [r \in Recipes |-> CASE r = forever -> 0 [] r = long -> 3 [] OTHER -> 1]
=============================================================================
