----------------------------- MODULE MCCachedMap -----------------------------
(***************************************************************************)
(* `CachedMap` with one process and a pool of threads.                     *)
(***************************************************************************)
EXTENDS CachedMap

CONSTANTS k1, k2, p1

PoolProcess == [w \in Worker |-> p1]

(* Every item is a cell of its own, as retrieval_key, answer_key and       *)
(* judge_cache_key make them.                                              *)
OwnCells == <<k1, k2>>
===============================================================================
