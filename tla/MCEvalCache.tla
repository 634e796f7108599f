----------------------------- MODULE MCEvalCache -----------------------------
(***************************************************************************)
(* `EvalCache` on its own: any worker may ask for any cell at any time.    *)
(***************************************************************************)
EXTENDS EvalCache, TLC

CONSTANTS w1, w2, w3, p1, p2

(* Two evaluate.py processes sharing the directory: one runs one worker,   *)
(* the other two threads.                                                  *)
MixedProcesses == w1 :> p1 @@ w2 :> p2 @@ w3 :> p2

CellSymmetry == Permutations(Key) \cup Permutations(Value)
===============================================================================
