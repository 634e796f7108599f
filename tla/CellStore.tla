------------------------------- MODULE CellStore -------------------------------
(***************************************************************************)
(* What the harness promises of its store (evaluation/cache.py:1-31,       *)
(* evaluation/run.py:1-31), with no files, no threads, no failures and no  *)
(* kills: a cell gets its value once, and whoever asks is told that value. *)
(* `CachedMap` is shown to implement this specification.                   *)
(***************************************************************************)

CONSTANTS Key, Value, None

VARIABLES
    cell,   \* cell[k]: the value k's entry holds for a reader, or None
    told    \* told[k]: the last value a call for k has come back with, or None

storeVars == <<cell, told>>

Init ==
    /\ cell = [k \in Key |-> None]
    /\ told = [k \in Key |-> None]

\* A call for an absent cell has paid, and its value is in the store.
Bind(k, v) ==
    /\ cell[k] = None
    /\ cell' = [cell EXCEPT ![k] = v]
    /\ UNCHANGED told

\* A call returns, to the caller who paid or to any later one.
Tell(k) ==
    /\ cell[k] # None
    /\ told' = [told EXCEPT ![k] = cell[k]]
    /\ UNCHANGED cell

Next == \E k \in Key : Tell(k) \/ \E v \in Value : Bind(k, v)

Spec == Init /\ [][Next]_storeVars
===============================================================================
