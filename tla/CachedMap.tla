------------------------------- MODULE CachedMap -------------------------------
(***************************************************************************)
(* `cached_map` (evaluation/run.py): one stage of the harness as a map     *)
(* over items, each a cell of `EvalCache`, run by the threads of one       *)
(* process's pool.  The cache is the only record of progress: a stage that *)
(* raises or is killed is run again from the start and finds its finished  *)
(* cells there.                                                            *)
(***************************************************************************)
EXTENDS EvalCache, Sequences, FiniteSets

CONSTANTS
    Items,      \* the cell of each item, in order
    MaxRuns     \* bound: how often the stage is started

ASSUME ItemsAreCells == Items \in Seq(Key)
ASSUME NoneIsNoItem == None \notin DOMAIN Items
ASSUME MaxRunsIsNat == MaxRuns \in Nat

VARIABLES
    stage,      \* "idle", "running", "failing", "returned" or "raised"
    mode,       \* "reading" (the stage pays) or "replaying" (replay_only)
    queue,      \* the next item a worker of the pool takes
    item,       \* the item each worker is on, or None
    results,    \* what each item's future holds, or None while it is pending
    awaited,    \* the item whose result the caller is waiting for
    runs,       \* how often the stage was started
    durable     \* history: what some finished call has returned for each cell

stageVars == <<stage, mode, queue, item, results, awaited, runs, durable>>
mapVars == <<cacheVars, stageVars>>

Item == DOMAIN Items

(* The pool's threads are of one process, and no two items of the stage    *)
(* have one key, as retrieval_key, answer_key and judge_cache_key make     *)
(* sure of.                                                                *)
OneProcess == \A w, u \in Worker : ProcessOf[w] = ProcessOf[u]
DistinctCells == \A i, j \in Item : Items[i] = Items[j] => i = j

(* What a reader finds in the store: a cell's value, once it can be read.  *)
cellBar == [k \in Key |-> IF entry[k] \in Value THEN entry[k] ELSE None]

Store == INSTANCE CellStore WITH cell <- cellBar, told <- durable

Outcome == Value \cup {"missing", "raised", None}

TypeOK ==
    /\ CacheTypeOK
    /\ stage \in {"idle", "running", "failing", "returned", "raised"}
    /\ mode \in {"reading", "replaying"}
    /\ queue \in 1..(Len(Items) + 1)
    /\ item \in [Worker -> Item \cup {None}]
    /\ results \in [Item -> Outcome]
    /\ awaited \in 1..(Len(Items) + 1)
    /\ runs \in 0..MaxRuns
    /\ durable \in [Key -> Value \cup {None}]

Init ==
    /\ CacheInit
    /\ stage = "idle"
    /\ mode = "reading"
    /\ queue = 1
    /\ item = [w \in Worker |-> None]
    /\ results = [i \in Item |-> None]
    /\ awaited = 1
    /\ runs = 0
    /\ durable = [k \in Key |-> None]

(* The stage is started, paying or replaying, by a process with a new      *)
(* Cache object.                                                           *)
Start ==
    /\ stage \in {"idle", "returned", "raised"}
    /\ runs < MaxRuns
    /\ runs' = runs + 1
    /\ stage' = "running"
    /\ mode' \in {"reading", "replaying"}
    /\ queue' = 1
    /\ item' = [w \in Worker |-> None]
    /\ results' = [i \in Item |-> None]
    /\ awaited' = 1
    /\ stats' = [p \in Process |-> NoStats]
    /\ UNCHANGED <<entry, temp, at, key, val, file, result, paid, durable>>

(* Two workers are given one item.                                         *)
Take_bug(w) ==
    /\ stage = "running"
    /\ item[w] = None
    /\ queue <= Len(Items)
    /\ Call(w, Items[queue], mode)
    /\ item' = [item EXCEPT ![w] = queue]
    /\ queue' = IF \E u \in Worker : item[u] = queue THEN queue + 1 ELSE queue
    /\ UNCHANGED <<stage, mode, results, awaited, runs, durable>>

(* A free worker of the pool takes the next item and looks its cell up.    *)
Take(w) ==
    /\ stage = "running"
    /\ item[w] = None
    /\ queue <= Len(Items)
    /\ Call(w, Items[queue], mode)
    /\ item' = [item EXCEPT ![w] = queue]
    /\ queue' = queue + 1
    /\ UNCHANGED <<stage, mode, results, awaited, runs, durable>>

Work(w) ==
    /\ item[w] # None
    /\ CacheStep(w)
    /\ UNCHANGED stageVars

(* A call that raised leaves its future pending.                           *)
Finish_bug(w) ==
    /\ item[w] # None
    /\ at[w] = "idle"
    /\ results' = IF result[w] = "raised"
                    THEN results
                    ELSE [results EXCEPT ![item[w]] = result[w]]
    /\ item' = [item EXCEPT ![w] = None]
    /\ durable' = IF result[w] \in Value
                    THEN [durable EXCEPT ![key[w]] = result[w]]
                    ELSE durable
    /\ UNCHANGED <<cacheVars, stage, mode, queue, awaited, runs>>

(* The call of w's item is over, and its future is set.                    *)
Finish(w) ==
    /\ item[w] # None
    /\ at[w] = "idle"
    /\ results' = [results EXCEPT ![item[w]] = result[w]]
    /\ item' = [item EXCEPT ![w] = None]
    /\ durable' = IF result[w] \in Value
                    THEN [durable EXCEPT ![key[w]] = result[w]]
                    ELSE durable
    /\ UNCHANGED <<cacheVars, stage, mode, queue, awaited, runs>>

(* A result that has come in is passed over, failed or not.                *)
Await_bug ==
    /\ stage = "running"
    /\ awaited \in Item
    /\ results[awaited] # None
    /\ awaited' = awaited + 1
    /\ UNCHANGED <<cacheVars, stage, mode, queue, item, results, runs, durable>>

(* The caller of `pool.map` takes the results in the order of the items.   *)
Await ==
    /\ stage = "running"
    /\ awaited \in Item
    /\ results[awaited] \notin {None, "raised"}
    /\ awaited' = awaited + 1
    /\ UNCHANGED <<cacheVars, stage, mode, queue, item, results, runs, durable>>

(* It has taken the last one.                                              *)
ReturnAll ==
    /\ stage = "running"
    /\ awaited \notin Item
    /\ stage' = "returned"
    /\ UNCHANGED <<cacheVars, mode, queue, item, results, awaited, runs, durable>>

(* The first failed item, in order, raises: what no worker has taken yet   *)
(* is cancelled, and leaving the pool waits for the items in progress.     *)
AwaitRaises ==
    /\ stage = "running"
    /\ awaited \in Item
    /\ results[awaited] = "raised"
    /\ stage' = "failing"
    /\ queue' = Len(Items) + 1
    /\ UNCHANGED <<cacheVars, mode, item, results, awaited, runs, durable>>

(* Every worker is idle: the pool is left and the exception goes on.       *)
Raise ==
    /\ stage = "failing"
    /\ \A w \in Worker : item[w] = None
    /\ stage' = "raised"
    /\ UNCHANGED <<cacheVars, mode, queue, item, results, awaited, runs, durable>>

(* The process is killed, at any point of any worker's call.               *)
KillRun ==
    /\ \E p \in Process : Kill(p)
    /\ stage' = "idle"
    /\ queue' = 1
    /\ item' = [w \in Worker |-> None]
    /\ results' = [i \in Item |-> None]
    /\ awaited' = 1
    /\ UNCHANGED <<mode, runs, durable>>

Next ==
    \/ Start
    \/ \E w \in Worker : Take(w) \/ Work(w) \/ Finish(w)
    \/ Await
    \/ ReturnAll
    \/ AwaitRaises
    \/ Raise
    \/ KillRun

Spec == Init /\ [][Next]_mapVars

(* The pool's threads run, every paid call comes back or raises (the       *)
(* clients have timeouts), and the caller of the pool keeps iterating.     *)
Fairness ==
    /\ \A w \in Worker : WF_mapVars(Take(w)) /\ WF_mapVars(Work(w)) /\ WF_mapVars(Finish(w))
    /\ WF_mapVars(Await) /\ WF_mapVars(ReturnAll)
    /\ WF_mapVars(AwaitRaises) /\ WF_mapVars(Raise)

FairSpec == Spec /\ Fairness
-------------------------------------------------------------------------------

(* "A resumed run cannot disagree with the run it is resuming" (run.py:12):*)
(* what a call once returned for a cell is what the store holds ever       *)
(* after, through failures, kills and the runs that follow.                *)
FinishedCellsStay ==
    \A k \in Key : durable[k] # None => entry[k] = durable[k]

(* "A killed run resumable" (cache.py:1-8): the files, the pool, the calls *)
(* that raise, the kills and the runs that follow show their readers       *)
(* nothing but a store where a cell is bound once, before anyone is told   *)
(* its value, and never bound again.                                       *)
KeepsStore == Store!Spec

(* `produce` "runs at most once per key per store" (cache.py:124-127): a   *)
(* cell is being paid for only while the store does not hold it, so a run  *)
(* resumed after a failure or a kill pays for the unfinished cells alone.  *)
PaidOnlyWhenAbsent ==
    \A w \in Worker :
        at[w] \in {"producing", "opening", "writing"} => entry[key[w]] \notin Value

(* "A stage that cannot finish must not report a partial result as a whole *)
(* one" (run.py:53-54): a stage that returns has, for every item in order, *)
(* the stored value of that item's own cell, or its absence in a replay.   *)
ReturnedIsWhole ==
    stage = "returned" =>
        \A i \in Item :
            \/ results[i] \in Value /\ results[i] = entry[Items[i]]
            \/ results[i] = "missing" /\ mode = "replaying"

(* A failed stage raises only when its workers are done, so none of them   *)
(* is left writing behind the caller's back.                               *)
NobodyLeftBehind ==
    stage \in {"returned", "raised"} => \A w \in Worker : at[w] = "idle" /\ item[w] = None

(* A stage that is started ends: it returns, raises, or is killed.         *)
StageEnds == stage = "running" ~> stage \in {"returned", "raised", "idle"}
===============================================================================
