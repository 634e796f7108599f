------------------------------- MODULE EvalCache -------------------------------
(***************************************************************************)
(* The content-addressed store of the evaluation harness                   *)
(* (evaluation/cache.py): what makes a killed run resumable.  Workers --   *)
(* the threads of one `cached_map` pool, or of several evaluate.py         *)
(* processes sharing a cache directory -- resolve cells from it, paying a  *)
(* model call for the ones it does not hold.                               *)
(*                                                                         *)
(* A worker's steps are the ones another worker or a kill can come         *)
(* between: read the entry, call the producer, open the temporary file,    *)
(* write it, and move it into place.                                       *)
(***************************************************************************)
EXTENDS Integers

CONSTANTS
    Worker,     \* the threads that resolve cells
    Process,    \* the processes they belong to
    ProcessOf,  \* ProcessOf[w]: whose os.getpid() w writes under
    Key,        \* the digests asked for
    Value,      \* what a paid call may come back with
    MaxLookups, \* bound: how many cells one process asks for
    None

ASSUME ProcessOfIsTotal == ProcessOf \in [Worker -> Process]
ASSUME MaxLookupsIsNat == MaxLookups \in Nat
ASSUME MarksAreNoValues ==
    /\ Value \cap {None, "partial", "missing", "raised"} = {}
    /\ None \notin {"partial", "missing", "raised"}

VARIABLES
    entry,      \* entry[k]: the bytes at <digest>.json, or None
    temp,       \* temp[p][k]: the bytes at <digest>.json.<pid>.tmp, or None
    at,         \* where each worker is inside `resolve` or `replay`
    key,        \* the cell it asked for
    val,        \* the local `value` of resolve
    file,       \* where the file it has open now is: "temp", "entry", "gone", None
    result,     \* what its last call returned, "missing", "raised", or None
    stats,      \* stats[p]: the counters of p's Cache object
    paid        \* history: the values paid calls came back with for each cell

cacheVars == <<entry, temp, at, key, val, file, result, stats, paid>>

(* An entry is unreadable until the last byte is in: "partial" stands for  *)
(* every content `_read` counts as malformed.                              *)
Content == Value \cup {"partial", None}

Busy == {"reading", "replaying", "producing", "opening", "writing", "moving"}

NoStats == [hits |-> 0, misses |-> 0, malformed |-> 0, absent |-> 0]

CacheTypeOK ==
    /\ entry \in [Key -> Content]
    /\ temp \in [Process -> [Key -> Content]]
    /\ at \in [Worker -> {"idle"} \cup Busy]
    /\ key \in [Worker -> Key \cup {None}]
    /\ val \in [Worker -> Value \cup {None}]
    /\ file \in [Worker -> {"temp", "entry", "gone", None}]
    /\ result \in [Worker -> Value \cup {"missing", "raised", None}]
    /\ stats \in [Process -> [DOMAIN NoStats -> Nat]]
    /\ paid \in [Key -> SUBSET Value]

(* The store an earlier run left behind, some of whose entries may have    *)
(* been truncated since.                                                   *)
CacheInit ==
    /\ entry \in [Key -> {None, "partial"}]
    /\ temp = [p \in Process |-> [k \in Key |-> None]]
    /\ at = [w \in Worker |-> "idle"]
    /\ key = [w \in Worker |-> None]
    /\ val = [w \in Worker |-> None]
    /\ file = [w \in Worker |-> None]
    /\ result = [w \in Worker |-> None]
    /\ stats = [p \in Process |-> NoStats]
    /\ paid = [k \in Key |-> {}]

-------------------------------------------------------------------------------
(* `_count`: a counter update is one step, since it is made under the lock.*)
Count(w, counted) ==
    stats' = [stats EXCEPT ![ProcessOf[w]] =
                 [c \in DOMAIN NoStats |-> @[c] + IF c \in counted THEN 1 ELSE 0]]

(* The call comes back with r, or raises when r = "raised".                *)
Return(w, r) ==
    /\ at' = [at EXCEPT ![w] = "idle"]
    /\ result' = [result EXCEPT ![w] = r]

Goto(w, from, to) ==
    /\ at[w] = from
    /\ at' = [at EXCEPT ![w] = to]

Lookups(p) == stats[p].hits + stats[p].misses + stats[p].absent

(* `resolve` or `replay` is called for cell k.                             *)
Call(w, k, how) ==
    /\ Lookups(ProcessOf[w]) < MaxLookups
    /\ Goto(w, "idle", how)
    /\ key' = [key EXCEPT ![w] = k]
    /\ val' = [val EXCEPT ![w] = None]
    /\ result' = [result EXCEPT ![w] = None]
    /\ UNCHANGED <<entry, temp, file, stats, paid>>

(* An entry that is there is a hit, readable or not.                       *)
ReadHit_bug(w) ==
    /\ at[w] \in {"reading", "replaying"}
    /\ entry[key[w]] # None
    /\ Count(w, {"hits"})
    /\ Return(w, entry[key[w]])
    /\ UNCHANGED <<entry, temp, key, val, file, paid>>

(* The entry is there and readable: its value is returned, nothing paid.   *)
ReadHit(w) ==
    /\ at[w] \in {"reading", "replaying"}
    /\ entry[key[w]] \in Value
    /\ Count(w, {"hits"})
    /\ Return(w, entry[key[w]])
    /\ UNCHANGED <<entry, temp, key, val, file, paid>>

Unread(k) == IF entry[k] = "partial" THEN {"malformed"} ELSE {}

(* The cell is paid for again although the store holds it.                 *)
ReadMiss_bug(w) ==
    /\ Goto(w, "reading", "producing")
    /\ Count(w, {"misses"} \cup Unread(key[w]))
    /\ UNCHANGED <<entry, temp, key, val, file, result, paid>>

(* It is absent, or there and unreadable, which `resolve` counts twice.    *)
ReadMiss(w) ==
    /\ Goto(w, "reading", "producing")
    /\ entry[key[w]] \notin Value
    /\ Count(w, {"misses"} \cup Unread(key[w]))
    /\ UNCHANGED <<entry, temp, key, val, file, result, paid>>

ReplayMiss(w) ==
    /\ at[w] = "replaying"
    /\ entry[key[w]] \notin Value
    /\ Count(w, {"absent"} \cup Unread(key[w]))
    /\ Return(w, "missing")
    /\ UNCHANGED <<entry, temp, key, val, file, paid>>

(* The paid call returns.                                                  *)
Produce(w) ==
    /\ Goto(w, "producing", "opening")
    /\ \E v \in Value : /\ val' = [val EXCEPT ![w] = v]
                         /\ paid' = [paid EXCEPT ![key[w]] = @ \cup {v}]
    /\ UNCHANGED <<entry, temp, key, file, result, stats>>

(* The paid call raises (a 429, a ContextDrift): nothing is written.       *)
ProduceFails(w) ==
    /\ at[w] = "producing"
    /\ Return(w, "raised")
    /\ UNCHANGED <<entry, temp, key, val, file, stats, paid>>

(* Every process writes under the same temporary name.                     *)
Owner_bug(w) == CHOOSE p \in Process : TRUE

(* The pid in the name of the temporary file that w writes.                *)
Owner(w) == ProcessOf[w]

(* The entry is written in place, with no temporary file.                  *)
Open_bug(w) ==
    /\ Goto(w, "opening", "writing")
    /\ entry' = [entry EXCEPT ![key[w]] = "partial"]
    /\ temp' = [temp EXCEPT ![Owner(w)][key[w]] = "partial"]
    /\ file' = [file EXCEPT ![w] = "temp"]
    /\ UNCHANGED <<key, val, result, stats, paid>>

(* `write_text` opens the temporary file of this process for this cell,    *)
(* emptying it if it is there.                                             *)
Open(w) ==
    /\ Goto(w, "opening", "writing")
    /\ temp' = [temp EXCEPT ![Owner(w)][key[w]] = "partial"]
    /\ file' = [file EXCEPT ![w] = "temp"]
    /\ UNCHANGED <<entry, key, val, result, stats, paid>>

(* Workers that have one file open: same process, same cell, same place.   *)
ShareFile(w, u) ==
    /\ u # w
    /\ at[u] = "writing"
    /\ Owner(u) = Owner(w)
    /\ key[u] = key[w]
    /\ file[u] = file[w]

(* What a file holds once w's bytes are in it: w's value if w had it for   *)
(* itself, and possibly a mixture when another worker wrote it too.        *)
Written(w, old) ==
    IF old \in {"partial", val[w]} /\ ~\E u \in Worker : ShareFile(w, u)
      THEN {val[w]}
      ELSE {val[w], "partial"}

WriteTemp(w) ==
    /\ file[w] = "temp"
    /\ \E c \in Written(w, temp[Owner(w)][key[w]]) :
          temp' = [temp EXCEPT ![Owner(w)][key[w]] = c]
    /\ UNCHANGED entry

WriteEntry(w) ==
    /\ file[w] = "entry"
    /\ \E c \in Written(w, entry[key[w]]) : entry' = [entry EXCEPT ![key[w]] = c]
    /\ UNCHANGED temp

(* The bytes go where the file is now: the temporary file, or, when        *)
(* another thread has renamed it in the meantime, the entry or nowhere.    *)
Write(w) ==
    /\ Goto(w, "writing", "moving")
    /\ \/ WriteTemp(w)
       \/ WriteEntry(w)
       \/ file[w] = "gone" /\ UNCHANGED <<entry, temp>>
    /\ file' = [file EXCEPT ![w] = None]
    /\ UNCHANGED <<key, val, result, stats, paid>>

(* Where u's open file is after w has renamed its temporary file.          *)
Renamed(w, u) ==
    CASE key[u] = key[w] /\ file[u] = "entry"                           -> "gone"
      [] key[u] = key[w] /\ file[u] = "temp" /\ Owner(u) = Owner(w)     -> "entry"
      [] OTHER                                                          -> file[u]

(* `os.replace` puts whatever the temporary name holds in place, whole.    *)
Move(w) ==
    /\ at[w] = "moving"
    /\ temp[Owner(w)][key[w]] # None
    /\ entry' = [entry EXCEPT ![key[w]] = temp[Owner(w)][key[w]]]
    /\ temp' = [temp EXCEPT ![Owner(w)][key[w]] = None]
    /\ file' = [u \in Worker |-> Renamed(w, u)]
    /\ Return(w, val[w])
    /\ UNCHANGED <<key, val, stats, paid>>

(* The temporary name is gone: another thread of this process moved it.    *)
MoveFails(w) ==
    /\ at[w] = "moving"
    /\ temp[Owner(w)][key[w]] = None
    /\ Return(w, "raised")
    /\ UNCHANGED <<entry, temp, key, val, file, stats, paid>>

Replace(w) == Move(w) \/ MoveFails(w)

(* A process is killed: its threads and its counters are gone, its files   *)
(* stay as they are.  A later process may be given the same pid.           *)
Kill(p) ==
    LET dead(w) == ProcessOf[w] = p IN
    /\ \E w \in Worker : dead(w) /\ at[w] \in Busy
    /\ at' = [w \in Worker |-> IF dead(w) THEN "idle" ELSE at[w]]
    /\ key' = [w \in Worker |-> IF dead(w) THEN None ELSE key[w]]
    /\ val' = [w \in Worker |-> IF dead(w) THEN None ELSE val[w]]
    /\ file' = [w \in Worker |-> IF dead(w) THEN None ELSE file[w]]
    /\ result' = [w \in Worker |-> IF dead(w) THEN None ELSE result[w]]
    /\ stats' = [stats EXCEPT ![p] = NoStats]
    /\ UNCHANGED <<entry, temp, paid>>

CacheStep(w) ==
    \/ ReadHit(w)
    \/ ReadMiss(w)
    \/ ReplayMiss(w)
    \/ Produce(w)
    \/ ProduceFails(w)
    \/ Open(w)
    \/ Write(w)
    \/ Replace(w)

CacheNext ==
    \/ \E w \in Worker :
          \/ \E k \in Key, how \in {"reading", "replaying"} : Call(w, k, how)
          \/ CacheStep(w)
    \/ \E p \in Process : Kill(p)

CacheSpec == CacheInit /\ [][CacheNext]_cacheVars
-------------------------------------------------------------------------------

(* `_write` (cache.py:199-200): "no reader can ever see a partial one".    *)
(* Whatever is killed, no write leaves an entry unreadable that was whole  *)
(* or absent before.  Two threads of one process on one cell would break   *)
(* it; a stage whose items are distinct cells never has them.              *)
EntriesStayWhole ==
    [][\A k \in Key : entry'[k] = "partial" => entry[k] = "partial"]_cacheVars

(* A worker that shares its process with no other.                         *)
Alone(w) == \A u \in Worker : ProcessOf[u] = ProcessOf[w] => u = w

(* The comment on `_lock` (cache.py:97-103): racing workers need no lock,  *)
(* for each writes a file of its own.  So, of a worker alone in its        *)
(* process, no move fails, and none moves anything but the value it paid   *)
(* for, whatever the other processes do to the same cell.                  *)
PaidIsReturned ==
    \A w \in Worker :
        at[w] = "moving" /\ Alone(w) => temp[Owner(w)][key[w]] = val[w]

(* A racing pair of threads can break an entry, but `_read` (cache.py:174) *)
(* keeps it from anyone: whatever a call returns as a value was paid for,  *)
(* and for that very cell.                                                 *)
ServedWasPaidFor ==
    \A w \in Worker :
        result[w] \in {None, "missing", "raised"} \/ result[w] \in paid[key[w]]
===============================================================================
