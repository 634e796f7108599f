--------------------------- MODULE CachedMap_proofs ---------------------------
(***************************************************************************)
(* Proofs about `EvalCache`, for any processes and threads on any cells,   *)
(* two threads of one process on one cell among them, and then about       *)
(* `CachedMap`, for any number of workers, items, runs and kills, of a     *)
(* pool of one process (`OneProcess`) whose items are cells of their own   *)
(* (`DistinctCells`).                                                      *)
(***************************************************************************)
EXTENDS CachedMap, TLAPS

-------------------------------------------------------------------------------
(* The store by itself.                                                    *)

(* A worker at work, or back with a value, looked up a cell.               *)
BusyHasKey ==
    \A w \in Worker : at[w] \in Busy \/ result[w] \in Value => key[w] \in Key

(* From the paid call on, a worker has a value it paid for.                *)
ValueIsPaid ==
    \A w \in Worker :
        at[w] \in {"opening", "writing", "moving"} => val[w] \in Value \cap paid[key[w]]

(* Whatever the files are made to hold, values in them were paid for.      *)
FilesArePaid ==
    \A k \in Key :
        /\ entry[k] \in Value => entry[k] \in paid[k]
        /\ \A p \in Process : temp[p][k] \in Value => temp[p][k] \in paid[k]

(* A worker alone in its process has its temporary file for itself.        *)
AloneInFile ==
    \A w \in Worker :
        Alone(w) =>
            /\ at[w] = "writing" => file[w] = "temp" /\ temp[Owner(w)][key[w]] = "partial"
            /\ at[w] = "moving" => temp[Owner(w)][key[w]] = val[w]

CacheInv ==
    /\ CacheTypeOK
    /\ BusyHasKey
    /\ ValueIsPaid
    /\ FilesArePaid
    /\ AloneInFile
    /\ ServedWasPaidFor
-------------------------------------------------------------------------------
USE DEF Content, Busy, Owner
USE MarksAreNoValues, ProcessOfIsTotal, MaxLookupsIsNat

(* A counter update leaves the counters counters.                          *)
LEMMA CountType ==
    ASSUME NEW w \in Worker, NEW counted, stats \in [Process -> [DOMAIN NoStats -> Nat]],
           Count(w, counted)
    PROVE  stats' \in [Process -> [DOMAIN NoStats -> Nat]]
<1>1. \A c \in DOMAIN NoStats :
          stats[ProcessOf[w]][c] + (IF c \in counted THEN 1 ELSE 0) \in Nat
  OBVIOUS
<1>2. [c \in DOMAIN NoStats |->
          stats[ProcessOf[w]][c] + (IF c \in counted THEN 1 ELSE 0)] \in [DOMAIN NoStats -> Nat]
  BY <1>1
<1>3. QED BY <1>2 DEF Count

(* The cache's variables keep their types, whoever drives it.              *)
LEMMA CacheStepType ==
    ASSUME CacheTypeOK, NEW w \in Worker, key[w] \in Key, CacheStep(w)
    PROVE  CacheTypeOK'
<1>1. CASE ReadHit(w)
  BY <1>1, CountType DEF CacheTypeOK, ReadHit, Return
<1>2. CASE ReadMiss(w)
  BY <1>2, CountType DEF CacheTypeOK, ReadMiss, Goto
<1>3. CASE ReplayMiss(w)
  BY <1>3, CountType DEF CacheTypeOK, ReplayMiss, Return
<1>4. CASE Produce(w)
  BY <1>4 DEF CacheTypeOK, Produce, Goto
<1>5. CASE ProduceFails(w)
  BY <1>5 DEF CacheTypeOK, ProduceFails, Return
<1>6. CASE Open(w)
  BY <1>6 DEF CacheTypeOK, Open, Goto
<1>7. CASE Write(w)
  <2>1. ASSUME NEW old PROVE val[w] \in Content /\ Written(w, old) \subseteq Content
    BY DEF CacheTypeOK, Written
  <2>2. temp' \in [Process -> [Key -> Content]] /\ entry' \in [Key -> Content]
    <3>1. CASE WriteTemp(w)
      BY <2>1, <3>1 DEF CacheTypeOK, WriteTemp
    <3>2. CASE WriteEntry(w)
      BY <2>1, <3>2 DEF CacheTypeOK, WriteEntry
    <3>3. CASE UNCHANGED <<entry, temp>>
      BY <3>3 DEF CacheTypeOK
    <3>4. QED BY <1>7, <3>1, <3>2, <3>3 DEF Write
  <2>3. QED BY <1>7, <2>2 DEF CacheTypeOK, Write, Goto
<1>8. CASE Move(w)
  <2>1. file' \in [Worker -> {"temp", "entry", "gone", None}]
    BY <1>8 DEF CacheTypeOK, Move, Renamed
  <2>2. QED BY <1>8, <2>1 DEF CacheTypeOK, Move, Return
<1>9. CASE MoveFails(w)
  BY <1>9 DEF CacheTypeOK, MoveFails, Return
<1>10. QED
  BY <1>1, <1>2, <1>3, <1>4, <1>5, <1>6, <1>7, <1>8, <1>9 DEF CacheStep, Replace
-------------------------------------------------------------------------------

LEMMA CacheInitially == CacheInit => CacheInv
<1> SUFFICES ASSUME CacheInit PROVE CacheInv
  OBVIOUS
<1>1. CacheTypeOK
  <2>1. NoStats \in [DOMAIN NoStats -> Nat]
    BY DEF NoStats
  <2>2. QED BY <2>1 DEF CacheInit, CacheTypeOK
<1>2. BusyHasKey /\ ValueIsPaid /\ FilesArePaid /\ AloneInFile /\ ServedWasPaidFor
  BY DEF CacheInit, BusyHasKey, ValueIsPaid, FilesArePaid, AloneInFile, ServedWasPaidFor
<1>3. QED BY <1>1, <1>2 DEF CacheInv

LEMMA CallKeeps ==
    ASSUME CacheInv, NEW w \in Worker, NEW k \in Key, NEW how \in {"reading", "replaying"},
           Call(w, k, how)
    PROVE  CacheInv'
<1> USE DEF CacheInv, Call, Goto, CacheTypeOK
<1>1. CacheTypeOK'
  OBVIOUS
<1>2. BusyHasKey' /\ ValueIsPaid'
  BY DEF BusyHasKey, ValueIsPaid
<1>3. FilesArePaid' /\ AloneInFile' /\ ServedWasPaidFor'
  BY DEF FilesArePaid, AloneInFile, ServedWasPaidFor, Alone
<1>4. QED BY <1>1, <1>2, <1>3

(* A call that reads: it returns what the entry holds, or goes on to pay.  *)
LEMMA ReadKeeps ==
    ASSUME CacheInv, CacheTypeOK', NEW w \in Worker, ReadHit(w) \/ ReadMiss(w) \/ ReplayMiss(w)
    PROVE  CacheInv'
<1> USE DEF CacheInv, ReadHit, ReadMiss, ReplayMiss, Goto, Return, CacheTypeOK
<1>1. BusyHasKey' /\ ValueIsPaid'
  BY DEF BusyHasKey, ValueIsPaid
<1>2. FilesArePaid'
  BY DEF FilesArePaid
<1>3. AloneInFile'
  BY DEF AloneInFile, Alone
<1>4. ServedWasPaidFor'
  BY DEF ServedWasPaidFor, BusyHasKey, FilesArePaid
<1>5. QED BY <1>1, <1>2, <1>3, <1>4

LEMMA ProduceKeeps ==
    ASSUME CacheInv, CacheTypeOK', NEW w \in Worker, Produce(w) \/ ProduceFails(w)
    PROVE  CacheInv'
<1> USE DEF CacheInv, Produce, ProduceFails, Goto, Return, CacheTypeOK
<1>1. BusyHasKey'
  BY DEF BusyHasKey
<1>2. \A k \in Key : paid[k] \subseteq paid'[k]
  <2>1. CASE ProduceFails(w)
    BY <2>1
  <2>2. CASE Produce(w)
    <3>1. PICK v \in Value : paid' = [paid EXCEPT ![key[w]] = @ \cup {v}]
      BY <2>2
    <3>2. \A k \in Key : paid'[k] = IF k = key[w] THEN paid[k] \cup {v} ELSE paid[k]
      BY <3>1
    <3>3. QED BY <3>2
  <2>3. QED BY <2>1, <2>2
<1>3. ValueIsPaid'
  BY <1>2 DEF BusyHasKey, ValueIsPaid
<1>4. FilesArePaid'
  BY <1>2 DEF FilesArePaid
<1>5. AloneInFile'
  BY DEF AloneInFile, Alone
<1>6. ServedWasPaidFor'
  BY <1>2 DEF ServedWasPaidFor, BusyHasKey
<1>7. QED BY <1>1, <1>3, <1>4, <1>5, <1>6

LEMMA OpenKeeps ==
    ASSUME CacheInv, CacheTypeOK', NEW w \in Worker, Open(w) PROVE CacheInv'
<1> USE DEF CacheInv, Open, Goto, CacheTypeOK
<1>1. BusyHasKey' /\ ValueIsPaid' /\ ServedWasPaidFor'
  BY DEF BusyHasKey, ValueIsPaid, ServedWasPaidFor
<1>2. FilesArePaid'
  BY DEF FilesArePaid
<1>3. AloneInFile'
  BY DEF AloneInFile, Alone, BusyHasKey
<1>4. QED BY <1>1, <1>2, <1>3

(* The bytes are w's value or a mixture, wherever the file is by then; a   *)
(* worker alone wrote its own, whole.                                      *)
LEMMA WriteKeeps ==
    ASSUME CacheInv, CacheTypeOK', NEW w \in Worker, Write(w) PROVE CacheInv'
<1> USE DEF CacheInv, Write, Goto, CacheTypeOK
<1>1. BusyHasKey' /\ ValueIsPaid' /\ ServedWasPaidFor'
  BY DEF BusyHasKey, ValueIsPaid, ServedWasPaidFor
<1>2. key[w] \in Key /\ val[w] \in Value \cap paid[key[w]]
  BY DEF BusyHasKey, ValueIsPaid
<1>3. \A old : Written(w, old) \subseteq {val[w], "partial"}
  BY DEF Written
<1>4. FilesArePaid'
  <2>1. CASE WriteTemp(w)
    BY <1>2, <1>3, <2>1 DEF WriteTemp, FilesArePaid
  <2>2. CASE WriteEntry(w)
    BY <1>2, <1>3, <2>2 DEF WriteEntry, FilesArePaid
  <2>3. CASE UNCHANGED <<entry, temp>>
    BY <2>3 DEF FilesArePaid
  <2>4. QED BY <2>1, <2>2, <2>3
<1>5. ASSUME NEW u \in Worker, Alone(u), u # w
      PROVE  UNCHANGED <<at[u], file[u], key[u], val[u], temp[Owner(u)]>>
  BY <1>5 DEF Alone, WriteTemp, WriteEntry
<1>6. ASSUME Alone(w) PROVE temp'[Owner(w)][key[w]] = val[w]
  <2>1. file[w] = "temp" /\ temp[Owner(w)][key[w]] = "partial"
    BY <1>6 DEF AloneInFile
  <2>2. Written(w, "partial") = {val[w]}
    BY <1>6 DEF Written, ShareFile, Alone
  <2>3. temp' = [temp EXCEPT ![Owner(w)][key[w]] = val[w]]
    BY <2>1, <2>2 DEF WriteTemp, WriteEntry
  <2>4. QED BY <1>2, <2>3
<1>7. AloneInFile'
  BY <1>5, <1>6 DEF AloneInFile, Alone
<1>8. QED BY <1>1, <1>4, <1>7

LEMMA ReplaceKeeps ==
    ASSUME CacheInv, CacheTypeOK', NEW w \in Worker, Replace(w) PROVE CacheInv'
<1> USE DEF CacheInv, Replace, Return, CacheTypeOK
<1>1. BusyHasKey' /\ ValueIsPaid'
  BY DEF BusyHasKey, ValueIsPaid, Move, MoveFails
<1>2. FilesArePaid'
  <2>1. CASE MoveFails(w)
    BY <2>1 DEF MoveFails, FilesArePaid
  <2>2. CASE Move(w)
    <3>1. key[w] \in Key /\ Owner(w) \in Process
      BY <2>2 DEF Move, BusyHasKey
    <3>2. \A k \in Key : entry'[k] \in {entry[k], temp[Owner(w)][k]}
      BY <2>2 DEF Move
    <3>3. \A p \in Process, k \in Key : temp'[p][k] \in {temp[p][k], None}
      BY <2>2 DEF Move
    <3>4. UNCHANGED paid
      BY <2>2 DEF Move
    <3>5. QED BY <3>1, <3>2, <3>3, <3>4 DEF FilesArePaid
  <2>3. QED BY <2>1, <2>2
<1>3. ServedWasPaidFor'
  <2>1. CASE MoveFails(w)
    BY <2>1 DEF ServedWasPaidFor, MoveFails
  <2>2. CASE Move(w)
    BY <2>2 DEF ServedWasPaidFor, ValueIsPaid, Move
  <2>3. QED BY <2>1, <2>2
<1>4. AloneInFile'
  <2>1. CASE MoveFails(w)
    BY <2>1 DEF MoveFails, AloneInFile, Alone
  <2>2. CASE Move(w)
    <3>1. ASSUME NEW u \in Worker, Alone(u), u # w, at[u] = "writing", file[u] = "temp"
          PROVE  file'[u] = "temp"
      BY <2>2, <3>1 DEF Move, Renamed, Alone
    <3>2. ASSUME NEW u \in Worker, Alone(u), u # w
          PROVE  UNCHANGED <<at[u], key[u], val[u], temp[Owner(u)]>>
      BY <2>2, <3>2 DEF Move, Alone
    <3>3. at'[w] = "idle"
      BY <2>2 DEF Move
    <3>4. ASSUME NEW u \in Worker, Alone(u)
          PROVE  /\ at'[u] = "writing" => file'[u] = "temp" /\ temp'[Owner(u)][key'[u]] = "partial"
                 /\ at'[u] = "moving" => temp'[Owner(u)][key'[u]] = val'[u]
      <4>1. CASE u = w
        BY <3>3, <4>1
      <4>2. CASE u # w
        BY <3>1, <3>2, <3>4, <4>2 DEF AloneInFile
      <4>3. QED BY <4>1, <4>2
    <3>5. QED BY <3>4 DEF AloneInFile, Alone
  <2>3. QED BY <2>1, <2>2
<1>5. QED BY <1>1, <1>2, <1>3, <1>4

LEMMA KillKeeps == ASSUME CacheInv, NEW p \in Process, Kill(p) PROVE CacheInv'
<1> USE DEF CacheInv, Kill, CacheTypeOK
<1>1. CacheTypeOK'
  BY DEF NoStats
<1>2. BusyHasKey' /\ ValueIsPaid' /\ ServedWasPaidFor'
  BY DEF BusyHasKey, ValueIsPaid, ServedWasPaidFor
<1>3. FilesArePaid' /\ AloneInFile'
  BY DEF FilesArePaid, AloneInFile, Alone
<1>4. QED BY <1>1, <1>2, <1>3

LEMMA CacheStepKeeps == CacheInv /\ [CacheNext]_cacheVars => CacheInv'
<1> SUFFICES ASSUME CacheInv, [CacheNext]_cacheVars PROVE CacheInv'
  OBVIOUS
<1>1. ASSUME NEW w \in Worker, CacheStep(w) PROVE CacheInv'
  <2>1. at[w] \in Busy
    BY <1>1 DEF CacheStep, ReadHit, ReadMiss, ReplayMiss, Produce, ProduceFails, Open, Write,
                Replace, Move, MoveFails, Goto
  <2>2. CacheTypeOK'
    BY <1>1, <2>1, CacheStepType DEF CacheInv, BusyHasKey
  <2>3. QED
    BY <1>1, <2>2, ReadKeeps, ProduceKeeps, OpenKeeps, WriteKeeps, ReplaceKeeps DEF CacheStep
<1>2. CASE UNCHANGED cacheVars
  BY <1>2 DEF cacheVars, CacheInv, CacheTypeOK, BusyHasKey, ValueIsPaid, FilesArePaid,
              AloneInFile, Alone, ServedWasPaidFor
<1>3. QED BY <1>1, <1>2, CallKeeps, KillKeeps DEF CacheNext

LEMMA CacheInvariance == CacheSpec => []CacheInv
<1>1. CacheInv /\ [CacheNext]_cacheVars => CacheInv'
  BY CacheStepKeeps
<1>2. QED BY <1>1, CacheInitially, PTL DEF CacheSpec

(* Whatever threads race on a cell and whatever is killed, a value that a  *)
(* call returns was paid for, for that very cell (cache.py:114-145).       *)
THEOREM ServedIsPaidFor == CacheSpec => []ServedWasPaidFor
<1>1. CacheInv => ServedWasPaidFor
  BY DEF CacheInv
<1>2. QED BY <1>1, CacheInvariance, PTL

(* A worker alone in its process moves the very value it paid for into     *)
(* place, whatever other processes do to the cell (cache.py:97-103).       *)
THEOREM OwnValueIsMoved == CacheSpec => []PaidIsReturned
<1>1. CacheInv => PaidIsReturned
  BY DEF CacheInv, AloneInFile, PaidIsReturned
<1>2. QED BY <1>1, CacheInvariance, PTL

-------------------------------------------------------------------------------
(* The inductive invariant.  Its heart is `OwnItem`: the pool gives each   *)
(* item to one worker, so with distinct cells no two workers have one      *)
(* temporary file, and nobody writes the entry another worker missed.      *)

(* A busy worker works on the cell of an item no other worker has and the  *)
(* caller is still waiting for.                                            *)
OwnItem ==
    \A w \in Worker :
        /\ at[w] \in Busy => item[w] # None
        /\ item[w] # None =>
              /\ item[w] < queue
              /\ key[w] = Items[item[w]]
              /\ results[item[w]] = None
              /\ stage \in {"running", "failing"}
              /\ \A u \in Worker : u # w => item[u] # item[w]

(* The temporary file of a worker that is writing holds what it wrote.     *)
OwnFile ==
    \A w \in Worker :
        /\ at[w] \in {"opening", "writing", "moving"} => val[w] \in Value
        /\ at[w] = "writing" => /\ file[w] = "temp"
                                /\ temp[Owner(w)][key[w]] = "partial"
        /\ at[w] = "moving" => temp[Owner(w)][key[w]] = val[w]

(* A worker pays for, and then writes, a cell the store does not hold.     *)
PaysForAbsent ==
    \A w \in Worker :
        at[w] \in {"producing", "opening", "writing", "moving"} => entry[key[w]] \notin Value

(* What is said of a cell's value is what the store holds.                 *)
Says(r, k) ==
    /\ r \in Value => entry[k] = r
    /\ r = "missing" => mode = "replaying"

ResultsAreStored ==
    /\ \A w \in Worker :
          /\ at[w] = "replaying" => mode = "replaying"
          /\ item[w] # None /\ at[w] = "idle" => result[w] # None /\ Says(result[w], key[w])
    /\ \A i \in Item : Says(results[i], Items[i])
    /\ FinishedCellsStay

(* The caller has taken the results before `awaited`, none of them failed, *)
(* and no result is in before its item was taken.                          *)
TakenInOrder ==
    /\ \A i \in Item : i < awaited => results[i] \notin {None, "raised"}
    /\ stage = "returned" => awaited \notin Item
    /\ stage = "running" => \A i \in Item : i >= queue => results[i] = None

IInv ==
    /\ TypeOK
    /\ OwnItem
    /\ OwnFile
    /\ PaysForAbsent
    /\ ResultsAreStored
    /\ TakenInOrder
-------------------------------------------------------------------------------
USE DEF Item, Outcome, Content, Busy, Owner

(* What the model's bounds and marks are, for the provers.                 *)
USE ItemsAreCells, NoneIsNoItem, MaxRunsIsNat, MarksAreNoValues, ProcessOfIsTotal, MaxLookupsIsNat

LEMMA ItemsAreNumbers == Item = 1..Len(Items) /\ Len(Items) \in Nat
OBVIOUS

(* A worker at work looks up a cell.                                       *)
LEMMA KeyOfBusy ==
    ASSUME TypeOK, OwnItem, NEW w \in Worker, item[w] # None
    PROVE  item[w] \in Item /\ key[w] \in Key
BY DEF TypeOK, OwnItem

LEMMA InitIInv == Init => IInv
<1> SUFFICES ASSUME Init PROVE IInv
  OBVIOUS
<1>1. TypeOK
  <2>1. NoStats \in [DOMAIN NoStats -> Nat]
    BY DEF NoStats
  <2>2. QED BY <2>1 DEF Init, CacheInit, TypeOK, CacheTypeOK
<1>2. OwnItem /\ OwnFile /\ PaysForAbsent
  BY DEF Init, CacheInit, OwnItem, OwnFile, PaysForAbsent
<1>3. ResultsAreStored /\ TakenInOrder
  BY DEF Init, CacheInit, ResultsAreStored, Says, FinishedCellsStay, TakenInOrder
<1>4. QED BY <1>1, <1>2, <1>3 DEF IInv

(* Two workers at work are on two cells, so on two temporary files.        *)
LEMMA OwnCell ==
    ASSUME DistinctCells, TypeOK, OwnItem,
           NEW w \in Worker, NEW u \in Worker, u # w, item[w] # None, item[u] # None
    PROVE  key[u] # key[w]
BY DEF DistinctCells, TypeOK, OwnItem

-------------------------------------------------------------------------------
(* The steps of a worker inside a call.                                    *)

LEMMA WorkType ==
    ASSUME IInv, NEW w \in Worker, Work(w) PROVE TypeOK'
BY KeyOfBusy, CacheStepType DEF IInv, Work, stageVars, TypeOK

(* A step that touches neither file keeps what is said of the files.       *)
LEMMA ReadHitStep ==
    ASSUME IInv, NEW w \in Worker, item[w] # None, ReadHit(w), UNCHANGED stageVars, TypeOK'
    PROVE  IInv'
<1> USE DEF IInv, ReadHit, Return, stageVars, TypeOK, CacheTypeOK
<1>1. OwnItem' /\ TakenInOrder'
  BY DEF OwnItem, TakenInOrder
<1>2. OwnFile' /\ PaysForAbsent'
  BY DEF OwnFile, PaysForAbsent
<1>3. ResultsAreStored'
  BY DEF ResultsAreStored, Says, FinishedCellsStay
<1>4. QED BY <1>1, <1>2, <1>3

LEMMA ReadMissStep ==
    ASSUME IInv, NEW w \in Worker, item[w] # None, ReadMiss(w), UNCHANGED stageVars, TypeOK'
    PROVE  IInv'
<1> USE DEF IInv, ReadMiss, Goto, stageVars, TypeOK, CacheTypeOK
<1>1. OwnItem' /\ TakenInOrder'
  BY DEF OwnItem, TakenInOrder
<1>2. OwnFile' /\ PaysForAbsent'
  BY DEF OwnFile, PaysForAbsent
<1>3. ResultsAreStored'
  BY DEF ResultsAreStored, Says, FinishedCellsStay
<1>4. QED BY <1>1, <1>2, <1>3

LEMMA ReplayMissStep ==
    ASSUME IInv, NEW w \in Worker, item[w] # None, ReplayMiss(w), UNCHANGED stageVars, TypeOK'
    PROVE  IInv'
<1> USE DEF IInv, ReplayMiss, Return, stageVars, TypeOK, CacheTypeOK
<1>1. OwnItem' /\ TakenInOrder'
  BY DEF OwnItem, TakenInOrder
<1>2. OwnFile' /\ PaysForAbsent'
  BY DEF OwnFile, PaysForAbsent
<1>3. ResultsAreStored'
  BY DEF ResultsAreStored, Says, FinishedCellsStay
<1>4. QED BY <1>1, <1>2, <1>3

LEMMA ProduceStep ==
    ASSUME IInv, NEW w \in Worker, item[w] # None, Produce(w), UNCHANGED stageVars, TypeOK'
    PROVE  IInv'
<1> USE DEF IInv, Produce, Goto, stageVars, TypeOK, CacheTypeOK
<1>1. OwnItem' /\ TakenInOrder'
  BY DEF OwnItem, TakenInOrder
<1>2. OwnFile' /\ PaysForAbsent'
  BY DEF OwnFile, PaysForAbsent
<1>3. ResultsAreStored'
  BY DEF ResultsAreStored, Says, FinishedCellsStay
<1>4. QED BY <1>1, <1>2, <1>3

LEMMA ProduceFailsStep ==
    ASSUME IInv, NEW w \in Worker, item[w] # None, ProduceFails(w), UNCHANGED stageVars, TypeOK'
    PROVE  IInv'
<1> USE DEF IInv, ProduceFails, Return, stageVars, TypeOK, CacheTypeOK
<1>1. OwnItem' /\ TakenInOrder'
  BY DEF OwnItem, TakenInOrder
<1>2. OwnFile' /\ PaysForAbsent'
  BY DEF OwnFile, PaysForAbsent
<1>3. ResultsAreStored'
  BY DEF ResultsAreStored, Says, FinishedCellsStay
<1>4. QED BY <1>1, <1>2, <1>3

(* Opening its temporary file empties nobody else's.                       *)
LEMMA OpenStep ==
    ASSUME DistinctCells, IInv, NEW w \in Worker, item[w] # None, Open(w),
           UNCHANGED stageVars, TypeOK'
    PROVE  IInv'
<1> USE DEF IInv, Open, Goto, stageVars, TypeOK, CacheTypeOK
<1>1. OwnItem' /\ TakenInOrder'
  BY DEF OwnItem, TakenInOrder
<1>2. OwnFile'
  <2>1. \A u \in Worker : u # w /\ at[u] \in {"writing", "moving"} => key[u] # key[w]
    BY OwnCell DEF OwnItem
  <2>2. QED BY <2>1, KeyOfBusy DEF OwnFile
<1>3. PaysForAbsent'
  BY DEF PaysForAbsent
<1>4. ResultsAreStored'
  BY DEF ResultsAreStored, Says, FinishedCellsStay
<1>5. QED BY <1>1, <1>2, <1>3, <1>4

(* It is alone with its file, so the file ends up with its value, whole.   *)
LEMMA WriteStep ==
    ASSUME DistinctCells, IInv, NEW w \in Worker, item[w] # None, Write(w),
           UNCHANGED stageVars, TypeOK'
    PROVE  IInv'
<1> USE DEF IInv, Goto, stageVars, TypeOK, CacheTypeOK
<1>1. OwnItem' /\ TakenInOrder'
  BY DEF OwnItem, TakenInOrder, Write
<1>2. \A u \in Worker : u # w /\ at[u] \in Busy => key[u] # key[w]
  BY OwnCell DEF OwnItem
<1>3. Written(w, temp[Owner(w)][key[w]]) = {val[w]}
  <2>1. ~\E u \in Worker : ShareFile(w, u)
    BY <1>2 DEF ShareFile
  <2>2. QED BY <2>1 DEF Written, OwnFile, Write
<1>4. /\ UNCHANGED <<entry, key, val, result>>
      /\ temp' = [temp EXCEPT ![Owner(w)][key[w]] = val[w]]
  BY <1>3 DEF Write, OwnFile, WriteTemp, WriteEntry
<1>5. OwnFile'
  BY <1>2, <1>4, KeyOfBusy DEF OwnFile, Write
<1>6. PaysForAbsent'
  BY <1>4 DEF PaysForAbsent, Write
<1>7. ResultsAreStored'
  BY <1>4 DEF ResultsAreStored, Says, FinishedCellsStay, Write
<1>8. QED BY <1>1, <1>5, <1>6, <1>7

(* The entry of a cell nobody else works on gets the value paid for.       *)
LEMMA MoveStep ==
    ASSUME DistinctCells, IInv, NEW w \in Worker, item[w] # None, Move(w),
           UNCHANGED stageVars, TypeOK'
    PROVE  IInv'
<1> USE DEF IInv, Return, stageVars, TypeOK, CacheTypeOK
<1>1. OwnItem' /\ TakenInOrder'
  BY DEF OwnItem, TakenInOrder, Move
<1>2. \A u \in Worker : u # w /\ at[u] \in Busy => key[u] # key[w]
  BY OwnCell DEF OwnItem, Move
<1>3. \A u \in Worker : u # w => at'[u] = at[u] /\ (at[u] \in Busy => file'[u] = file[u])
  BY <1>2 DEF Move, Renamed
<1>4. entry' = [entry EXCEPT ![key[w]] = val[w]] /\ val[w] \in Value
  BY DEF Move, OwnFile
<1>5. OwnFile'
  BY <1>2, <1>3, KeyOfBusy DEF OwnFile, Move
<1>6. PaysForAbsent'
  BY <1>2, <1>3, <1>4, KeyOfBusy DEF PaysForAbsent, Move
<1>7. ResultsAreStored'
  <2>1. \A k \in Key : entry[k] \in Value => entry'[k] = entry[k]
    BY <1>4 DEF PaysForAbsent, Move
  <2>2. entry'[key[w]] = result'[w]
    BY <1>4, KeyOfBusy DEF Move
  <2>3. FinishedCellsStay'
    BY <2>1 DEF ResultsAreStored, FinishedCellsStay, Move
  <2>4. \A i \in Item : Says(results[i], Items[i])'
    BY <2>1 DEF ResultsAreStored, Says, Move
  <2>5. \A u \in Worker : item[u] # None /\ at'[u] = "idle" =>
            result'[u] # None /\ Says(result[u], key[u])'
    BY <2>1, <2>2, <1>4, KeyOfBusy DEF ResultsAreStored, Says, Move
  <2>6. QED BY <1>3, <2>3, <2>4, <2>5 DEF ResultsAreStored, Move
<1>8. QED BY <1>1, <1>5, <1>6, <1>7

(* The temporary file is there, so the move cannot fail.                   *)
LEMMA MoveDoesNotFail ==
    ASSUME IInv, NEW w \in Worker PROVE ~MoveFails(w)
BY DEF IInv, OwnFile, MoveFails, TypeOK, CacheTypeOK

LEMMA WorkStep ==
    ASSUME DistinctCells, IInv, NEW w \in Worker, Work(w) PROVE IInv'
<1>1. item[w] # None /\ CacheStep(w) /\ UNCHANGED stageVars /\ TypeOK'
  BY WorkType DEF Work
<1>2. QED
  BY <1>1, ReadHitStep, ReadMissStep, ReplayMissStep, ProduceStep, ProduceFailsStep,
     OpenStep, WriteStep, MoveStep, MoveDoesNotFail DEF CacheStep, Replace

-------------------------------------------------------------------------------
(* The steps of the pool and of its caller.                                *)

(* Nobody is at work when no run is in progress.                           *)
LEMMA QuietBetweenRuns ==
    ASSUME TypeOK, OwnItem, stage \notin {"running", "failing"}, NEW w \in Worker
    PROVE  item[w] = None /\ at[w] = "idle"
BY DEF OwnItem, TypeOK, CacheTypeOK

LEMMA StartStep == ASSUME IInv, Start PROVE IInv'
<1> USE DEF IInv, Start
<1>1. TypeOK'
  BY DEF TypeOK, CacheTypeOK, NoStats
<1>2. \A w \in Worker : item[w] = None /\ at[w] = "idle"
  BY QuietBetweenRuns
<1>3. OwnItem' /\ TakenInOrder'
  BY <1>2 DEF OwnItem, TakenInOrder, TypeOK
<1>4. OwnFile' /\ PaysForAbsent'
  BY DEF OwnFile, PaysForAbsent
<1>5. ResultsAreStored'
  BY <1>2 DEF ResultsAreStored, Says, FinishedCellsStay
<1>6. QED BY <1>1, <1>3, <1>4, <1>5

LEMMA TakeStep == ASSUME IInv, NEW w \in Worker, Take(w) PROVE IInv'
<1> USE DEF IInv, Take, Call, Goto, TypeOK, CacheTypeOK
<1>1. queue \in Item /\ Items[queue] \in Key
  OBVIOUS
<1>2. TypeOK'
  BY <1>1
<1>3. OwnItem' /\ TakenInOrder'
  BY <1>1 DEF OwnItem, TakenInOrder
<1>4. OwnFile' /\ PaysForAbsent'
  BY DEF OwnFile, PaysForAbsent
<1>5. ResultsAreStored'
  BY DEF ResultsAreStored, Says, FinishedCellsStay
<1>6. QED BY <1>2, <1>3, <1>4, <1>5

LEMMA FinishStep == ASSUME IInv, NEW w \in Worker, Finish(w) PROVE IInv'
<1> USE DEF IInv, Finish, cacheVars, TypeOK, CacheTypeOK
<1>1. item[w] \in Item /\ key[w] \in Key /\ key[w] = Items[item[w]]
  BY KeyOfBusy DEF OwnItem
<1>2. TypeOK'
  <2>1. results' \in [Item -> Outcome]
    BY <1>1
  <2>2. durable' \in [Key -> Value \cup {None}]
    BY <1>1
  <2>3. CacheTypeOK'
    OBVIOUS
  <2>4. item' \in [Worker -> Item \cup {None}]
    OBVIOUS
  <2>5. QED BY <2>1, <2>2, <2>3, <2>4
<1>3. OwnItem'
  BY <1>1 DEF OwnItem
<1>4. TakenInOrder'
  <2>1. /\ \A i \in Item : i # item[w] => results'[i] = results[i]
        /\ results[item[w]] = None /\ item[w] < queue
    BY <1>1 DEF OwnItem
  <2>2. \A i \in Item : i < awaited => i # item[w]
    BY <2>1 DEF TakenInOrder
  <2>3. \A i \in Item : i >= queue => i # item[w]
    <3>1. queue \in Int /\ item[w] \in Int
      BY <1>1, ItemsAreNumbers
    <3>2. ~(item[w] >= queue)
      BY <3>1, <2>1
    <3>3. QED BY <3>2
  <2>4. UNCHANGED <<awaited, stage, queue>>
    OBVIOUS
  <2>5. QED BY <2>1, <2>2, <2>3, <2>4 DEF TakenInOrder
<1>5. OwnFile' /\ PaysForAbsent'
  BY DEF OwnFile, PaysForAbsent
<1>6. ResultsAreStored'
  BY <1>1 DEF ResultsAreStored, Says, FinishedCellsStay
<1>7. QED BY <1>2, <1>3, <1>4, <1>5, <1>6

(* The caller's own steps: they read the futures and move the stage on.    *)
LEMMA CallerStep ==
    ASSUME IInv, Await \/ ReturnAll \/ AwaitRaises \/ Raise PROVE IInv'
<1> USE DEF IInv, Await, ReturnAll, AwaitRaises, Raise, cacheVars, TypeOK, CacheTypeOK
<1>1. TypeOK'
  OBVIOUS
<1>2. OwnItem'
  BY DEF OwnItem, TakenInOrder
<1>3. TakenInOrder'
  BY DEF TakenInOrder
<1>4. OwnFile' /\ PaysForAbsent'
  BY DEF OwnFile, PaysForAbsent
<1>5. ResultsAreStored'
  BY DEF ResultsAreStored, Says, FinishedCellsStay
<1>6. QED BY <1>1, <1>2, <1>3, <1>4, <1>5

(* A kill takes every worker with it, and leaves the store as it is.       *)
LEMMA KillStep == ASSUME OneProcess, IInv, KillRun PROVE IInv'
<1> USE DEF IInv, KillRun, Kill
<1>1. /\ at' = [w \in Worker |-> "idle"]
      /\ UNCHANGED <<entry, temp, durable>>
  BY DEF OneProcess
<1>2. TypeOK'
  BY DEF TypeOK, CacheTypeOK, NoStats
<1>3. OwnItem' /\ TakenInOrder'
  BY <1>1 DEF OwnItem, TakenInOrder, TypeOK
<1>4. OwnFile' /\ PaysForAbsent'
  BY <1>1 DEF OwnFile, PaysForAbsent
<1>5. ResultsAreStored'
  BY <1>1 DEF ResultsAreStored, Says, FinishedCellsStay
<1>6. QED BY <1>2, <1>3, <1>4, <1>5

LEMMA StutterStep == ASSUME IInv, UNCHANGED mapVars PROVE IInv'
BY DEF IInv, mapVars, cacheVars, stageVars, TypeOK, CacheTypeOK, OwnItem, OwnFile,
       PaysForAbsent, ResultsAreStored, Says, FinishedCellsStay, TakenInOrder

LEMMA NextIInv == ASSUME DistinctCells, OneProcess, IInv, [Next]_mapVars PROVE IInv'
BY StartStep, TakeStep, WorkStep, FinishStep, CallerStep, KillStep, StutterStep DEF Next

-------------------------------------------------------------------------------
(* The theorems.                                                           *)

LEMMA Invariance == ASSUME DistinctCells, OneProcess PROVE Spec => []IInv
<1>1. Init => IInv
  BY InitIInv
<1>2. IInv /\ [Next]_mapVars => IInv'
  BY NextIInv
<1>3. QED BY <1>1, <1>2, PTL DEF Spec

(* Every variable of the pool and of the store keeps its type.             *)
THEOREM TypeCorrect == ASSUME DistinctCells, OneProcess PROVE Spec => []TypeOK
<1>1. IInv => TypeOK
  BY DEF IInv
<1>2. QED BY <1>1, Invariance, PTL

(* What a call of `resolve` or `replay` once returned for a cell is in the *)
(* store ever after, through failures, kills and later runs.               *)
THEOREM FinishedStays == ASSUME DistinctCells, OneProcess PROVE Spec => []FinishedCellsStay
<1>1. IInv => FinishedCellsStay
  BY DEF IInv, ResultsAreStored
<1>2. QED BY <1>1, Invariance, PTL

(* The refinement.  A move binds a cell that was absent, for nobody else   *)
(* writes the entry a worker missed; a call that comes back tells what the *)
(* store holds; no other step shows.                                       *)

LEMMA InitMaps == Init => Store!Init
<1> SUFFICES ASSUME Init PROVE Store!Init
  OBVIOUS
<1>1. \A k \in Key : entry[k] \notin Value
  BY DEF Init, CacheInit
<1>2. QED BY <1>1 DEF Init, Store!Init, cellBar

LEMMA MoveBinds ==
    ASSUME IInv, NEW w \in Worker, Work(w), Move(w) PROVE Store!Next
<1>1. key[w] \in Key /\ val[w] \in Value /\ entry[key[w]] \notin Value
  BY KeyOfBusy DEF IInv, OwnFile, PaysForAbsent, Work, Move
<1>2. entry' = [entry EXCEPT ![key[w]] = val[w]] /\ entry \in [Key -> Content]
  BY DEF IInv, OwnFile, Move, TypeOK, CacheTypeOK
<1>3. cellBar[key[w]] = None /\ cellBar' = [cellBar EXCEPT ![key[w]] = val[w]]
  BY <1>1, <1>2 DEF cellBar
<1>4. UNCHANGED durable
  BY DEF Work, stageVars
<1>5. Store!Bind(key[w], val[w])
  BY <1>3, <1>4 DEF Store!Bind
<1>6. QED BY <1>1, <1>5 DEF Store!Next

(* No other step of a call changes what a reader finds.                    *)
LEMMA WorkIsHidden ==
    ASSUME IInv, NEW w \in Worker, Work(w), ~Move(w) PROVE UNCHANGED Store!storeVars
<1>1. UNCHANGED durable
  BY DEF Work, stageVars
<1>2. UNCHANGED entry
  <2>1. CASE Write(w)
    BY <2>1 DEF IInv, OwnFile, Write, Goto, WriteTemp, WriteEntry
  <2>2. CASE ~Write(w)
    BY <2>2 DEF Work, CacheStep, Replace, ReadHit, ReadMiss, ReplayMiss, Produce, ProduceFails,
                Open, MoveFails
  <2>3. QED BY <2>1, <2>2
<1>3. QED BY <1>1, <1>2 DEF Store!storeVars, cellBar

LEMMA FinishTells ==
    ASSUME IInv, NEW w \in Worker, Finish(w) PROVE [Store!Next]_(Store!storeVars)
<1>1. UNCHANGED cellBar
  BY DEF Finish, cacheVars, cellBar
<1>2. CASE result[w] \in Value
  <2>1. key[w] \in Key /\ entry[key[w]] = result[w]
    BY <1>2, KeyOfBusy DEF IInv, Finish, ResultsAreStored, Says
  <2>2. cellBar[key[w]] = result[w] /\ result[w] # None
    BY <1>2, <2>1 DEF cellBar
  <2>3. Store!Tell(key[w])
    BY <1>1, <1>2, <2>2 DEF Finish, Store!Tell
  <2>4. QED BY <2>1, <2>3 DEF Store!Next
<1>3. CASE result[w] \notin Value
  BY <1>1, <1>3 DEF Finish, Store!storeVars
<1>4. QED BY <1>2, <1>3

LEMMA NextMaps == ASSUME IInv, [Next]_mapVars PROVE [Store!Next]_(Store!storeVars)
<1>1. ASSUME NEW w \in Worker, Work(w) PROVE [Store!Next]_(Store!storeVars)
  BY <1>1, MoveBinds, WorkIsHidden
<1>2. ASSUME NEW w \in Worker, Take(w) PROVE UNCHANGED Store!storeVars
  BY <1>2 DEF Take, Call, Store!storeVars, cellBar
<1>3. CASE Start \/ Await \/ ReturnAll \/ AwaitRaises \/ Raise \/ KillRun
  BY <1>3 DEF Start, Await, ReturnAll, AwaitRaises, Raise, KillRun, Kill, cacheVars,
              Store!storeVars, cellBar
<1>4. CASE UNCHANGED mapVars
  BY <1>4 DEF mapVars, cacheVars, stageVars, Store!storeVars, cellBar
<1>5. QED BY <1>1, <1>2, <1>3, <1>4, FinishTells DEF Next

(* A stage, with everything that can happen to it, implements the store of *)
(* cells that are bound once: whoever is told a value, in this run or in   *)
(* one resumed after it, is told the same.                                 *)
THEOREM StageKeepsStore == ASSUME DistinctCells, OneProcess PROVE Spec => KeepsStore
<1>1. Init => Store!Init
  BY InitMaps
<1>2. IInv /\ [Next]_mapVars => [Store!Next]_(Store!storeVars)
  BY NextMaps
<1>3. QED BY <1>1, <1>2, Invariance, PTL DEF Spec, KeepsStore, Store!Spec

(* No worker pays for a cell the store holds.                              *)
THEOREM NothingPaidTwice == ASSUME DistinctCells, OneProcess PROVE Spec => []PaidOnlyWhenAbsent
<1>1. IInv => PaidOnlyWhenAbsent
  BY DEF IInv, PaysForAbsent, PaidOnlyWhenAbsent
<1>2. QED BY <1>1, Invariance, PTL

(* A stage that returns is whole and in the order of its items.            *)
THEOREM ReturnsWhole == ASSUME DistinctCells, OneProcess PROVE Spec => []ReturnedIsWhole
<1>1. IInv => ReturnedIsWhole
  <2> SUFFICES ASSUME IInv, stage = "returned", NEW i \in Item
               PROVE  \/ results[i] \in Value /\ results[i] = entry[Items[i]]
                      \/ results[i] = "missing" /\ mode = "replaying"
    BY DEF ReturnedIsWhole
  <2>1. i < awaited
    BY DEF IInv, TakenInOrder, TypeOK
  <2>2. results[i] \in Value \cup {"missing"}
    BY <2>1 DEF IInv, TakenInOrder, TypeOK
  <2>3. QED BY <2>2 DEF IInv, ResultsAreStored, Says
<1>2. QED BY <1>1, Invariance, PTL

(* When a stage has returned or raised, no thread of its pool is at work.  *)
THEOREM PoolIsLeftQuiet == ASSUME DistinctCells, OneProcess PROVE Spec => []NobodyLeftBehind
<1>1. IInv => NobodyLeftBehind
  BY QuietBetweenRuns DEF IInv, NobodyLeftBehind
<1>2. QED BY <1>1, Invariance, PTL

(* No step leaves an entry unreadable that was whole or absent before: the *)
(* only step that writes an entry is a move, and it moves a whole value.   *)
THEOREM WritesAreAtomic == ASSUME DistinctCells, OneProcess PROVE Spec => EntriesStayWhole
<1>1. IInv /\ [Next]_mapVars =>
          [\A k \in Key : entry'[k] = "partial" => entry[k] = "partial"]_cacheVars
  <2> SUFFICES ASSUME IInv, [Next]_mapVars, NEW k \in Key, entry[k] # "partial"
               PROVE  entry'[k] # "partial"
    OBVIOUS
  <2>1. ASSUME NEW w \in Worker, Work(w) PROVE entry'[k] # "partial"
    <3>1. CASE Write(w)
      BY <3>1 DEF IInv, OwnFile, Write, Goto, WriteTemp, WriteEntry
    <3>2. CASE Move(w)
      BY <3>2 DEF IInv, OwnFile, Move, TypeOK, CacheTypeOK
    <3>3. CASE UNCHANGED entry
      BY <3>3
    <3>4. QED
      BY <2>1, <3>1, <3>2, <3>3
      DEF Work, CacheStep, Replace, ReadHit, ReadMiss, ReplayMiss, Produce, ProduceFails, Open, MoveFails
  <2>2. CASE \E w \in Worker : Take(w) \/ Finish(w)
    BY <2>2 DEF Take, Call, Finish, cacheVars
  <2>3. CASE Start \/ Await \/ ReturnAll \/ AwaitRaises \/ Raise \/ KillRun
    BY <2>3 DEF Start, Await, ReturnAll, AwaitRaises, Raise, KillRun, Kill, cacheVars
  <2>4. CASE UNCHANGED mapVars
    BY <2>4 DEF mapVars, cacheVars
  <2>5. QED BY <2>1, <2>2, <2>3, <2>4 DEF Next
<1>2. QED BY <1>1, Invariance, PTL DEF Spec, EntriesStayWhole

===============================================================================
