----------------------------- MODULE Ingest_proofs -----------------------------
(***************************************************************************)
(* Proofs about `Ingest`, for any companies, texts, chunk counts and runs, *)
(* and a crash after any step of any run.                                  *)
(***************************************************************************)
EXTENDS Ingest, TLAPS

USE LastYearIsPositive, MaxSizeIsPositive, SizeIsBounded, GoodIsText, MaxRunsIsNat,
    NoneIsNoText
USE DEF Years, Index, KeepIds

-------------------------------------------------------------------------------
(* The inductive invariant.  Between runs only its first three parts say   *)
(* anything, and they are what every crash leaves behind.                  *)

(* A chunk of a text lies among the ids that text is stored under.         *)
InRange ==
    \A t \in Ticker, y \in Years, i \in Index, x \in Text :
        store[t][y][i] = x => i \in KeepIds(x)

(* Some text of an accession is held whole, if any chunk of it is held:    *)
(* the one written last.                                                   *)
LastIsWhole ==
    \A t \in Ticker, y \in Years, i \in Index :
        store[t][y][i] # None =>
            \E x \in Good : \A j \in KeepIds(x) : store[t][y][j] = x

(* The companies of a run have filings the gate passed, and one at a time  *)
(* is being handled.                                                       *)
RunOrder ==
    /\ pc = "idle" => todo = {} /\ done = {}
    /\ todo \cap done = {}
    /\ \A t \in todo \cup done : filings[t] \in [year : Years, text : Good]
    /\ pc \in {"writing", "pruning", "evicting"} =>
          /\ current \in Ticker
          /\ current \notin todo \cup done
          /\ filings[current] \in [year : Years, text : Good]

(* What the run read of the companies it has yet to handle still stands.   *)
AlreadyStands ==
    \A t \in todo, y \in Years, x \in Text :
        already[t][y] = {x} => HoldsExactly(t, y, x)

(* How far the company being handled has come.                             *)
Progress ==
    /\ pc = "pruning" => \A i \in KeepIds(filings[current].text) :
          store[current][filings[current].year][i] = filings[current].text
    /\ pc = "evicting" => HoldsExactly(current, filings[current].year, filings[current].text)

IInv ==
    /\ TypeOK
    /\ InRange
    /\ LastIsWhole
    /\ OnlyGatedChunks
    /\ NeverAbsent
    /\ RunOrder
    /\ AlreadyStands
    /\ Progress
    /\ HandledIsExact
-------------------------------------------------------------------------------
(* One content hash means the whole filing, for the text held whole can    *)
(* only be that one, and it has no chunk beyond its own ids.               *)
LEMMA OneHash == ASSUME TypeOK, InRange, LastIsWhole PROVE OneHashIsWhole
<1> SUFFICES ASSUME NEW t \in Ticker, NEW y \in Years, NEW x \in Text,
                    ContentHashes(store[t][y]) = {x}
             PROVE  HoldsExactly(t, y, x)
  BY DEF OneHashIsWhole
<1>1. \A i \in Index : store[t][y][i] \in {x, None}
  BY DEF ContentHashes
<1>2. PICK i \in Index : store[t][y][i] = x
  BY DEF ContentHashes
<1>3. PICK z \in Good : \A j \in KeepIds(z) : store[t][y][j] = z
  BY <1>2 DEF LastIsWhole
<1>4. z = x
  <2>1. 1 \in KeepIds(z) /\ 1 \in Index
    OBVIOUS
  <2>2. z = store[t][y][1]
    BY <1>3, <2>1
  <2>3. QED BY <1>1, <2>1, <2>2
<1>5. QED BY <1>1, <1>3, <1>4 DEF HoldsExactly, InRange

LEMMA InitIInv == Init => IInv
<1> SUFFICES ASSUME Init PROVE IInv
  OBVIOUS
<1> USE DEF Init, NoRun
<1>1. TypeOK
  BY DEF TypeOK, Collection, NothingHeld
<1>2. InRange /\ LastIsWhole /\ OnlyGatedChunks
  BY DEF InRange, LastIsWhole, OnlyGatedChunks, ContentHashes
<1>3. NeverAbsent /\ RunOrder /\ AlreadyStands /\ Progress /\ HandledIsExact
  BY DEF NeverAbsent, RunOrder, AlreadyStands, Progress, HandledIsExact
<1>4. QED BY <1>1, <1>2, <1>3 DEF IInv

(* What is said of the collection alone outlives any step that leaves it   *)
(* as it is.                                                               *)
LEMMA StoreKept ==
    ASSUME IInv, UNCHANGED <<store, ingested>>
    PROVE  InRange' /\ LastIsWhole' /\ OnlyGatedChunks' /\ NeverAbsent'
BY DEF IInv, InRange, LastIsWhole, OnlyGatedChunks, NeverAbsent

-------------------------------------------------------------------------------
LEMMA BeginStep ==
    ASSUME IInv, NEW T \in SUBSET Ticker, NEW texts \in [T -> Text], NEW force \in BOOLEAN,
           Begin(texts, force)
    PROVE  IInv'
<1> USE DEF IInv, Begin
<1>1. DOMAIN texts = T /\ \A t \in T : texts[t] \in Good
  BY DEF RunGate
<1>2. TypeOK'
  <2>1. filings' \in [Ticker -> Filing \cup {None}]
    BY <1>1 DEF TypeOK, Filing
  <2>2. already' \in [Ticker -> [Years -> SUBSET Text]]
    <3>1. NothingHeld \in [Ticker -> [Years -> SUBSET Text]]
      BY DEF NothingHeld
    <3>2. \A t \in Ticker, y \in Years : ContentHashes(store[t][y]) \subseteq Text
      BY DEF ContentHashes, TypeOK, Collection
    <3>3. QED BY <3>1, <3>2
  <2>3. QED BY <2>1, <2>2, <1>1 DEF TypeOK
<1>3. RunOrder'
  BY <1>1 DEF RunOrder, TypeOK
<1>4. AlreadyStands'
  <2>1. OneHashIsWhole
    BY OneHash
  <2>2. ASSUME NEW t \in T, NEW y \in Years, NEW x \in Text, already'[t][y] = {x}
        PROVE  ContentHashes(store[t][y]) = {x}
    <3>1. force => already'[t][y] = {}
      BY DEF NothingHeld
    <3>2. QED BY <2>2, <3>1
  <2>3. \A t \in T, y \in Years, x \in Text : already'[t][y] = {x} => HoldsExactly(t, y, x)
    BY <2>1, <2>2 DEF OneHashIsWhole
  <2>4. todo' = T /\ store' = store
    BY <1>1
  <2> HIDE DEF Begin
  <2>5. QED BY <2>3, <2>4 DEF AlreadyStands, HoldsExactly
<1>5. Progress' /\ HandledIsExact'
  BY DEF Progress, HandledIsExact
<1>6. QED BY <1>2, <1>3, <1>4, <1>5, StoreKept

LEMMA SkipStep == ASSUME IInv, NEW t \in Ticker, Skip(t) PROVE IInv'
<1> USE DEF IInv, Skip, Handle
<1>1. TypeOK'
  BY DEF TypeOK
<1>2. RunOrder'
  BY DEF RunOrder, TypeOK
<1>3. AlreadyStands' /\ HandledIsExact'
  BY DEF AlreadyStands, HandledIsExact, HoldsExactly
<1>4. Progress'
  <2>1. filings[t].year \in Years /\ filings[t].text \in Text
    BY DEF RunOrder
  <2>2. HoldsExactly(t, filings[t].year, filings[t].text)
    BY <2>1 DEF AlreadyStands, Holds
  <2>3. QED BY <2>2 DEF Progress, HoldsExactly
<1>5. QED BY <1>1, <1>2, <1>3, <1>4, StoreKept

LEMMA EmbedStep == ASSUME IInv, NEW t \in Ticker, Embed(t) PROVE IInv'
<1> USE DEF IInv, Embed, Handle
<1>1. TypeOK'
  BY DEF TypeOK
<1>2. RunOrder'
  BY DEF RunOrder, TypeOK
<1>3. AlreadyStands' /\ HandledIsExact' /\ Progress'
  BY DEF AlreadyStands, HandledIsExact, HoldsExactly, Progress
<1>4. QED BY <1>1, <1>2, <1>3, StoreKept

(* The filing that is written, pruned or evicted around.                   *)
LEMMA CurrentFiling ==
    ASSUME IInv, pc \in {"writing", "pruning", "evicting"}
    PROVE  /\ current \in Ticker /\ current \notin todo \cup done
           /\ filings[current].year \in Years
           /\ filings[current].text \in Good /\ filings[current].text \in Text
           /\ filings[current] \in Filing
BY DEF IInv, RunOrder, Filing

(* A step that changes the chunks of one company's filing leaves those of  *)
(* the others, handled or still to handle, alone.                          *)
LEMMA OthersStand ==
    ASSUME IInv, NEW u \in Ticker, u \notin todo \cup done,
           \A t \in Ticker : t # u => store'[t] = store[t],
           UNCHANGED <<filings, already, todo>>
    PROVE  /\ AlreadyStands'
           /\ \A t \in done : \A y \in Years :
                 IF y = filings[t].year
                   THEN HoldsExactly(t, y, filings[t].text)'
                   ELSE ContentHashes(store'[t][y]) = {}
<1> USE DEF IInv
<1>1. \A t \in todo \cup done : t \in Ticker /\ store'[t] = store[t]
  BY DEF TypeOK
<1>2. AlreadyStands'
  BY <1>1 DEF AlreadyStands, HoldsExactly
<1>3. QED BY <1>1, <1>2 DEF HandledIsExact, HoldsExactly

LEMMA OthersPresent ==
    ASSUME IInv, NEW u, \A t \in Ticker : t # u => store'[t] = store[t]
    PROVE  \A t \in ingested : t # u =>
               \E z \in Years, v \in Good : \A i \in KeepIds(v) : store'[t][z][i] = v
<1> SUFFICES ASSUME NEW t \in ingested, t # u
             PROVE  \E z \in Years, v \in Good : \A i \in KeepIds(v) : store'[t][z][i] = v
  OBVIOUS
<1>1. t \in Ticker /\ store'[t] = store[t]
  BY DEF IInv, TypeOK
<1>2. PICK z \in Years, v \in Good : \A i \in KeepIds(v) : store[t][z][i] = v
  BY DEF IInv, NeverAbsent
<1>3. QED BY <1>1, <1>2

(* The upsert puts the text in place whole, before anything is deleted.    *)
LEMMA WriteStep == ASSUME IInv, Write PROVE IInv'
<1> DEFINE u == current
           y == filings[current].year
           x == filings[current].text
<1> USE DEF IInv
<1>1. u \in Ticker /\ u \notin todo \cup done /\ y \in Years /\ x \in Good /\ x \in Text
  BY CurrentFiling DEF Write
<1>2. /\ \A t \in Ticker : t # u => store'[t] = store[t]
      /\ \A z \in Years : z # y => store'[u][z] = store[u][z]
      /\ \A i \in Index : store'[u][y][i] = IF i \in KeepIds(x) THEN x ELSE store[u][y][i]
      /\ UNCHANGED <<runVars, latest, index, runs>>
      /\ ingested' = ingested \cup {u} /\ pc = "writing" /\ pc' = "pruning"
  BY <1>1 DEF Write, WriteChunks, TypeOK, Collection
<1> HIDE DEF u, y, x
<1>3. TypeOK'
  <2>1. store' \in Collection
    BY <1>1 DEF Write, WriteChunks, TypeOK, Collection, u, y, x
  <2>2. QED BY <1>1, <1>2, <2>1 DEF TypeOK, runVars
<1>4. InRange'
  BY <1>1, <1>2 DEF InRange
<1>5. LastIsWhole'
  <2>1. ASSUME NEW t \in Ticker, NEW z \in Years, NEW i \in Index, store'[t][z][i] # None
        PROVE  \E v \in Good : \A j \in KeepIds(v) : store'[t][z][j] = v
    <3>1. CASE t = u /\ z = y
      <4>1. \A j \in KeepIds(x) : j \in Index
        BY <1>1
      <4>2. QED BY <1>1, <1>2, <3>1, <4>1
    <3>2. CASE ~(t = u /\ z = y)
      BY <1>2, <2>1, <3>2 DEF LastIsWhole
    <3>3. QED BY <3>1, <3>2
  <2>2. QED BY <2>1 DEF LastIsWhole
<1>6. OnlyGatedChunks'
  BY <1>1, <1>2 DEF OnlyGatedChunks, ContentHashes
<1>7. NeverAbsent'
  <2>1. \A j \in KeepIds(x) : j \in Index /\ store'[u][y][j] = x
    BY <1>1, <1>2
  <2>2. \A t \in ingested : t # u =>
          \E z \in Years, v \in Good : \A i \in KeepIds(v) : store'[t][z][i] = v
    BY <1>2, OthersPresent
  <2>3. QED BY <1>1, <1>2, <2>1, <2>2 DEF NeverAbsent
<1>8. RunOrder'
  BY <1>2 DEF RunOrder, runVars
<1>9. AlreadyStands' /\ HandledIsExact'
  BY <1>1, <1>2, OthersStand DEF runVars, HandledIsExact
<1>10. Progress'
  <2>1. \A j \in KeepIds(x) : j \in Index /\ store'[u][y][j] = x
    BY <1>1, <1>2
  <2>2. QED BY <1>2, <2>1 DEF Progress, runVars, u, y, x
<1>11. QED BY <1>3, <1>4, <1>5, <1>6, <1>7, <1>8, <1>9, <1>10

(* Pruning leaves the filing exactly as the run fetched it.                *)
LEMMA PruneStep == ASSUME IInv, Prune PROVE IInv'
<1> DEFINE u == current
           y == filings[current].year
           x == filings[current].text
<1> USE DEF IInv
<1>1. u \in Ticker /\ u \notin todo \cup done /\ y \in Years /\ x \in Good /\ x \in Text
  BY CurrentFiling DEF Prune
<1>2. /\ \A t \in Ticker : t # u => store'[t] = store[t]
      /\ \A z \in Years : z # y => store'[u][z] = store[u][z]
      /\ \A i \in Index : store'[u][y][i] = IF i \in KeepIds(x) THEN store[u][y][i] ELSE None
      /\ UNCHANGED <<runVars, latest, index, runs, ingested>>
      /\ pc = "pruning" /\ pc' = "evicting"
  BY <1>1 DEF Prune, DeleteOrphaned, TypeOK, Collection
<1>3. \A i \in KeepIds(x) : i \in Index /\ store[u][y][i] = x
  BY <1>1, <1>2 DEF Progress
<1> HIDE DEF u, y, x
<1>4. \A i \in Index : store'[u][y][i] = IF i \in KeepIds(x) THEN x ELSE None
  BY <1>2, <1>3
<1>5. TypeOK'
  <2>1. store' \in Collection
    BY <1>1 DEF Prune, DeleteOrphaned, TypeOK, Collection, u, y, x
  <2>2. QED BY <1>1, <1>2, <2>1 DEF TypeOK, runVars
<1>6. InRange'
  BY <1>1, <1>2, <1>4 DEF InRange
<1>7. LastIsWhole'
  <2>1. ASSUME NEW t \in Ticker, NEW z \in Years, NEW i \in Index, store'[t][z][i] # None
        PROVE  \E v \in Good : \A j \in KeepIds(v) : store'[t][z][j] = v
    <3>1. CASE t = u /\ z = y
      BY <1>1, <1>3, <1>4, <3>1
    <3>2. CASE ~(t = u /\ z = y)
      BY <1>2, <2>1, <3>2 DEF LastIsWhole
    <3>3. QED BY <3>1, <3>2
  <2>2. QED BY <2>1 DEF LastIsWhole
<1>8. OnlyGatedChunks'
  BY <1>1, <1>2 DEF OnlyGatedChunks, ContentHashes
<1>9. NeverAbsent'
  <2>1. \A t \in ingested : t # u =>
          \E z \in Years, v \in Good : \A i \in KeepIds(v) : store'[t][z][i] = v
    BY <1>2, OthersPresent
  <2>2. QED BY <1>1, <1>2, <1>3, <1>4, <2>1 DEF NeverAbsent
<1>10. RunOrder'
  BY <1>2 DEF RunOrder, runVars
<1>11. AlreadyStands' /\ HandledIsExact'
  BY <1>1, <1>2, OthersStand DEF runVars, HandledIsExact
<1>12. Progress'
  BY <1>2, <1>4 DEF Progress, HoldsExactly, runVars, u, y, x
<1>13. QED BY <1>5, <1>6, <1>7, <1>8, <1>9, <1>10, <1>11, <1>12

(* Evicting leaves the company with that filing alone.                     *)
LEMMA EvictStep == ASSUME IInv, Evict PROVE IInv'
<1> DEFINE u == current
           y == filings[current].year
           x == filings[current].text
<1> USE DEF IInv
<1>1. u \in Ticker /\ u \notin todo \cup done /\ y \in Years /\ x \in Good /\ x \in Text
  BY CurrentFiling DEF Evict
<1>2. /\ \A t \in Ticker : t # u => store'[t] = store[t]
      /\ \A z \in Years : z # y => \A i \in Index : store'[u][z][i] = None
      /\ store'[u][y] = store[u][y]
      /\ UNCHANGED <<filings, already, todo, latest, index, runs, ingested>>
      /\ done' = done \cup {u} /\ pc' = "choosing"
  BY <1>1 DEF Evict, DeleteSuperseded, TypeOK, Collection
<1>3. \A i \in Index : store[u][y][i] = IF i \in KeepIds(x) THEN x ELSE None
  BY DEF Evict, Progress, HoldsExactly
<1> HIDE DEF u, y, x
<1>4. TypeOK'
  <2>1. store' \in Collection
    BY <1>1 DEF Evict, DeleteSuperseded, TypeOK, Collection, u, y, x
  <2>2. QED BY <1>1, <1>2, <2>1 DEF TypeOK, Evict
<1>5. InRange'
  BY <1>1, <1>2 DEF InRange
<1>6. LastIsWhole'
  <2>1. ASSUME NEW t \in Ticker, NEW z \in Years, NEW i \in Index, store'[t][z][i] # None
        PROVE  store'[t][z] = store[t][z]
    BY <1>2, <2>1
  <2>2. QED BY <2>1 DEF LastIsWhole
<1>7. OnlyGatedChunks'
  BY <1>1, <1>2 DEF OnlyGatedChunks, ContentHashes
<1>8. NeverAbsent'
  <2>1. \A t \in ingested : t # u =>
          \E z \in Years, v \in Good : \A i \in KeepIds(v) : store'[t][z][i] = v
    BY <1>2, OthersPresent
  <2>2. \A i \in KeepIds(x) : i \in Index /\ store'[u][y][i] = x
    BY <1>1, <1>2, <1>3
  <2>3. QED BY <1>1, <1>2, <2>1, <2>2 DEF NeverAbsent
<1>9. RunOrder'
  <2>1. filings[u] \in [year : Years, text : Good]
    BY DEF RunOrder, Evict, u
  <2>2. QED BY <1>1, <1>2, <2>1 DEF RunOrder
<1>10. AlreadyStands'
  BY <1>1, <1>2, OthersStand
<1>11. HandledIsExact'
  <2>1. \A i \in Index : store'[u][y][i] = IF i \in KeepIds(x) THEN x ELSE None
    BY <1>2, <1>3
  <2>2. \A z \in Years : z # y => ContentHashes(store'[u][z]) = {}
    BY <1>2 DEF ContentHashes
  <2>3. y = filings'[u].year /\ x = filings'[u].text
    BY <1>2 DEF u, y, x
  <2>4. \A t \in done : \A z \in Years :
            IF z = filings'[t].year
              THEN HoldsExactly(t, z, filings[t].text)'
              ELSE ContentHashes(store'[t][z]) = {}
    BY <1>1, <1>2, OthersStand
  <2>5. ASSUME NEW t \in done', NEW z \in Years
        PROVE  IF z = filings'[t].year
                 THEN HoldsExactly(t, z, filings[t].text)'
                 ELSE ContentHashes(store'[t][z]) = {}
    <3>1. CASE t \in done
      BY <2>4, <3>1
    <3>2. CASE t = u /\ z = y
      BY <2>1, <2>3, <3>2 DEF HoldsExactly
    <3>3. CASE t = u /\ z # y
      BY <2>2, <2>3, <3>3
    <3>4. QED BY <1>2, <3>1, <3>2, <3>3
  <2>6. QED BY <2>5 DEF HandledIsExact
<1>12. Progress'
  BY <1>2 DEF Progress
<1>13. QED BY <1>4, <1>5, <1>6, <1>7, <1>8, <1>9, <1>10, <1>11, <1>12

(* A run that ends, however it ends, leaves the collection as it is.       *)
LEMMA EndStep == ASSUME IInv, End PROVE IInv'
<1>1. TypeOK'
  BY DEF IInv, End, TypeOK, NothingHeld
<1>2. RunOrder' /\ AlreadyStands' /\ Progress' /\ HandledIsExact'
  BY DEF End, RunOrder, AlreadyStands, Progress, HandledIsExact
<1>3. QED BY <1>1, <1>2, StoreKept DEF IInv, End

(* Steps that ingest does not see.                                         *)
LEMMA OutsideStep ==
    ASSUME IInv, (\E t \in Ticker : Publish(t)) \/ BuildIndex \/ RestartApp \/ UNCHANGED vars
    PROVE  IInv'
<1>1. UNCHANGED <<store, ingested, pc, runVars, runs>>
  BY DEF Publish, BuildIndex, RestartApp, vars
<1>2. TypeOK'
  <2>1. latest' \in [Ticker -> Years]
    BY DEF IInv, TypeOK, Publish, BuildIndex, RestartApp, vars
  <2>2. index' \in Collection \cup {None}
    BY DEF IInv, TypeOK, Publish, BuildIndex, RestartApp, vars
  <2>3. QED BY <1>1, <2>1, <2>2 DEF IInv, TypeOK, runVars
<1>3. RunOrder' /\ AlreadyStands' /\ Progress' /\ HandledIsExact'
  BY <1>1 DEF IInv, RunOrder, AlreadyStands, Progress, HandledIsExact, HoldsExactly, runVars
<1>4. QED BY <1>1, <1>2, <1>3, StoreKept DEF IInv

LEMMA NextIInv == ASSUME IInv, [Next]_vars PROVE IInv'
<1>1. ASSUME NEW T \in SUBSET Ticker \ {{}}, NEW texts \in [T -> Text],
             NEW force \in BOOLEAN, Begin(texts, force)
      PROVE  IInv'
  BY <1>1, BeginStep
<1>2. QED
  BY <1>1, SkipStep, EmbedStep, WriteStep, PruneStep, EvictStep, EndStep, OutsideStep
  DEF Next, Finish, Crash

-------------------------------------------------------------------------------
(* The theorems.                                                           *)

LEMMA Invariance == Spec => []IInv
<1>1. Init => IInv
  BY InitIInv
<1>2. IInv /\ [Next]_vars => IInv'
  BY NextIInv
<1>3. QED BY <1>1, <1>2, PTL DEF Spec

(* The collection, the run and the snapshot keep their types.              *)
THEOREM TypeCorrect == Spec => []TypeOK
<1>1. IInv => TypeOK
  BY DEF IInv
<1>2. QED BY <1>1, Invariance, PTL

(* Skipping on one content hash is sound: `held == {fingerprint}` implies  *)
(* that the collection holds the whole filing and nothing else of it.      *)
THEOREM SkippingIsSound == Spec => []OneHashIsWhole
<1>1. IInv => OneHashIsWhole
  BY OneHash DEF IInv
<1>2. QED BY <1>1, Invariance, PTL

(* What a run has handled is exactly what it fetched, whatever an earlier  *)
(* killed run left behind: "which the next run repairs".                   *)
THEOREM RunsRepair == Spec => []HandledIsExact
<1>1. IInv => HandledIsExact
  BY DEF IInv
<1>2. QED BY <1>1, Invariance, PTL

(* No company that was ever ingested is ever without a whole filing.       *)
THEOREM CompaniesStay == Spec => []NeverAbsent
<1>1. IInv => NeverAbsent
  BY DEF IInv
<1>2. QED BY <1>1, Invariance, PTL

(* No text the gate refuses reaches the collection.                        *)
THEOREM GateHolds == Spec => []OnlyGatedChunks
<1>1. IInv => OnlyGatedChunks
  BY DEF IInv
<1>2. QED BY <1>1, Invariance, PTL

-------------------------------------------------------------------------------
(* The gate stands before the run, not before each filing.                 *)

(* While a run is on, every filing it fetched has passed the gate, those   *)
(* of the companies it has yet to reach included.                          *)
AllGated == \A u \in Ticker : filings[u] # None => filings[u].text \in Good

LEMMA GateStands == AllGated /\ [Next]_vars => AllGated'
<1> SUFFICES ASSUME AllGated, [Next]_vars PROVE AllGated'
  OBVIOUS
<1>1. ASSUME NEW T \in SUBSET Ticker \ {{}}, NEW texts \in [T -> Text],
             NEW force \in BOOLEAN, Begin(texts, force)
      PROVE  AllGated'
  BY <1>1 DEF AllGated, Begin, RunGate
<1>2. CASE Finish \/ Crash
  BY <1>2 DEF AllGated, Finish, Crash, End
<1>3. ASSUME NEW t \in Ticker, Publish(t) \/ Skip(t) \/ Embed(t) PROVE AllGated'
  BY <1>3 DEF AllGated, Publish, Skip, Embed, Handle, runVars
<1>4. CASE Write \/ Prune \/ Evict \/ BuildIndex \/ RestartApp \/ UNCHANGED vars
  BY <1>4 DEF AllGated, Write, Prune, Evict, BuildIndex, RestartApp, runVars, vars
<1>5. QED BY <1>1, <1>2, <1>3, <1>4 DEF Next

(* So no step of the run touches the collection unless all of them passed. *)
LEMMA StepIsGated == ASSUME IInv, AllGated, [Next]_vars PROVE GatedStep
<1>1. CASE UNCHANGED store
  BY <1>1 DEF GatedStep
<1>2. CASE Write \/ Prune \/ Evict
  <2> DEFINE y == filings[current].year
             x == filings[current].text
  <2>1. current \in Ticker /\ y \in Years
    BY <1>2, CurrentFiling DEF Write, Prune, Evict
  <2>2. CASE Write
    <3>1. store' = [store EXCEPT ![current][y] = WriteChunks(@, x)]
      BY <2>2 DEF Write
    <3>2. QED
      BY <2>1, <3>1 DEF GatedStep, AllGated, WriteChunks, IInv, TypeOK, Collection
  <2>3. CASE Prune
    <3>1. store' = [store EXCEPT ![current][y] = DeleteOrphaned(@, x)]
      BY <2>3 DEF Prune
    <3>2. QED
      BY <2>1, <3>1 DEF GatedStep, AllGated, DeleteOrphaned, IInv, TypeOK, Collection
  <2>4. CASE Evict
    <3>1. store' = [store EXCEPT ![current] = DeleteSuperseded(@, y)]
      BY <2>4 DEF Evict
    <3>2. QED
      BY <2>1, <3>1 DEF GatedStep, AllGated, DeleteSuperseded, IInv, TypeOK, Collection
  <2>5. QED BY <1>2, <2>2, <2>3, <2>4
<1>3. CASE ~(Write \/ Prune \/ Evict)
  BY <1>1, <1>3 DEF Next, vars, Publish, Skip, Embed, Begin, Finish, Crash, End,
                    BuildIndex, RestartApp
<1>4. QED BY <1>2, <1>3

(* One refused filing and a run writes nothing for any company, and what   *)
(* it writes for a company is the text it fetched for that company.        *)
THEOREM GateComesFirst == Spec => GateIsAllOrNothing
<1>1. Init => AllGated
  BY DEF Init, NoRun, AllGated
<1>2. AllGated /\ [Next]_vars => AllGated'
  BY GateStands
<1>3. IInv /\ AllGated /\ [Next]_vars => [GatedStep]_vars
  BY StepIsGated
<1>4. Spec => [][GatedStep]_vars
  BY <1>1, <1>2, <1>3, Invariance, PTL DEF Spec
<1>5. QED BY <1>4 DEF GateIsAllOrNothing

===============================================================================
