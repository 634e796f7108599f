-------------------------------- MODULE Ingest --------------------------------
(***************************************************************************)
(* The knowledge base and what keeps it current: `ingest`                  *)
(* (ingestion/pipeline.py) over the collection of retrieval/vectorstore.py.*)
(* Every filing of a run is gated before anything is written; then, filing *)
(* by filing, what the collection already holds is skipped, the rest is    *)
(* embedded and upserted, and what it replaces is deleted.  A run can be   *)
(* killed, or raise, between any two of these calls.                       *)
(*                                                                         *)
(* Between runs a company files a new year's 10-K (a new accession), or    *)
(* the extractor changes and the same accession yields another text.       *)
(***************************************************************************)
EXTENDS Integers

CONSTANTS
    Ticker,     \* the companies; each has one accession a year
    LastYear,   \* bound: the fiscal years are 1..LastYear
    Text,       \* what extraction can yield; content_hash tells them apart
    Size,       \* Size[x]: how many chunks the text x splits into
    MaxSize,    \* bound: no text splits into more chunks
    Good,       \* the texts the section gate passes
    MaxRuns,    \* bound: how many runs are started
    None

ASSUME LastYearIsPositive == LastYear \in Nat \ {0}
ASSUME MaxSizeIsPositive == MaxSize \in Nat \ {0}
ASSUME SizeIsBounded == Size \in [Text -> 1..MaxSize]
ASSUME GoodIsText == Good \subseteq Text
ASSUME MaxRunsIsNat == MaxRuns \in Nat
ASSUME NoneIsNoText == None \notin Text

VARIABLES
    store,      \* store[t][y][i]: the text whose i-th chunk it holds, or None
    latest,     \* latest[t]: the year of t's latest 10-K on EDGAR
    pc,         \* "idle", "choosing", "writing", "pruning" or "evicting"
    filings,    \* filings[t]: what the run fetched for t, or None
    already,    \* already[t][y]: the content hashes held when the run began
    todo,       \* the companies the run has still to handle
    current,    \* the one it is handling, or None
    done,       \* those it has handled
    index,      \* the running app's BM25 snapshot of the store, or None
    runs,       \* how many runs were started
    ingested    \* history: the companies some run has written

runVars == <<filings, already, todo, current, done>>
vars == <<store, latest, pc, runVars, index, runs, ingested>>

Years == 1..LastYear
Index == 1..MaxSize
Filing == [year : Years, text : Text]

(* The collection: a chunk's id is its accession -- a ticker's year -- and *)
(* its index; its content_hash is the text it was cut from.                *)
Collection == [Ticker -> [Years -> [Index -> Text \cup {None}]]]

TypeOK ==
    /\ store \in Collection
    /\ latest \in [Ticker -> Years]
    /\ pc \in {"idle", "choosing", "writing", "pruning", "evicting"}
    /\ filings \in [Ticker -> Filing \cup {None}]
    /\ already \in [Ticker -> [Years -> SUBSET Text]]
    /\ todo \subseteq Ticker
    /\ current \in Ticker \cup {None}
    /\ done \subseteq Ticker
    /\ index \in Collection \cup {None}
    /\ runs \in 0..MaxRuns
    /\ ingested \subseteq Ticker

NothingHeld == [t \in Ticker |-> [y \in Years |-> {}]]

NoRun ==
    /\ filings = [t \in Ticker |-> None]
    /\ already = NothingHeld
    /\ todo = {}
    /\ current = None
    /\ done = {}

Init ==
    /\ store = [t \in Ticker |-> [y \in Years |-> [i \in Index |-> None]]]
    /\ latest = [t \in Ticker |-> 1]
    /\ pc = "idle"
    /\ NoRun
    /\ index = None
    /\ runs = 0
    /\ ingested = {}

-------------------------------------------------------------------------------
(* `chunk_filing`: the ids a text of one accession is stored under.        *)
KeepIds(x) == 1..Size[x]

(* `content_hashes_by_accession`, for one accession: a set, "because a run *)
(* interrupted mid-write can leave two".                                   *)
ContentHashes(chunks) == {chunks[i] : i \in Index} \ {None}

(* `write_chunks`: one upsert of all the chunks of the text.               *)
WriteChunks(chunks, x) == [i \in Index |-> IF i \in KeepIds(x) THEN x ELSE chunks[i]]

(* It prunes the last of the chunks just written too.                      *)
DeleteOrphaned_bug(chunks, x) ==
    [i \in Index |-> IF i \in KeepIds(x) \ {Size[x]} THEN chunks[i] ELSE None]

(* `delete_orphaned_chunks`: what the accession holds beyond those ids.    *)
DeleteOrphaned(chunks, x) == [i \in Index |-> IF i \in KeepIds(x) THEN chunks[i] ELSE None]

(* `delete_superseded`: the company's chunks from any other accession.     *)
DeleteSuperseded(held, year) ==
    [y \in Years |-> IF y = year THEN held[y] ELSE [i \in Index |-> None]]

(* A run in which some filing passes is let through.                       *)
RunGate_bug(texts) == \E t \in DOMAIN texts : texts[t] \in Good

(* `run_gate` raises if any company's filing fails.                        *)
RunGate(texts) == \A t \in DOMAIN texts : texts[t] \in Good

(* A filing is held if any chunk of it is.                                 *)
Holds_bug(held, x) == x \in held

(* The skip condition of `ingest`.                                         *)
Holds(held, x) == held = {x}

-------------------------------------------------------------------------------
(* The company files its next 10-K.                                        *)
Publish(t) ==
    /\ latest[t] < LastYear
    /\ latest' = [latest EXCEPT ![t] = @ + 1]
    /\ UNCHANGED <<store, pc, runVars, index, runs, ingested>>

(* A run for the given companies, in any order (`--tickers`): their latest *)
(* filings were fetched and extracted.  If the gate fails it ends here, and*)
(* leaves everything as it was.                                            *)
Begin(texts, force) ==
    /\ pc = "idle"
    /\ runs < MaxRuns
    /\ RunGate(texts)
    /\ runs' = runs + 1
    /\ filings' = [t \in Ticker |-> IF t \in DOMAIN texts
                                      THEN [year |-> latest[t], text |-> texts[t]]
                                      ELSE None]
    /\ already' = IF force
                    THEN NothingHeld
                    ELSE [t \in Ticker |-> [y \in Years |-> ContentHashes(store[t][y])]]
    /\ todo' = DOMAIN texts
    /\ done' = {}
    /\ pc' = "choosing"
    /\ UNCHANGED <<store, latest, current, index, ingested>>

Handle(t, next) ==
    /\ pc = "choosing"
    /\ t \in todo
    /\ current' = t
    /\ todo' = todo \ {t}
    /\ pc' = next
    /\ UNCHANGED <<latest, filings, already, done, index, runs>>

(* The collection holds this run's version of the filing.                  *)
Skip(t) ==
    /\ Handle(t, "evicting")
    /\ Holds(already[t][filings[t].year], filings[t].text)
    /\ UNCHANGED <<store, ingested>>

(* What the filing supersedes is deleted before it is written.             *)
Embed_bug(t) ==
    /\ Handle(t, "writing")
    /\ ~Holds(already[t][filings[t].year], filings[t].text)
    /\ store' = [store EXCEPT ![t] = DeleteSuperseded(@, filings[t].year)]
    /\ UNCHANGED ingested

(* It does not: the filing is chunked and its chunks are embedded.         *)
Embed(t) ==
    /\ Handle(t, "writing")
    /\ ~Holds(already[t][filings[t].year], filings[t].text)
    /\ UNCHANGED <<store, ingested>>

Write ==
    /\ pc = "writing"
    /\ store' = [store EXCEPT ![current][filings[current].year] =
                    WriteChunks(@, filings[current].text)]
    /\ ingested' = ingested \cup {current}
    /\ pc' = "pruning"
    /\ UNCHANGED <<latest, runVars, index, runs>>

Prune ==
    /\ pc = "pruning"
    /\ store' = [store EXCEPT ![current][filings[current].year] =
                    DeleteOrphaned(@, filings[current].text)]
    /\ pc' = "evicting"
    /\ UNCHANGED <<latest, runVars, index, runs, ingested>>

Evict ==
    /\ pc = "evicting"
    /\ store' = [store EXCEPT ![current] = DeleteSuperseded(@, filings[current].year)]
    /\ done' = done \cup {current}
    /\ current' = None
    /\ pc' = "choosing"
    /\ UNCHANGED <<latest, filings, already, todo, index, runs, ingested>>

(* Every filing is handled, or the run is killed or raises (the paid       *)
(* embedding call does): what was in memory is gone.                       *)
End ==
    /\ pc' = "idle"
    /\ filings' = [t \in Ticker |-> None]
    /\ already' = NothingHeld
    /\ todo' = {}
    /\ current' = None
    /\ done' = {}
    /\ UNCHANGED <<store, latest, index, runs, ingested>>

Finish == pc = "choosing" /\ todo = {} /\ End
Crash == pc # "idle" /\ End

(* The app's first hybrid query builds its lexical index, once a process.  *)
BuildIndex ==
    /\ index = None
    /\ index' = store
    /\ UNCHANGED <<store, latest, pc, runVars, runs, ingested>>

RestartApp ==
    /\ index # None
    /\ index' = None
    /\ UNCHANGED <<store, latest, pc, runVars, runs, ingested>>

Next ==
    \/ \E t \in Ticker : Publish(t) \/ Skip(t) \/ Embed(t)
    \/ \E T \in SUBSET Ticker \ {{}} : \E texts \in [T -> Text], force \in BOOLEAN :
          Begin(texts, force)
    \/ Write
    \/ Prune
    \/ Evict
    \/ Finish
    \/ Crash
    \/ BuildIndex
    \/ RestartApp

Spec == Init /\ [][Next]_vars
-------------------------------------------------------------------------------
(* The collection holds text x of t's year y, and nothing else of it.      *)
HoldsExactly(t, y, x) == \A i \in Index : store[t][y][i] = IF i \in KeepIds(x) THEN x ELSE None

(* "A filing is skipped only when the collection holds *this* run's        *)
(* version of it" (pipeline.py:48): whatever runs were killed, one content *)
(* hash under an accession means the whole filing is there.                *)
OneHashIsWhole ==
    \A t \in Ticker, y \in Years, x \in Text :
        ContentHashes(store[t][y]) = {x} => HoldsExactly(t, y, x)

(* "The KB is the latest 10-K per company" (pipeline.py:58): once a run    *)
(* has handled a company, written or skipped, the collection holds the     *)
(* filing the run fetched for it, whole, and no other chunk of the company.*)
HandledIsExact ==
    \A t \in done : \A y \in Years :
        IF y = filings[t].year
          THEN HoldsExactly(t, y, filings[t].text)
          ELSE ContentHashes(store[t][y]) = {}

(* "A company silently absent from the KB" (pipeline.py:120-125) never     *)
(* happens: a company that was ever written always has a whole filing in   *)
(* the collection, at every step of every run and after every crash.       *)
NeverAbsent ==
    \A t \in ingested : \E y \in Years, x \in Good :
        \A i \in KeepIds(x) : store[t][y][i] = x

(* No text the gate refuses is ever in the collection.                     *)
OnlyGatedChunks ==
    \A t \in Ticker, y \in Years : ContentHashes(store[t][y]) \subseteq Good

(* A step changes a company's chunks only in a run all of whose filings    *)
(* passed, and only to the text it fetched for that company.               *)
GatedStep ==
    \A t \in Ticker : store'[t] # store[t] =>
       /\ \A u \in Ticker : filings[u] # None => filings[u].text \in Good
       /\ \A y \in Years, i \in Index :
             store'[t][y][i] \in {store[t][y][i], filings[t].text, None}

(* "Every filing is fetched and gated before a single chunk is written"    *)
(* (pipeline.py:3-6): one refused filing and the run changes nothing, not  *)
(* even for the companies whose own filing passes.  What a run does write  *)
(* for a company is the text it fetched for that company.                  *)
GateIsAllOrNothing == [][GatedStep]_vars

(* "The index is derived from the collection at process start and cannot   *)
(* disagree with it" (hybrid.py:334).                                      *)
IndexAgrees == index = None \/ index = store
===============================================================================
