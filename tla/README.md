# FinBrief in TLA+

A specification of the FinBrief briefing assistant: what its caches, its
ingestion, its agent loop and its evaluation harness do, action by action; what
TLC finds when it explores small instances of them; and what TLAPS proves of
them for instances of any size.

Contents: [the system](#1-the-system) -
[modules and code](#2-modules-and-code) -
[runs](#3-what-is-checked) -
[bounds](#4-bounds) -
[fairness](#5-fairness) -
[proofs](#6-what-is-proved) -
[findings](#7-where-the-code-and-its-words-part) -
[limits](#8-what-is-not-modelled) -
[plan](#9-plan)

To check a run: `tlc -workers 2 -config EvalRun.cfg MCEvalRun`.
To check the proofs of a module: `tlapm TimedCache_proofs.tla`.

## 1. The system

FinBrief answers questions about public companies from their annual filings and
from live quotes and news. It is a Streamlit app over a LangGraph agent, an
offline ingestion script that fills a Chroma collection, and an offline
evaluation harness that measures the retrieval and answering configurations.
Paths below are relative to `src/src/finbrief/` unless they start with `src/`.

### 1.1 Components, their state and what makes them correct

| component | state it keeps | operations | what makes it correct |
|---|---|---|---|
| TTL cache (`finance/cache.py`) | an entry per ticker, one lock, a clock | `fetch`, `clear` | one refresh of a ticker at a time, deciding on the current entry; a reply never older than one already given; stale only when the source fails |
| process singletons (`caching.py`) | a memo per site, a lock per site | `build_once`, `cache_clear` | a client is built once, whoever asks first and whatever constructors raise |
| retrieval engine (`retrieval/`) | the store handle, the planner, a BM25 snapshot | `retrieve`: translate, list, fuse | every variant retrieved once; the fused order independent of arrival order |
| finance tools (`tools/finance.py`, `finance/`) | the two TTL caches | quote, ratios, comparison, news | a card's freshness is the worst of what it shows; two cards of one window agree |
| agent turn (`agent/agent.py`, `agent/citations.py`) | the checkpointed thread | register, model, parallel tools | citation numbers are one sequence per thread; the step limit fits seven rounds; open tool calls only after a torn turn |
| chat page (`src/app/Home.py`) | transcript, question count | ask, start over, validate, show | its panels agree with the thread's numbers; every turn gives the page back |
| input gate and output validator (`security/`) | none | screen, validate | a blocked question reaches no model; a refused answer is not shown |
| ingestion (`ingestion/pipeline.py`, `src/scripts/ingest_filings.py`) | the collection | gate, skip, upsert, prune, evict | what is skipped is whole; a killed run is repaired; no company is ever lost |
| evaluation cell store (`evaluation/cache.py`) | one file per cell, counters | `resolve`, `replay` | nobody is served what nobody paid for; a write is all or nothing |
| stage runner (`evaluation/run.py`) | a thread pool over the store | `cached_map` | nothing is paid twice; a stage that returns is whole; a stage ends |
| evaluation run (`src/scripts/evaluate.py`, `evaluation/pipeline.py`) | the plans' file, four kinds of cells, the artifact | resolve, retrieve, answer, judge, render | an artifact is one experiment, whatever earlier runs left in the cache |
| log window (`observability/events.py`, `evaluation/latency.py`) | an append-only file, a saved mark | mark, append, load, slice | figures are taken over the run they name |
| statistics (`evaluation/metrics.py`) | none | `signed_rank_p`, `compare` | the p-value is exact; "undetectable" is said when and only when it is so |
| decisions (`evaluation/hypotheses.py`, `report.py`) | none | outcomes, clause, trigger | a null refutes nothing; what the tests cannot see is said, not passed over |
| event log (`observability/logging_setup.py`, `events.py`) | the package logger's handlers, a lock, the file | configure, `log_event`, `read_events` | an event is one line, whoever configures; a torn line costs what shares it and is counted |
| spend meter (`observability/spend.py`, `tokens.py`) | none: a fold over the log from the session's offset | `conversation_spend`, `priced_dollars` | never more than was paid; says when it is less |
| analytics page (`observability/analytics.py`, `src/app/pages/1_Analytics.py`) | none: folds over the whole log | open, fold, draw | slices add up to their totals; a field nobody wrote is not zero; what is drawn has evidence |
| live readings (`evaluation/latency.py`, `deferrals.py`) | none: folds over the window | medians, divergence, adherence | a retrieval is read with the plan of its own turn |
| transcript and export (`src/app/Home.py`, `export.py`) | the session's rows | show, replay, export | the file says what the page shows |
| security suite (`src/scripts/security_suite.py`, `security/report.py`) | none | gate, answers, planted passages | passing means that something was measured |

### 1.2 How they interact

- **Calls.** The page calls the agent; one super-step of the agent runs all
  the tool calls of the model's message on threads; those threads share the
  singletons (`build_once`) and the TTL caches. The evaluation calls the
  retrieval engine and the answering chain through `cached_map`.
- **Shared state.** The collection is written by ingestion and read by the app,
  which also holds a BM25 snapshot of it, and by evaluation runs, which key
  their cells by its fingerprint. The log is appended to by every process, through
  handlers that all sessions of one process share, and read back by the meter,
  the analytics page and the evaluation. The
  cell directory is shared by all evaluation runs and outlives them.
- **Messages.** The thread is a list of messages in the checkpointer, written
  after every super-step; tool replies come back in any order.
- **Callbacks.** LangGraph calls the register before the model, and streams
  states the progress note is derived from; Streamlit restarts the script at
  the reader's next click, in the middle of a turn if need be.

### 1.3 What is hard

*Interleaving*: threads racing for a refresh, a construction, a cell, a
citation number; an ingest or another process beside an evaluation run; a
session that swaps the handlers another is writing through; six workers' lines in
one window.
*Crashes*: an ingestion or evaluation run killed between any two steps, and
resumed. *Partial failure*: one peer of four cannot be fetched, one filing fails
the gate, one item of a stage raises, the classifier is down and its layer
fails open, a turn dies after paying. *Staleness*: the hashes read before a
run's writes, the BM25 snapshot, the page's own list of issued numbers, a cached
cell whose inputs changed. *Long sequences*: a thread through turns that died,
follow-ups and old versions. *Age*: log lines and transcript rows that an older
build wrote without the fields read today. *Boundaries*: the step limit, LRU
eviction, ties and zeros in the statistics. `PROJECT.json` lists each at its line.

## 2. Modules and code

One module per component; `_proofs` modules hold the theorems of theirs; `MC`
modules only give constants their values.

### TTL cache: `FetchContract`, `TimedCache`

`FetchContract` is what a caller may rely on: a fetch, in one indivisible step,
returns the entry if it is fresh, else a value just read from the source, else
the last entry marked stale, else raises. `TimedCache` is the code: a caller
blocks on the instance's lock, finds a hit or a miss, and makes up to `Attempts`
calls with sleeps between them, holding the lock throughout; the outcome is
recorded, or the stale entry returned, or the error raised. `Clear` takes the
same lock. `pc[t]` is the line thread `t` has reached; `clock` is
`time.monotonic`, and it ticks while threads sleep or wait. `KeepsContract` is
the refinement, by `INSTANCE FetchContract`.

### Cell store and stage runner: `CellStore`, `EvalCache`, `CachedMap`

`CellStore` is what the harness counts on: a cell is bound to a value once, and
whoever asks is told that value.
`EvalCache` has one action per file operation of `resolve` and `replay`: read
(whole, partial, absent), produce, open the temporary file (truncating it),
write, move. `temp` is per process, as `_write` names it by pid, so two threads
of one process share it. `Kill` may strike between any two steps, and leaves
what is on disk. `CachedMap` runs it under a pool: items are submitted in order,
each thread takes the next, the caller awaits results in order, an exception
drains the pool and is raised, and a killed run may be started again. `KeepsStore`
is the refinement, by `INSTANCE CellStore`: a cell is what a reader can make of the
entry's bytes, and the only step that binds one is a move.

### Evaluation runs: `LogWindow`, `EvalRun`

`EvalRun` is `scripts/evaluate.py` over runs and the edits between them: begin
(mark or load the window, read golden set and fingerprint), resolve or load the
plans, then for each arm retrieve, answer and judge each row, then the passes
that write to the log, then the artifact. A stage is `CachedMap`, whose `StageKeepsStore`
lets a cell be resolved here in one step. Texts are versions: a row's wording, the
prompt, the judge and the collection's ids and bodies are counters, and a cell's
value is the record of the versions it was computed from. The keys are those of
`retrieval_key`, `answer_key` and `judge_cache_key`; `OneExperiment` then says
that they name everything a value depends on. `Reword`, `Ingest`, `ClearPlans`
and `Elsewhere` are what happens around runs; ingests and other writers also
happen beside them. `LogWindow` is the file, the mark and the slice.

### Ingestion: `Ingest`

`Begin` fetches one filing of each company and runs the gate over all of them,
before any write; then company by company `Skip`, or `Embed` (the paid call, which may raise),
`Write` (upsert), `Prune` (chunks of the same filing the new text no longer
has), `Evict` (the company's other filings). `store[t][y][i]` is the text whose
chunk `i` is stored under the filing of year `y`, so a half-replaced filing is
visible. `Crash` may strike after any step; `BuildIndex` and `RestartApp` are
the running app, whose BM25 index is a snapshot.

### Conversation: `Conversation`

The page, the loop and the register over one thread of messages. A round is
three super-steps, `Register`, `CallTools` (or `Answer`), `Tools`; `OutOfSteps`
is LangGraph's limit; `ModelRaises`, `SearchRaises`, `Interrupt` and `Refuse`
end a turn without an answer and leave in the thread what was checkpointed.
Replies carry their numbers twice, in the text the model reads and in the
artifact the page shows, as the code does, so they can disagree.

### Tool calls: `BuildOnce`, `Search`, `FinanceTools`, `ToolCalls`

`BuildOnce` is the memo with its per-site lock held across the construction, LRU
eviction, constructors that raise, and `cache_clear`. `Search` is one retrieval as a
list of stages that each ask for a singleton and may raise. `FinanceTools`
reads quotes and news through `FetchContract`, so a fetch is one step, which
`TimedCache_proofs!CacheKeepsContract` justifies. `ToolCalls` composes them:
the calls of one super-step, at once, over shared state.

### The log, its writers and the meter: `EventLog`, `LogSink`, `Spend`, `Telemetry`

`EventLog` is `observability/events.py`: the file is a sequence of pieces, each
an event or a fragment of one, with its newline or without, so a killed writer's
fragment takes the next writer's line with it. `LogSink` is `configure_logging`, which every
rerun of a page's script calls: the handlers are cleared, then added, under a
lock, while other sessions of the process emit. `Spend` holds the counts a turn's
line carries and what is folded from them, per field and with the calls behind
it. `Telemetry` composes the three with the turns themselves: sessions configure,
ask, pay for completions and planner rounds, search, finish or die; a kill leaves
half a line; other processes append theirs. Beside the file it keeps `truth`, what
each turn really paid for.

### The page that reads the log: `Analytics`

`analytics.py` and `1_Analytics.py`: the five states a sink can be in, each fold,
and for each figure the condition under which the page draws it or says that it
is absent. A field may be missing or of a wrong type (`Odd`) on any line.

### The gate, the guard and the suite: `InputGate`, `OutputGuard`, `SecuritySuite`

A question is words with their lengths, the letters of a longer word that may carry
each ("acts" carries "act"), and disguises (folded letters, letter by letter), so that
normalising is *which disguises a form removes*, not a rewriting of characters; a rule
is anchors within a gap, and the letters of a carrier that stand in the gap count:
"actions as if" trips nothing, "acts as if" does, "contract as if" does once squeezed
together. The two rules on structure see what was typed, so a question's `structure`
says which of them it is about and whether it is spelled in a disguise that hides it. The
classifier's reply is words, or `Down`. `OutputGuard` reads an answer as phrases,
denials, clause breaks and brackets. `SecuritySuite` runs both over a corpus and
draws the report's conclusions.

### What a session shows and exports: `Transcript`

The rows `Home.py` keeps, what it draws of each live, on a rerun and from an older
session's row, and what `export.py` writes of the same rows in both formats.

### What an evaluation decides: `SignedRank`, `Hypotheses`, `LiveReadings`

The exact signed-rank test and its power; the predictions, the falsification
clause, the re-examination trigger and what the report says of them; the readings
of the window the live stages wrote.

### Pure functions: `Translation`, `Fusion`, `Places`, `Algorithms`

The planner's reply to variants; reciprocal rank fusion. `Algorithms` has one step
per call of all the functions whose input is data, and compares results with
definitions written another way: subsets and sign assignments instead of loops and
convolutions, parts against wholes, the page against the file. `Places` is what these modules and `EventLog` filter and sort with.

## 3. What is checked

| run | question | answer |
|---|---|---|
| `timed_cache` | two threads, two tickers, a source that fails at will | a refresh decides on the current entry (`RefreshSeesCurrentEntry`), values never go back in time (`NeverGoesBack`), the contract is implemented, every fetch returns |
| `eval_cache` | two processes on one cell, one of them threaded, killed anywhere | served values were paid for, a paid value is returned, processes do not tear each other's entries |
| `cached_map` | a stage on two threads, three runs, failing and killed | it implements `CellStore` (`KeepsStore`), nothing present is paid for, a stage that returns is whole, entries stay whole, the stage ends |
| `eval_run` | two evaluation runs, an edit, an ingest beside, other writers | an artifact is one experiment; its contexts are those its answers saw and those its fingerprint names; no older line is in its figures |
| `eval_run_window` | is the window one run's? | it has no end: violated |
| `ingest` | three runs, two companies, any crash | skipping on one hash is sound; what is handled is exact; no company is lost; one refused filing and nothing is written |
| `ingest_index` | does the app's index agree with the collection? | it is a snapshot: violated |
| `conversation` | two questions, parallel searches, turns that die | numbers are one sequence and name one chunk for good, panels agree, calls are reported before they run, the step limit falls late and between rounds, every turn ends |
| `conversation_issued` | does the page know every number handed out? | not those of turns that died: violated |
| `tool_calls` | two calls of one super-step over the shared caches | singletons are rebuilt only when dropped, cards state their worst freshness, one figure per window, every call ends |
| `telemetry` | two sessions' turns, one logger, a shared file, a kill | no event is two lines; the meter never shows more than was paid, and knows when it shows less |
| `algorithms` | everything whose input is data, on bounded inputs | variants, fusion, test and power are what they say; the page's slices add up and its absences are said; the gate sees through disguises; clauses and layers answer for themselves; a passing suite is evidence; the file is the page; the decisions agree with each other; no reading depends on how threads interleaved |

Every property of a passing run is broken by at least one mutant: a definition
whose name ends in `_bug`, standing next to the one it replaces, which makes the
mistake a programmer could have made there (a lock not taken, a key without the
wording, a prune that forgets the rest). The table `mutants` of `PROJECT.json`
pairs them.

Some properties deserve a word more.

- `OneExperiment` is about the keys. Its mutant drops the question from
  `retrieval_key`, which is the bug the docstring of that function reports having
  had: two runs with a reworded row between them, of which the first may be
  killed, are needed to see it.
- `ContextsAreTheOnesNamed` has two halves. `AnswersSawTheirContexts` is about
  `ContextDrift`: the chain retrieves for
  itself, after the scored retrieval or, over a cached one, in another run
  altogether; an ingest in between changes what it sees. The check compares chunk
  ids, and ids alone. With `RechunkBeside = TRUE`, that is with an ingest which
  rewrites bodies under the same ids while a run is open, the property fails: the
  answer is about bodies nobody scored. The run assumes the opposite.
  `FingerprintIsHonest` carries its own exception: the fingerprint is read once,
  so a run beside which an ingest ran may cache a retrieval of the new collection
  under the old fingerprint. `muddied` records those fingerprints.
- `LimitFallsBetweenRounds` ties the step limit to the shape of a
  round: with a limit that is two more than a multiple of three, a turn could be cut
  between a model's request and its replies (`OpenCallsAreTorn`), and the thread
  would be refused by the next model call. It is stated of steps, so that it says in one
  formula how early a turn is given up and what it leaves open.
- `SpendIsHonest` compares the meter with `truth`. The upper bound holds always,
  with lines lost, torn, or written by others; the exact sum only where every line
  of the thread can be read back (`lost` says where not) and the meter does not call it a
  floor. Its mutant reads every thread's lines, as a prefix match without the
  separator might.
- `PartsMakeTheWhole` and `AbsenceIsSaid` are two sides of the analytics page: what
  it slices by model, thread, day or arm adds up to what it totals; and a line of an
  older build, without the fields a panel reads, moves no measurement but raises
  by one what the page says it could not measure. One exception is written
  into the property: a screening without a verdict counts as not blocked. The third
  conjunct of `AbsenceIsSaid`, `OutageIsCounted`, relates two programs: an outage of the
  classifier, which lets questions through, is counted as such by the page that reads the
  gate's lines.
- `GateSeesThroughDisguise`: whatever its words are disguised as or carried in, and
  wherever in the message the payload stands, a question trips the rule its plain
  spelling trips, no other and not none. The exception is the code's own
  (`denylist.py:102-106`): a tag or role line in disguise escapes the raw rule about it, and
  if no wording trips, the question goes on to the classifier. Folding is credited only
  where a folded word is there, and the classifier is asked of exactly the questions
  that trip none. Its mutant keeps the head anchor in the squeezed pass, the bug that
  `denylist.py:17-25` reports: one benign word before the payload hid it.
- `GateIsAllOrNothing` is about steps, since what is stored is gated text also when each
  filing passes the gate just before its own write: a step may change a company's
  chunks only in a run in which every filing passed, those it has yet to reach included.
- `FileIsThePage` compares the export with what the page replays of the same rows,
  row by row, older rows included.
- `DecisionsAgree` speaks of runs, not of tests: what the trigger, the clause and the
  predictions say of one set of scores must not contradict each other, and a bucket
  nobody could have resolved must not read as one that passed.
- `ReadingsIgnoreInterleaving` tries every merge of two threads' lines.
- `HandledIsExact` is what makes a crash harmless: whatever earlier runs left,
  once a run has handled a company its filing is exactly the fetched text.

## 4. Bounds

Every bound is a constant of its module, checked by the guards that name it.

| bound | value | why it is enough |
|---|---|---|
| `TimedCache`: threads, tickers, `Attempts`, `TTL`, `Backoff`, `Horizon` | 2, 2, 2, 1, 1, 2 | a thread waits while another sleeps, an entry expires under the one that waits, a second ticker contends for the one lock; theorems cover the rest |
| `EvalCache`: workers, processes, cells | 3, 2, 1 | two threads that share a temporary file beside one that does not |
| `CachedMap`: threads, items, runs | 2, 2, 3 | one item fails or is killed while the other is in progress, and is resumed, twice |
| `EvalRun`: rows, arms, runs, edits, other lines, sinks | 2, 2, 2, 1, 1, 2 | every property speaks of one run and what earlier ones left; one row is done while the other is not; an arm that plans and is judged, one that does neither. The window run needs only one row |
| `Ingest`: companies, fiscal years, texts, runs | 2, 2, 4, 3 | texts of one, two and three chunks, so a rewrite grows and shrinks; a crash, a run over its remains, a third one |
| `Conversation`: questions, steps, calls, chunks | 2, 6, 2, 1 or 2 | two rounds of two parallel searches, then a follow-up; new threads and one an older version numbered |
| `ToolCalls`: calls, clock, drops | 2, 2, 1 | one entry expires between two calls of one step, one handle is dropped under a search |
| `Telemetry`: sessions, turns, paid calls, runs of a script, pieces, accidents | 2, 2, 3, 2, 5, 1 | a turn of two completions and a planner's round beside one that dies; a swap under another session's turn; one fragment, in front of any line. Accidents of two writers are `EventLog`'s own and tried by `algorithms` |
| `Algorithms`: search | replies of 3 lines, 4 lists of depth 2 over 3 chunks | duplicates, ties and refusals in all combinations |
| `Algorithms`: statistics | 8 differences, 8 pairs, 4 buckets of 6 questions | at alpha 0.05 six differences must all agree, seven tolerate one that does not, eight two; 8 pairs are the most the report asks about; 6 questions are the fewest that can be significant |
| `Algorithms`: logs | 2 pieces of every kind the page reads, 3 of those that carry tokens; every merge of two threads' lines | each field missing, of a wrong type or there, beside each other line; a total needs two lines and a third that lacks a field |
| `Algorithms`: text | questions of 3 or 4 words in 5 spellings each (disguised, or carried with a letter more), one payload in 8 (with 4 letters more, before or after), 4 phrases of an answer, 2 cases of a corpus, 3 rows of a session | gaps just within and just beyond a rule's, a payload behind another word or beside a forged role line, a structure disguised and not, a denial on either side of a break, a row between two that have sources |

Symmetry is used where elements are interchangeable: companies of `Ingest`,
keys and values of `EvalCache`, planner replies of `EvalRun`, sessions of
`Telemetry`, and only in runs
without liveness properties. Deadlock is checked except where the system may
stop: after the last of `MaxRuns` runs, after the calls of a super-step, after
the last of the telemetry's turns and scripts, after the one step of `Algorithms`.

## 5. Fairness

| specification | fairness | why |
|---|---|---|
| `TimedCache!FairSpec` | weak, of each thread's steps and of the clock | the source is called with a timeout, so it answers or fails; sleeps end; the lock is released on every path. Nobody asks after `Horizon`, so a waiting thread is at last the only one |
| `CachedMap!FairSpec` | weak, of each worker's take, work and finish, and of the caller | threads of a pool are scheduled, and a paid call returns or raises (the clients have timeouts). Kills and new runs are not fair: nothing makes them happen |
| `Conversation!FairSpec` | weak, of the loop and the page together | the page drives the stream to its end; the model answers, raises or asks for tools until the step limit. A reader's questions are not fair |
| `ToolCalls!FairSpec` | weak, of each call's own steps | one thread each; constructors and sources return or raise |

No fairness is assumed of ingestion, of evaluation runs, of the sessions of
`Telemetry` or of any person: their
properties are safety properties.

## 6. What is proved

By TLAPS, for every value of the constants that the named assumptions of the
modules allow.

**`TimedCache_proofs`** (assumptions: `TTL`, `Backoff`, `Horizon` naturals,
`Attempts` positive, `None` no key or thread). The inductive invariant is
`TypeOK`, `OneRefreshAtATime`, `RefreshSeesCurrentEntry`, `FetchInv` (a fetch in
progress knows its ticker, a sleeping one has attempts left, a value in hand was
measured while the fetch was open) and `AgeInv` (no entry is from the future). From it: type correctness, both refresh invariants
(`OneRefreshAtATime`, that whoever is inside a refresh holds the lock, is the ground of
the others and has no run of its own), and `CacheKeepsContract`: every step maps to a step of `FetchContract` or to a
stutter, so the fine-grained cache may be replaced by the contract, as
`FinanceTools` does. `ValuesNeverGoBack` needs `OrderInv` besides: no reply that
was handed out is newer than the entry.

**`CachedMap_proofs`**, of a stage. Besides the modules' assumptions on their constants
its theorems assume `OneProcess`, a stage's workers are the threads of one pool
(`run.py:67`), and `DistinctCells`, the items of a stage have cells of their own, as the
keys of `pipeline.py` contain row, arm and metric. `TypeOK` and the five properties are not inductive: one
must know that a worker's cell is its item's (`OwnItem`), that its temporary
file is therefore its own (`OwnFile`), that it pays for what the store does not
hold (`PaysForAbsent`), that results are what the store holds
(`ResultsAreStored`) and that items are taken in order (`TakenInOrder`).
`DistinctCells` is needed exactly because the temporary file is shared by the
threads of a process; see 7. `StageKeepsStore` is the refinement of `CellStore`:
`PaysForAbsent` makes every move the first binding of its cell, and
`ResultsAreStored` makes what is told what is bound. `FinishedStays`, that a cell some
call has returned is in the store ever after, follows from the same invariant.

The same module first proves two theorems of `EvalCache`'s own specification, which
assume neither of the two: any threads of any processes, on any cells. `ServedIsPaidFor` needs
that values in entries and
temporary files were paid for (`FilesArePaid`), even where two threads of a process
overwrite each other's; `OwnValueIsMoved` needs that a worker alone in its process has its
temporary file to itself (`AloneInFile`), whatever other processes move.

**`Ingest_proofs`** (assumptions: sizes between 1 and `MaxSize`). `OneHashIsWhole` is
not inductive, since a crash between an upsert and the prune leaves two hashes;
the strengthening `LastIsWhole` says that of the texts an accession holds chunks
of, one, the last written, is held whole. `InRange` bounds the ids of a text,
`RunOrder` says who is handled when, `AlreadyStands` that what the run read
before it wrote still holds of the companies it has yet to handle, and
`Progress` what the handled company has reached. From it `SkippingIsSound`, `RunsRepair`, `CompaniesStay`
and `GateHolds` (no refused text is stored). `GateComesFirst` is the action property
`GateIsAllOrNothing`; it needs besides that every filing of a run in progress has passed
(`AllGated`), which `Begin` establishes for all of them at once.

**`Conversation_proofs`** (assumptions: the limits are positive, `Found` holds
sizes, and every thread a session may find is one: searches carry the chunks
they kept, calls have ids of their own). The invariant is in four parts.
`NumbersInv`: after `Register` the thread is `InOrder`, every reply carrying the
numbers the register owes it; what the model has read of numbered chunks is among
`Owing(messages)`, which only grows with the thread and which renumbering does not
change; and the panel shows what the thread owes. `NoteOK`: the note holds this
turn's calls and no earlier ones. `StepsOK`: the steps spent are three a round, and
the phase says how far into the next. `OpenOK`: calls without a reply are the last
message's, unless a turn was torn. From it `NumbersNameOneChunk`,
`SourcesKeepTheirNumbers`, `NoteListsTheTurn`, and `TheLimitCutsNoRound` under the
hypothesis `WholeRounds`: a limit that is two more than a multiple of three would
fall between a model's request and its replies; the configured 24 and the
run's 6 do not. That `NextNumber` counts chunks is an induction over the thread,
and that the fold behind `Reported` lists each call once is one over the calls of a
message.

**`ToolCalls_proofs`** (assumptions: a memo holds at least one entry, clears are
counted, a company is not its own peer and is listed once, `TTL` is a natural,
`None` is no request and no entry, the sites are the three a search builds on, and their
arguments the settings and the handles). The memo first: `OnceInv` adds to
`OneConstruction` that a builder is a caller who asked
for what the memo lacks (`BuildersAsked`), and `MadeInv`: the objects made for an argument are at
most those the site let go, and one more if the memo holds one now. `MovedToEnd` and `AddedAtEnd` are lemmas
about the recency list. From it `ConstructionIsExclusive` and `MadeOnce`, of
`BuildOnce`'s own specification. `SearchesShareWhatIsBuilt` is the latter of the whole:
it has to be shown that a search asks only for what a site can be asked for, that is
that the handle it keys the index on is one of the store's. `SearchInv` says
that whoever is past the store has a handle, and `StoreOK` that there are never more
handles than clears and one, as the store's memo holds one argument only and so pushes
nothing out. Then the calls: `FinanceInv` says that
a call in progress has fetched a prefix of what it asks for (`CallsOK`,
`FetchesOK`), that what is held was taken no later than now and no later than its
stamp (`HeldOK`), that
what two reads saw of one company is ordered as they were made (`SeenOK`), and
`CardsAreHonest` itself. From it `CardsNeverOverstate` and `ReadersShareOneWindow`.
The proof of the latter failed first, and for a good reason: as the property
stood, a stale read and the refresh that followed it in the same instant were two
reads of one window. Its premise now takes them in the order they were made: of two
reads at one instant, the stale one came first.

**`EvalRun_proofs`** (assumptions: arms are listed once each, invocations are made
of the script's own stages, rows and sinks, bounds are counts, `None` is no sink).
The inductive invariant is type correctness and four parts: a cell holds what its
key names, whichever run wrote it (`CellsOK`); what the open run has in memory is
of its own settings (`RunOK`); no line a window counts is older than the
window's run (`WindowsOK`); and the same of what is reported (`ReportOK`). From it
`ArtifactIsOneExperiment`, `ArtifactNamesItsCollection`, `ArtifactLeavesThePastOut`,
and, where bodies change under their ids only between runs (`~RechunkBeside`, the
configuration the run checks too; see 3), `ArtifactNamesItsContexts`.

**`Telemetry_proofs`** (assumptions: `Nobody` is no session; for the meter also that a
count a provider reports is what the call cost, which is one price for all calls, that the
bounds are counts, and that `None` and `Odd` are no counts and `None` no turn). `NoLineTwice` holds of
any number of sessions, while the run has two. It is not inductive: what is needed is
that whoever cleared the list holds the lock (`SwapIsExclusive`), that the list is
empty while the lock is held (`ClearedIsEmpty`), and that outside a swap it is empty
only before the first (`InstalledStays`). So a second `Install` always appends to
an empty list: `OneSink`, of the handlers alone. `EachEventOnce` says the same of
the whole: every step of `Telemetry` is one of `LogSink`'s, or leaves the handlers
alone, or is a kill, after which they are as at the start.
`MeterIsHonest` is `SpendIsHonest` for any number of sessions, turns and lines, and any set
of usages: fields reported, missing or of a wrong type. It rests on
the former invariant (a line is written at most once) and on `SpendInv`: turns are
numbered as they are asked and know what was really paid (`TruthFine`); a line is a
fragment, another process's, or of a turn that was asked (`FileFine`); a session's phase
says what its open turn has paid and not yet written, and a thread that would be named now
has no line yet (`SessionOK`); and `ReadingsOK`, the point of it: read from its offset, a
thread's lines account for at most what its turns paid, and for exactly that where no
line of it was lost. Reading is a filter and a sum, so most of the module is about these:
what one more piece does to the lines of a file, a line to what is read, and a
term to a sum over a finite set.

**`Algorithms_proofs`** (`JobsAssumption`: replies, answers and corpora are lists, a cap is a
natural, a word takes up room, what stands for a number in brackets is one; `NoneIsNoRule`).
`ResultOK` says of an answer that it is what its job's function makes of its job, so each
theorem is one about a function, for inputs of every length.
`NothingIsAskedTwice` is `VariantsAreSound`: the fold over the planner's lines keeps a set of
places (`Kept`) of which it is known, line by line, that they are within the cap, differ in
their folds and leave out only noise, repeats and what the cap cuts off.
`PassingTellsOfEveryLayer` is `PassingIsEvidence`: that all cases pass makes the sets the
report counts the sets the corpus names.
`ClausesStandAlone` is `ClausesAnswerForThemselves`: a denial governs up to the next break, so
the places of a half are those of the whole, moved (`Halved`); hits, numbers and labels of an
answer are then unions over its halves, and what resolves is a sum.
`DisguiseHidesNoWording` is `GateSeesThroughDisguise`: squeezed together no text is wider than
as typed (`SqueezedIsNarrower`), so a payload found in any form is found in the folded
and squeezed one, where spacing and folding are gone, no anchor is asked for and the words
are the plain ones, in the same carriers (`SqueezedIsPlain`). So the rules on wording that are
tripped are the same; the rules on structure stand behind them (`WordingComesFirst`), so a
disguised structure can only turn the verdict into none where no wording is tripped.

Type correctness is proved where a proof needs it, and it is not a property of the
runs: each of the modules about a state that moves has it in its invariant. `PoolIsLeftQuiet` (no worker writes on after
its stage returned), `RefreshIsExclusive`, `ArtifactNamesItsCollection` and `GateHolds`
are proved and have no run of their own.

Induction over data is done in set form, as the theorems with an operator
parameter cannot be instantiated: `CountingUp` says that a set of naturals that
contains 0 and every successor contains them all, `Shrinking` the same of finite sets, and
`SteppedFunction` that a recursively defined function exists, all from the library's
facts about well-founded relations. A fold over a list is a choice of a function on sets of
places; `ChainExists` shows that there is one and `ChainFolds` that it is a sum from
the first place up (`Climbs`), which is then an ordinary recursion. Of `SelectSeq` the
prover has neither a definition nor a fact that it could use, so a filter whose result a
theorem is about is written with `Places`: the members of a sequence at a set of places,
in their order (`Those`), or a set of numbers sorted (`Ascending`).

Only model-checked: everything temporal under fairness (`EveryFetchReturns`,
`StageEnds`, `TurnEnds`, `EveryCallEnds`), as liveness and ENABLED are out of
the prover's reach; and seven properties of `Algorithms`. Of these, three are true only
within the bounds, and so are no theorems: `FusionIsRRF`, as agreement decides
a ranking only at small depths; `TestIsExact`, as the ceiling is one up to eight pairs (7
says what happens at nine); and `DecisionsAgree`, as a mean difference and the significance
of a signed-rank test can part on more questions than are tried. `PartsMakeTheWhole`,
`AbsenceIsSaid`, `FileIsThePage` and `ReadingsIgnoreInterleaving` are
not known to need their bounds: they compare nested folds over records of a log or of a
transcript, and would want a theory of bags of lines first.

## 7. Where the code and its words part

Each of these has a run that ends in a counterexample.

1. **The log window has no end** (`eval_run_window`, `evaluation/latency.py:97`).
   `load_log` reads from the mark to the end of the file. A re-render later counts
   what the app, or the re-render itself, appended since; "the slice of a sink one
   measuring run wrote" holds only if nothing was.
2. **The lexical index is a snapshot** (`ingest_index`, `retrieval/hybrid.py:450`),
   taken at the first hybrid query and never rebuilt, where a comment says it
   "cannot disagree" with the collection.
3. **The page does not know every number it handed out** (`conversation_issued`,
   `src/app/Home.py:1366`): sources of a turn that died are in the model's
   thread, and citing one of them is reported as unresolved.

Others, observed while modelling and stated here without a run:

- `finance/cache.py:75-78` and `src/docs/limitations.md:16` say that concurrent fetches
  of a ticker coalesce into one. They do when it succeeds; a failed refresh leaves no
  trace, so each caller queued on the lock repeats all its attempts (`finance/cache.py:120`).
- `evaluation/cache.py:100-103` says two threads racing on one key each write
  their own temporary file. They share it, as it is named by pid alone: one can
  move the other's truncated file into place. No caller today has two items on
  one cell (`DistinctCells`), under which `WritesAreAtomic` is proved.
- `evaluation/metrics.py:294` calls the number of tolerated minority signs a
  ceiling. With ties it is not: at nine pairs three tied minority signs reach
  p = 0.031 where the function says two. It is one up to the eight pairs the
  report asks about (`ToleratedIsCeiling`).
- `ContextDrift` compares chunk ids only; see `ContextsAreTheOnesNamed` above.
- `Window.describes` compares paths, so a sink that was deleted and recreated
  under its name passes, and the old offset skips the new file's first lines.
  The docstring lists "recreated" among the cases it catches.
- `--stage report` is documented as free, but `retrieve_cells` has no
  `replay_only`: a missing retrieval is paid for.
- `log-window.json` is not written atomically; a torn one reads as absent.
- `tools/finance.py:139-142` rounds an age down to minutes, which looks fresher
  than it is, and measures it at each fetch rather than when the card is made.
- `metrics.compare` takes the direction of a verdict from the mean difference and
  its significance from the signed ranks; from twelve questions on, they can point
  opposite ways.
- `evaluation/report.py` (`decisions_section`) reads a trigger that did not fire as
  a gain "on at least one bucket", also when the only verdict that was resolved is a loss.
- A turn that paid for completions and died before its first search, or that used only
  finance tools, is in neither the meter's totals nor its `unfinished`, which is
  counted by the lines of a search. `spend.py:34-38` says that turns which
  died are counted. A turn that ran out of steps is, in the page's activity panel,
  neither answered nor failed.
- An event emitted while another session swaps the handlers reaches none of them.
  `Telemetry` puts its thread in `lost`.
- A line torn without its newline takes the next process's first line with it, and
  the two count as one malformed line. A session whose offset was taken just after
  such a piece reads a line the whole-file reader cannot.
- `classifier.classify` builds its model before the `try`, although it "never
  raises" (`security/classifier.py:88-118`).
- `security/denylist.py:15` says that "contract assets" will not trip an "act as" rule,
  since rules are anchored at their head. The squeezed pass drops the anchor, and every
  question goes through both passes.
- `observability/analytics.py:656-662` says that a classifier that failed open leaves an
  absent verdict; the gate writes "undecided".
- The security report says an outage "would still be a passing suite" for the other
  layers; `SuiteRun.passed` is false as soon as one classifier case is undecided.
- The note on an answer's brackets is shown live and not on the rerun
  (`src/app/Home.py:1486-1502`), so `FileIsThePage` excepts it. The replay reads an older
  row's fields unguarded (`src/app/Home.py:1528`) where the export tolerates their absence.
- `latency.translation_cost` takes the last plan of a turn for all its retrievals: a
  live turn of two searches is counted twice by the second one's plan.

## 8. What is not modelled

- **Texts and numbers**: prompts, the wording of cards, the figures from yfinance
  and Finnhub, BM25 scores and embedding distances. They are versions, members of
  small sets, or inputs.
- **Regular expressions and Unicode tables** of the gate, the validator and the marker
  parser: what is modelled is which disguises each form removes, how rules anchor,
  and how clauses govern; a rule's vocabulary is stood for by a word or two. Folding
  replaces a letter by a letter: marks that take up room and fold to nothing (accents typed
  as characters of their own, punctuation inside a word) are left out, and so is a payload's
  word that only appears when the ends of two others meet in the squeezed form.
- **LangGraph, Chroma, SQLite, ragas and Streamlit** themselves. What is used of
  them is modelled from its use: super-steps and a checkpoint after each; an
  upsert of one filing as one transaction; a script restarted at the next click.
- **Layout**: the Markdown of the reports, labels and charts of the pages, the
  corpora and golden sets, prompts, configuration. They are data or wording; the limits they
  set are constants here.
- **Means**: recall, precision and MRR, the tables by stratum; the advice residue, the
  cited-sentence pass and the tool-calling eval, which are counts of judged texts.
- **The chunker and the section gate's thresholds**; **EDGAR's client** and the
  extraction of sections, whose outcome is `Ingest`'s input; the smoke test and the
  fixture recorders, which are scripts over a fixed list.
- `Telemetry`'s file holds the lines the meter reads; the turn's other lines
  (screening, markers, failures) are in `Algorithms`' logs only.

`PROJECT.json` lists each component with the reason.

## 9. Plan

In the order of what matters most to the system. Done: 1 to 10, with
the proofs named.

| # | modules | composes | abstract specification | proofs |
|---|---|---|---|---|
| 1 | `FetchContract`, `TimedCache` | | `FetchContract` | done |
| 2 | `CellStore`, `EvalCache`, `CachedMap` | `CachedMap` over `EvalCache` | `CellStore` | done |
| 3 | `Ingest` | with the app's index | | done |
| 4 | `Conversation` | page, loop, register | | done |
| 5 | `BuildOnce`, `Search`, `FinanceTools`, `ToolCalls` | all four, over `FetchContract` | `FetchContract` | done |
| 6 | `Translation`, `Fusion`, `SignedRank`, `Algorithms` | | independent definitions | `NothingIsAskedTwice` done; open: that `Midranks` are symmetric |
| 7 | `LogWindow`, `EvalRun` | `EvalRun` over `LogWindow`, a stage by `CachedMap`'s theorems | | done |
| 8 | `EventLog`, `LogSink`, `Spend`, `Telemetry` | all four | what was really paid | done |
| 9 | `Analytics`, `LiveReadings`, `Hypotheses` | `LiveReadings` over `Analytics` over `Spend` | parts and wholes | |
| 10 | `InputGate`, `OutputGuard`, `SecuritySuite`, `Transcript` | the suite over the gate and the guard | plain spelling, structure excepted; the page | done for the gate, the validator and the suite; open: `FileIsThePage` |
| 11 | chunking and the section gate: overlap, ids, thresholds | into `Ingest` | | ids are distinct |
| 12 | the remaining measures: recall, MRR, leakage, strata, advice residue, tool calling | into `Algorithms` | independent definitions | |

A run is added for each question, not for each module: 11 and 12 extend the runs
that exist.
