------------------------------- MODULE EvalRun -------------------------------
(***************************************************************************)
(* scripts/evaluate.py, one run after another over one cell cache: a run   *)
(* marks the log, reads the collection's fingerprint, resolves or loads    *)
(* the planner's replies, then retrieves, answers and judges every row on  *)
(* every arm, and renders the artifact from what the stages returned.      *)
(*                                                                         *)
(* Runs are partial (some stages only replayed, some rows only), die at    *)
(* any moment and are started again; between them, and beside them, the    *)
(* golden set is reworded, prompts and judge models change, the filings    *)
(* are ingested again, caches are cleared and other processes write to the *)
(* log.  Each cell's key must therefore name everything its value depends  *)
(* on.                                                                     *)
(*                                                                         *)
(* A stage is `CachedMap`, whose theorems let a cell be resolved here in   *)
(* one step; a version of a text stands for the text, and a value is the   *)
(* record of what it was computed from.                                    *)
(***************************************************************************)
EXTENDS LogWindow, FiniteSets

CONSTANTS
    Row,            \* the golden set's questions
    Arms,           \* the arms in the order they are scored
    Plans,          \* those whose planner runs, by replay
    Judged,         \* those that are answered and judged
    Reply,          \* what a planner may reply
    Invocation,     \* how the script may be called: [stages, rows, sink]
    MaxRuns,        \* bound: runs begun
    MaxEdits,       \* bound: changes to anything a run reads
    MaxOthers,      \* bound: lines other processes append
    OthersBeside,   \* whether they also do so while a run is open
    RechunkBeside   \* whether bodies also change under their ids meanwhile

Stage == {"resolve", "retrieve", "answer", "judge", "agent", "report"}
Measuring == Stage \ {"report"}
Arm == {Arms[i] : i \in DOMAIN Arms}

\* Two of the four metrics, one of each kind: recall scores the contexts,
\* faithfulness the answer over them.
Generation == {"faithfulness"}
Metric == {"recall"} \cup Generation

\* Some arm is scored, and none twice.
ASSUME ArmsAreListed ==
    /\ Arms \in Seq(Arm) /\ Len(Arms) > 0
    /\ \A i, j \in DOMAIN Arms : Arms[i] = Arms[j] => i = j
    /\ Plans \subseteq Arm /\ Judged \subseteq Arm
ASSUME CalledProperly ==
    Invocation \subseteq [stages : SUBSET Stage, rows : SUBSET Row, sink : Sink \cup {None}]
ASSUME BoundsAreCounts == MaxRuns \in Nat /\ MaxEdits \in Nat /\ MaxOthers \in Nat

VARIABLES
    world,      \* what a run reads: wording of each row, prompt, judge model,
                \* and the collection (which ids it holds, which bodies)
    plans,      \* golden_variants.json: row -> [asked, reply], or None
    resolved,   \* the cache's "variants" cells
    retrieved,  \* its "retrieval" cells
    answered,   \* its "answer" cells
    judged,     \* its "judge" cells
    run,        \* the open run, or None
    report,     \* the artifact last written, or None
    runs,       \* how many runs have begun
    edits,      \* how many changes were made
    others,     \* how many lines others appended
    muddied     \* history: fingerprints during whose run an ingest ran

cellVars == <<resolved, retrieved, answered, judged>>
boundVars == <<runs, edits, others>>
vars == <<windowVars, world, plans, cellVars, run, report, boundVars, muddied>>

-------------------------------------------------------------------------------
(* What the stages compute, and under which keys.                          *)

Put(cells, key, value) ==
    [k \in DOMAIN cells \cup {key} |-> IF k = key THEN value ELSE cells[k]]

\* vectorstore.collection_fingerprint: ids and content hashes.
Fingerprint(collection) == collection

\* What retrieve() returns now: the ids the question and its variants find
\* in the collection, and the bodies they have there.
Retrieved(asked, reply) ==
    [asked |-> asked, reply |-> reply,
     ids |-> world.collection.ids, text |-> world.collection.text]

\* The chunk ids of a retrieval, without the bodies.
ChunkIds(ctx) == [ctx EXCEPT !.text = 0]

\* The reply an arm's planner replays for a row.
ReplyFor(a, r) == IF a \in Plans THEN run.plans[r].reply ELSE None

\* Mutant: the row's id without its wording.
RetrievalKey_bug(a, r) ==
    [row |-> r, arm |-> a, asked |-> 0, collection |-> run.fingerprint,
     reply |-> ReplyFor(a, r)]

RetrievalKey(a, r) ==
    [row |-> r, arm |-> a, asked |-> run.golden[r], collection |-> run.fingerprint,
     reply |-> ReplyFor(a, r)]

AnswerKey(a, r) ==
    [row |-> r, arm |-> a, asked |-> run.golden[r], ctx |-> run.ctx[a][r],
     prompt |-> run.prompt]

JudgeKey(a, r, m) ==
    [metric |-> m, asked |-> run.golden[r], ctx |-> run.ctx[a][r], answer |-> run.answers[a][r],
     judge |-> run.judge]

\* Mutant: the measured chain's contexts are not compared.
Drifted_bug(a, r) == FALSE

\* ContextDrift: the measured chain retrieves again, and its chunk ids are
\* compared with the scored ones.
Drifted(a, r) ==
    ChunkIds(Retrieved(run.golden[r], ReplyFor(a, r))) # ChunkIds(run.ctx[a][r])

-------------------------------------------------------------------------------
Nothing(none) == [a \in Arm |-> [r \in Row |-> none]]

Init ==
    /\ WindowInit
    /\ world = [golden |-> [r \in Row |-> 1], prompt |-> 1, judge |-> 1,
                collection |-> [ids |-> 1, text |-> 1]]
    /\ plans = None
    /\ resolved = <<>> /\ retrieved = <<>> /\ answered = <<>> /\ judged = <<>>
    /\ run = None
    /\ report = None
    /\ runs = 0 /\ edits = 0 /\ others = 0
    /\ muddied = {}

-------------------------------------------------------------------------------
(* A run.                                                                  *)

\* The script starts: it marks or loads the log window, loads the golden
\* set, and reads the fingerprint, once.
Begin(i) ==
    LET measures == i.stages \cap Measuring # {}
        window == WindowOf(i.sink, measures, runs + 1)
    IN
    /\ run = None
    /\ runs < MaxRuns
    /\ runs' = runs + 1
    /\ mark' = IF measures /\ i.sink # None THEN window ELSE mark
    /\ run' = [stages |-> i.stages, rows |-> i.rows, sink |-> i.sink,
               window |-> window, golden |-> world.golden,
               prompt |-> world.prompt, judge |-> world.judge,
               fingerprint |-> Fingerprint(world.collection),
               plans |-> [r \in i.rows |-> None],
               at |-> "resolve", arm |-> 1, todo |-> i.rows,
               ctx |-> Nothing(None), answers |-> Nothing(None),
               scores |-> Nothing([m \in Metric |-> None])]
    /\ UNCHANGED <<log, world, plans, cellVars, report, edits, others, muddied>>

At(stage) == run # None /\ run.at = stage

\* The run's own line in the log, for a call it made.
Emits ==
    IF run.sink = None THEN UNCHANGED log ELSE Append1(run.sink, runs, runs)

\* One row's plan: replayed from the cache, or paid for.
ResolveRow(r) ==
    LET key == [row |-> r, asked |-> run.golden[r]]
        planned(reply) ==
            run' = [run EXCEPT !.plans[r] = [asked |-> run.golden[r], reply |-> reply],
                               !.todo = @ \ {r}]
    IN
    /\ At("resolve")
    /\ "resolve" \in run.stages
    /\ r \in run.todo
    /\ \/ /\ key \in DOMAIN resolved
          /\ planned(resolved[key])
          /\ UNCHANGED <<resolved, log>>
       \/ /\ key \notin DOMAIN resolved
          /\ \E reply \in Reply :
                planned(reply) /\ resolved' = Put(resolved, key, reply)
          /\ Emits
    /\ UNCHANGED <<mark, world, plans, retrieved, answered, judged, report, boundVars, muddied>>

\* Only plans for the whole golden set are written over the file.
SavePlans ==
    /\ At("resolve")
    /\ "resolve" \in run.stages
    /\ run.todo = {}
    /\ plans' = IF run.rows = Row THEN run.plans ELSE plans
    /\ run' = [run EXCEPT !.at = "retrieve", !.todo = run.rows]
    /\ UNCHANGED <<windowVars, world, cellVars, report, boundVars, muddied>>

\* Without the stage the file is replayed, if it was resolved for today's
\* wording of the rows.
LoadPlans ==
    /\ At("resolve")
    /\ "resolve" \notin run.stages
    /\ plans # None
    /\ \A r \in run.rows : plans[r].asked = run.golden[r]
    /\ run' = [run EXCEPT !.at = "retrieve", !.plans = [r \in run.rows |-> plans[r]]]
    /\ UNCHANGED <<windowVars, world, plans, cellVars, report, boundVars, muddied>>

RetrieveRow(r) ==
    LET a == Arms[run.arm]
        key == RetrievalKey(a, r)
        keep(ctx) == run' = [run EXCEPT !.ctx[a][r] = ctx, !.todo = @ \ {r}]
    IN
    /\ At("retrieve")
    /\ r \in run.todo
    /\ \/ /\ key \in DOMAIN retrieved
          /\ keep(retrieved[key])
          /\ UNCHANGED <<retrieved, log>>
       \/ /\ key \notin DOMAIN retrieved
          /\ LET ctx == Retrieved(run.golden[r], ReplyFor(a, r))
             IN keep(ctx) /\ retrieved' = Put(retrieved, key, ctx)
          /\ Emits
    /\ UNCHANGED <<mark, world, plans, resolved, answered, judged, report, boundVars, muddied>>

\* A row's answer: replayed, paid for, or absent when the stage may not pay.
AnswerRow(r) ==
    LET a == Arms[run.arm]
        key == AnswerKey(a, r)
        keep(answer) == run' = [run EXCEPT !.answers[a][r] = answer, !.todo = @ \ {r}]
    IN
    /\ At("answer")
    /\ r \in run.todo
    /\ \/ /\ key \in DOMAIN answered
          /\ keep(answered[key])
          /\ UNCHANGED <<answered, log>>
       \/ /\ key \notin DOMAIN answered
          /\ "answer" \notin run.stages
          /\ keep(None)
          /\ UNCHANGED <<answered, log>>
       \/ /\ key \notin DOMAIN answered
          /\ "answer" \in run.stages
          /\ ~Drifted(a, r)
          /\ LET answer == [asked |-> run.golden[r], prompt |-> run.prompt,
                            saw |-> Retrieved(run.golden[r], ReplyFor(a, r))]
             IN keep(answer) /\ answered' = Put(answered, key, answer)
          /\ Emits
    /\ UNCHANGED <<mark, world, plans, resolved, retrieved, judged, report, boundVars, muddied>>

\* One metric of one row: those over an answer only when there is one, and
\* only on the arms that are judged in full.
JudgeCell(r, m) ==
    LET a == Arms[run.arm]
        key == JudgeKey(a, r, m)
        keep(score) == run' = [run EXCEPT !.scores[a][r][m] = score, !.todo = @ \ {<<r, m>>}]
    IN
    /\ At("judge")
    /\ <<r, m>> \in run.todo
    /\ \/ /\ key \in DOMAIN judged
          /\ keep(judged[key])
          /\ UNCHANGED judged
       \/ /\ key \notin DOMAIN judged
          /\ "judge" \notin run.stages
          /\ keep(None)
          /\ UNCHANGED judged
       \/ /\ key \notin DOMAIN judged
          /\ "judge" \in run.stages
          /\ LET score == [answer |-> run.answers[a][r], ctx |-> run.ctx[a][r],
                           judge |-> run.judge]
             IN keep(score) /\ judged' = Put(judged, key, score)
    /\ UNCHANGED <<windowVars, world, plans, resolved, retrieved, answered, report, boundVars,
                   muddied>>

\* What a stage has to do on an arm.
Work(stage, a) ==
    CASE stage = "retrieve" -> run.rows
      [] stage = "answer" -> IF a \in Judged THEN run.rows ELSE {}
      [] stage = "judge" -> {w \in run.rows \X Metric :
                                w[2] \in Generation => run.answers[a][w[1]] # None}
      [] OTHER -> {}

\* A stage over, the next one or the next arm.
NextStage ==
    /\ run # None
    /\ run.at \in {"retrieve", "answer", "judge"}
    /\ run.todo = {}
    /\ LET stage == CASE run.at = "retrieve" -> "answer"
                      [] run.at = "answer" -> "judge"
                      [] run.at = "judge" /\ run.arm < Len(Arms) -> "retrieve"
                      [] OTHER -> "emit"
           arm == IF stage = "retrieve" THEN run.arm + 1 ELSE run.arm
       IN run' = [run EXCEPT !.at = stage, !.arm = arm, !.todo = Work(stage, Arms[arm])]
    /\ UNCHANGED <<windowVars, world, plans, cellVars, report, boundVars, muddied>>

\* Every pass that writes to the log runs before any that reads it: the
\* planner's variance, which may be cached, and the live agent.
Emit ==
    /\ At("emit")
    /\ run' = [run EXCEPT !.at = "report"]
    /\ \/ run.stages \cap {"resolve", "agent"} # {} /\ Emits
       \/ "agent" \notin run.stages /\ UNCHANGED log
    /\ UNCHANGED <<mark, world, plans, cellVars, report, boundVars, muddied>>

Render ==
    /\ At("report")
    /\ report' = [rows |-> run.rows, golden |-> run.golden, plans |-> run.plans,
                  prompt |-> run.prompt, judge |-> run.judge,
                  fingerprint |-> run.fingerprint, ctx |-> run.ctx,
                  answers |-> run.answers, scores |-> run.scores,
                  window |-> run.window, lines |-> LinesIn(run.window, run.sink)]
    /\ run' = None
    /\ UNCHANGED <<windowVars, world, plans, cellVars, boundVars, muddied>>

\* A call raises, the plans do not match, the contexts drifted, or somebody
\* kills the process.  Its cells stay.
Die ==
    /\ run # None
    /\ run' = None
    /\ UNCHANGED <<windowVars, world, plans, cellVars, report, boundVars, muddied>>

\* Killed while it writes its mark, which is not written atomically.
DieMarking ==
    /\ At("resolve")
    /\ run.todo = run.rows
    /\ run.window # None
    /\ run.window = mark
    /\ run.window.run = runs
    /\ run' = None
    /\ mark' = None
    /\ UNCHANGED <<log, world, plans, cellVars, report, boundVars, muddied>>

RunStep ==
    \/ \E r \in Row : ResolveRow(r) \/ RetrieveRow(r) \/ AnswerRow(r)
    \/ \E r \in Row, m \in Metric : JudgeCell(r, m)
    \/ SavePlans \/ LoadPlans \/ NextStage \/ Emit \/ Render \/ Die \/ DieMarking

-------------------------------------------------------------------------------
(* What changes around the runs.                                           *)

Edits == edits < MaxEdits /\ edits' = edits + 1

\* The golden set, a prompt, the judge model: read when a run starts.
Reword ==
    /\ run = None
    /\ Edits
    /\ \/ \E r \in Row : world' = [world EXCEPT !.golden[r] = @ + 1]
       \/ world' = [world EXCEPT !.prompt = @ + 1]
       \/ world' = [world EXCEPT !.judge = @ + 1]
    /\ UNCHANGED <<windowVars, plans, cellVars, run, report, runs, others, muddied>>

\* An ingest run brings new filings, under new ids; or it chunks the same
\* filings differently, under the same ids.
Ingest ==
    /\ Edits
    /\ \/ world' = [world EXCEPT !.collection.ids = @ + 1, !.collection.text = @ + 1]
       \/ /\ run = None \/ RechunkBeside
          /\ world' = [world EXCEPT !.collection.text = @ + 1]
    /\ muddied' = IF run = None THEN muddied ELSE muddied \cup {run.fingerprint}
    /\ UNCHANGED <<windowVars, plans, cellVars, run, report, runs, others>>

\* Somebody clears the planner's cells, to have the questions planned again.
ClearPlans ==
    /\ run = None
    /\ Edits
    /\ resolved' = <<>>
    /\ UNCHANGED <<windowVars, world, plans, retrieved, answered, judged, run, report, runs,
                   others, muddied>>

Elsewhere ==
    /\ run = None \/ OthersBeside
    /\ others < MaxOthers
    /\ others' = others + 1
    /\ \E s \in Sink : OtherWrites(s, runs) \/ Recreated(s)
    /\ UNCHANGED <<world, plans, cellVars, run, report, runs, edits, muddied>>

Next ==
    \/ \E i \in Invocation : Begin(i)
    \/ RunStep
    \/ Reword \/ Ingest \/ ClearPlans \/ Elsewhere

Spec == Init /\ [][Next]_vars

-------------------------------------------------------------------------------
Reported == IF report = None THEN {} ELSE Arm \X report.rows

(* A written artifact is one experiment: each row was retrieved for its    *)
(* wording in that run, on every planning arm with the same planner reply, *)
(* answered under that run's prompt, and scored by that run's judge on     *)
(* that answer over those contexts, whatever earlier runs, died or         *)
(* partial, left in the cache (pipeline's keys).                           *)
OneExperiment ==
    \A p \in Reported :
        LET a == p[1]
            r == p[2]
            ctx == report.ctx[a][r]
            answer == report.answers[a][r]
            scores == report.scores[a][r]
        IN
        /\ ctx.asked = report.golden[r]
        /\ ctx.reply = IF a \in Plans THEN report.plans[r].reply ELSE None
        /\ a \in Plans => report.plans[r].asked = report.golden[r]
        /\ answer # None =>
              answer.asked = report.golden[r] /\ answer.prompt = report.prompt
        /\ \A m \in Metric : scores[m] # None =>
              scores[m] = [answer |-> answer, ctx |-> ctx, judge |-> report.judge]

(* An answer in the artifact was generated over the very bodies it is      *)
(* scored against, although the chain retrieved them for itself and filings*)
(* may have been ingested in between, or in an earlier run                 *)
(* (pipeline.answer_cells, ContextDrift).                                  *)
AnswersSawTheirContexts ==
    \A p \in Reported :
        LET answer == report.answers[p[1]][p[2]]
        IN answer # None => answer.saw = report.ctx[p[1]][p[2]]

(* The contexts in the artifact come from the collection its provenance    *)
(* names, unless an ingest ran beside a run under that fingerprint         *)
(* (vectorstore.collection_fingerprint, read once per run).                *)
FingerprintIsHonest ==
    report # None /\ report.fingerprint \notin muddied =>
        \A p \in Reported :
            LET ctx == report.ctx[p[1]][p[2]]
            IN [ids |-> ctx.ids, text |-> ctx.text] = report.fingerprint

(* The contexts in the artifact are the ones it says, on both sides.       *)
ContextsAreTheOnesNamed == AnswersSawTheirContexts /\ FingerprintIsHonest

(* No figure in the artifact is taken over a line older than the run whose *)
(* window it names, in whichever file the log is by then                   *)
(* (events.sink_offset, latency.Window.describes).                         *)
PastStaysOut ==
    report # None =>
        \A i \in DOMAIN report.lines : report.lines[i].era >= report.window.run

(* Those figures are taken over that run's lines and no others': "the      *)
(* slice of a sink one measuring run wrote" (latency.Window).              *)
WindowIsOneRun ==
    report # None =>
        \A i \in DOMAIN report.lines : report.lines[i].by = report.window.run
===============================================================================
