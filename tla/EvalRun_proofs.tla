---------------------------- MODULE EvalRun_proofs ----------------------------
(***************************************************************************)
(* Proofs about `EvalRun` for any golden set, arms, invocations, sinks and *)
(* bounds: what a written artifact says was measured is what was measured, *)
(* whatever earlier, partial or killed runs left in the cell cache and     *)
(* whatever was edited or ingested between them and beside them.           *)
(***************************************************************************)
EXTENDS EvalRun, SequenceTheorems, TLAPS

(* The records the script handles.                                         *)
Collection == [ids : Nat, text : Nat]
World == [golden : [Row -> Nat], prompt : Nat, judge : Nat, collection : Collection]
Plan == [asked : Nat, reply : Reply]
Ctx == [asked : Nat, reply : Reply \cup {None}, ids : Nat, text : Nat]
Answer == [asked : Nat, prompt : Nat, saw : Ctx]
Score == [answer : Answer \cup {None}, ctx : Ctx \cup {None}, judge : Nat]
Line == [by : Nat, era : Nat]
Window == [path : Sink, offset : Nat, run : Nat]
Place == {"resolve", "retrieve", "answer", "judge", "emit", "report"}

Run == [stages : SUBSET Stage, rows : SUBSET Row, sink : Sink \cup {None},
        window : Window \cup {None}, golden : [Row -> Nat],
        prompt : Nat, judge : Nat, fingerprint : Collection,
        plans : UNION {[rows -> Plan \cup {None}] : rows \in SUBSET Row},
        at : Place, arm : DOMAIN Arms,
        todo : SUBSET (Row \cup (Row \X Metric)),
        ctx : [Arm -> [Row -> Ctx \cup {None}]],
        answers : [Arm -> [Row -> Answer \cup {None}]],
        scores : [Arm -> [Row -> [Metric -> Score \cup {None}]]]]

TypeOK ==
    /\ log \in [Sink -> Seq(Line)]
    /\ mark \in Window \cup {None}
    /\ world \in World
    /\ plans \in [Row -> Plan] \cup {None}
    /\ run \in Run \cup {None}
    /\ runs \in Nat
    /\ run # None => DOMAIN run.plans = run.rows

-------------------------------------------------------------------------------
(* The cells: each holds what its key names.                               *)

\* The reply a row was planned with is one a planner may give.
ResolvedCells == \A k \in DOMAIN resolved : resolved[k] \in Reply

\* How far the bodies are ahead of the ids, which only a rechunking under
\* the same ids changes.
Ahead(c) == c.text - c.ids

RetrievedCell(k, ctx, dirty) ==
    /\ ctx \in Ctx
    /\ k.collection \in Collection
    /\ ctx.asked = k.asked
    /\ ctx.reply = k.reply
    /\ k.collection \notin dirty => [ids |-> ctx.ids, text |-> ctx.text] = k.collection
    /\ ~RechunkBeside => Ahead(ctx) = Ahead(k.collection)

RetrievedCells == \A k \in DOMAIN retrieved : RetrievedCell(k, retrieved[k], muddied)

AnsweredCells ==
    \A k \in DOMAIN answered :
        /\ answered[k] \in Answer
        /\ answered[k].asked = k.asked
        /\ answered[k].prompt = k.prompt
        /\ ~RechunkBeside => answered[k].saw = k.ctx

JudgedCells ==
    \A k \in DOMAIN judged :
        /\ judged[k] \in Score
        /\ judged[k] = [answer |-> k.answer, ctx |-> k.ctx, judge |-> k.judge]

CellsOK == ResolvedCells /\ RetrievedCells /\ AnsweredCells /\ JudgedCells

-------------------------------------------------------------------------------
(* The open run.                                                           *)

\* The collection is the one the run's fingerprint names, or an ingest ran
\* beside it; and then ids and bodies changed together.
FingerprintHolds ==
    run # None =>
        /\ run.fingerprint \notin muddied => world.collection = run.fingerprint
        /\ ~RechunkBeside => Ahead(world.collection) = Ahead(run.fingerprint)

\* What is left to do is work of the stage the run is in.
TodoFits ==
    run # None =>
        /\ run.at \in {"resolve", "retrieve", "answer"} => run.todo \subseteq run.rows
        /\ run.at = "judge" => run.todo \subseteq run.rows \X Metric
        /\ run.at = "resolve" => run.arm = 1
        /\ run.at = "resolve" /\ "resolve" \notin run.stages => run.todo = run.rows
        /\ run.at \in {"emit", "report"} => run.arm = Len(Arms)

\* A row is planned for its wording, once the stage has come to it.
Planned ==
    run # None =>
        \A r \in run.rows : run.at # "resolve" \/ r \notin run.todo =>
            run.plans[r] \in Plan /\ run.plans[r].asked = run.golden[r]

\* The i-th arm's row r is retrieved.
Scored(i, r) ==
    \/ i < run.arm
    \/ i = run.arm /\ run.at = "retrieve" /\ r \notin run.todo
    \/ i = run.arm /\ run.at \in {"answer", "judge", "emit", "report"}

\* And then for its wording, by its plan, in the run's collection.
ContextsFit ==
    run # None =>
        \A i \in DOMAIN Arms, r \in run.rows :
            Scored(i, r) =>
                RetrievedCell(RetrievalKey(Arms[i], r), run.ctx[Arms[i]][r], muddied)

\* An arm is answered after it is retrieved, and judged after it is answered.
NotYet ==
    run # None =>
        \A i \in DOMAIN Arms, r \in Row :
            /\ i > run.arm \/ (i = run.arm /\ run.at \in {"resolve", "retrieve"}) =>
                  run.answers[Arms[i]][r] = None
            /\ i > run.arm \/ (i = run.arm /\ run.at \in {"resolve", "retrieve", "answer"}) =>
                  \A m \in Metric : run.scores[Arms[i]][r][m] = None

AnswersFit ==
    run # None =>
        \A a \in Arm, r \in Row :
            LET answer == run.answers[a][r] IN
            answer # None =>
                /\ answer.asked = run.golden[r]
                /\ answer.prompt = run.prompt
                /\ ~RechunkBeside => answer.saw = run.ctx[a][r]

ScoresFit ==
    run # None =>
        \A a \in Arm, r \in Row, m \in Metric :
            run.scores[a][r][m] # None =>
                run.scores[a][r][m] = [answer |-> run.answers[a][r], ctx |-> run.ctx[a][r],
                                       judge |-> run.judge]

RunOK == /\ FingerprintHolds /\ TodoFits /\ Planned /\ ContextsFit /\ NotYet
         /\ AnswersFit /\ ScoresFit

-------------------------------------------------------------------------------
(* The log windows.                                                        *)

\* Past its offset a window has no line older than the run that took it.
Fresh(lines, w) == \A i \in DOMAIN lines : i > w.offset => lines[i].era >= w.run

\* In whatever file now has its path.
NothingOlder(w) == w.run <= runs /\ Fresh(log[w.path], w)

WindowsOK ==
    /\ mark # None => NothingOlder(mark)
    /\ run # None /\ run.window # None =>
          run.window.path = run.sink /\ NothingOlder(run.window)

ReportOK == /\ OneExperiment /\ FingerprintIsHonest /\ PastStaysOut
            /\ ~RechunkBeside => AnswersSawTheirContexts

\* The inductive invariant.
IInv == TypeOK /\ CellsOK /\ RunOK /\ WindowsOK /\ ReportOK

USE NoneIsNoSink, ArmsAreListed, CalledProperly

LEMMA Appended ==
    ASSUME NEW lines \in Seq(Line), NEW w \in Window, NEW line \in Line,
           w.run <= line.era, Fresh(lines, w)
    PROVE  Fresh(Append(lines, line), w)
  BY DEF Fresh, Window, Line

-------------------------------------------------------------------------------
(* What a step leaves alone stays right.                                   *)

LEMMA ReportStays ==
    ASSUME ReportOK, report' = report, muddied \subseteq muddied'
    PROVE  ReportOK'
  BY DEF ReportOK, OneExperiment, FingerprintIsHonest, PastStaysOut,
         AnswersSawTheirContexts, Reported

LEMMA CellsStay ==
    ASSUME CellsOK, UNCHANGED cellVars, muddied \subseteq muddied'
    PROVE  CellsOK'
  BY DEF CellsOK, ResolvedCells, RetrievedCells, AnsweredCells, JudgedCells,
         RetrievedCell, cellVars

LEMMA Closed == run' = None => RunOK'
  BY DEF RunOK, FingerprintHolds, TodoFits, Planned, ContextsFit, NotYet, AnswersFit, ScoresFit

LEMMA RunStays ==
    ASSUME RunOK, UNCHANGED <<run, world, muddied>>
    PROVE  RunOK'
  <1>1. \A i \in DOMAIN Arms, r \in Row :
            Scored(i, r)' = Scored(i, r) /\ RetrievalKey(Arms[i], r)' = RetrievalKey(Arms[i], r)
    BY DEF Scored, RetrievalKey, ReplyFor
  <1>2. ContextsFit'
    BY <1>1 DEF RunOK, ContextsFit, Scored, RetrievalKey, ReplyFor
  <1>3. QED
    BY <1>2 DEF RunOK, FingerprintHolds, TodoFits, Planned, NotYet, AnswersFit, ScoresFit

\* The log grows by lines of today's era, and the windows are kept or lost.
Grows ==
    \/ log' = log
    \/ \E s \in Sink, line \in Line :
          line.era = runs /\ log' = [log EXCEPT ![s] = Append(log[s], line)]

LEMMA FreshAfterGrowth ==
    ASSUME TypeOK, Grows, NEW w \in Window, NothingOlder(w)
    PROVE  log' \in [Sink -> Seq(Line)] /\ Fresh(log'[w.path], w)
  <1>1. log[w.path] \in Seq(Line) /\ w.path \in Sink
    BY DEF TypeOK, Window
  <1>2. CASE log' = log
    BY <1>2 DEF NothingOlder, TypeOK
  <1>3. ASSUME NEW s \in Sink, NEW line \in Line, line.era = runs,
               log' = [log EXCEPT ![s] = Append(log[s], line)]
        PROVE  log' \in [Sink -> Seq(Line)] /\ Fresh(log'[w.path], w)
    <2>1. log \in [Sink -> Seq(Line)]
      BY DEF TypeOK
    <2>2. Fresh(Append(log[w.path], line), w)
      BY <1>1, <1>3, Appended DEF NothingOlder
    <2>3. log'[w.path] = log[w.path] \/ log'[w.path] = Append(log[w.path], line)
      BY <1>1, <1>3, <2>1
    <2>4. log' \in [Sink -> Seq(Line)]
      BY <1>3, <2>1
    <2>5. QED
      BY <2>2, <2>3, <2>4 DEF NothingOlder
  <1>4. QED
    BY <1>2, <1>3 DEF Grows

LEMMA LogTyped ==
    ASSUME TypeOK, Grows
    PROVE  log' \in [Sink -> Seq(Line)]
  <1>1. log \in [Sink -> Seq(Line)]
    BY DEF TypeOK
  <1>2. ASSUME NEW s \in Sink, NEW line \in Line,
               log' = [log EXCEPT ![s] = Append(log[s], line)]
        PROVE  log' \in [Sink -> Seq(Line)]
    BY <1>1, <1>2
  <1>3. QED
    BY <1>1, <1>2 DEF Grows

LEMMA WindowsStay ==
    ASSUME TypeOK, WindowsOK, Grows, runs' = runs,
           mark' \in {mark, None},
           \/ run' = None
           \/ run # None /\ run'.window = run.window /\ run'.sink = run.sink
    PROVE  WindowsOK'
  <1>1. ASSUME NEW w \in Window, NothingOlder(w)
        PROVE  w.run <= runs' /\ Fresh(log'[w.path], w)
    BY <1>1, FreshAfterGrowth DEF NothingOlder
  <1>2. mark' # None => mark' = mark /\ mark \in Window /\ NothingOlder(mark)
    BY DEF TypeOK, WindowsOK
  <1>3. run' # None /\ run'.window # None =>
            /\ run'.window = run.window /\ run.window \in Window
            /\ run'.window.path = run'.sink /\ NothingOlder(run.window)
    BY DEF TypeOK, WindowsOK, Run
  <1>4. QED
    BY <1>1, <1>2, <1>3 DEF WindowsOK, NothingOlder

LEMMA EmitsGrows ==
    ASSUME TypeOK, run # None, Emits
    PROVE  Grows
  <1>1. CASE run.sink = None
    BY <1>1 DEF Emits, Grows
  <1>2. CASE run.sink # None
    <2>1. run.sink \in Sink /\ [by |-> runs, era |-> runs] \in Line
      BY <1>2 DEF TypeOK, Run, Line
    <2>2. log' = [log EXCEPT ![run.sink] = Append(log[run.sink], [by |-> runs, era |-> runs])]
      BY <1>2 DEF Emits, Append1
    <2>3. QED
      BY <2>1, <2>2 DEF Grows
  <1>3. QED
    BY <1>1, <1>2

-------------------------------------------------------------------------------
(* Nothing measured yet.                                                   *)

LEMMA InitIInv == Init => IInv
  <1> SUFFICES ASSUME Init PROVE IInv
    OBVIOUS
  <1> USE DEF Init, WindowInit
  <1>1. TypeOK
    <2>1. log \in [Sink -> Seq(Line)]
      OBVIOUS
    <2>2. world \in World
      BY DEF World, Collection
    <2>3. QED
      BY <2>1, <2>2 DEF TypeOK
  <1>2. CellsOK
    <2>1. DOMAIN resolved = {} /\ DOMAIN retrieved = {} /\ DOMAIN answered = {} /\ DOMAIN judged = {}
      OBVIOUS
    <2>2. QED
      BY <2>1 DEF CellsOK, ResolvedCells, RetrievedCells, AnsweredCells, JudgedCells
  <1>3. RunOK
    BY DEF RunOK, FingerprintHolds, TodoFits, Planned, ContextsFit, NotYet, AnswersFit, ScoresFit
  <1>4. WindowsOK /\ ReportOK
    BY DEF WindowsOK, ReportOK, OneExperiment, FingerprintIsHonest, PastStaysOut,
           AnswersSawTheirContexts, Reported
  <1>5. QED
    BY <1>1, <1>2, <1>3, <1>4 DEF IInv

\* A window is the mark just taken, the saved one for the same file, or none.
LEMMA WindowTaken ==
    ASSUME TypeOK, WindowsOK, NEW s \in Sink \cup {None}, NEW measures \in BOOLEAN,
           NEW w, w = WindowOf(s, measures, runs + 1), w # None
    PROVE  w \in Window /\ w.path = s /\ w.run <= runs + 1 /\ Fresh(log[s], w)
  <1>1. s \in Sink
    BY DEF WindowOf
  <1>2. CASE measures
    <2>1. w = [path |-> s, offset |-> Len(log[s]), run |-> runs + 1]
      BY <1>1, <1>2 DEF WindowOf, Marked, SinkOffset
    <2>2. log[s] \in Seq(Line) /\ runs \in Nat
      BY <1>1 DEF TypeOK
    <2>3. QED
      BY <1>1, <2>1, <2>2 DEF Window, Fresh
  <1>3. CASE ~measures
    <2>1. w = mark /\ mark # None /\ mark.path = s
      BY <1>1, <1>3 DEF WindowOf, Describes
    <2>2. mark \in Window /\ NothingOlder(mark) /\ runs \in Nat
      BY <2>1 DEF TypeOK, WindowsOK
    <2>3. QED
      BY <2>1, <2>2 DEF NothingOlder, Window
  <1>4. QED
    BY <1>2, <1>3

LEMMA BeginKeeps ==
    ASSUME IInv, NEW i \in Invocation, Begin(i)
    PROVE  IInv'
  <1> DEFINE measures == i.stages \cap Measuring # {}
             window == WindowOf(i.sink, measures, runs + 1)
  <1> USE DEF IInv
  <1>1. /\ i.stages \in SUBSET Stage /\ i.rows \in SUBSET Row /\ i.sink \in Sink \cup {None}
        /\ runs \in Nat /\ world \in World
    BY DEF TypeOK
  <1>2. window # None =>
            /\ window \in Window /\ window.path = i.sink
            /\ window.run <= runs + 1 /\ Fresh(log[i.sink], window)
    <2>1. measures \in BOOLEAN
      OBVIOUS
    <2>2. QED
      BY <1>1, <2>1, WindowTaken
  <1>3. /\ run' = [stages |-> i.stages, rows |-> i.rows, sink |-> i.sink,
                   window |-> window, golden |-> world.golden,
                   prompt |-> world.prompt, judge |-> world.judge,
                   fingerprint |-> world.collection,
                   plans |-> [r \in i.rows |-> None],
                   at |-> "resolve", arm |-> 1, todo |-> i.rows,
                   ctx |-> Nothing(None), answers |-> Nothing(None),
                   scores |-> Nothing([m \in Metric |-> None])]
        /\ mark' = IF measures /\ i.sink # None THEN window ELSE mark
        /\ runs' = runs + 1
        /\ UNCHANGED <<log, world, plans, cellVars, report, muddied>>
    BY DEF Begin, Fingerprint
  <1>4. measures /\ i.sink # None => window # None \/ mark' = None
    BY <1>3
  <1> HIDE DEF window, measures
  <1>5. run' \in Run
    <2>1. /\ world.golden \in [Row -> Nat] /\ world.prompt \in Nat /\ world.judge \in Nat
          /\ world.collection \in Collection
      BY <1>1 DEF World
    <2>2. window \in Window \cup {None}
      BY <1>2
    <2>3. [r \in i.rows |-> None] \in UNION {[rows -> Plan \cup {None}] : rows \in SUBSET Row}
      BY <1>1
    <2>4. /\ Nothing(None) \in [Arm -> [Row -> Ctx \cup {None}]]
          /\ Nothing(None) \in [Arm -> [Row -> Answer \cup {None}]]
          /\ Nothing([m \in Metric |-> None]) \in [Arm -> [Row -> [Metric -> Score \cup {None}]]]
      BY DEF Nothing
    <2>5. 1 \in DOMAIN Arms /\ "resolve" \in Place
      BY DEF Place
    <2>6. QED
      BY <1>1, <1>3, <2>1, <2>2, <2>3, <2>4, <2>5 DEF Run
  <1>6. TypeOK'
    BY <1>1, <1>2, <1>3, <1>5 DEF TypeOK
  <1>7. CellsOK' /\ ReportOK'
    BY <1>3, CellsStay, ReportStays
  <1>8. RunOK'
    <2>1. FingerprintHolds' /\ TodoFits' /\ Planned' /\ AnswersFit' /\ ScoresFit'
      BY <1>3, <1>5 DEF FingerprintHolds, TodoFits, Planned, AnswersFit, ScoresFit, Nothing, Arm
    <2>2. ASSUME NEW j \in DOMAIN Arms, NEW r \in i.rows PROVE ~Scored(j, r)'
      BY <1>3 DEF Scored
    <2>3. ContextsFit'
      BY <1>3, <2>2 DEF ContextsFit
    <2>4. NotYet'
      BY <1>3 DEF NotYet, Nothing, Arm
    <2>5. QED
      BY <2>1, <2>3, <2>4 DEF RunOK
  <1>9. WindowsOK'
    <2>1. mark' = window \/ mark' = mark
      BY <1>3
    <2>2. mark' = mark /\ mark # None => NothingOlder(mark)'
      BY <1>1, <1>3 DEF WindowsOK, NothingOlder, TypeOK, Window
    <2>3. window # None => window.run <= runs' /\ Fresh(log'[window.path], window)
      BY <1>1, <1>2, <1>3
    <2>4. mark' # None => NothingOlder(mark)'
      BY <2>1, <2>2, <2>3 DEF NothingOlder
    <2>5. run'.window # None => run'.window.path = run'.sink /\ NothingOlder(run.window)'
      BY <1>2, <1>3, <2>3 DEF NothingOlder
    <2>6. QED
      BY <2>4, <2>5 DEF WindowsOK
  <1>10. QED
    BY <1>6, <1>7, <1>8, <1>9

-------------------------------------------------------------------------------
(* The planner's stage.                                                    *)

\* What a run read when it began.
SameSettings ==
    /\ run'.stages = run.stages /\ run'.rows = run.rows /\ run'.sink = run.sink
    /\ run'.window = run.window /\ run'.golden = run.golden /\ run'.prompt = run.prompt
    /\ run'.judge = run.judge /\ run'.fingerprint = run.fingerprint

USE DEF SameSettings

\* A row's plan is for its wording, and every other row's stays as it is.
LEMMA ResolveRowKeeps ==
    ASSUME IInv, NEW r \in Row, ResolveRow(r)
    PROVE  IInv'
  <1> USE DEF IInv
  <1>1. /\ run # None /\ run \in Run /\ run.at = "resolve" /\ "resolve" \in run.stages
        /\ r \in run.todo /\ run.todo \subseteq run.rows /\ DOMAIN run.plans = run.rows
    BY DEF ResolveRow, At, TypeOK, RunOK, TodoFits
  <1>2. PICK reply \in Reply :
            /\ run' = [run EXCEPT !.plans[r] = [asked |-> run.golden[r], reply |-> reply],
                                  !.todo = @ \ {r}]
            /\ \/ UNCHANGED <<resolved, log>>
               \/ /\ resolved' = Put(resolved, [row |-> r, asked |-> run.golden[r]], reply)
                  /\ Emits
    BY DEF ResolveRow, CellsOK, ResolvedCells
  <1>3. UNCHANGED <<mark, world, plans, retrieved, answered, judged, report, runs, muddied>>
    BY DEF ResolveRow, boundVars
  <1>4. /\ run'.plans = [run.plans EXCEPT ![r] = [asked |-> run.golden[r], reply |-> reply]]
        /\ run'.todo = run.todo \ {r} /\ run'.at = run.at /\ run'.arm = run.arm
        /\ SameSettings
        /\ run'.ctx = run.ctx /\ run'.answers = run.answers /\ run'.scores = run.scores
    BY <1>1, <1>2 DEF Run
  <1>5. [asked |-> run.golden[r], reply |-> reply] \in Plan /\ run.golden \in [Row -> Nat]
    BY <1>1 DEF Plan, Run
  <1>6. run' \in Run /\ DOMAIN run'.plans = run'.rows
    <2>1. /\ run.rows \in SUBSET Row
          /\ run.plans \in [run.rows -> Plan \cup {None}]
      BY <1>1 DEF Run
    <2>2. run'.plans \in [run.rows -> Plan \cup {None}]
      BY <1>4, <1>5, <2>1
    <2>3. run'.plans \in UNION {[rows -> Plan \cup {None}] : rows \in SUBSET Row}
      BY <2>1, <2>2
    <2>4. run'.todo \in SUBSET (Row \cup (Row \X Metric))
      BY <1>1, <1>4 DEF Run
    <2>5. run' \in Run
      BY <1>1, <1>2, <1>4, <2>3, <2>4 DEF Run
    <2>6. QED
      BY <1>4, <2>2, <2>5
  <1>7. Grows
    BY <1>1, <1>2, EmitsGrows DEF Grows
  <1>8. TypeOK'
    BY <1>3, <1>6, <1>7, LogTyped DEF TypeOK
  <1>9. CellsOK'
    <2>1. ResolvedCells'
      BY <1>2 DEF CellsOK, ResolvedCells, Put
    <2>2. RetrievedCells' /\ AnsweredCells' /\ JudgedCells'
      BY <1>3 DEF CellsOK, RetrievedCells, AnsweredCells, JudgedCells
    <2>3. QED
      BY <2>1, <2>2 DEF CellsOK
  <1>10. RunOK'
    <2>1. FingerprintHolds' /\ TodoFits'
      BY <1>1, <1>3, <1>4 DEF RunOK, FingerprintHolds, TodoFits
    <2>2. Planned'
      BY <1>1, <1>4, <1>5 DEF RunOK, Planned
    <2>3. ContextsFit'
      <3>1. \A i \in DOMAIN Arms, q \in run.rows : ~Scored(i, q)'
        BY <1>1, <1>4 DEF RunOK, TodoFits, Scored
      <3>2. QED
        BY <1>4, <3>1 DEF ContextsFit
    <2>4. NotYet' /\ AnswersFit' /\ ScoresFit'
      BY <1>1, <1>4 DEF RunOK, NotYet, AnswersFit, ScoresFit
    <2>5. QED
      BY <2>1, <2>2, <2>3, <2>4 DEF RunOK
  <1>11. WindowsOK'
    BY <1>1, <1>3, <1>4, <1>7, WindowsStay
  <1>12. ReportOK'
    BY <1>3, ReportStays
  <1>13. QED
    BY <1>8, <1>9, <1>10, <1>11, <1>12

\* Nothing is measured while the run is in the planner's stage, so whatever
\* plans it leaves with are those its contexts will be scored with.
LEMMA PlansLeft ==
    ASSUME IInv, run # None, run.at = "resolve", run' \in Run,
           run'.at = "retrieve", run'.todo = run.rows, DOMAIN run'.plans = run.rows,
           \A r \in run.rows : run'.plans[r] \in Plan /\ run'.plans[r].asked = run.golden[r],
           run'.arm = run.arm, SameSettings, run'.ctx = run.ctx,
           run'.answers = run.answers, run'.scores = run.scores,
           UNCHANGED <<log, mark, world, cellVars, report, runs, muddied>>,
           plans' \in [Row -> Plan] \cup {None}
    PROVE  IInv'
  <1> USE DEF IInv
  <1>1. run.arm = 1 /\ 1 \in DOMAIN Arms /\ DOMAIN Arms \subseteq Nat \ {0}
    BY DEF RunOK, TodoFits
  <1>2. TypeOK'
    BY DEF TypeOK
  <1>3. CellsOK' /\ ReportOK'
    BY CellsStay, ReportStays
  <1>4. RunOK'
    <2>1. FingerprintHolds' /\ TodoFits' /\ Planned'
      BY DEF RunOK, FingerprintHolds, TodoFits, Planned
    <2>2. ContextsFit'
      <3>1. \A i \in DOMAIN Arms, q \in run.rows : ~Scored(i, q)'
        BY <1>1 DEF Scored
      <3>2. QED
        BY <3>1 DEF ContextsFit
    <2>3. NotYet' /\ AnswersFit' /\ ScoresFit'
      BY DEF RunOK, NotYet, AnswersFit, ScoresFit
    <2>4. QED
      BY <2>1, <2>2, <2>3 DEF RunOK
  <1>5. WindowsOK'
    BY WindowsStay DEF Grows
  <1>6. QED
    BY <1>2, <1>3, <1>4, <1>5

LEMMA SavePlansKeeps == ASSUME IInv, SavePlans PROVE IInv'
  <1>1. /\ run # None /\ run \in Run /\ run.at = "resolve" /\ run.todo = {}
        /\ DOMAIN run.plans = run.rows
    BY DEF SavePlans, At, IInv, TypeOK
  <1>2. /\ run' = [run EXCEPT !.at = "retrieve", !.todo = run.rows]
        /\ UNCHANGED <<log, mark, world, cellVars, report, runs, muddied>>
        /\ plans' = IF run.rows = Row THEN run.plans ELSE plans
    BY DEF SavePlans, windowVars, boundVars
  <1>3. /\ run'.plans = run.plans /\ run'.todo = run.rows
        /\ run'.at = "retrieve" /\ run'.arm = run.arm
        /\ SameSettings
        /\ run'.ctx = run.ctx /\ run'.answers = run.answers /\ run'.scores = run.scores
    BY <1>1, <1>2 DEF Run
  <1>4. run' \in Run
    BY <1>1, <1>2 DEF Run, Place
  <1>5. \A r \in run.rows : run.plans[r] \in Plan /\ run.plans[r].asked = run.golden[r]
    BY <1>1 DEF IInv, RunOK, Planned
  <1>6. plans' \in [Row -> Plan] \cup {None}
    <2>1. run.plans \in [run.rows -> Plan \cup {None}]
      BY <1>1 DEF Run
    <2>2. run.plans \in [run.rows -> Plan]
      BY <1>5, <2>1
    <2>3. QED
      BY <1>2, <2>2 DEF IInv, TypeOK
  <1>7. QED
    BY <1>1, <1>2, <1>3, <1>4, <1>5, <1>6, PlansLeft

LEMMA LoadPlansKeeps == ASSUME IInv, LoadPlans PROVE IInv'
  <1>1. /\ run # None /\ run \in Run /\ run.at = "resolve" /\ "resolve" \notin run.stages
        /\ run.todo = run.rows /\ DOMAIN run.plans = run.rows
        /\ plans \in [Row -> Plan] /\ run.rows \in SUBSET Row
    BY DEF LoadPlans, At, IInv, TypeOK, RunOK, TodoFits, Run
  <1>2. /\ run' = [run EXCEPT !.at = "retrieve", !.plans = [r \in run.rows |-> plans[r]]]
        /\ UNCHANGED <<log, mark, world, plans, cellVars, report, runs, muddied>>
        /\ \A r \in run.rows : plans[r].asked = run.golden[r]
    BY DEF LoadPlans, windowVars, boundVars
  <1>3. /\ run'.plans = [r \in run.rows |-> plans[r]] /\ run'.todo = run.rows
        /\ run'.at = "retrieve" /\ run'.arm = run.arm
        /\ SameSettings
        /\ run'.ctx = run.ctx /\ run'.answers = run.answers /\ run'.scores = run.scores
    BY <1>1, <1>2 DEF Run
  <1>4. run' \in Run
    <2>1. run'.plans \in [run.rows -> Plan \cup {None}]
      BY <1>1, <1>3
    <2>2. run'.plans \in UNION {[rows -> Plan \cup {None}] : rows \in SUBSET Row}
      BY <1>1, <2>1
    <2>3. QED
      BY <1>1, <1>2, <1>3, <2>2 DEF Run, Place
  <1>5. \A r \in run.rows : run'.plans[r] \in Plan /\ run'.plans[r].asked = run.golden[r]
    BY <1>1, <1>2, <1>3
  <1>6. DOMAIN run'.plans = run.rows
    BY <1>3
  <1>7. QED
    BY <1>1, <1>2, <1>3, <1>4, <1>5, <1>6, PlansLeft DEF IInv, TypeOK

-------------------------------------------------------------------------------
(* The stages over the cells.                                              *)

\* What a run retrieves now fits its key: the collection is the one its
\* fingerprint names, or the fingerprint is known to be muddied.
LEMMA RetrievedFits ==
    ASSUME IInv, run # None, NEW a \in Arm, NEW r \in run.rows, run.at # "resolve"
    PROVE  RetrievedCell(RetrievalKey(a, r), Retrieved(run.golden[r], ReplyFor(a, r)), muddied)
  <1> DEFINE ctx == Retrieved(run.golden[r], ReplyFor(a, r))
  <1>1. /\ run \in Run /\ run.golden[r] \in Nat /\ world.collection \in Collection
        /\ run.fingerprint \in Collection
    BY DEF IInv, TypeOK, Run, World
  <1>2. ReplyFor(a, r) \in Reply \cup {None}
    <2>1. run.plans[r] \in Plan
      BY DEF IInv, RunOK, Planned
    <2>2. QED
      BY <2>1 DEF ReplyFor, Plan
  <1>3. ctx = [asked |-> run.golden[r], reply |-> ReplyFor(a, r),
               ids |-> world.collection.ids, text |-> world.collection.text]
    BY DEF Retrieved
  <1>4. /\ run.fingerprint \notin muddied => world.collection = run.fingerprint
        /\ ~RechunkBeside => Ahead(world.collection) = Ahead(run.fingerprint)
    BY DEF IInv, RunOK, FingerprintHolds
  <1>5. ctx \in Ctx
    BY <1>1, <1>2, <1>3 DEF Ctx, Collection
  <1>6. [ids |-> ctx.ids, text |-> ctx.text] = world.collection
    BY <1>1, <1>3 DEF Collection
  <1>7. Ahead(ctx) = Ahead(world.collection)
    BY <1>3 DEF Ahead
  <1>8. QED
    BY <1>1, <1>3, <1>4, <1>5, <1>6, <1>7 DEF RetrievedCell, RetrievalKey

LEMMA RetrieveRowKeeps ==
    ASSUME IInv, NEW r \in Row, RetrieveRow(r)
    PROVE  IInv'
  <1> DEFINE a == Arms[run.arm]
             key == RetrievalKey(a, r)
  <1> USE DEF IInv
  <1>1. /\ run # None /\ run \in Run /\ run.at = "retrieve" /\ r \in run.todo
        /\ r \in run.rows /\ run.arm \in DOMAIN Arms /\ a \in Arm
        /\ DOMAIN run.plans = run.rows
    BY DEF RetrieveRow, At, TypeOK, Run, RunOK, TodoFits, Arm
  <1>2. PICK ctx :
            /\ RetrievedCell(key, ctx, muddied)
            /\ run' = [run EXCEPT !.ctx[a][r] = ctx, !.todo = @ \ {r}]
            /\ \/ UNCHANGED <<retrieved, log>>
               \/ retrieved' = Put(retrieved, key, ctx) /\ Emits
    <2>1. RetrievedCell(key, Retrieved(run.golden[r], ReplyFor(a, r)), muddied)
      BY <1>1, RetrievedFits
    <2>2. key \in DOMAIN retrieved => RetrievedCell(key, retrieved[key], muddied)
      BY DEF CellsOK, RetrievedCells
    <2> HIDE DEF key
    <2>3. QED
      BY <2>1, <2>2 DEF RetrieveRow, key
  <1>3. UNCHANGED <<mark, world, plans, resolved, answered, judged, report, runs, muddied>>
    BY DEF RetrieveRow, boundVars
  <1>4. /\ run'.ctx = [run.ctx EXCEPT ![a][r] = ctx]
        /\ run'.todo = run.todo \ {r} /\ run'.at = run.at /\ run'.arm = run.arm
        /\ SameSettings
        /\ run'.plans = run.plans /\ run'.answers = run.answers /\ run'.scores = run.scores
    BY <1>1, <1>2 DEF Run
  <1>5. run' \in Run
    BY <1>1, <1>2 DEF Run, RetrievedCell
  <1>6. Grows
    BY <1>1, <1>2, EmitsGrows DEF Grows
  <1>7. TypeOK'
    BY <1>1, <1>3, <1>4, <1>5, <1>6, LogTyped DEF TypeOK
  <1>8. CellsOK'
    <2>1. RetrievedCells'
      BY <1>2, <1>3 DEF CellsOK, RetrievedCells, Put
    <2>2. ResolvedCells' /\ AnsweredCells' /\ JudgedCells'
      BY <1>3 DEF CellsOK, ResolvedCells, AnsweredCells, JudgedCells
    <2>3. QED
      BY <2>1, <2>2 DEF CellsOK
  <1>9. RunOK'
    <2>1. FingerprintHolds' /\ TodoFits' /\ Planned'
      BY <1>1, <1>3, <1>4 DEF RunOK, FingerprintHolds, TodoFits, Planned
    <2>2. ContextsFit'
      <3> SUFFICES ASSUME NEW i \in DOMAIN Arms, NEW q \in run.rows, Scored(i, q)'
                   PROVE  RetrievedCell(RetrievalKey(Arms[i], q)', run'.ctx[Arms[i]][q], muddied)
        BY <1>3, <1>4 DEF ContextsFit
      <3>1. RetrievalKey(Arms[i], q)' = RetrievalKey(Arms[i], q)
        BY <1>4 DEF RetrievalKey, ReplyFor
      <3>2. Arms[i] \in Arm /\ q \in Row /\ run.ctx \in [Arm -> [Row -> Ctx \cup {None}]]
        BY <1>1 DEF Arm, Run
      <3>3. CASE i = run.arm /\ q = r
        BY <1>1, <1>2, <1>4, <3>1, <3>2, <3>3
      <3>4. CASE ~(i = run.arm /\ q = r)
        <4>1. Arms[i] # a \/ q # r
          BY <1>1, <3>4
        <4>2. run'.ctx[Arms[i]][q] = run.ctx[Arms[i]][q]
          BY <1>1, <1>4, <3>2, <4>1
        <4>3. Scored(i, q)
          BY <1>1, <1>4, <3>4 DEF Scored
        <4>4. QED
          BY <1>1, <3>1, <4>2, <4>3 DEF RunOK, ContextsFit
      <3>5. QED
        BY <3>3, <3>4
    <2>3. NotYet'
      BY <1>1, <1>4 DEF RunOK, NotYet
    <2>4. AnswersFit' /\ ScoresFit'
      <3>1. \A q \in Row : run.answers[a][q] = None /\ \A m \in Metric : run.scores[a][q][m] = None
        BY <1>1 DEF RunOK, NotYet
      <3>2. \A b \in Arm, q \in Row : b # a => run'.ctx[b][q] = run.ctx[b][q]
        BY <1>1, <1>4 DEF Run
      <3>3. QED
        BY <1>1, <1>4, <3>1, <3>2 DEF RunOK, AnswersFit, ScoresFit
    <2>5. QED
      BY <2>1, <2>2, <2>3, <2>4 DEF RunOK
  <1>10. WindowsOK'
    BY <1>1, <1>3, <1>4, <1>6, WindowsStay
  <1>11. ReportOK'
    BY <1>3, ReportStays
  <1>12. QED
    BY <1>7, <1>8, <1>9, <1>10, <1>11

\* An answer about to be paid for is generated over the bodies it will be
\* scored against: the ids are compared, and with the ids the bodies agree.
LEMMA ChainSawTheSame ==
    ASSUME IInv, run # None, run.at = "answer", NEW r \in run.rows, ~RechunkBeside,
           ~Drifted(Arms[run.arm], r)
    PROVE  Retrieved(run.golden[r], ReplyFor(Arms[run.arm], r)) = run.ctx[Arms[run.arm]][r]
  <1> DEFINE a == Arms[run.arm]
             now == Retrieved(run.golden[r], ReplyFor(a, r))
             ctx == run.ctx[a][r]
  <1>1. run.arm \in DOMAIN Arms /\ a \in Arm /\ run \in Run
    BY DEF IInv, TypeOK, Run, Arm
  <1>2. RetrievedCell(RetrievalKey(a, r), now, muddied)
    BY <1>1, RetrievedFits
  <1>3. RetrievedCell(RetrievalKey(a, r), ctx, muddied)
    BY <1>1 DEF IInv, RunOK, ContextsFit, Scored
  <1>4. ChunkIds(now) = ChunkIds(ctx)
    BY DEF Drifted
  <1> HIDE DEF now, ctx
  <1>5. /\ now \in Ctx /\ ctx \in Ctx
        /\ now.asked = ctx.asked /\ now.reply = ctx.reply /\ Ahead(now) = Ahead(ctx)
    BY <1>2, <1>3 DEF RetrievedCell
  <1>6. now.ids = ctx.ids
    BY <1>4, <1>5 DEF ChunkIds, Ctx
  <1>7. now.text = ctx.text
    BY <1>5, <1>6 DEF Ahead, Ctx
  <1>8. now = ctx
    BY <1>5, <1>6, <1>7 DEF Ctx
  <1>9. QED
    BY <1>8 DEF now, ctx

LEMMA AnswerRowKeeps ==
    ASSUME IInv, NEW r \in Row, AnswerRow(r)
    PROVE  IInv'
  <1> DEFINE a == Arms[run.arm]
             key == AnswerKey(a, r)
             fits(answer) == /\ answer.asked = run.golden[r]
                             /\ answer.prompt = run.prompt
                             /\ ~RechunkBeside => answer.saw = run.ctx[a][r]
  <1> USE DEF IInv
  <1>1. /\ run # None /\ run \in Run /\ run.at = "answer" /\ r \in run.todo
        /\ r \in run.rows /\ run.arm \in DOMAIN Arms /\ a \in Arm
        /\ DOMAIN run.plans = run.rows
    BY DEF AnswerRow, At, TypeOK, Run, RunOK, TodoFits, Arm
  <1>2. PICK answer \in Answer \cup {None} :
            /\ answer # None => fits(answer)
            /\ run' = [run EXCEPT !.answers[a][r] = answer, !.todo = @ \ {r}]
            /\ \/ UNCHANGED <<answered, log>>
               \/ /\ answered' = Put(answered, key, answer)
                  /\ answer \in Answer /\ fits(answer)
                  /\ Emits
    <2>1. CASE key \in DOMAIN answered
      <3>1. answered[key] \in Answer /\ fits(answered[key])
        BY <2>1 DEF CellsOK, AnsweredCells, AnswerKey
      <3>2. QED
        BY <2>1, <3>1 DEF AnswerRow
    <2>2. CASE key \notin DOMAIN answered /\ "answer" \notin run.stages
      BY <2>2 DEF AnswerRow
    <2>3. CASE key \notin DOMAIN answered /\ "answer" \in run.stages
      <3> DEFINE answer == [asked |-> run.golden[r], prompt |-> run.prompt,
                            saw |-> Retrieved(run.golden[r], ReplyFor(a, r))]
      <3>1. ~Drifted(a, r)
        BY <2>3 DEF AnswerRow
      <3>2. ~RechunkBeside => answer.saw = run.ctx[a][r]
        BY <1>1, <3>1, ChainSawTheSame
      <3>3. answer.saw \in Ctx /\ run.golden[r] \in Nat /\ run.prompt \in Nat
        BY <1>1, RetrievedFits DEF RetrievedCell, Run
      <3>4. answer \in Answer /\ fits(answer)
        BY <3>2, <3>3 DEF Answer
      <3>5. QED
        BY <2>3, <3>4 DEF AnswerRow
    <2>4. QED
      BY <2>1, <2>2, <2>3
  <1>3. UNCHANGED <<mark, world, plans, resolved, retrieved, judged, report, runs, muddied>>
    BY DEF AnswerRow, boundVars
  <1>4. /\ run'.answers = [run.answers EXCEPT ![a][r] = answer]
        /\ run'.todo = run.todo \ {r} /\ run'.at = run.at /\ run'.arm = run.arm
        /\ SameSettings
        /\ run'.plans = run.plans /\ run'.ctx = run.ctx /\ run'.scores = run.scores
    BY <1>1, <1>2 DEF Run
  <1>5. run' \in Run
    BY <1>1, <1>2 DEF Run
  <1>6. Grows
    BY <1>1, <1>2, EmitsGrows DEF Grows
  <1>7. TypeOK'
    BY <1>1, <1>3, <1>4, <1>5, <1>6, LogTyped DEF TypeOK
  <1>8. CellsOK'
    <2>1. AnsweredCells'
      <3>1. fits(answer) => /\ answer.asked = key.asked /\ answer.prompt = key.prompt
                            /\ ~RechunkBeside => answer.saw = key.ctx
        BY DEF AnswerKey
      <3> HIDE DEF key, fits
      <3>2. QED
        BY <1>2, <3>1 DEF CellsOK, AnsweredCells, Put
    <2>2. ResolvedCells' /\ RetrievedCells' /\ JudgedCells'
      BY <1>3 DEF CellsOK, ResolvedCells, RetrievedCells, JudgedCells
    <2>3. QED
      BY <2>1, <2>2 DEF CellsOK
  <1>9. RunOK'
    <2>1. FingerprintHolds' /\ TodoFits' /\ Planned'
      BY <1>1, <1>3, <1>4 DEF RunOK, FingerprintHolds, TodoFits, Planned
    <2>2. ContextsFit'
      <3>1. \A i \in DOMAIN Arms, q \in run.rows :
                /\ Scored(i, q)' <=> Scored(i, q)
                /\ RetrievalKey(Arms[i], q)' = RetrievalKey(Arms[i], q)
        BY <1>1, <1>4 DEF Scored, RetrievalKey, ReplyFor
      <3>2. QED
        BY <1>1, <1>3, <1>4, <3>1 DEF RunOK, ContextsFit
    <2>3. NotYet'
      <3>1. \A i \in DOMAIN Arms : Arms[i] = a => i = run.arm
        BY <1>1
      <3>2. \A i \in DOMAIN Arms : Arms[i] # a => run'.answers[Arms[i]] = run.answers[Arms[i]]
        BY <1>1, <1>4 DEF Run, Arm
      <3>3. run.arm \in Nat
        BY <1>1
      <3>4. QED
        BY <1>1, <1>4, <3>1, <3>2, <3>3 DEF RunOK, NotYet
    <2>4. AnswersFit'
      <3>1. run'.answers[a][r] = answer
        BY <1>1, <1>4 DEF Run
      <3>2. \A b \in Arm, q \in Row : b # a \/ q # r => run'.answers[b][q] = run.answers[b][q]
        BY <1>1, <1>4 DEF Run
      <3>3. QED
        BY <1>1, <1>2, <1>4, <3>1, <3>2 DEF RunOK, AnswersFit
    <2>5. ScoresFit'
      <3>1. \A m \in Metric : run.scores[a][r][m] = None
        BY <1>1 DEF RunOK, NotYet
      <3>2. \A b \in Arm, q \in Row : b # a \/ q # r => run'.answers[b][q] = run.answers[b][q]
        BY <1>1, <1>4 DEF Run
      <3>3. QED
        BY <1>1, <1>4, <3>1, <3>2 DEF RunOK, ScoresFit
    <2>6. QED
      BY <2>1, <2>2, <2>3, <2>4, <2>5 DEF RunOK
  <1>10. WindowsOK'
    BY <1>1, <1>3, <1>4, <1>6, WindowsStay
  <1>11. ReportOK'
    BY <1>3, ReportStays
  <1>12. QED
    BY <1>7, <1>8, <1>9, <1>10, <1>11

LEMMA JudgeCellKeeps ==
    ASSUME IInv, NEW r \in Row, NEW m \in Metric, JudgeCell(r, m)
    PROVE  IInv'
  <1> DEFINE a == Arms[run.arm]
             key == JudgeKey(a, r, m)
             made == [answer |-> run.answers[a][r], ctx |-> run.ctx[a][r], judge |-> run.judge]
  <1> USE DEF IInv
  <1>1. /\ run # None /\ run \in Run /\ run.at = "judge" /\ <<r, m>> \in run.todo
        /\ r \in run.rows /\ run.arm \in DOMAIN Arms /\ a \in Arm
        /\ DOMAIN run.plans = run.rows
    BY DEF JudgeCell, At, TypeOK, Run, RunOK, TodoFits, Arm
  <1>2. PICK score \in {made, None} :
            /\ run' = [run EXCEPT !.scores[a][r][m] = score, !.todo = @ \ {<<r, m>>}]
            /\ \/ UNCHANGED judged
               \/ judged' = Put(judged, key, score) /\ score = made
    <2>1. key \in DOMAIN judged => judged[key] = made
      BY DEF CellsOK, JudgedCells, JudgeKey
    <2> HIDE DEF key
    <2>2. QED
      BY <2>1 DEF JudgeCell, key
  <1>3. UNCHANGED <<log, mark, world, plans, resolved, retrieved, answered, report, runs, muddied>>
    BY DEF JudgeCell, boundVars, windowVars
  <1>4. /\ run'.scores = [run.scores EXCEPT ![a][r][m] = score]
        /\ run'.todo = run.todo \ {<<r, m>>} /\ run'.at = run.at /\ run'.arm = run.arm
        /\ SameSettings
        /\ run'.plans = run.plans /\ run'.ctx = run.ctx /\ run'.answers = run.answers
    BY <1>1, <1>2 DEF Run
  <1>5. made \in Score
    BY <1>1 DEF Score, Run
  <1>6. run' \in Run
    <2>1. run.scores \in [Arm -> [Row -> [Metric -> Score \cup {None}]]]
      BY <1>1 DEF Run
    <2>2. score \in Score \cup {None}
      BY <1>2, <1>5
    <2>3. [run.scores[a][r] EXCEPT ![m] = score] \in [Metric -> Score \cup {None}]
      BY <1>1, <2>1, <2>2
    <2>4. run'.scores \in [Arm -> [Row -> [Metric -> Score \cup {None}]]]
      BY <1>1, <1>4, <2>1, <2>3
    <2>5. run'.todo \in SUBSET (Row \cup (Row \X Metric))
      BY <1>1, <1>4 DEF Run
    <2>6. run' = [run EXCEPT !.scores = run'.scores, !.todo = run'.todo]
      BY <1>1, <1>2, <1>4 DEF Run
    <2>7. QED
      BY <1>1, <2>4, <2>5, <2>6 DEF Run
  <1>7. TypeOK'
    BY <1>1, <1>3, <1>4, <1>6 DEF TypeOK
  <1>8. CellsOK'
    <2>1. JudgedCells'
      <3>1. made = [answer |-> key.answer, ctx |-> key.ctx, judge |-> key.judge]
        BY DEF JudgeKey
      <3> HIDE DEF key, made
      <3>2. QED
        BY <1>2, <1>5, <3>1 DEF CellsOK, JudgedCells, Put
    <2>2. ResolvedCells' /\ RetrievedCells' /\ AnsweredCells'
      BY <1>3 DEF CellsOK, ResolvedCells, RetrievedCells, AnsweredCells
    <2>3. QED
      BY <2>1, <2>2 DEF CellsOK
  <1>9. RunOK'
    <2>1. FingerprintHolds' /\ TodoFits' /\ Planned' /\ AnswersFit'
      BY <1>1, <1>3, <1>4 DEF RunOK, FingerprintHolds, TodoFits, Planned, AnswersFit
    <2>2. ContextsFit'
      <3>1. \A i \in DOMAIN Arms, q \in run.rows :
                /\ Scored(i, q)' <=> Scored(i, q)
                /\ RetrievalKey(Arms[i], q)' = RetrievalKey(Arms[i], q)
        BY <1>1, <1>4 DEF Scored, RetrievalKey, ReplyFor
      <3>2. QED
        BY <1>1, <1>3, <1>4, <3>1 DEF RunOK, ContextsFit
    <2>3. NotYet'
      <3>1. \A i \in DOMAIN Arms : Arms[i] = a => i = run.arm
        BY <1>1
      <3>2. \A i \in DOMAIN Arms : Arms[i] # a => run'.scores[Arms[i]] = run.scores[Arms[i]]
        BY <1>1, <1>4 DEF Run, Arm
      <3>3. run.arm \in Nat
        BY <1>1
      <3>4. QED
        BY <1>1, <1>4, <3>1, <3>2, <3>3 DEF RunOK, NotYet
    <2>4. ScoresFit'
      <3>1. run'.scores[a][r][m] = score
        BY <1>1, <1>4 DEF Run
      <3>2. \A b \in Arm, q \in Row, n \in Metric :
                b # a \/ q # r \/ n # m => run'.scores[b][q][n] = run.scores[b][q][n]
        BY <1>1, <1>4 DEF Run
      <3>3. QED
        BY <1>1, <1>2, <1>4, <3>1, <3>2 DEF RunOK, ScoresFit
    <2>5. QED
      BY <2>1, <2>2, <2>3, <2>4 DEF RunOK
  <1>10. WindowsOK'
    BY <1>1, <1>3, <1>4, WindowsStay DEF Grows
  <1>11. ReportOK'
    BY <1>3, ReportStays
  <1>12. QED
    BY <1>7, <1>8, <1>9, <1>10, <1>11

\* From one stage to the next, or to the next arm: all is retrieved that
\* the stages before had to retrieve.
LEMMA NextStageKeeps == ASSUME IInv, NextStage PROVE IInv'
  <1> USE DEF IInv
  <1>1. /\ run # None /\ run \in Run /\ run.at \in {"retrieve", "answer", "judge"}
        /\ run.todo = {} /\ run.arm \in DOMAIN Arms /\ DOMAIN run.plans = run.rows
        /\ run.rows \in SUBSET Row
    BY DEF NextStage, TypeOK, Run
  <1>2. UNCHANGED <<log, mark, world, plans, cellVars, report, runs, muddied>>
    BY DEF NextStage, windowVars, boundVars
  <1>3. PICK stage \in Place, arm \in DOMAIN Arms, todo \in SUBSET (Row \cup (Row \X Metric)) :
            /\ run' = [run EXCEPT !.at = stage, !.arm = arm, !.todo = todo]
            /\ \/ run.at = "retrieve" /\ stage = "answer" /\ arm = run.arm
                  /\ todo \subseteq run.rows
               \/ run.at = "answer" /\ stage = "judge" /\ arm = run.arm
                  /\ todo \subseteq run.rows \X Metric
               \/ run.at = "judge" /\ stage = "retrieve" /\ arm = run.arm + 1
                  /\ todo = run.rows
               \/ run.at = "judge" /\ stage = "emit" /\ arm = run.arm /\ arm = Len(Arms)
    <2> DEFINE stage == CASE run.at = "retrieve" -> "answer"
                          [] run.at = "answer" -> "judge"
                          [] run.at = "judge" /\ run.arm < Len(Arms) -> "retrieve"
                          [] OTHER -> "emit"
               arm == IF stage = "retrieve" THEN run.arm + 1 ELSE run.arm
    <2>1. run' = [run EXCEPT !.at = stage, !.arm = arm, !.todo = Work(stage, Arms[arm])]
      BY DEF NextStage
    <2>2. DOMAIN Arms = 1..Len(Arms) /\ Len(Arms) \in Nat
      OBVIOUS
    <2>3. CASE run.at = "retrieve"
      <3>1. stage = "answer" /\ arm = run.arm
        BY <2>3
      <3>2. Work("answer", Arms[arm]) \subseteq run.rows
        BY DEF Work
      <3>3. QED
        BY <1>1, <2>1, <2>3, <3>1, <3>2 DEF Place
    <2>4. CASE run.at = "answer"
      <3>1. stage = "judge" /\ arm = run.arm
        BY <2>4
      <3>2. Work("judge", Arms[arm]) \subseteq run.rows \X Metric
        BY DEF Work
      <3>3. Work("judge", Arms[arm]) \in SUBSET (Row \cup (Row \X Metric))
        BY <1>1, <3>2
      <3>4. QED
        BY <1>1, <2>1, <2>4, <3>1, <3>2, <3>3 DEF Place
    <2>5. CASE run.at = "judge" /\ run.arm < Len(Arms)
      <3>1. stage = "retrieve" /\ arm = run.arm + 1 /\ arm \in DOMAIN Arms
        BY <1>1, <2>2, <2>5
      <3>2. Work("retrieve", Arms[arm]) = run.rows
        BY DEF Work
      <3>3. QED
        BY <1>1, <2>1, <2>5, <3>1, <3>2 DEF Place
    <2>6. CASE run.at = "judge" /\ ~(run.arm < Len(Arms))
      <3>1. stage = "emit" /\ arm = run.arm /\ arm = Len(Arms)
        BY <1>1, <2>2, <2>6
      <3>2. Work("emit", Arms[arm]) = {}
        BY DEF Work
      <3>3. QED
        BY <1>1, <2>1, <2>6, <3>1, <3>2 DEF Place
    <2>7. QED
      BY <1>1, <2>3, <2>4, <2>5, <2>6
  <1>4. /\ run'.at = stage /\ run'.arm = arm /\ run'.todo = todo
        /\ SameSettings
        /\ run'.plans = run.plans /\ run'.ctx = run.ctx
        /\ run'.answers = run.answers /\ run'.scores = run.scores
    BY <1>1, <1>3 DEF Run
  <1>5. run' \in Run
    BY <1>1, <1>3 DEF Run
  <1>6. TypeOK'
    BY <1>1, <1>2, <1>4, <1>5 DEF TypeOK
  <1>7. CellsOK' /\ ReportOK'
    BY <1>2, CellsStay, ReportStays
  <1>8. RunOK'
    <2>1. FingerprintHolds' /\ Planned' /\ AnswersFit' /\ ScoresFit'
      BY <1>1, <1>2, <1>4 DEF RunOK, FingerprintHolds, Planned, AnswersFit, ScoresFit
    <2>2. TodoFits'
      BY <1>1, <1>3, <1>4 DEF TodoFits
    <2>3. ContextsFit'
      <3>1. ASSUME NEW i \in DOMAIN Arms, NEW q \in run.rows, Scored(i, q)'
            PROVE  Scored(i, q)
        BY <1>1, <1>3, <1>4, <3>1 DEF Scored
      <3>2. \A i \in DOMAIN Arms, q \in run.rows :
                RetrievalKey(Arms[i], q)' = RetrievalKey(Arms[i], q)
        BY <1>4 DEF RetrievalKey, ReplyFor
      <3>3. QED
        BY <1>1, <1>2, <1>4, <3>1, <3>2 DEF RunOK, ContextsFit
    <2>4. NotYet'
      BY <1>1, <1>3, <1>4 DEF RunOK, NotYet
    <2>5. QED
      BY <2>1, <2>2, <2>3, <2>4 DEF RunOK
  <1>9. WindowsOK'
    BY <1>1, <1>2, <1>4, WindowsStay DEF Grows
  <1>10. QED
    BY <1>6, <1>7, <1>8, <1>9

LEMMA EmitKeeps == ASSUME IInv, Emit PROVE IInv'
  <1> USE DEF IInv
  <1>1. run # None /\ run \in Run /\ run.at = "emit" /\ DOMAIN run.plans = run.rows
    BY DEF Emit, At, TypeOK
  <1>2. /\ UNCHANGED <<mark, world, plans, cellVars, report, runs, muddied>>
        /\ run' = [run EXCEPT !.at = "report"]
    BY DEF Emit, boundVars
  <1>3. Grows
    BY <1>1, EmitsGrows DEF Emit, Grows
  <1>4. /\ run'.at = "report" /\ run'.arm = run.arm /\ run'.todo = run.todo
        /\ SameSettings
        /\ run'.plans = run.plans /\ run'.ctx = run.ctx
        /\ run'.answers = run.answers /\ run'.scores = run.scores
    BY <1>1, <1>2 DEF Run
  <1>5. run' \in Run
    BY <1>1, <1>2 DEF Run, Place
  <1>6. TypeOK'
    BY <1>1, <1>2, <1>3, <1>4, <1>5, LogTyped DEF TypeOK
  <1>7. CellsOK' /\ ReportOK'
    BY <1>2, CellsStay, ReportStays
  <1>8. RunOK'
    <2>1. FingerprintHolds' /\ TodoFits' /\ Planned' /\ NotYet' /\ AnswersFit' /\ ScoresFit'
      BY <1>1, <1>2, <1>4
      DEF RunOK, FingerprintHolds, TodoFits, Planned, NotYet, AnswersFit, ScoresFit
    <2>2. ContextsFit'
      <3>1. \A i \in DOMAIN Arms, q \in run.rows :
                /\ Scored(i, q)' <=> Scored(i, q)
                /\ RetrievalKey(Arms[i], q)' = RetrievalKey(Arms[i], q)
        BY <1>1, <1>4 DEF Scored, RetrievalKey, ReplyFor
      <3>2. QED
        BY <1>1, <1>2, <1>4, <3>1 DEF RunOK, ContextsFit
    <2>3. QED
      BY <2>1, <2>2 DEF RunOK
  <1>9. WindowsOK'
    BY <1>1, <1>2, <1>3, <1>4, WindowsStay
  <1>10. QED
    BY <1>6, <1>7, <1>8, <1>9

\* The artifact is written when every arm is scored.
LEMMA RenderKeeps == ASSUME IInv, Render PROVE IInv'
  <1> USE DEF IInv
  <1>1. /\ run # None /\ run \in Run /\ run.at = "report" /\ run.arm = Len(Arms)
        /\ run.rows \in SUBSET Row
    BY DEF Render, At, TypeOK, RunOK, TodoFits, Run
  <1>2. UNCHANGED <<log, mark, world, plans, cellVars, runs, muddied>> /\ run' = None
    BY DEF Render, windowVars, boundVars
  <1>3. report' = [rows |-> run.rows, golden |-> run.golden, plans |-> run.plans,
                   prompt |-> run.prompt, judge |-> run.judge,
                   fingerprint |-> run.fingerprint, ctx |-> run.ctx,
                   answers |-> run.answers, scores |-> run.scores,
                   window |-> run.window, lines |-> LinesIn(run.window, run.sink)]
    BY DEF Render
  <1>4. TypeOK' /\ CellsOK' /\ RunOK' /\ WindowsOK'
    BY <1>2, CellsStay, Closed, WindowsStay DEF TypeOK, Grows
  <1>5. ASSUME NEW a \in Arm, NEW r \in run.rows
        PROVE  RetrievedCell(RetrievalKey(a, r), run.ctx[a][r], muddied)
    <2>1. PICK i \in DOMAIN Arms : a = Arms[i]
      BY DEF Arm
    <2>2. Scored(i, r)
      BY <1>1, <2>1 DEF Scored
    <2>3. QED
      BY <1>1, <2>1, <2>2 DEF RunOK, ContextsFit
  <1>6. \A p \in Arm \X run.rows : p[1] \in Arm /\ p[2] \in run.rows /\ p[2] \in Row
    BY <1>1
  <1>7. /\ report'.rows = run.rows /\ report'.golden = run.golden /\ report'.plans = run.plans
        /\ report'.prompt = run.prompt /\ report'.judge = run.judge
        /\ report'.fingerprint = run.fingerprint /\ report'.ctx = run.ctx
        /\ report'.answers = run.answers /\ report'.scores = run.scores
        /\ Reported' \subseteq Arm \X run.rows
    BY <1>3 DEF Reported
  <1>8. OneExperiment'
    <2>1. ASSUME NEW a \in Arm, NEW r \in run.rows
          PROVE  /\ run.ctx[a][r].asked = run.golden[r]
                 /\ run.ctx[a][r].reply = IF a \in Plans THEN run.plans[r].reply ELSE None
      BY <1>5 DEF RetrievedCell, RetrievalKey, ReplyFor
    <2>2. \A r \in run.rows : run.plans[r].asked = run.golden[r]
      BY <1>1 DEF RunOK, Planned
    <2>3. \A a \in Arm, r \in Row :
              /\ run.answers[a][r] # None =>
                    /\ run.answers[a][r].asked = run.golden[r]
                    /\ run.answers[a][r].prompt = run.prompt
              /\ \A m \in Metric : run.scores[a][r][m] # None =>
                    run.scores[a][r][m] = [answer |-> run.answers[a][r], ctx |-> run.ctx[a][r],
                                           judge |-> run.judge]
      BY <1>1 DEF RunOK, AnswersFit, ScoresFit
    <2>4. QED
      BY <1>6, <1>7, <2>1, <2>2, <2>3 DEF OneExperiment
  <1>9. FingerprintIsHonest'
    <2>1. \A a \in Arm, r \in run.rows :
              run.fingerprint \notin muddied =>
                  [ids |-> run.ctx[a][r].ids, text |-> run.ctx[a][r].text] = run.fingerprint
      BY <1>5 DEF RetrievedCell, RetrievalKey
    <2>2. QED
      BY <1>2, <1>6, <1>7, <2>1 DEF FingerprintIsHonest
  <1>10. ~RechunkBeside => AnswersSawTheirContexts'
    <2>1. \A a \in Arm, r \in Row :
              ~RechunkBeside /\ run.answers[a][r] # None => run.answers[a][r].saw = run.ctx[a][r]
      BY <1>1 DEF RunOK, AnswersFit
    <2>2. QED
      BY <1>6, <1>7, <2>1 DEF AnswersSawTheirContexts
  <1>11. PastStaysOut'
    <2> DEFINE lines == LinesIn(run.window, run.sink)
    <2>1. ASSUME NEW i \in DOMAIN lines PROVE lines[i].era >= run.window.run
      <3>1. CASE run.window = None
        BY <3>1 DEF LinesIn
      <3>2. CASE run.window # None
        <4>1. /\ run.window \in Window /\ run.window.path = run.sink
              /\ Fresh(log[run.sink], run.window)
          BY <1>1, <3>2 DEF Run, WindowsOK, NothingOlder
        <4>2. log[run.sink] \in Seq(Line)
          BY <4>1 DEF TypeOK, Window
        <4>3. lines = SubSeq(log[run.sink], run.window.offset + 1, Len(log[run.sink]))
          BY <3>2 DEF LinesIn
        <4>4. run.window.offset \in Nat
          BY <4>1 DEF Window
        <4> DEFINE ls == log[run.sink]
                   o == run.window.offset
        <4>5. i \in Nat /\ i + o \in DOMAIN ls /\ i + o > o /\ lines[i] = ls[i + o]
          <5> HIDE DEF lines
          <5>1. lines = SubSeq(ls, o + 1, Len(ls))
            BY <4>3
          <5> HIDE DEF ls, o
          <5>2. ls \in Seq(Line) /\ o \in Nat
            BY <4>2, <4>4 DEF ls, o
          <5>3. i \in 1..(Len(ls) - o) /\ lines[i] = ls[(o + 1) + i - 1]
            BY <2>1, <5>1, <5>2
          <5>4. QED
            BY <5>2, <5>3
        <4>6. QED
          BY <4>1, <4>5 DEF Fresh
      <3>3. QED
        BY <3>1, <3>2
    <2> HIDE DEF lines
    <2>2. report'.lines = lines /\ report'.window = run.window
      BY <1>3 DEF lines
    <2>3. QED
      BY <2>1, <2>2 DEF PastStaysOut
  <1>12. QED
    BY <1>4, <1>8, <1>9, <1>10, <1>11 DEF ReportOK


-------------------------------------------------------------------------------
(* A run ends otherwise, and what changes around it.                       *)

LEMMA DieKeeps == ASSUME IInv, Die \/ DieMarking PROVE IInv'
  <1> USE DEF IInv
  <1>1. /\ run' = None /\ mark' \in {mark, None}
        /\ UNCHANGED <<log, world, plans, cellVars, report, runs, muddied>>
    BY DEF Die, DieMarking, windowVars, boundVars
  <1>2. TypeOK'
    BY <1>1 DEF TypeOK
  <1>3. CellsOK' /\ RunOK' /\ ReportOK'
    BY <1>1, CellsStay, Closed, ReportStays
  <1>4. WindowsOK'
    BY <1>1, WindowsStay DEF Grows
  <1>5. QED
    BY <1>2, <1>3, <1>4

\* What a run reads is read when it begins; cells are never rewritten.
LEMMA EditKeeps ==
    ASSUME IInv, Reword \/ ClearPlans
    PROVE  IInv'
  <1> USE DEF IInv
  <1>1. /\ run' = None /\ run = None
        /\ UNCHANGED <<log, mark, plans, retrieved, answered, judged, report, runs, muddied>>
        /\ resolved' = resolved \/ resolved' = <<>>
    BY DEF Reword, ClearPlans, windowVars, cellVars
  <1>2. world' \in World
    <2>1. world \in World
      BY DEF TypeOK
    <2>2. CASE world' = world
      BY <2>1, <2>2
    <2>3. ASSUME NEW r \in Row, world' = [world EXCEPT !.golden[r] = @ + 1]
          PROVE  world' \in World
      <3>1. world.golden[r] + 1 \in Nat
        BY <2>1 DEF World
      <3>2. [world.golden EXCEPT ![r] = world.golden[r] + 1] \in [Row -> Nat]
        BY <2>1, <3>1 DEF World
      <3>3. world' = [world EXCEPT !.golden = [world.golden EXCEPT ![r] = world.golden[r] + 1]]
        BY <2>1, <2>3 DEF World
      <3>4. QED
        BY <2>1, <3>2, <3>3 DEF World
    <2>4. CASE world' = [world EXCEPT !.prompt = @ + 1]
      BY <2>1, <2>4 DEF World
    <2>5. CASE world' = [world EXCEPT !.judge = @ + 1]
      BY <2>1, <2>5 DEF World
    <2>6. QED
      BY <2>2, <2>3, <2>4, <2>5 DEF Reword, ClearPlans
  <1>3. TypeOK'
    BY <1>1, <1>2 DEF TypeOK
  <1>4. CellsOK'
    <2>1. RetrievedCells' /\ AnsweredCells' /\ JudgedCells'
      BY <1>1 DEF CellsOK, RetrievedCells, AnsweredCells, JudgedCells
    <2>2. ResolvedCells'
      BY <1>1 DEF CellsOK, ResolvedCells
    <2>3. QED
      BY <2>1, <2>2 DEF CellsOK
  <1>5. RunOK' /\ ReportOK'
    BY <1>1, Closed, ReportStays
  <1>6. WindowsOK'
    BY <1>1, WindowsStay DEF Grows
  <1>7. QED
    BY <1>3, <1>4, <1>5, <1>6

\* An ingest beside a run muddies its fingerprint; and unless bodies change
\* under their ids, ids and bodies move together.
LEMMA IngestKeeps == ASSUME IInv, Ingest PROVE IInv'
  <1> USE DEF IInv
  <1>1. /\ UNCHANGED <<log, mark, plans, cellVars, run, report, runs>>
        /\ muddied' = IF run = None THEN muddied ELSE muddied \cup {run.fingerprint}
    BY DEF Ingest, windowVars
  <1>2. world \in World /\ world.collection \in Collection
    BY DEF TypeOK, World
  <1>3. /\ world' \in World
        /\ run # None /\ ~RechunkBeside => Ahead(world'.collection) = Ahead(world.collection)
    <2>1. CASE world' = [world EXCEPT !.collection.ids = @ + 1, !.collection.text = @ + 1]
      <3>1. world'.collection = [ids |-> world.collection.ids + 1,
                                 text |-> world.collection.text + 1]
        BY <1>2, <2>1 DEF World, Collection
      <3>2. world' = [world EXCEPT !.collection = world'.collection]
        BY <1>2, <2>1, <3>1 DEF World, Collection
      <3>3. world' \in World
        BY <1>2, <3>1, <3>2 DEF World, Collection
      <3>4. Ahead(world'.collection) = Ahead(world.collection)
        BY <1>2, <3>1 DEF Ahead, Collection
      <3>5. QED
        BY <3>3, <3>4
    <2>2. CASE /\ run = None \/ RechunkBeside
               /\ world' = [world EXCEPT !.collection.text = @ + 1]
      <3>1. [world.collection EXCEPT !.text = world.collection.text + 1] \in Collection
        BY <1>2 DEF Collection
      <3>2. world' = [world EXCEPT !.collection =
                         [world.collection EXCEPT !.text = world.collection.text + 1]]
        BY <1>2, <2>2 DEF World
      <3>3. QED
        BY <1>2, <2>2, <3>1, <3>2 DEF World
    <2>3. QED
      BY <2>1, <2>2 DEF Ingest
  <1>4. TypeOK' /\ CellsOK' /\ ReportOK'
    BY <1>1, <1>3, CellsStay, ReportStays DEF TypeOK
  <1>5. RunOK'
    <2>1. FingerprintHolds'
      BY <1>1, <1>3 DEF RunOK, FingerprintHolds
    <2>2. TodoFits' /\ Planned' /\ NotYet' /\ AnswersFit' /\ ScoresFit'
      BY <1>1 DEF RunOK, TodoFits, Planned, NotYet, AnswersFit, ScoresFit
    <2>3. ContextsFit'
      <3>1. \A i \in DOMAIN Arms, r \in run.rows :
                Scored(i, r)' = Scored(i, r) /\ RetrievalKey(Arms[i], r)' = RetrievalKey(Arms[i], r)
        BY <1>1 DEF Scored, RetrievalKey, ReplyFor
      <3>2. QED
        BY <1>1, <3>1 DEF RunOK, ContextsFit, RetrievedCell
    <2>4. QED
      BY <2>1, <2>2, <2>3 DEF RunOK
  <1>6. WindowsOK'
    BY <1>1 DEF WindowsOK, NothingOlder
  <1>7. QED
    BY <1>4, <1>5, <1>6

\* Another process's line is of today's era, and a recreated file has none.
LEMMA ElsewhereKeeps == ASSUME IInv, Elsewhere PROVE IInv'
  <1> USE DEF IInv
  <1>1. UNCHANGED <<mark, world, plans, cellVars, run, report, runs, muddied>>
    BY DEF Elsewhere, OtherWrites, Recreated
  <1>2. log \in [Sink -> Seq(Line)] /\ runs \in Nat
    BY DEF TypeOK
  <1>3. PICK s \in Sink : OtherWrites(s, runs) \/ Recreated(s)
    BY DEF Elsewhere
  <1>4. CASE OtherWrites(s, runs)
    <2>1. [by |-> Other, era |-> runs] \in Line
      BY <1>2 DEF Line, Other
    <2>2. log' = [log EXCEPT ![s] = Append(log[s], [by |-> Other, era |-> runs])]
      BY <1>4 DEF OtherWrites, Append1
    <2>3. Grows
      BY <2>1, <2>2 DEF Grows
    <2>4. log' \in [Sink -> Seq(Line)] /\ WindowsOK'
      BY <1>1, <2>3, LogTyped, WindowsStay
    <2>5. QED
      BY <1>1, <2>4, CellsStay, ReportStays, RunStays DEF TypeOK
  <1>5. CASE Recreated(s)
    <2>1. log' = [log EXCEPT ![s] = <<>>] /\ <<>> \in Seq(Line)
      BY <1>5 DEF Recreated
    <2>2. log' \in [Sink -> Seq(Line)]
      BY <1>2, <2>1
    <2>3. ASSUME NEW w \in Window, NothingOlder(w) PROVE NothingOlder(w)'
      <3>1. w.path \in Sink
        BY DEF Window
      <3>2. log'[w.path] = log[w.path] \/ log'[w.path] = <<>>
        BY <1>2, <2>1, <3>1
      <3>3. QED
        BY <1>1, <2>3, <3>2 DEF NothingOlder, Fresh
    <2>4. (mark # None => mark \in Window) /\ (run # None => run.window \in Window \cup {None})
      BY DEF TypeOK, Run
    <2>5. WindowsOK'
      BY <1>1, <2>3, <2>4 DEF WindowsOK
    <2>6. QED
      BY <1>1, <2>2, <2>5, CellsStay, ReportStays, RunStays DEF TypeOK
  <1>6. QED
    BY <1>3, <1>4, <1>5

LEMMA NextKeepsIInv == IInv /\ [Next]_vars => IInv'
  <1> SUFFICES ASSUME IInv, [Next]_vars PROVE IInv'
    OBVIOUS
  <1>1. ASSUME NEW i \in Invocation, Begin(i) PROVE IInv'
    BY <1>1, BeginKeeps
  <1>2. ASSUME NEW r \in Row, ResolveRow(r) \/ RetrieveRow(r) \/ AnswerRow(r) PROVE IInv'
    BY <1>2, ResolveRowKeeps, RetrieveRowKeeps, AnswerRowKeeps
  <1>3. ASSUME NEW r \in Row, NEW m \in Metric, JudgeCell(r, m) PROVE IInv'
    BY <1>3, JudgeCellKeeps
  <1>4. CASE SavePlans \/ LoadPlans \/ NextStage \/ Emit \/ Render \/ Die \/ DieMarking
    BY <1>4, SavePlansKeeps, LoadPlansKeeps, NextStageKeeps, EmitKeeps, RenderKeeps, DieKeeps
  <1>5. CASE Reword \/ Ingest \/ ClearPlans \/ Elsewhere
    BY <1>5, EditKeeps, IngestKeeps, ElsewhereKeeps
  <1>6. CASE UNCHANGED vars
    <2>1. UNCHANGED <<log, mark, world, plans, cellVars, run, report, runs, muddied>>
      BY <1>6 DEF vars, windowVars, boundVars
    <2>2. WindowsOK'
      BY <2>1 DEF IInv, WindowsOK, NothingOlder
    <2>3. QED
      BY <2>1, <2>2, CellsStay, ReportStays, RunStays DEF IInv, TypeOK
  <1>7. QED
    BY <1>1, <1>2, <1>3, <1>4, <1>5, <1>6 DEF Next, RunStep

-------------------------------------------------------------------------------
LEMMA Invariant == Spec => []IInv
  BY InitIInv, NextKeepsIInv, PTL DEF Spec

(* Whatever runs were begun, died or were partial before it, every cell of *)
(* a written artifact is what that run's own settings name: the wording,   *)
(* the planner's reply, the prompt and the judge (pipeline's keys).        *)
THEOREM ArtifactIsOneExperiment == Spec => []OneExperiment
  <1>1. IInv => OneExperiment
    BY DEF IInv, ReportOK
  <1>2. QED
    BY <1>1, Invariant, PTL

(* The contexts come from the collection the artifact's provenance names,  *)
(* unless an ingest ran beside a run under that fingerprint: a cell an     *)
(* ingest spoilt is known by the fingerprint in its key.                   *)
THEOREM ArtifactNamesItsCollection == Spec => []FingerprintIsHonest
  <1>1. IInv => FingerprintIsHonest
    BY DEF IInv, ReportOK
  <1>2. QED
    BY <1>1, Invariant, PTL

(* Where bodies change under their ids only between runs, the comparison   *)
(* of chunk ids (ContextDrift) is enough: every answer in the artifact was *)
(* generated over the bodies it is scored against, and those are the       *)
(* provenance's.                                                           *)
THEOREM ArtifactNamesItsContexts == ~RechunkBeside => (Spec => []ContextsAreTheOnesNamed)
  <1>1. ~RechunkBeside /\ IInv => ContextsAreTheOnesNamed
    BY DEF IInv, ReportOK, ContextsAreTheOnesNamed
  <1>2. ASSUME ~RechunkBeside PROVE Spec => []ContextsAreTheOnesNamed
    <2>1. IInv => ContextsAreTheOnesNamed
      BY <1>1, <1>2
    <2>2. QED
      BY <2>1, Invariant, PTL
  <1>3. QED
    BY <1>2

(* No line older than the run whose window an artifact names is in its     *)
(* figures, though sinks are rotated, marks are lost with a killed run and *)
(* other processes write to the same file (events.sink_offset).            *)
THEOREM ArtifactLeavesThePastOut == Spec => []PastStaysOut
  <1>1. IInv => PastStaysOut
    BY DEF IInv, ReportOK
  <1>2. QED
    BY <1>1, Invariant, PTL
===============================================================================
