------------------------------ MODULE Algorithms ------------------------------
(***************************************************************************)
(* The pure functions the measurements rest on, one call per behaviour:    *)
(* a job is an input, the step computes its result.                        *)
(***************************************************************************)
EXTENDS Translation, Fusion, SignedRank, Analytics, SecuritySuite,
    Transcript, Hypotheses, LiveReadings

CONSTANT Jobs   \* the inputs tried

IsList(seq) == seq \in Seq(ToSet(seq))

(* A reply is read line by line, a word takes up room, and what stands for *)
(* a number in brackets is one.                                            *)
ASSUME JobsAssumption ==
    \A j \in Jobs :
       /\ j.kind = "translate" => IsList(j.reply) /\ j.cap \in Nat
       /\ j.kind = "screen" => \A i \in DOMAIN j.asked : IsQuestion(j.asked[i].question)
       /\ j.kind = "show" =>
             /\ IsList(j.answer)
             /\ \A i \in Brackets(j.answer, "number") : j.answer[i].value \in Nat
       /\ j.kind = "suite" =>
             /\ IsList(j.corpus.cases) /\ IsList(j.corpus.answers) /\ IsList(j.corpus.planted)

VARIABLES job, result

vars == <<job, result>>

Pending == [kind |-> "pending"]

Init == job \in Jobs /\ result = Pending

Compute(kind, answer) ==
    /\ result = Pending
    /\ job.kind = kind
    /\ result' = answer
    /\ UNCHANGED job

TranslateQuestion ==
    Compute("translate",
            [kind |-> "variants", variants |-> Translate(job.question, job.reply, job.cap)])

FuseLists ==
    Compute("fuse", [kind |-> "contexts", contexts |-> Fuse(job.lists, job.limit)])

CompareArms ==
    Compute("compare", [kind |-> "verdict", p |-> SignedRankP(job.deltas),
                        verdict |-> Verdict(job.deltas)])

RatePower ==
    Compute("power", [kind |-> "tolerated", tolerated |-> ToleratedMinoritySigns(job.pairs)])

ReadLog ==
    LET sink == OpenSink(job.place, job.file) IN
    Compute("read", [kind |-> "page", sink |-> sink, page |-> Page(sink)])

\* The questions a log records, each with what the classifier did.
ScreenQuestions ==
    LET screened == [i \in DOMAIN job.asked |-> Screen(job.asked[i].question, job.asked[i].reply)]
    IN Compute("screen",
               [kind |-> "screenings",
                screenings |-> [i \in DOMAIN screened |-> screened[i].screening],
                log |-> FlattenSeq([i \in DOMAIN screened |-> screened[i].log])])

ShowAnswer ==
    Compute("show", Merged([kind |-> "shown"], Show(job.answer, job.ranks, job.guardWorks)))

RunTheSuite ==
    LET run == RunSuite(job.corpus, job.gateOnly, job.guardWorks) IN
    Compute("suite", [kind |-> "suite", passed |-> SuitePassed(run),
                      contribution |-> MarginalContribution(run), planted |-> PlantedOutcome(run)])

ExportTranscript ==
    LET transcript == TranscriptOf(job.rows) IN
    Compute("export", [kind |-> "file", page |-> SessionPage(job.rows), json |-> AsJson(transcript),
                       csv |-> AsCsv(transcript), line |-> ExportLine(transcript)])

DecideRun ==
    Compute("decide", Merged([kind |-> "decisions"], Decide(job.cells)))

\* A window several threads appended to.
ReadWindow ==
    Compute("window", Merged([kind |-> "readings"], Readings([events |-> job.events])))

Next == \/ TranslateQuestion \/ FuseLists \/ CompareArms \/ RatePower \/ ReadLog
        \/ ScreenQuestions \/ ShowAnswer \/ RunTheSuite \/ ExportTranscript \/ DecideRun \/ ReadWindow

Spec == Init /\ [][Next]_vars

-------------------------------------------------------------------------------

(* The question is retrieved as it was typed, and no two variants differ   *)
(* only in case: a candidate list that came twice would vote twice         *)
(* (query_translation.py:119-127).  Within the cap nothing usable the      *)
(* planner said is lost, and the page can still tell the deterministic     *)
(* form from the planner's lines.                                          *)
VariantsAreSound ==
    result.kind = "variants" =>
       LET v == result.variants
           form == Normalised(job.question)
           planned == SubSeq(v, 2 + Len(form), Len(v))
       IN
       /\ v[1] = job.question
       /\ Cardinality(Folds(v)) = Len(v)
       /\ Len(planned) <= job.cap
       /\ \E kept \in SUBSET DOMAIN job.reply : planned = Those(job.reply, kept)
       /\ Len(planned) < job.cap =>
             \A i \in DOMAIN job.reply :
                job.reply[i] # Noise => job.reply[i].fold \in Folds(v)
       /\ AddedVariants(v) = [form |-> form, planned |-> planned]

(* How many lists rank c, and the sum of their votes, without an order.    *)
Votes(lists, c) == {i \in DOMAIN lists : c \in ToSet(lists[i].hits)}

(* Fusion returns the best of everything that was found, whatever order    *)
(* the lists came in: cut only after the whole pool is ranked, equal       *)
(* scores settled by id.  At the depths used agreement decides: a chunk    *)
(* more lists found stands above one that fewer did (hybrid.py:271-283).   *)
FusionIsRRF ==
    result.kind = "contexts" =>
       LET lists == job.lists
           out == result.contexts
           found == ChunksOf(lists)
           sum(c) == SumFunctionOnSet(
                        [i \in Votes(lists, c) |-> Contribution(RankIn(lists[i], c))],
                        Votes(lists, c))
           better(c, d) ==
              \/ Cardinality(Votes(lists, c)) > Cardinality(Votes(lists, d))
              \/ /\ Cardinality(Votes(lists, c)) = Cardinality(Votes(lists, d))
                 /\ sum(c) > sum(d) \/ (sum(c) = sum(d) /\ c < d)
       IN
       /\ Len(out) = Min({job.limit, Cardinality(found)})
       /\ ToSet(out) \subseteq found
       /\ \A i \in DOMAIN out :
             \A d \in found \ {out[j] : j \in 1..i} : better(out[i], d)

(* The sets of differences whose ranks add up, read as the positive ones:  *)
(* under the null every one of them is equally likely.                     *)
Assignments(deltas) == SUBSET DOMAIN NonZero(deltas)

RankSum(deltas, s) == SumFunctionOnSet(Midranks(NonZero(deltas)), s)

(* The numerator of the two-sided tail when the ranks of s are positive.   *)
TwoSided(deltas, s) ==
    LET w == RankSum(deltas, s)
        low == {a \in Assignments(deltas) : RankSum(deltas, a) <= w}
        high == {a \in Assignments(deltas) : RankSum(deltas, a) >= w}
    IN Min({2 ^ Len(NonZero(deltas)), 2 * Min({Cardinality(low), Cardinality(high)})})

(* The convolution's p-value is the two-sided tail of the 2^n equally      *)
(* likely sign assignments, ties and all (metrics.py:400-415).  A pairing  *)
(* is called undetectable exactly when no signs on its differences could   *)
(* have been significant, and better or worse only when its own are        *)
(* (metrics.py:472-480).                                                   *)
SignedRankIsExact ==
    result.kind = "verdict" =>
       LET signed == NonZero(job.deltas)
           n == Len(signed)
           own == TwoSided(job.deltas, {i \in DOMAIN signed : signed[i] > 0})
           some == \E s \in Assignments(job.deltas) : Reaches(TwoSided(job.deltas, s), n)
       IN
       /\ signed # <<>> => result.p = own
       /\ job.deltas # <<>> =>
             /\ result.verdict = "undetectable" <=> (signed = <<>> \/ ~some)
             /\ result.verdict \in {"better", "worse"} <=> (signed # <<>> /\ Reaches(own, n))

(* Whatever the magnitudes, ties among them included, more differences     *)
(* than tolerated_minority_signs says pointing the other way do not reach  *)
(* alpha (metrics.py:277-303): "the ceiling on what any real data could    *)
(* tolerate".  With alpha at 0.05 this is so up to the eight pairs the     *)
(* report asks about, and no longer at nine.                               *)
ToleratedIsCeiling ==
    result.kind = "tolerated" =>
       \A k \in (result.tolerated + 1)..(job.pairs \div 2) :
          \A steps \in [2..job.pairs -> {0, 1}] :
             LET magnitude(i) == 1 + SumFunctionOnSet(steps, 2..i) IN
             ~Reaches(SignedRankP([i \in 1..job.pairs |->
                                     IF i <= k THEN -magnitude(i) ELSE magnitude(i)]),
                      job.pairs)

(* The test is exact, and so is what the harness says of its own power.    *)
TestIsExact == SignedRankIsExact /\ ToleratedIsCeiling

RowsOf(tally) == BagCardinality(tally.rows)

SumOver(f) == SumFunctionOnSet(f, DOMAIN f)

\* Two measured totals added, an unmeasured one adding nothing.
Added(totals) == SumOver([i \in DOMAIN totals |-> IF totals[i] = None THEN 0 ELSE totals[i]])

(* What every slice of token lines must add up to.                         *)
Adds(parts, whole) ==
    /\ SumOver([p \in DOMAIN parts |-> parts[p].calls]) = whole.calls
    /\ SumOver([p \in DOMAIN parts |-> parts[p].floored]) = whole.floored
    /\ Added([p \in DOMAIN parts |-> parts[p].input.total]) = Added(<<whole.input.total>>)
    /\ Added([p \in DOMAIN parts |-> parts[p].output.total]) = Added(<<whole.output.total>>)

(* However the page slices a log, nothing is lost and nothing counted      *)
(* twice: the models and the planner, and the threads and the lines        *)
(* outside any, each add up to the totals beside them, a day or an arm     *)
(* misses only what is counted apart, and a chart's rows and its absences  *)
(* are the lines it is over (analytics.py:1092, 1187-1200, 1265).          *)
PartsMakeTheWhole ==
    (result.kind = "page" /\ "log" \in DOMAIN result.sink) =>
       LET log == result.sink.log
           spend == SpendOverTime(log)
           models == ByModel(log)
           planner == TokenTotals(Of(log, {"query_translation"}))
           threads == {e.turn.thread : e \in {x \in ToSet(log.events) : x.turn # None}}
           threadless == TokenTotals(Where(LAMBDA e : e.turn = None, Of(log, TOKEN_EVENTS)))
           unmetered == Where(LAMBDA e : e.day \notin DOMAIN spend.byDay, Of(log, TOKEN_EVENTS))
           activity == Activity(log)
           gate == GateSummary(log)
           pools == RetrievalLatency(log)
           rounds == PlannerCost(log)
           tools == ToolSummary(log)
       IN
       /\ Len(log.events) + log.malformed = Cardinality(LineEnds(job.file))
       /\ Adds([m \in DOMAIN models |-> models[m].tokens] @@ ("planner" :> planner), spend.totals)
       /\ Adds([t \in threads |-> ConversationSpend(log, t)] @@ ("threadless" :> threadless),
               spend.totals)
       /\ Adds(spend.byDay @@ (0 :> TokenTotals(unmetered)), spend.totals)
       /\ \A count \in DOMAIN activity.total :
             SumOver([d \in DOMAIN activity.byDay |-> activity.byDay[d][count]])
             = activity.total[count]
       /\ SumOver([a \in DOMAIN pools.arms |-> Len(pools.arms[a].values) + pools.arms[a].absent])
          + pools.unattributed = Len(Of(log, {"retrieval"}))
       /\ Len(rounds.latency.values) + rounds.latency.absent + rounds.unmetered + rounds.disabled
          = Len(Of(log, {"query_translation"}))
       /\ \A tally \in {gate.byLayer, gate.byRule, gate.verdicts, gate.failOpen, tools.byTool,
                         tools.byTicker, tools.refused, tools.unavailable, tools.byError,
                         tools.staleFallbacks} :
             RowsOf(tally) + tally.absent = tally.lines

(* Everything the page computes that is a measurement and not a count of   *)
(* lines: no line without the field it reads may move it.                  *)
Measurements(log) ==
    LET gate == GateSummary(log)
        agent == AgentBehaviour(log)
        cited == Citations(log)
        tools == ToolSummary(log)
        totals == SpendOverTime(log).totals
    IN <<gate.classifierRan, gate.latency.values, gate.byRule.rows, gate.verdicts,
         agent.searches, agent.divergence, agent.grounded, agent.searched, agent.toolsUsed.rows,
         agent.perTurn.values, agent.financeCalls.values, agent.latency.values,
         cited.support, cited.clean, cited.nonNumeric,
         tools.byTool.rows, tools.byTicker.rows, tools.stale, tools.age.values,
         tools.refused.rows, tools.byError.rows, tools.staleFallbacks.rows,
         totals.input.total, totals.output.total, RetrievalLatency(log).overall.values,
         PlannerCost(log).latency.values>>

(* The lines without one, published beside each of them.                   *)
Absences(log) ==
    LET agent == AgentBehaviour(log)
        tools == ToolSummary(log)
    IN [agent_turn |-> {agent.divergenceAbsent, agent.toolsUsed.absent, agent.perTurn.absent,
                        agent.financeCalls.absent, agent.latency.absent},
        citation_markers |-> {Citations(log).absent},
        input_gate |-> {GateSummary(log).latency.absent},
        retrieval |-> {RetrievalLatency(log).overall.absent, RetrievalLatency(log).unattributed},
        tool_call |-> {tools.byTool.absent, tools.byTicker.absent, tools.age.absent},
        tool_refused |-> {tools.refused.absent},
        tool_unavailable |-> {tools.unavailable.absent, tools.byError.absent},
        stale_fallback |-> {tools.staleFallbacks.absent},
        query_translation |-> {PlannerCost(log).unmetered}]

(* A line an older build wrote, with none of the fields a panel reads,     *)
(* moves no rate, median or total of the page; it raises what the page     *)
(* says it could not measure, by one (analytics.py:505-523).  A screening  *)
(* without its verdict is the exception: it counts as not blocked.         *)
AbsenceIsNotZero ==
    (result.kind = "page" /\ result.sink.state = "readable") =>
       LET log == result.sink.log
           older(name) == [log EXCEPT !.events = Append(@, Event(name, None, 1, <<>>))]
       IN \A name \in DOMAIN Absences(log) :
             /\ Measurements(older(name)) = Measurements(log)
             /\ Absences(older(name))[name] = {n + 1 : n \in Absences(log)[name]}

(* What a line is enough for the page to draw.                             *)
Draws(e) ==
    LET carries(name, fields) ==
            e.name = name /\ \A f \in fields : Field(e, f) \notin {None, Odd}
        number(name, f) == e.name = name /\ IsNumber(Field(e, f))
    IN
            ("questions, turns or failures" :>
                (e.name \in {"input_gate", "agent_turn", "chat_turn_failed"})
             @@ "gate latency" :> number("input_gate", "latency_ms")
             @@ "denylist rule hits" :> (carries("input_gate", {"rule"}) /\ Truthy(e, "blocked"))
             @@ "fail-open events" :> (e.name \in FAIL_OPEN_EVENTS)
             @@ "agent turns" :> (e.name = "agent_turn")
             @@ "turn latency" :> number("agent_turn", "latency_ms")
             @@ "citation-marker records" :> (e.name = "citation_markers")
             @@ "served stale" :> (e.name = "tool_call" /\ Field(e, "stale") # None)
             @@ "data age" :> number("tool_call", "age_seconds")
             @@ "validation refusals" :> carries("tool_refused", {"reason"})
             @@ "unavailable sources by error type" :> carries("tool_unavailable", {"tool", "error"})
             @@ "stale fallbacks" :> carries("stale_fallback", {"source"})
             @@ "input" :> (e.name \in TOKEN_EVENTS /\ Field(e, "input_tokens") # None)
             @@ "timed retrievals" :> number("retrieval", "latency_ms")
             @@ "rounds switched off" :>
                (e.name = "query_translation" /\ Field(e, "max_sub_queries") = 0))

(* A figure is on the page exactly when a readable line of the sink is     *)
(* evidence of it, however little else the sink holds (1_Analytics.py:     *)
(* 371-389, 465-489).                                                      *)
DrawnIffCollected ==
    result.kind = "page" =>
       LET things == DOMAIN Draws(Fragment)
           events == IF "log" \in DOMAIN result.sink THEN ToSet(result.sink.log.events) ELSE {}
           drawn == {thing \in DOMAIN result.page : result.page[thing]}
       IN drawn \cap things = {thing \in things : \E e \in events : Draws(e)[thing]}

Undisguised(question) ==
    [question EXCEPT !.words = [i \in DOMAIN @ |-> [@[i] EXCEPT !.disguise = {}]],
                     !.structure = [@ EXCEPT !.disguised = FALSE]]

(* However its words are spelled, in whatever words they are carried, and  *)
(* wherever the payload stands in the message, a question trips the rule   *)
(* it trips in plain words (denylist.py:11-27).  Only the rules about      *)
(* structure can be escaped: they see what was typed (denylist.py:102-     *)
(* 106), so a disguised tag or role line, where no wording trips, goes on  *)
(* to the classifier.  Folding is credited only where a folded word was    *)
(* the reason (input_gate.py:130-147), and the classifier is asked exactly *)
(* where no rule was tripped and blocks only on a reply whose first word   *)
(* says so.                                                                *)
GateSeesThroughDisguise ==
    result.kind = "screenings" =>
       \A i \in DOMAIN job.asked :
          LET q == job.asked[i].question
              s == result.screenings[i]
              plain == Denylisted(Undisguised(q), TRUE)
          IN
          /\ \/ s.rule = plain
             \/ s.rule = None /\ q.structure.disguised /\ plain = q.structure.rule
          /\ FoldingRequired(q) => \E j \in DOMAIN q.words : "folded" \in q.words[j].disguise
          /\ s.rule # None <=> ~s.classifier_ran
          /\ s.blocked /\ s.classifier_ran =>
                Head(SelectSeq(job.asked[i].reply, LAMBDA w : w # "bullet")) = "YES"

(* What the classifier could not decide is let through, and the log's page *)
(* counts exactly those as fail-open: an outage of the classifier cannot   *)
(* look like a quiet day (classifier.py:15-26).                            *)
OutageIsCounted ==
    result.kind = "screenings" =>
       LET summary == GateSummary([events |-> result.log, malformed |-> 0])
           undecided == {i \in DOMAIN result.screenings :
                            result.screenings[i].classifier_verdict = "undecided"}
       IN
       /\ \A i \in undecided : ~result.screenings[i].blocked
       /\ BagCardinality(summary.failOpen.rows) = Cardinality(undecided)
       /\ RowsOf(summary.byLayer) = summary.blocked.hits

(* What is missing from a line, a number or a verdict, neither moves a     *)
(* figure nor hides one, and is said.                                      *)
AbsenceIsSaid == AbsenceIsNotZero /\ DrawnIffCollected /\ OutageIsCounted

Break == Said("break", None, 1)

(* A clause answers for itself.  Cut an answer at any break between        *)
(* clauses: it trips what its two halves trip, so no denial in one excuses *)
(* advice in the other, before it or after (advice.py:235-275).  The same  *)
(* cut splits its citations: what resolves adds up, and the numbers that   *)
(* do not resolve are those of either half (markers.py:136-167).           *)
ClausesAnswerForThemselves ==
    result.kind = "shown" =>
       \A at \in {i \in DOMAIN job.answer : job.answer[i] = Break} :
          LET before == SubSeq(job.answer, 1, at - 1)
              after == SubSeq(job.answer, at + 1, Len(job.answer))
              whole == Markers(job.answer, job.ranks)
              halves == {Markers(before, job.ranks), Markers(after, job.ranks)}
          IN
          /\ ToSet(AdviceHits(job.answer)) = ToSet(AdviceHits(before)) \cup ToSet(AdviceHits(after))
          /\ whole.resolved = Markers(before, job.ranks).resolved + Markers(after, job.ranks).resolved
          /\ ToSet(whole.unresolved) = UNION {ToSet(h.unresolved) : h \in halves}
          /\ Clean(whole) <=> \A h \in halves : Clean(h)
          /\ result.verdict.refused =>
                \A i \in DOMAIN result.log : result.log[i].name # "citation_markers"

(* A suite that passes is evidence of every layer: each stopped exactly    *)
(* the cases the corpus gives it, none took another's, and every passage   *)
(* that was resisted had reached the model.  So a layer that is down, or   *)
(* a half that was not run, cannot pass unseen (report.py:93-164).         *)
PassingIsEvidence ==
    (result.kind = "suite" /\ result.passed) =>
       LET corpus == job.corpus
           cases(layer) ==
              Cardinality({i \in DOMAIN corpus.cases : corpus.cases[i].expected = layer})
       IN
       /\ result.contribution.denylist = cases("denylist")
       /\ result.contribution.classifier = cases("classifier")
       /\ result.contribution.normalisation <= cases("denylist")
       /\ result.contribution.validator
            = Cardinality({i \in DOMAIN corpus.answers : corpus.answers[i].advice})
       /\ corpus.cases # <<>> /\ corpus.answers # <<>>
       /\ IF job.gateOnly THEN result.planted = "not run"
          ELSE /\ result.planted = Len(corpus.planted)
               /\ \A i \in DOMAIN corpus.planted : corpus.planted[i].found

(* The file says what the page said, in both formats.  A row's sources are *)
(* the ones its panel showed, each found under its number in a table that  *)
(* answers for the whole conversation; a search that found nothing, a turn *)
(* that did not search and a row that cannot say are three different rows  *)
(* (export.py:33-45).  The page a rerun draws is the one the turn left,    *)
(* but for the note on the answer's brackets (Home.py:1486-1502).          *)
FileIsThePage ==
    result.kind = "file" =>
       LET rows == job.rows
           table == result.json.sources
           cells(i) == SelectSeq(result.csv, LAMBDA c : c.message = i)
       IN
       /\ \A i \in DOMAIN rows :
             LET screen == ToSet(Replay(rows[i]))
                 panels == {e \in screen : e.shows = "sources"}
                 message == result.json.messages[i]
                 cited == [k \in DOMAIN cells(i) |-> cells(i)[k].source]
             IN
             /\ \A panel \in panels :
                   /\ ToSet(panel.of) \subseteq ToSet(table)
                   /\ message.searched
                   /\ message.retrieved_ranks = [k \in DOMAIN panel.of |-> panel.of[k].rank]
                   /\ cited = [k \in DOMAIN panel.of |-> Cell(panel.of[k])]
             /\ Shown("setup banner", None) \in screen =>
                   message.searched /\ message.retrieved_ranks = <<>>
             /\ Shown("reuse note", None) \in screen => ~message.searched
             /\ (rows[i].role = "user" \/ DOMAIN rows[i] \cap {"turn", "contexts"} = {}
                  \/ Shown("raised", None) \in screen) =>
                   DOMAIN message = {"role", "content"}
             /\ panels = {} => cited = <<None>>
             /\ \A k \in DOMAIN cells(i) :
                   /\ ~IsFormula(cells(i)[k].content)
                   /\ cells(i)[k].searched
                      = IF "searched" \in DOMAIN message THEN message.searched ELSE None
             /\ \A clean \in BOOLEAN :
                   (rows[i].role = "assistant" /\ "contexts" \notin DOMAIN rows[i]
                    /\ Shown("raised", None) \notin screen) =>
                      Replay(rows[i])
                      = SelectSeq(Live(rows[i], clean), LAMBDA e : e.shows # "marker note")
       /\ IssuedRanks(rows) \subseteq {table[k].rank : k \in DOMAIN table}
       /\ Cardinality({table[k].rank : k \in DOMAIN table}) = Len(table)
       /\ Len(result.csv) = SumOver([i \in DOMAIN rows |-> Len(cells(i))])
       /\ result.line.fields.turns = Cardinality({i \in DOMAIN rows : rows[i].role = "user"})

(* A run's decisions hang together.  A directional prediction is refuted   *)
(* exactly when its mirror image would have been confirmed, and a tie or a *)
(* missing number settles neither (hypotheses.py:236-243); a clause that   *)
(* drops the default on a bucket refutes the prediction made there of the  *)
(* same two arms, and a trigger that fires leaves the predictions about    *)
(* the strategy open; a bucket that could not have fired a clause or moved *)
(* the trigger is named as such, once (report.py:628-640).                 *)
DecisionsAgree ==
    result.kind = "decisions" =>
       LET clauses == result.clauses
           trigger == result.reopened
           report == result.report
           settled(id) ==
              {result.outcomes[i].settled : i \in {j \in DOMAIN PREDICTIONS : PREDICTIONS[j].id = id}}
           mirrored(p) ==
              Confirmed(p, Comparison(job.cells, p.bucket, p.metric, p.candidate, p.baseline).verdict)
           opposite == "confirmed" :> "refuted" @@ "refuted" :> "confirmed" @@ "unsettled" :> "unsettled"
       IN
       /\ \A i \in DOMAIN PREDICTIONS :
             LET p == PREDICTIONS[i] IN
             IF p.expected = "not_detected" THEN result.outcomes[i].settled # "confirmed"
             ELSE mirrored(p) = opposite[result.outcomes[i].settled]
       /\ clauses["exact-identifier"].fires => settled("H2") = {"refuted"}
       /\ clauses["multi-hop"].fires => settled("H3") = {"refuted"}
       /\ \A b \in Bucket :
             /\ clauses[b].fires => clauses[b].couldFire
             /\ clauses[b].couldFire <=> b \notin report.powerless \cup report.unmeasured
       /\ report.powerless \cap report.unmeasured = {}
       /\ trigger.fires => settled("H4") \cup settled("H5") \cup settled("H6") = {"unsettled"}
       /\ "confirmed" \in settled("H6") => report.trigger = "a gain on some bucket"
       /\ trigger.resolving + Cardinality(trigger.undetermined) + Cardinality(trigger.undetectable)
          = Cardinality(Bucket)
       /\ report.trigger = "cannot be evaluated" <=> trigger.resolving = 0

(* Six workers write one log, so a thread's lines stand anywhere between   *)
(* the others' lines.  Every reading is the one the threads would have     *)
(* given one after another: a retrieval is paired with the plan of its own *)
(* turn, and a first search is the first of its own thread                 *)
(* (latency.py:264-275, deferrals.py:91-98).                               *)
ReadingsIgnoreInterleaving ==
    result.kind = "readings" =>
       LET of(thread) == SelectSeq(job.events, LAMBDA e : e.turn.thread = thread)
           apart == Readings([events |-> of("a") \o of("b")])
       IN \A reading \in DOMAIN apart : result[reading] = apart[reading]
==============================================================================
