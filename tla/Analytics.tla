------------------------------- MODULE Analytics -------------------------------
(***************************************************************************)
(* The analytics page: the folds over a whole log                          *)
(* (observability/analytics.py) and which of them the page draws           *)
(* (app/pages/1_Analytics.py).  A thing the page has a place for is drawn, *)
(* or its absence is said; a chart's rows are a function, their order      *)
(* being layout.                                                           *)
(***************************************************************************)
EXTENDS Spend

\* A flag is set, or holds something of another type, which reads as set.
Truthy(e, f) == Field(e, f) \in {TRUE, Odd}

Where(P(_), events) == SelectSeq(events, P)

\* Mutant: an absent field is read as a count of zero.
Count_bug(e, f) == IF IsNumber(Field(e, f)) THEN Field(e, f) ELSE 0

\* _count: a field as a count, None when it is absent or not a number.
Count(e, f) == IF IsNumber(Field(e, f)) THEN Field(e, f) ELSE None

\* open_sink: what the path named leads to.  None when nothing is named.
OpenSink(place, file) ==
    CASE place = "unnamed" -> [state |-> "off"]
      [] place = "nothing" -> [state |-> "missing"]
      [] place = "not openable" -> [state |-> "unreadable"]
      [] place = "file" ->
            LET log == ReadEvents(file, 0) IN
            [state |-> IF log.events = <<>> THEN "empty" ELSE "readable", log |-> log]

Rate(hits, total) == [hits |-> hits, total |-> total]

\* _rate: over the events that carried the field.
RateOf(events, f) ==
    LET present == Where(LAMBDA e : Field(e, f) # None, events) IN
    Rate(Len(Where(LAMBDA e : Truthy(e, f), present)), Len(present))

\* distribution: a field's numbers in ascending order, and the lines without one.
Distribution(events, f) ==
    LET measured == Where(LAMBDA e : IsNumber(Field(e, f)), events) IN
    [values |-> SortSeq([i \in DOMAIN measured |-> measured[i].fields[f]], <),
     absent |-> Len(events) - Len(measured)]

\* statistics.median, doubled to stay whole: it interpolates.
TwiceP50(values) ==
    IF values = <<>> THEN None
    ELSE values[(Len(values) + 1) \div 2] + values[Len(values) \div 2 + 1]

\* percentile: nearest rank, one of the values.
P90(values) ==
    IF values = <<>> THEN None ELSE values[(9 * Len(values) + 9) \div 10]

\* Distribution.within: None when there is no median.
Within(values, budget) == IF values = <<>> THEN None ELSE TwiceP50(values) <= 2 * budget

\* Tally: how often each key came, over how many lines, and how many had none.
Tally(keys, lines, absent) == [rows |-> ToBag(keys), lines |-> lines, absent |-> absent]

\* tally_pair, of which tally is the case of one field.
TallyOf(events, fs) ==
    LET with == Where(LAMBDA e : \A i \in DOMAIN fs : Field(e, fs[i]) # None, events) IN
    Tally([n \in DOMAIN with |-> [i \in DOMAIN fs |-> with[n].fields[fs[i]]]],
          Len(events), Len(events) - Len(with))

\* tally_each: over the members of a list; a line with an empty one has it.
TallyEach(events, f) ==
    LET with == Where(LAMBDA e : Field(e, f) \notin {None, Odd}, events) IN
    Tally(FlattenSeq([n \in DOMAIN with |-> with[n].fields[f]]),
          Len(events), Len(events) - Len(with))

\* _tally_events
TallyEvents(log, names) ==
    LET selected == Of(log, names) IN
    Tally([n \in DOMAIN selected |-> <<selected[n].name>>], Len(selected), 0)

Drawn(tally) == tally.rows # <<>>

-------------------------------------------------------------------------------

\* activity: screened, answered and failed, per day and in all.
Activity(log) ==
    LET on(name, days) == Len(Where(LAMBDA e : e.day \in days, Of(log, {name})))
        counts(days) == [screened |-> on("input_gate", days),
                         answered |-> on("agent_turn", days),
                         failed |-> on("chat_turn_failed", days)]
        seen == Of(log, {"input_gate", "agent_turn", "chat_turn_failed"})
        all == {seen[i].day : i \in DOMAIN seen}
    IN [byDay |-> [d \in all |-> counts({d})], total |-> counts(all)]

FAIL_OPEN_EVENTS ==
    {"gate_classifier_unavailable", "gate_classifier_unparsed", "output_validator_unavailable"}

\* gate_summary
GateSummary(log) ==
    LET screenings == Of(log, {"input_gate"})
        blocks == Where(LAMBDA e : Truthy(e, "blocked"), screenings)
        ran == Where(LAMBDA e : Truthy(e, "classifier_ran"), screenings)
    IN [screenings |-> Len(screenings),
        blocked |-> Rate(Len(blocks), Len(screenings)),
        byLayer |-> TallyOf(blocks, <<"layer">>),
        byRule |-> TallyOf(blocks, <<"rule">>),
        classifierRan |-> RateOf(screenings, "classifier_ran"),
        verdicts |-> TallyOf(ran, <<"classifier_verdict">>),
        latency |-> Distribution(screenings, "latency_ms"),
        failOpen |-> TallyEvents(log, FAIL_OPEN_EVENTS)]

\* agent_behaviour: divergence is over the turns that carry both counts.
AgentBehaviour(log) ==
    LET turns == Of(log, {COMPLETED_EVENT})
        paired == Where(LAMBDA e : Count(e, "searches") # None
                                   /\ Count(e, "verbatim_searches") # None, turns)
        counted == SumOf(LAMBDA e : Count(e, "searches"), paired)
        verbatim == SumOf(LAMBDA e : Count(e, "verbatim_searches"), paired)
    IN [turns |-> Len(turns),
        searches |-> SumOf(LAMBDA e : Count(e, "searches"),
                           Where(LAMBDA e : Count(e, "searches") # None, turns)),
        divergence |-> Rate(counted - verbatim, counted),
        divergenceAbsent |-> Len(turns) - Len(paired),
        grounded |-> RateOf(turns, "grounded"),
        searched |-> RateOf(turns, "searched"),
        toolsUsed |-> TallyEach(turns, "tools_used"),
        perTurn |-> Distribution(turns, "searches"),
        financeCalls |-> Distribution(turns, "finance_calls"),
        latency |-> Distribution(turns, "latency_ms")]

\* citations: support is over the lines that carry both halves of it.
Citations(log) ==
    LET lines == Of(log, {"citation_markers"})
        counted == Where(LAMBDA e : Count(e, "resolved") # None
                                    /\ Field(e, "unresolved") \notin {None, Odd}, lines)
        resolved == SumOf(LAMBDA e : Count(e, "resolved"), counted)
        unresolved == SumOf(LAMBDA e : Len(e.fields.unresolved), counted)
    IN [turns |-> Len(lines),
        support |-> Rate(resolved, resolved + unresolved),
        clean |-> RateOf(lines, "clean"),
        nonNumeric |-> SumOf(LAMBDA e : Count(e, "non_numeric"),
                             Where(LAMBDA e : Count(e, "non_numeric") # None, counted)),
        absent |-> Len(lines) - Len(counted)]

\* tool_summary
ToolSummary(log) ==
    LET calls == Of(log, {"tool_call"})
        unavailable == Of(log, {"tool_unavailable"})
    IN [calls |-> Len(calls),
        byTool |-> TallyOf(calls, <<"tool">>),
        byTicker |-> TallyOf(calls, <<"ticker">>),
        stale |-> RateOf(calls, "stale"),
        age |-> Distribution(calls, "age_seconds"),
        refused |-> TallyOf(Of(log, {"tool_refused"}), <<"reason">>),
        unavailable |-> TallyOf(unavailable, <<"tool">>),
        byError |-> TallyOf(unavailable, <<"tool", "error">>),
        staleFallbacks |-> TallyOf(Of(log, {"stale_fallback"}), <<"source">>)]

\* ToolSummary.measured
ToolsMeasured(tools) ==
    \/ tools.calls > 0 \/ Drawn(tools.refused)
    \/ Drawn(tools.unavailable) \/ Drawn(tools.staleFallbacks)

\* spend_over_time: a day nothing metered has no row.
SpendOverTime(log) ==
    LET lines == Of(log, TOKEN_EVENTS)
        totals(d) == TokenTotals(Where(LAMBDA e : e.day = d, lines))
        metered == {d \in {lines[i].day : i \in DOMAIN lines} : AnyMeasured(totals(d))}
    IN [byDay |-> [d \in metered |-> totals(d)], totals |-> TokenTotals(lines)]

\* Mutant: turns that recorded no model are in no slice.
ByModel_bug(log) ==
    LET turns == Where(LAMBDA e : Field(e, "model") # None, Of(log, {COMPLETED_EVENT}))
        of(m) == Where(LAMBDA e : Field(e, "model") = m, turns)
    IN [m \in {Field(turns[i], "model") : i \in DOMAIN turns} |->
          [turns |-> Len(of(m)), tokens |-> TokenTotals(of(m)),
           latency |-> Distribution(of(m), "latency_ms"),
           reroutedTo |-> {Field(of(m)[i], "model_reported") : i \in DOMAIN of(m)} \ {None, m}]]

\* by_model: None among the models, for turns that recorded none.
ByModel(log) ==
    LET turns == Of(log, {COMPLETED_EVENT})
        of(m) == Where(LAMBDA e : Field(e, "model") = m, turns)
    IN [m \in {Field(turns[i], "model") : i \in DOMAIN turns} |->
          [turns |-> Len(of(m)), tokens |-> TokenTotals(of(m)),
           latency |-> Distribution(of(m), "latency_ms"),
           reroutedTo |-> {Field(of(m)[i], "model_reported") : i \in DOMAIN of(m)} \ {None, m}]]

\* retrieval_latency: per strategy and translation.
RetrievalLatency(log) ==
    LET lines == Of(log, {"retrieval"})
        attributed == Where(LAMBDA e : Field(e, "strategy") \notin {None, Odd}
                                       /\ Field(e, "translation") \notin {None, Odd}, lines)
        arm(e) == <<e.fields.strategy, e.fields.translation>>
    IN [arms |-> [a \in {arm(attributed[i]) : i \in DOMAIN attributed} |->
                    Distribution(Where(LAMBDA e : arm(e) = a, attributed), "latency_ms")],
        overall |-> Distribution(lines, "latency_ms"),
        unattributed |-> Len(lines) - Len(attributed)]

\* planner_cost: the rounds that reached a model; one that was refused stays.
PlannerCost(log) ==
    LET lines == Of(log, {"query_translation"})
        enabled == Where(LAMBDA e : Field(e, "max_sub_queries") # 0, lines)
        metered == Where(LAMBDA e : Field(e, "input_tokens") # None, enabled)
    IN [latency |-> Distribution(metered, "latency_ms"),
        unmetered |-> Len(enabled) - Len(metered),
        disabled |-> Len(lines) - Len(enabled),
        refusalsKept |-> Len(Where(LAMBDA e : Field(e, "sub_queries") = 0, metered))]

-------------------------------------------------------------------------------

(* The page.  A panel is a function: TRUE at what it draws or prints a     *)
(* figure of, FALSE at what it says is not there.                          *)

Figures(dist) == dist.values # <<>>

RateLine(rate) == rate.total # 0

\* render_activity
ActivityPanel(log) == "questions, turns or failures" :> (DOMAIN Activity(log).byDay # {})

\* render_gate
GatePanel(log) ==
    LET gate == GateSummary(log) IN
    ("screenings" :> (gate.screenings > 0))
    @@ (IF gate.screenings = 0 THEN <<>>
        ELSE ("classifier reached" :> RateLine(gate.classifierRan)
              @@ "gate latency" :> Figures(gate.latency)
              @@ "blocked screenings" :> Drawn(gate.byLayer)
              @@ "denylist rule hits" :> Drawn(gate.byRule)
              @@ "classifier verdicts" :> Drawn(gate.verdicts)))
    @@ ("fail-open events" :> Drawn(gate.failOpen))

\* render_citations
CitationsPanel(log) ==
    LET cited == Citations(log) IN
    ("citation-marker records" :> (cited.turns > 0))
    @@ (IF cited.turns = 0 THEN <<>>
        ELSE ("cited-marker support" :> RateLine(cited.support)
              @@ "clean turns" :> RateLine(cited.clean)))

\* render_agent: the citations are shown under a log without turns too.
AgentPanel(log) ==
    LET behaviour == AgentBehaviour(log) IN
    (IF behaviour.turns = 0 THEN "agent turns" :> FALSE
     ELSE ("agent turns" :> TRUE
           @@ "divergence" :> RateLine(behaviour.divergence)
           @@ "grounded" :> RateLine(behaviour.grounded)
           @@ "searched the KB" :> RateLine(behaviour.searched)
           @@ "turn latency" :> Figures(behaviour.latency)
           @@ "searches per turn" :> Figures(behaviour.perTurn)
           @@ "finance calls per turn" :> Figures(behaviour.financeCalls)
           @@ "tool selections" :> Drawn(behaviour.toolsUsed)))
    @@ CitationsPanel(log)

\* render_tools: one sentence for the four absences when all are.
ToolsPanel(log) ==
    LET tools == ToolSummary(log)
        failures == ("validation refusals" :> Drawn(tools.refused)
                     @@ "unavailable sources" :> Drawn(tools.unavailable)
                     @@ "unavailable sources by error type" :> Drawn(tools.byError)
                     @@ "stale fallbacks" :> Drawn(tools.staleFallbacks))
    IN IF ~ToolsMeasured(tools) THEN "tool calls, refusals or failures" :> FALSE
       ELSE ("tool calls, refusals or failures" :> TRUE
             @@ "served stale" :> RateLine(tools.stale)
             @@ "tool calls" :> Drawn(tools.byTool)
             @@ "tool calls with a ticker" :> Drawn(tools.byTicker)
             @@ "data age" :> Figures(tools.age))
            @@ (IF TRUE \notin {failures[w] : w \in DOMAIN failures}
                THEN "refusals, failures or stale fallbacks" :> FALSE ELSE failures)

\* render_by_model: a row with fewer than two timed turns has no p90.
MIN_SPREAD_SAMPLES == 2

\* One model is not a comparison, and has no table.
ModelRows(log) ==
    LET slices == ByModel(log)
        few(m) == Len(slices[m].latency.values) < MIN_SPREAD_SAMPLES
    IN IF Cardinality(DOMAIN slices) = 1 /\ None \notin DOMAIN slices THEN <<>>
       ELSE [m \in DOMAIN slices |->
               [turns |-> slices[m].turns,
                input |-> slices[m].tokens.input.total,
                output |-> slices[m].tokens.output.total,
                twiceP50 |-> TwiceP50(slices[m].latency.values),
                p90 |-> IF few(m) THEN None ELSE P90(slices[m].latency.values)]]

\* render_by_model: a reroute is said whether or not there is a table.
ByModelPanel(log) ==
    LET slices == ByModel(log) IN
    IF DOMAIN slices = {} THEN "answered turn attributed to a model" :> FALSE
    ELSE "answered turn attributed to a model" :> TRUE
         @@ "served by another model" :> (\E m \in DOMAIN slices : slices[m].reroutedTo # {})

\* render_cost: the figure, or which of the three absences is in the way.
Cost(totals, prices) ==
    LET dollars == PricedDollars(totals.input.total, totals.output.total,
                                 prices.input, prices.output,
                                 AnsweredOnlyOn(totals.models, prices.model))
    IN IF prices.model = None THEN "configuration not readable"
       ELSE IF dollars = None /\ ~AnsweredOnlyOn(totals.models, prices.model)
            THEN UnpricedBecause(totals.models)
       ELSE IF dollars = None THEN "not priced" ELSE dollars

\* render_spend
SpendPanel(log) ==
    LET totals == SpendOverTime(log).totals IN
    ("token totals" :> AnyMeasured(totals))
    @@ (IF AnyMeasured(totals)
        THEN ("input" :> Measured(totals.input)
              @@ "output" :> Measured(totals.output)
              @@ "a floor, for the figures" :> Partial(totals))
        ELSE "calls that reported no usage" :> (totals.calls > 0))
    @@ ByModelPanel(log)

\* render_retrieval: what has no arm is counted whether or not anything was timed.
RetrievalPanel(log) ==
    LET pools == RetrievalLatency(log) IN
    "timed retrievals" :> Figures(pools.overall)
    @@ "retrievals without settings" :> (pools.unattributed > 0)

\* render_planner
PlannerPanel(log) ==
    LET planner == PlannerCost(log) IN
    "planner round" :> Figures(planner.latency)
    @@ "questions that needed no planning" :> (planner.unmetered > 0)
    @@ "rounds switched off" :> (planner.disabled > 0)
    @@ "rounds that returned nothing" :> (planner.refusalsKept > 0)

\* render_header and the page under it: nothing is drawn unless it is readable.
Page(sink) ==
    IF sink.state # "readable" THEN <<>>
    ELSE ActivityPanel(sink.log) @@ GatePanel(sink.log) @@ AgentPanel(sink.log)
         @@ ToolsPanel(sink.log) @@ SpendPanel(sink.log)
         @@ RetrievalPanel(sink.log) @@ PlannerPanel(sink.log)
===============================================================================
