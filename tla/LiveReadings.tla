----------------------------- MODULE LiveReadings -----------------------------
(***************************************************************************)
(* What an evaluation reads from the window of the event log its live      *)
(* stages wrote (evaluation/latency.py, the log half of                    *)
(* evaluation/deferrals.py).  Six workers append to that window at once.   *)
(***************************************************************************)
EXTENDS Analytics

\* divergence: a thread's first search cannot resolve a pronoun, so its
\* rewrites are counted apart from those of the later ones.
Divergence(log) ==
    LET said == Where(LAMBDA e : Field(e, "verbatim") # None, Of(log, {"agent_query"}))
        later(i) == \E j \in 1..(i - 1) : Field(said[j], "thread_id") = Field(said[i], "thread_id")
        rate(places) ==
            Rate(Cardinality({i \in places : ~Truthy(said[i], "verbatim")}), Cardinality(places))
        follow == {i \in DOMAIN said : later(i)}
    IN [first |-> rate(DOMAIN said \ follow), followUp |-> rate(follow)]

\* bracket_adherence: per turn with sources, whether any of three failures.
BracketAdherence(log) ==
    LET turns == Where(LAMBDA e : Field(e, "sources") \notin {None, 0}, Of(log, {"citation_markers"}))
        uncited == Where(LAMBDA e : Field(e, "resolved") \in {None, 0}, turns)
        unresolved(e) == IF Field(e, "unresolved") = None THEN 0 ELSE Len(e.fields.unresolved)
        nonNumeric(e) == IF Field(e, "non_numeric") = None THEN 0 ELSE e.fields.non_numeric
        dirty == Where(LAMBDA e : Field(e, "resolved") \in {None, 0}
                                  \/ unresolved(e) > 0 \/ nonNumeric(e) > 0, turns)
    IN [clean |-> Rate(Len(turns) - Len(dirty), Len(turns)), uncited |-> Len(uncited),
        unresolved |-> SumOf(unresolved, turns), nonNumeric |-> SumOf(nonNumeric, turns)]

PLANNER_DISABLED_CAP == 0

(* Mutant: a retrieval is read with the plan that stands above it in the   *)
(* log, whosever it is.                                                    *)
PlanOf_bug(log, i) ==
    LET above == {j \in 1..(i - 1) : log.events[j].name = "query_translation"
                                     /\ Field(log.events[j], "max_sub_queries") # None}
    IN IF above = {} THEN None ELSE log.events[Max(above)]

(* _planner_caps: the last plan of the turn that the i-th line is in.      *)
PlanOf(log, i) ==
    LET own == {j \in DOMAIN log.events : log.events[j].name = "query_translation"
                                          /\ log.events[j].turn # None
                                          /\ log.events[j].turn = log.events[i].turn
                                          /\ Field(log.events[j], "max_sub_queries") # None}
    IN IF own = {} THEN None ELSE log.events[Max(own)]

Disabled(plan) == plan # None /\ Field(plan, "max_sub_queries") = PLANNER_DISABLED_CAP

Refused(plan) == plan # None /\ ~Disabled(plan) /\ Field(plan, "sub_queries") = 0

\* translation_cost: the medians of the rounds that reported spend and of
\* the retrievals on either side; a side without a sample is no figure.
TranslationCost(log) ==
    LET timed(name) == {i \in DOMAIN log.events : log.events[i].name = name
                                                  /\ Field(log.events[i], "latency_ms") # None}
        translated == {i \in timed("retrieval") : Truthy(log.events[i], "translation")}
        planned == {i \in translated : ~Disabled(PlanOf(log, i))}
        p50(places) ==
            LET faster(i, j) == log.events[i].fields.latency_ms < log.events[j].fields.latency_ms
                order == SetToSortSeq(places, faster)
            IN TwiceP50([k \in DOMAIN order |-> log.events[order[k]].fields.latency_ms])
        paid == {i \in timed("query_translation") : Field(log.events[i], "input_tokens") # None}
        plain == timed("retrieval") \ translated
    IN IF {} \in {paid, planned, plain} THEN [noSamples |-> TRUE]
       ELSE [planner |-> p50(paid), translated |-> p50(planned), untranslated |-> p50(plain),
             samples |-> <<Cardinality(paid), Cardinality(planned), Cardinality(plain)>>,
             disabled |-> Cardinality(translated \ planned),
             refusalsKept |-> Cardinality({i \in planned : Refused(PlanOf(log, i))})]

\* token_spend: each count over the lines that reported it.
TokenSpend(log, name) ==
    LET lines == Of(log, {name})
        of(f) == Where(LAMBDA e : Field(e, f) # None, lines)
        sum(f) == SumOf(LAMBDA e : e.fields[f], of(f))
    IN [input |-> sum("input_tokens"), output |-> sum("output_tokens"),
        inputCalls |-> Len(of("input_tokens")), outputCalls |-> Len(of("output_tokens")),
        lines |-> Len(lines)]

Readings(log) ==
    [divergence |-> Divergence(log), brackets |-> BracketAdherence(log),
     cost |-> TranslationCost(log),
     spend |-> [name \in {"rag_answer", "query_translation", "agent_turn"} |-> TokenSpend(log, name)]]
===============================================================================
