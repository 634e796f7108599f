------------------------------ MODULE Hypotheses ------------------------------
(***************************************************************************)
(* What an evaluation run decides (evaluation/hypotheses.py): the          *)
(* predictions written before the data, the clause that would drop the     *)
(* shipped default, the trigger that would reopen it, and what the report  *)
(* makes of them.  cells[b][m][a] is arm a's judged scores on metric m in  *)
(* bucket b: a function on the questions that have one.                    *)
(***************************************************************************)
EXTENDS SignedRank

Bucket == {"semantic", "exact-identifier", "tool-augmented", "multi-hop"}

SCORED_ARMS == {"vector", "vector+translation", "hybrid", "hybrid+translation"}

SHIPPING_DEFAULT == "hybrid+translation"

TRANSLATION_CONTRAST ==
    <<<<"vector", "vector+translation">>, <<"hybrid", "hybrid+translation">>>>

STRATEGY_CONTRAST ==
    <<<<"vector", "hybrid">>, <<"vector+translation", "hybrid+translation">>>>

Prediction(id, bucket, metric, baseline, candidate, expected) ==
    [id |-> id, bucket |-> bucket, metric |-> metric, baseline |-> baseline,
     candidate |-> candidate, expected |-> expected]

PREDICTIONS ==
    <<Prediction("H1", "exact-identifier", "precision", "vector", "hybrid", "better"),
      Prediction("H2", "exact-identifier", "precision", "hybrid", "hybrid+translation", "better"),
      Prediction("H3", "multi-hop", "recall", "hybrid", "hybrid+translation", "better"),
      Prediction("H4", "semantic", "precision",
                 "vector+translation", "hybrid+translation", "not_detected"),
      Prediction("H5", "exact-identifier", "precision",
                 "vector+translation", "hybrid+translation", "not_detected"),
      Prediction("H6", "semantic", "precision",
                 "vector+translation", "hybrid+translation", "better")>>

\* metrics.paired: the questions both arms have a score for, by id.
Paired(baseline, candidate) ==
    LET both == SetToSortSeq(DOMAIN baseline \cap DOMAIN candidate, <) IN
    [i \in DOMAIN both |-> candidate[both[i]] - baseline[both[i]]]

\* _compare
Comparison(cells, bucket, metric, baseline, candidate) ==
    LET deltas == Paired(cells[bucket][metric][baseline], cells[bucket][metric][candidate]) IN
    [n |-> Len(deltas), effective |-> Len(NonZero(deltas)), verdict |-> Verdict(deltas)]

\* Mutant: a null result refutes a prediction of a difference.
Confirmed_bug(prediction, measured) ==
    IF measured \in {"undetermined", "undetectable"} THEN "unsettled"
    ELSE IF measured = prediction.expected THEN "confirmed" ELSE "refuted"

\* Outcome.confirmed: only a measured difference settles anything.
Confirmed(prediction, measured) ==
    IF measured \in {"undetermined", "undetectable", "not_detected"} THEN "unsettled"
    ELSE IF measured = prediction.expected THEN "confirmed" ELSE "refuted"

\* Outcome.verdict_text: a null carries the count that earns it.
VerdictText(prediction, comparison) ==
    CASE comparison.verdict = "undetermined" -> <<"undetermined">>
      [] comparison.verdict = "undetectable" -> <<"undetectable", comparison.effective>>
      [] comparison.verdict = "not_detected" -> <<"not detected", comparison.n>>
      [] OTHER -> <<Confirmed(prediction, comparison.verdict)>>

Outcomes(cells) ==
    [i \in DOMAIN PREDICTIONS |->
        LET p == PREDICTIONS[i]
            c == Comparison(cells, p.bucket, p.metric, p.baseline, p.candidate)
        IN [settled |-> Confirmed(p, c.verdict), text |-> VerdictText(p, c)]]

\* _contrast_ending_at_default
EndingAtDefault(contrast) ==
    contrast[Min({i \in DOMAIN contrast : contrast[i][2] = SHIPPING_DEFAULT})]

IsDetectable(comparison) == Detectable(comparison.effective)

\* falsification_clause: translation, at the shipped strategy, per bucket.
FalsificationClause(cells) ==
    LET pair == EndingAtDefault(TRANSLATION_CONTRAST)
        of(b, m) == Comparison(cells, b, m, pair[1], pair[2])
    IN [b \in Bucket |->
          [fires |-> \A m \in {"precision", "recall"} : of(b, m).verdict = "worse",
           couldFire |-> \A m \in {"precision", "recall"} : IsDetectable(of(b, m)),
           measured |-> \A m \in {"precision", "recall"} : of(b, m).n > 0]]

\* reexamination_trigger: the strategy, both translated; it fires on an
\* absence of gain in the buckets that could have shown one.
ReexaminationTrigger(cells) ==
    LET pair == EndingAtDefault(STRATEGY_CONTRAST)
        per == [b \in Bucket |-> Comparison(cells, b, "precision", pair[1], pair[2])]
        resolving == {b \in Bucket : per[b].verdict \notin {"undetermined", "undetectable"}}
    IN [fires |-> resolving # {} /\ \A b \in resolving : per[b].verdict = "not_detected",
        resolving |-> Cardinality(resolving),
        evaluable |-> \E b \in Bucket : IsDetectable(per[b]),
        undetermined |-> {b \in Bucket : per[b].verdict = "undetermined"},
        undetectable |-> {b \in Bucket : per[b].verdict = "undetectable"}]

\* report.decisions_section: the buckets that survive the clause untested
\* are named, and a trigger that did not fire is read as a gain.
Decisions(clauses, trigger) ==
    [fired |-> {b \in Bucket : clauses[b].fires},
     powerless |-> {b \in Bucket : ~clauses[b].couldFire /\ clauses[b].measured},
     unmeasured |-> {b \in Bucket : ~clauses[b].measured},
     trigger |-> IF ~trigger.evaluable THEN "cannot be evaluated"
                 ELSE IF trigger.fires THEN "fires" ELSE "a gain on some bucket"]

Decide(cells) ==
    LET clauses == FalsificationClause(cells)
        trigger == ReexaminationTrigger(cells)
    IN [outcomes |-> Outcomes(cells), clauses |-> clauses, reopened |-> trigger,
        report |-> Decisions(clauses, trigger)]
===============================================================================
