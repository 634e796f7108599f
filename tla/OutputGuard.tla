------------------------------ MODULE OutputGuard ------------------------------
(***************************************************************************)
(* What an answer goes through before it is shown: the advice rules        *)
(* (security/advice.py) and the citation markers (security/markers.py).    *)
(* An answer is a sequence of pieces: a phrase some rule matches, a        *)
(* denial, a clause break, a bracketed span, or other text, each with its  *)
(* length.                                                                 *)
(***************************************************************************)
EXTENDS EventLog

Said(kind, value, chars) == [kind |-> kind, value |-> value, chars |-> chars]

ADVICE_RULES ==
    <<[id |-> "directive-trade", negatable |-> FALSE],
      [id |-> "recommendation", negatable |-> FALSE],
      [id |-> "imperative-trade", negatable |-> FALSE],
      [id |-> "rating", negatable |-> FALSE],
      [id |-> "price-target", negatable |-> TRUE],
      [id |-> "personalised-allocation", negatable |-> TRUE]>>

NEGATION_WINDOW_CHARS == 60

\* Mutant: a denial governs everything within the window after it.
Denied_bug(answer, at) ==
    \E d \in 1..(at - 1) :
       /\ answer[d].kind = "denial"
       /\ FoldLeft(LAMBDA sum, s : sum + s.chars, 0, SubSeq(answer, d, at - 1))
          <= NEGATION_WINDOW_CHARS

\* advice._denied: a denial in the same clause, the window reaching back to it.
Denied(answer, at) ==
    \E d \in 1..(at - 1) :
       /\ answer[d].kind = "denial"
       /\ \A i \in d..(at - 1) : answer[i].kind # "break"
       /\ FoldLeft(LAMBDA sum, s : sum + s.chars, 0, SubSeq(answer, d, at - 1))
          <= NEGATION_WINDOW_CHARS

\* advice.advice_hits: the rules some occurrence trips, in rule order; a
\* negatable one yields only where every occurrence is denied.
AdviceHits(answer) ==
    LET trips(rule) == \E i \in DOMAIN answer :
                          /\ answer[i].kind = "advice" /\ answer[i].value = rule.id
                          /\ ~(rule.negatable /\ Denied(answer, i))
    IN Those(ADVICE_RULES, {r \in DOMAIN ADVICE_RULES : trips(ADVICE_RULES[r])})

\* advice.validate_answer: any failure of the library but a refusal lets the
\* answer through and says so.
ValidateAnswer(answer, guardWorks) ==
    LET hits == AdviceHits(answer) IN
    IF ~guardWorks
    THEN [refused |-> FALSE, rules |-> <<>>,
          log |-> <<Event("output_validator_unavailable", None, 1, <<>>)>>]
    ELSE [refused |-> hits # <<>>, rules |-> hits,
          log |-> IF hits = <<>> THEN <<>>
                  ELSE <<Event("output_validator", None, 1, [refused |-> TRUE])>>]

-------------------------------------------------------------------------------

\* The places of the bracketed spans of one kind: typography is none of them.
Brackets(answer, kind) == {i \in DOMAIN answer : answer[i].kind = kind}

\* markers.markers: brackets that resolve, numbers that do not, and labels.
Markers(answer, ranks) ==
    LET numbers == Brackets(answer, "number")
        read(places) == {answer[i].value : i \in places}
    IN [resolved |-> Cardinality({i \in numbers : answer[i].value \in ranks}),
        unresolved |-> Ascending(read(numbers) \ ranks),
        non_numeric |-> Cardinality(read(Brackets(answer, "label")))]

\* markers.numeric_markers
NumericMarkers(answer) ==
    LET found == Those(answer, Brackets(answer, "number")) IN
    [i \in DOMAIN found |-> found[i].value]

Clean(report) == report.unresolved = <<>> /\ report.non_numeric = 0

\* markers.log_markers
MarkerLine(report) == Event("citation_markers", None, 1, report @@ ("clean" :> Clean(report)))

\* What the page does with a finished answer: refuse it, or show it and
\* record its brackets.
Show(answer, ranks, guardWorks) ==
    LET verdict == ValidateAnswer(answer, guardWorks)
        report == Markers(answer, ranks)
    IN [verdict |-> verdict,
        log |-> IF verdict.refused THEN verdict.log
                ELSE Append(verdict.log, MarkerLine(report))]
===============================================================================
