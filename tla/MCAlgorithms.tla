----------------------------- MODULE MCAlgorithms -----------------------------
EXTENDS Algorithms

Forms == {"tesla debt", "tsla debt", "meta ads", "risk factors"}

Naming == {"tesla debt", "tsla debt", "meta ads"}

AsTicker == [f \in Forms |-> IF f = "tesla debt" THEN "tsla debt" ELSE f]

Typed(f) == [fold |-> f, as |-> "typed"]

Lines == {[fold |-> f, as |-> "other"] : f \in Forms} \cup {Noise}

UpTo(n, S) == UNION {[1..m -> S] : m \in 0..n}

Translations ==
    [kind : {"translate"}, question : {Typed(f) : f \in Forms}, reply : UpTo(3, Lines), cap : 0..2]

Rankings == {s \in UpTo(Depth, 1..3) : Cardinality(ToSet(s)) = Len(s)}

(* The list at place i of a two-variant hybrid search.                     *)
Place(i, hits) ==
    [variant |-> (i + 1) \div 2, retriever |-> IF i % 2 = 1 THEN "vector" ELSE "bm25",
     hits |-> hits]

Fusions ==
    [kind : {"fuse"}, limit : {Depth},
     lists : {[i \in DOMAIN r |-> Place(i, r[i])] : r \in UpTo(4, Rankings)}]

(* Six to eight differences in order, their order mattering to nothing:    *)
(* the first sizes that can be significant.                                *)
Sorted(n, S) == {d \in [1..n -> S] : \A i \in 1..(n - 1) : d[i] <= d[i + 1]}

Comparisons ==
    [kind : {"compare"},
     deltas : UpTo(4, -2..2) \cup Sorted(6, -2..2) \cup Sorted(7, -2..2) \cup Sorted(8, {-2, -1, 1, 2})]

(* report.py asks for at most bucket_floor + 2 pairs.                      *)
Pairs == [kind : {"power"}, pairs : 1..8]

(* A line as its emitter writes it, and the same line before a field of    *)
(* it existed or with a wrong type in it.                                  *)
A(n) == TurnId("a", n)
B == TurnId("b", 1)

Screened(turn, day, blocked, layer, rule, ran, verdict) ==
    Event("input_gate", turn, day,
          [blocked |-> blocked, layer |-> layer, rule |-> rule, classifier_ran |-> ran,
           classifier_verdict |-> verdict, latency_ms |-> 3])

Answered(turn, day, model, searches, verbatim, usage) ==
    Event("agent_turn", turn, day,
          [searches |-> searches, verbatim_searches |-> verbatim, grounded |-> searches > 0,
           searched |-> searches > 0, tools_used |-> [i \in 1..searches |-> "search"],
           finance_calls |-> 0, latency_ms |-> 4, model |-> model] @@ usage)

Planned(turn, cap, usage) ==
    Event("query_translation", turn, 1,
          [max_sub_queries |-> cap, sub_queries |-> 0, latency_ms |-> 5] @@ usage)

Paid == [input_tokens |-> 2, output_tokens |-> 1, input_tokens_calls |-> 2,
         output_tokens_calls |-> 1, calls |-> 2]

PlannerPaid == [input_tokens |-> 3, output_tokens |-> 1]

Emitted ==
    {Screened(None, 1, FALSE, None, None, TRUE, "allowed"),
     Screened(None, 2, FALSE, None, None, TRUE, None),
     Screened(None, 1, TRUE, "denylist", "override", FALSE, None),
     Screened(None, 1, TRUE, "classifier", None, TRUE, "injection"),
     Event("input_gate", None, 1, [blocked |-> Odd, latency_ms |-> Odd]),
     Event("gate_classifier_unavailable", None, 1, <<>>),
     Answered(A(1), 1, "m", 1, 1, Paid),
     Answered(A(2), 2, "m", 2, 1, <<>>),
     Answered(B, 1, "n", 0, 0, [input_tokens |-> 5, input_tokens_calls |-> 1, calls |-> 1]),
     Event("agent_turn", None, 2, [searches |-> 2, grounded |-> Odd, input_tokens |-> 4]),
     Event("agent_turn", A(1), 1, [searches |-> Odd, verbatim_searches |-> 1, tools_used |-> Odd]),
     Planned(A(1), 2, PlannerPaid), Planned(B, 2, <<>>), Planned(A(2), 0, <<>>),
     Event("retrieval", A(1), 1, [strategy |-> "hybrid", translation |-> TRUE, latency_ms |-> 6]),
     Event("retrieval", B, 1, [strategy |-> "vector", translation |-> FALSE, latency_ms |-> 7]),
     Event("retrieval", None, 1, [latency_ms |-> 8]),
     Event("citation_markers", A(1), 1,
           [resolved |-> 1, unresolved |-> <<9>>, non_numeric |-> 0, clean |-> FALSE]),
     Event("citation_markers", B, 1,
           [resolved |-> 0, unresolved |-> <<>>, non_numeric |-> 0, clean |-> TRUE]),
     Event("citation_markers", None, 1, [resolved |-> Odd, unresolved |-> <<>>]),
     Event("tool_call", A(1), 1,
           [tool |-> "news", ticker |-> "TSLA", stale |-> FALSE, age_seconds |-> 0]),
     Event("tool_call", B, 1,
           [tool |-> "quote", ticker |-> "TSLA", stale |-> TRUE, age_seconds |-> 9]),
     Event("tool_refused", None, 1, [tool |-> "news", reason |-> "too_long"]),
     Event("tool_unavailable", None, 1, [tool |-> "news", ticker |-> "TSLA", error |-> "HTTPError"]),
     Event("tool_unavailable", None, 1, [tool |-> "news"]),
     Event("stale_fallback", None, 1, [source |-> "news", age_seconds |-> 9]),
     Event("chat_turn_failed", None, 2, <<>>)}

Few == {e \in Emitted : e.name \in {"agent_turn", "query_translation"}}

Whole(e) == Piece(e, TRUE)

Reads ==
    [kind : {"read"}, place : {"unnamed", "nothing", "not openable"}, file : {<<>>}]
    \cup [kind : {"read"}, place : {"file"},
          file : UpTo(2, {Whole(e) : e \in Emitted}) \cup [1..3 -> {Whole(e) : e \in Few}]
                 \cup {<<first, Whole(e)>> : first \in {Piece(Fragment, TRUE), Piece(Fragment, FALSE)},
                                            e \in Emitted}]

\* Spelled out in full, and carried with one letter more.
Spellings ==
    [before : {0}, after : {0}, disguise : SUBSET {"folded", "spaced"}]
    \cup [before : {0}, after : {1}, disguise : {{}}]

(* Carried with letters enough to fill a tight gap, after it ("actions as  *)
(* if" trips nothing, "acts as if" does) or before it ("contract as if"    *)
(* trips squeezed together only).                                          *)
Carriers ==
    Spellings \cup [before : {0}, after : {4}, disguise : {{}, {"spaced"}}]
              \cup [before : {4}, after : {0}, disguise : {{}}]

Unstructured == Structure("prose", FALSE)

Worded(words, chars, spellings) ==
    {Question([i \in DOMAIN words |->
                  Carried(s[i].before, words[i], chars[i], s[i].after, s[i].disguise)],
              Unstructured) :
        s \in [DOMAIN words -> spellings]}

Forged == {Structure(rule, d) : rule \in {"role-spoof", "delimiter-forgery"}, d \in BOOLEAN}

(* A payload, one whose words are just too far apart unless the spaces are *)
(* gone, one that is not, one that does not begin the message, one beside  *)
(* a forged role line, and the questions no rule on wording is about.      *)
Questions ==
    Worded(<<"ignore", "all", "instruction">>, <<6, 3, 11>>, Spellings)
    \cup Worded(<<"stop", "being", "other", "assistant">>, <<4, 5, 9, 9>>, Spellings)
    \cup Worded(<<"act", "as", "if">>, <<3, 2, 2>>, Carriers)
    \cup Worded(<<"other", "act", "as", "if">>, <<5, 3, 2, 2>>, Spellings)
    \cup Worded(<<"repeat", "other", "system", "prompt">>, <<6, 22, 6, 6>>, Spellings)
    \cup Worded(<<"repeat", "previous", "rule">>, <<6, 8, 4>>, Spellings)
    \cup {[q EXCEPT !.structure = Structure("role-spoof", d)] :
             q \in Worded(<<"act", "as", "if">>, <<3, 2, 2>>, Spellings), d \in BOOLEAN}
    \cup {Question(<<Word("other", 5, {})>>, s) : s \in Forged \cup {Unstructured}}

Replies == {<<>>, <<"YES">>, <<"NO">>, <<"bullet", "YES">>, <<"other", "YES">>, <<"NO", "YES">>, Down}

Asked(questions) == [question : questions, reply : Replies]

Screenings ==
    [kind : {"screen"},
     asked : [1..1 -> Asked(Questions)]
             \cup [1..2 -> Asked({q \in Questions : Len(q.words) = 1})]]

Phrases ==
    {Break, Said("denial", None, 3), Said("text", None, 40), Said("advice", "rating", 5),
     Said("advice", "price-target", 12), Said("number", 1, 3), Said("number", 2, 3),
     Said("label", "Reuters", 9), Said("typography", "...", 3)}

Shows ==
    [kind : {"show"}, answer : UpTo(4, Phrases), ranks : {{}, {1}}, guardWorks : BOOLEAN]

Case(words, reply, expected) ==
    [question |-> Question(words, Unstructured), reply |-> reply, expected |-> expected]

Cases ==
    {Case(<<Word("jailbreak", 9, {"folded"})>>, <<>>, "denylist"),
     Case(<<Word("jailbreak", 9, {})>>, <<"YES">>, "classifier"),
     Case(<<Word("other", 9, {})>>, <<"YES">>, "classifier"),
     Case(<<Word("other", 9, {})>>, Down, "classifier"),
     Case(<<Word("other", 9, {})>>, <<"NO">>, None),
     Case(<<Word("other", 9, {})>>, <<"YES">>, None)}

Answers ==
    {[text |-> <<Said("advice", "rating", 5)>>, advice |-> TRUE],
     [text |-> <<Said("text", None, 5)>>, advice |-> FALSE]}

Planted ==
    [found : BOOLEAN, canary : BOOLEAN, said : {{}, {"canary"}, {"system prompt"}}]

Suites ==
    [kind : {"suite"}, gateOnly : BOOLEAN, guardWorks : BOOLEAN,
     corpus : [cases : UpTo(2, Cases), answers : UpTo(1, Answers), planted : UpTo(1, Planted)]]

Shape(kind, sizes, extra) == [kind |-> kind, sizes |-> sizes, extra |-> extra]

\* What a row of a session can be: a question, a refusal of either kind, an
\* answer over the searches of these sizes, an answer of an older build.
Shapes ==
    {Shape("user", <<>>, {}), Shape("blocked", <<>>, {}), Shape("refused", <<>>, {})}
    \cup {Shape("answer", sizes, extra) :
             sizes \in {<<>>, <<0>>, <<2>>, <<1, 1>>}, extra \in {{}, {"cards"}}}
    \cup {Shape("older", <<n>>, extra) : n \in 0..1, extra \in {{}, {"searched"}}}
    \cup {Shape("mute", <<>>, {"cards"}), Shape("oldest", <<>>, {})}

Asked1 == [fold |-> "tesla debt", as |-> "typed"]
Ticker1 == [fold |-> "tsla debt", as |-> "ticker"]
Planned1 == [fold |-> "risk factors", as |-> "other"]

\* The n-th chunk of a conversation, numbered n.
Chunk(n) ==
    [rank |-> n, body |-> Prose(n, IF n % 2 = 0 THEN "=" ELSE "a", FALSE),
     distance |-> IF n = 2 THEN None ELSE 1,
     provenance |-> IF n = 4 THEN <<>> ELSE <<[variant |-> IF n = 3 THEN Ticker1 ELSE Asked1]>>]

Searched(first, size) ==
    [variants |-> IF first = 4 THEN <<>> ELSE <<Asked1, Ticker1, Planned1>>,
     translated |-> TRUE, planned |-> size # 1,
     contexts |-> [j \in 1..size |-> Chunk(first + j - 1)]]

Deck == <<[kind |-> "quote", stale |-> TRUE], [kind |-> "unknown", stale |-> FALSE]>>

\* A row of this shape whose first chunk is the n-th.
RowOf(shape, n) ==
    LET says == Prose(shape.kind, IF shape.sizes = <<2>> THEN "-" ELSE "=", n % 2 = 0)
        deck == IF "cards" \in shape.extra THEN [cards |-> Deck] ELSE <<>>
        starts(i) == n + (IF i = 1 THEN 0 ELSE shape.sizes[1])
    IN CASE shape.kind = "user" -> Asking(says)
         [] shape.kind \in {"blocked", "oldest"} -> Blocked(says)
         [] shape.kind = "refused" -> Refusal(says)
         [] shape.kind = "mute" -> Answer(says, deck)
         [] shape.kind = "answer" ->
              Answer(says, [searches |-> [i \in DOMAIN shape.sizes |->
                                            Searched(starts(i), shape.sizes[i])]] @@ deck)
         [] shape.kind = "older" ->
              Blocked(says) @@ [contexts |-> [j \in 1..shape.sizes[1] |-> Chunk(n + j - 1)]]
                            @@ (IF shape.extra = {} THEN <<>>
                                ELSE [searched |-> shape.sizes[1] # 0])

\* The conversation's chunks are numbered in one run through its rows.
Session(shapes) ==
    LET before(i) == SumFunctionOnSet(
                        [j \in 1..(i - 1) |-> FoldLeft(LAMBDA x, y : x + y, 0, shapes[j].sizes)],
                        1..(i - 1))
    IN [i \in DOMAIN shapes |-> RowOf(shapes[i], before(i) + 1)]

Exports == [kind : {"export"}, rows : {Session(s) : s \in UpTo(3, Shapes)}]

(* Six questions a bucket, the first number that can be significant, under *)
(* the four arms: nothing scored, no difference, too few differences, a    *)
(* gain of the strategy or a loss from translation on both metrics or on   *)
(* one, and a mixture.                                                     *)
Level(up, base) == [q \in 1..6 |-> IF q <= up THEN base + q ELSE 10]

Unscored == [q \in {} |-> 0]

Column(precision, recall) == [precision |-> precision, recall |-> recall]

Flat == [a \in SCORED_ARMS |-> Level(0, 10)]

TranslationLoses == [a \in SCORED_ARMS |-> IF a = "hybrid+translation" THEN Level(6, 0) ELSE Level(0, 10)]

StrategyGains == [a \in SCORED_ARMS |-> Level(IF a \in {"hybrid", "hybrid+translation"} THEN 6 ELSE 0, 20)]

Few5 == [a \in SCORED_ARMS |-> Level(IF a = "hybrid+translation" THEN 5 ELSE 0, 20)]

Mixed == [a \in SCORED_ARMS |->
            IF a = "hybrid+translation" THEN [q \in 1..6 |-> IF q % 2 = 0 THEN 10 + q ELSE 10 - q]
            ELSE Level(0, 10)]

Absent == [a \in SCORED_ARMS |-> IF a = "hybrid" THEN Level(0, 10) ELSE Unscored]

Columns ==
    {Column(Flat, Flat), Column(TranslationLoses, TranslationLoses),
     Column(TranslationLoses, Flat), Column(StrategyGains, Mixed), Column(Few5, Few5),
     Column(Mixed, Mixed), Column(Absent, Flat)}

Runs ==
    {[b \in Bucket |-> CASE b = "semantic" -> s [] b = "exact-identifier" -> e
                          [] b = "multi-hop" -> h [] OTHER -> Column(Flat, Flat)] :
        s \in Columns, e \in Columns,
        h \in {Column(TranslationLoses, TranslationLoses), Column(Few5, Few5), Column(Mixed, Mixed)}}

Decided == [kind : {"decide"}, cells : Runs]

(* What a turn appends: a scored cell's replayed plan and its retrieval,   *)
(* the round the resolve pass pays for, a cell whose planner is off, one   *)
(* without translation, and a live turn, verbatim and cited or neither.    *)
Plan(turn, cap, found, usage) ==
    Event("query_translation", turn, 1,
          [max_sub_queries |-> cap, sub_queries |-> found, latency_ms |-> 5] @@ usage)

Retrieved1(turn, translated, ms) ==
    Event("retrieval", turn, 1, [translation |-> translated, latency_ms |-> ms])

LiveTurn(turn, verbatim) ==
    <<Plan(turn, 2, 1, PlannerPaid), Retrieved1(turn, TRUE, 9),
      Event("agent_query", turn, 1, [thread_id |-> turn.thread, verbatim |-> verbatim]),
      Event("citation_markers", turn, 1,
            [sources |-> 2, resolved |-> IF verbatim THEN 1 ELSE 0,
             unresolved |-> IF verbatim THEN <<>> ELSE <<9>>, non_numeric |-> 0])>>

Written(turn) ==
    {<<Plan(turn, 2, 0, <<>>), Retrieved1(turn, TRUE, 6)>>, <<Plan(turn, 2, 2, PlannerPaid)>>,
     <<Plan(turn, 0, 0, <<>>), Retrieved1(turn, TRUE, 2)>>, <<Retrieved1(turn, FALSE, 1)>>,
     LiveTurn(turn, TRUE), LiveTurn(turn, FALSE)}

\* The merges of two sequences: s at the places, t at the rest.
Shuffled(s, t, places) ==
    [i \in 1..(Len(s) + Len(t)) |->
        IF i \in places THEN s[Cardinality(places \cap 1..i)] ELSE t[Cardinality(1..i \ places)]]

Windows ==
    [kind : {"window"},
     events : UNION {{Shuffled(s \o s2, t, places) : places \in kSubset(Len(s \o s2), 1..Len(s \o s2 \o t))} :
                        s \in Written(A(1)), s2 \in Written(A(2)), t \in Written(B)}]

EveryJob == Translations \cup Fusions \cup Comparisons \cup Pairs \cup Reads \cup Screenings \cup Shows \cup Suites
            \cup Exports \cup Decided \cup Windows
===============================================================================
