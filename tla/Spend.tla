--------------------------------- MODULE Spend ---------------------------------
(***************************************************************************)
(* What a conversation cost, by the lines it left in the log               *)
(* (observability/spend.py), and the counts those lines carry              *)
(* (observability/tokens.py).  A reply's usage is a function from the      *)
(* token fields it reported to their counts.                               *)
(***************************************************************************)
EXTENDS EventLog

TOKEN_FIELDS == {"input_tokens", "output_tokens"}

TOKEN_EVENTS == {"agent_turn", "query_translation"}
ANSWERING_EVENTS == {"retrieval", "query_translation"}
COMPLETED_EVENT == "agent_turn"

\* The name of the field that counts the calls behind a token field.
CallsField(f) == IF f = "input_tokens" THEN "input_tokens_calls" ELSE "output_tokens_calls"

\* tokens.usage_fields: what a reply reported, a wrong type reading as absent.
UsageFields(usage) ==
    LET reported == {f \in DOMAIN usage \cap TOKEN_FIELDS : IsNumber(usage[f])}
    IN Restrict(usage, reported)

\* tokens.usage_total: per field the sum and the number of replies that
\* reported it, and how many replies there were; nothing if none reported.
UsageTotal(replies) ==
    LET reported == [i \in DOMAIN replies |-> UsageFields(replies[i])]
        with(f) == {i \in DOMAIN replies : f \in DOMAIN reported[i]}
        fields == {f \in TOKEN_FIELDS : with(f) # {}}
    IN IF fields = {} THEN <<>>
       ELSE Merged([f \in fields |-> SumFunctionOnSet([i \in with(f) |-> reported[i][f]], with(f))],
                   Merged([c \in {CallsField(f) : f \in fields} |->
                              Cardinality(with(CHOOSE f \in fields : CallsField(f) = c))],
                          [calls |-> Len(replies)]))

\* spend.calls_behind: the paid calls one line stands for, and whether that
\* is a floor.  A planner with a cap of zero makes none.
CallsBehind(e) ==
    IF e.name = "query_translation"
    THEN [made |-> IF Field(e, "max_sub_queries") = 0 THEN 0 ELSE 1, floor |-> FALSE]
    ELSE IF Field(e, "calls") = None THEN [made |-> 1, floor |-> TRUE]
    ELSE [made |-> Field(e, "calls"), floor |-> FALSE]

\* One token field over token-bearing lines: its total, or None if nothing
\* reported it, and the calls behind it that did.
Tokens(lines, f) ==
    LET with == Restrict(lines, {i \in DOMAIN lines : Field(lines[i], f) # None})
        reporting(e) == IF Field(e, CallsField(f)) # None THEN Field(e, CallsField(f))
                        ELSE CallsBehind(e).made
    IN [total |-> IF DOMAIN with = {} THEN None ELSE SumOf(LAMBDA e : Field(e, f), with),
        reported |-> SumOf(reporting, with),
        calls |-> SumOf(LAMBDA e : CallsBehind(e).made, lines)]

Measured(tokens) == tokens.total # None

\* Tokens.partial: some of the calls behind a total did not report it.
PartialField(tokens) == Measured(tokens) /\ tokens.reported < tokens.calls

\* What spend.py and analytics.py both total over token-bearing lines.
TokenTotals(lines) ==
    [calls |-> SumOf(LAMBDA e : CallsBehind(e).made, lines),
     floored |-> Cardinality({i \in DOMAIN lines : CallsBehind(lines[i]).floor}),
     input |-> Tokens(lines, "input_tokens"),
     output |-> Tokens(lines, "output_tokens"),
     models |-> {Field(lines[i], "model") :
                    i \in {j \in DOMAIN lines : lines[j].name = COMPLETED_EVENT}}]

AnyMeasured(s) == Measured(s.input) \/ Measured(s.output)

\* Spend.partial, TokenTotals.partial: a total is shown that is not all of it.
Partial(s) ==
    /\ AnyMeasured(s)
    /\ \/ PartialField(s.input) \/ PartialField(s.output)
       \/ ~Measured(s.input) \/ ~Measured(s.output)

\* Mutant: every thread's lines.
Ours_bug(log, thread, names) ==
    Restrict(log.events, {i \in DOMAIN log.events : /\ log.events[i].name \in names
                                                    /\ log.events[i].turn # None})

\* The lines whose turn id begins with the thread's, where they are in the log.
Ours(log, thread, names) ==
    Restrict(log.events, {i \in DOMAIN log.events : /\ log.events[i].name \in names
                                                    /\ log.events[i].turn # None
                                                    /\ log.events[i].turn.thread = thread})

TurnsIn(lines) == {lines[i].turn : i \in DOMAIN lines}

\* How many turns began to answer and have no total.
Unfinished(log, thread) ==
    Cardinality(TurnsIn(Ours(log, thread, ANSWERING_EVENTS))
                \ TurnsIn(Ours(log, thread, {COMPLETED_EVENT})))

\* spend.conversation_spend
ConversationSpend(log, thread) ==
    LET mine == Ours(log, thread, TOKEN_EVENTS) IN
    Merged(TokenTotals(mine),
           [turns |-> Cardinality(TurnsIn(mine)), unfinished |-> Unfinished(log, thread)])

\* spend.answered_only_on
AnsweredOnlyOn(models, model) == models = {model}

\* spend.priced_dollars, in millionths of a dollar: None when it cannot be.
PricedDollars(input, output, inputPrice, outputPrice, oneModel) ==
    LET usable == {p \in {1, 2} :
                      LET pair == IF p = 1 THEN <<input, inputPrice>> ELSE <<output, outputPrice>>
                      IN pair[1] # None /\ pair[2] # None}
    IN IF ~oneModel \/ usable = {} THEN None
       ELSE (IF 1 \in usable THEN input * inputPrice ELSE 0)
            + (IF 2 \in usable THEN output * outputPrice ELSE 0)

\* spend.unpriced_because_of_the_model: which of its three sentences.
UnpricedBecause(models) ==
    LET named == models \ {None}
        unrecorded == None \in models \/ models = {}
    IN IF named # {} /\ unrecorded THEN "mixes other models with unattributed turns"
       ELSE IF named # {} THEN "ran on another model"
       ELSE "recorded no model"
===============================================================================
