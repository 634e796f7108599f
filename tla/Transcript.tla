------------------------------ MODULE Transcript ------------------------------
(***************************************************************************)
(* The transcript a session keeps: what a turn put on the page, what the   *)
(* next rerun puts there again from the row it left (app/Home.py), and the *)
(* file the reader takes away (export.py).  A row a previous build wrote   *)
(* is still there on the first rerun after a deploy: it may lack the       *)
(* status, the turn, or the fields of the turn.                            *)
(***************************************************************************)
EXTENDS Translation, EventLog

\* A text is what it says, how it opens, and whether a space follows that.
Prose(says, lead, spaced) == [says |-> says, lead |-> lead, spaced |-> spaced]

\* The rows the page appends.
Asking(content) == [role |-> "user", content |-> content]
Blocked(content) == [role |-> "assistant", content |-> content]
Refusal(content) == [role |-> "assistant", content |-> content, status |-> "Answered"]
Answer(content, turn) == Refusal(content) @@ [turn |-> turn]

\* AgentTurn.contexts and searched, None on a turn that has neither.
TurnContexts(turn) ==
    IF "searches" \in DOMAIN turn
    THEN FlattenSeq([i \in DOMAIN turn.searches |-> turn.searches[i].contexts])
    ELSE None

TurnSearched(turn) == IF "searches" \in DOMAIN turn THEN turn.searches # <<>> ELSE None

CardsOf(turn) == IF "cards" \in DOMAIN turn THEN turn.cards ELSE <<>>

-------------------------------------------------------------------------------
(* The panels.                                                             *)

Shown(element, of) == [shows |-> element, of |-> of]

\* A chunk as the sources panel and the file give it.
Source(context) == [rank |-> context.rank, body |-> context.body, distance |-> context.distance]

\* render_sources: nothing found in a search means nothing was ingested.
Sources(contexts, searched) ==
    IF ~searched THEN <<>>
    ELSE IF contexts = <<>> THEN <<Shown("setup banner", None)>>
    ELSE <<Shown("sources", [i \in DOMAIN contexts |-> Source(contexts[i])])>>

RENDERERS == {"quote", "ratios", "news", "failed"}

\* render_tool_cards: a kind this build cannot draw is left out; a card that
\* could not be refreshed says so.
ToolCards(cards) ==
    LET drawn == SelectSeq(cards, LAMBDA c : c.kind \in RENDERERS)
    IN [i \in DOMAIN drawn |-> Shown("card", [kind |-> drawn[i].kind, warned |-> drawn[i].stale])]

\* Search.ticker_form and sub_queries.
AddedTo(search) ==
    IF search.variants = <<>> THEN [form |-> <<>>, planned |-> <<>>]
    ELSE AddedVariants(search.variants)

\* variant_labels: a text found twice keeps the later name.
VariantLabels(search) ==
    LET added == AddedTo(search)
        name(v) == IF v \in ToSet(added.planned)
                   THEN <<"sub-query", Max({i \in DOMAIN added.planned : added.planned[i] = v})>>
                   ELSE IF v \in ToSet(added.form) THEN <<"ticker form">> ELSE <<"original">>
    IN [v \in ToSet(search.variants) |-> name(v)]

Credited(search) ==
    UNION {{found.variant : found \in ToSet(c.provenance)} : c \in ToSet(search.contexts)}

\* barren_variants: none is barren when no provenance was kept.
BarrenVariants(search) ==
    IF Credited(search) = {} THEN <<>>
    ELSE SelectSeq(search.variants, LAMBDA v : v \notin Credited(search))

PlannerCaption(search) ==
    IF ~search.translated THEN "translation was off"
    ELSE IF ~search.planned THEN "planner switched off"
    ELSE IF AddedTo(search).planned = <<>> THEN "planner added nothing"
    ELSE None

Explained(search) ==
    LET label(v) == IF v \in DOMAIN VariantLabels(search) THEN VariantLabels(search)[v]
                    ELSE <<"query">>
    IN [queries |-> [i \in DOMAIN search.variants |-> label(search.variants[i])],
        ticker |-> AddedTo(search).form # <<>>,
        planner |-> PlannerCaption(search),
        chunks |-> [i \in DOMAIN search.contexts |->
                      LET c == search.contexts[i] IN
                      [rank |-> c.rank,
                       rows |-> [j \in DOMAIN c.provenance |-> label(c.provenance[j].variant)]]],
        barren |-> [i \in DOMAIN BarrenVariants(search) |-> label(BarrenVariants(search)[i])]]

\* render_how_i_answered: the searches there is something to say about.
HowIAnswered(searches) ==
    LET explicable == SelectSeq(searches, LAMBDA s : s.variants # <<>> \/ Credited(s) # {})
    IN IF explicable = <<>> THEN <<>>
       ELSE <<Shown("how", [i \in DOMAIN explicable |-> Explained(explicable[i])])>>

ReuseNote(usedTools) == IF usedTools THEN <<>> ELSE <<Shown("reuse note", None)>>

Panels(turn) ==
    ToolCards(CardsOf(turn)) \o Sources(TurnContexts(turn), TurnSearched(turn))
    \o HowIAnswered(turn.searches)
    \o ReuseNote(turn.searches # <<>> \/ CardsOf(turn) # <<>>)

MarkerNote(clean) == IF clean THEN <<>> ELSE <<Shown("marker note", None)>>

\* What a turn of this build leaves on the page: the status box is the
\* agent's, the marker note belongs to the answer's brackets.
Live(row, clean) ==
    (IF "status" \in DOMAIN row THEN <<Shown("status", row.status)>> ELSE <<>>)
    \o <<Shown("text", row.content)>>
    \o (IF "turn" \in DOMAIN row THEN MarkerNote(clean) \o Panels(row.turn) ELSE <<>>)
    \o <<Shown("disclaimer", None)>>

Opening(row) ==
    (IF "status" \in DOMAIN row THEN <<Shown("status", row.status)>> ELSE <<>>)
    \o <<Shown("text", row.content)>>

\* The same row on every later rerun.  A turn without contexts stops the
\* script after its cards.
Replay(row) ==
    Opening(row) \o
    IF row.role = "user" THEN <<>>
    ELSE IF "turn" \in DOMAIN row
    THEN IF "searches" \in DOMAIN row.turn THEN Panels(row.turn) \o <<Shown("disclaimer", None)>>
         ELSE ToolCards(CardsOf(row.turn)) \o <<Shown("raised", None)>>
    ELSE (IF "contexts" \in DOMAIN row
          THEN Sources(row.contexts, IF "searched" \in DOMAIN row THEN row.searched ELSE TRUE)
          ELSE <<>>)
         \o <<Shown("disclaimer", None)>>

\* issued_ranks: the rows of an older shape issue none.
IssuedRanks(rows) ==
    UNION {{c.rank : c \in ToSet(TurnContexts(row.turn))} :
           row \in {r \in ToSet(rows) : "turn" \in DOMAIN r /\ "searches" \in DOMAIN r.turn}}

-------------------------------------------------------------------------------
(* The file.                                                               *)

\* Mutant: a turn that cannot say is written down as one that did not search.
Grounding_bug(row) ==
    IF row.role # "assistant" THEN [contexts |-> None, searched |-> None]
    ELSE IF "turn" \in DOMAIN row
    THEN IF "searches" \in DOMAIN row.turn
         THEN [contexts |-> TurnContexts(row.turn), searched |-> TurnSearched(row.turn)]
         ELSE [contexts |-> <<>>, searched |-> FALSE]
    ELSE IF "contexts" \in DOMAIN row
    THEN [contexts |-> row.contexts,
          searched |-> IF "searched" \in DOMAIN row THEN row.searched ELSE TRUE]
    ELSE [contexts |-> None, searched |-> None]

\* _grounding: what a row says it retrieved and whether it searched, each
\* None when it cannot say.
Grounding(row) ==
    IF row.role # "assistant" THEN [contexts |-> None, searched |-> None]
    ELSE IF "turn" \in DOMAIN row
    THEN [contexts |-> TurnContexts(row.turn), searched |-> TurnSearched(row.turn)]
    ELSE IF "contexts" \in DOMAIN row
    THEN [contexts |-> row.contexts,
          searched |-> IF "searched" \in DOMAIN row THEN row.searched ELSE TRUE]
    ELSE [contexts |-> None, searched |-> None]

Retrieved(row) == IF Grounding(row).contexts = None THEN <<>> ELSE Grounding(row).contexts

\* Transcript.of: a message per row, and one table of every source, the
\* first to take a number keeping it.
TranscriptOf(rows) ==
    LET contexts == FlattenSeq([i \in DOMAIN rows |-> Retrieved(rows[i])])
        ranks == {contexts[i].rank : i \in DOMAIN contexts}
        first(rank) == Min({i \in DOMAIN contexts : contexts[i].rank = rank})
        inOrder == SetToSortSeq(ranks, <)
    IN [messages |->
          [i \in DOMAIN rows |->
              LET g == Grounding(rows[i]) IN
              [role |-> rows[i].role, content |-> rows[i].content, searched |-> g.searched,
               ranks |-> IF g.contexts = None THEN None
                         ELSE [j \in DOMAIN g.contexts |-> g.contexts[j].rank]]],
        sources |-> [i \in DOMAIN inOrder |-> Source(contexts[first(inOrder[i])])]]

\* Transcript.turns
Turns(transcript) == Len(SelectSeq(transcript.messages, LAMBDA m : m.role = "user"))

\* as_json: a key without a value is not written.
AsJson(transcript) ==
    [messages |->
       [i \in DOMAIN transcript.messages |->
          LET m == transcript.messages[i] IN
          [role |-> m.role, content |-> m.content]
          @@ (IF m.searched = None THEN <<>> ELSE [searched |-> m.searched])
          @@ (IF m.ranks = None THEN <<>> ELSE [retrieved_ranks |-> m.ranks])],
     sources |-> transcript.sources]

\* _is_formula: a bullet opens with a sign and a space.
IsFormula(text) == text.lead \in {"=", "@"} \/ (text.lead \in {"+", "-"} /\ ~text.spaced)

\* _text
Guarded(text) == IF IsFormula(text) THEN [text EXCEPT !.lead = "'"] ELSE text

Cell(source) == IF source = None THEN None ELSE [source EXCEPT !.body = Guarded(@)]

\* as_csv: a row per message and source, and one for a message without.
AsCsv(transcript) ==
    LET of(rank) == SelectSeq(transcript.sources, LAMBDA s : s.rank = rank)
        sources(m) == IF m.ranks = None THEN <<>>
                      ELSE FlattenSeq([j \in DOMAIN m.ranks |-> of(m.ranks[j])])
        rows(i) ==
            LET m == transcript.messages[i]
                lines == IF sources(m) = <<>> THEN <<None>> ELSE sources(m)
            IN [j \in DOMAIN lines |->
                  [message |-> i, role |-> m.role, content |-> Guarded(m.content),
                   searched |-> m.searched, source |-> Cell(lines[j])]]
    IN FlattenSeq([i \in DOMAIN transcript.messages |-> rows(i)])

\* log_export: counts, never the text.
ExportLine(transcript) ==
    Event("transcript_export", None, 1,
          [turns |-> Turns(transcript), messages |-> Len(transcript.messages),
           sources |-> Len(transcript.sources)])

\* The page of a session: an empty one offers examples, one with rows its
\* exports, unless a row stopped the script before them.
SessionPage(rows) ==
    LET shown == FlattenSeq([i \in DOMAIN rows |-> Replay(rows[i])])
        raised == {i \in DOMAIN shown : shown[i].shows = "raised"}
    IN IF rows = <<>> THEN <<Shown("examples", None)>>
       ELSE IF raised # {} THEN SubSeq(shown, 1, Min(raised))
       ELSE Append(shown, Shown("export", TranscriptOf(rows)))
===============================================================================
