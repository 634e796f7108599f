------------------------------- MODULE Telemetry -------------------------------
(***************************************************************************)
(* Turns, the lines they leave in the shared event log, and the spend      *)
(* meter that reads them back (app/Home.py, agent/agent.py,                *)
(* observability/).  Sessions of one process configure one logger; other   *)
(* processes append to the same file; a process may be killed in the       *)
(* middle of a line.  Of a turn's lines the file here holds those the      *)
(* meter reads: its screening, its markers and its failure are left out.   *)
(***************************************************************************)
EXTENDS LogSink, Spend

CONSTANTS
    Usages,         \* what a provider may report of a call
    MaxTurns,       \* questions asked
    MaxCalls,       \* paid calls in all
    MaxRuns,        \* runs of the page's script
    MaxLines,       \* pieces in the file
    MaxAccidents    \* kills and lines of other processes

VARIABLES
    file,       \* the sink, piece by piece
    cap,        \* settings.max_sub_queries
    thread,     \* session_state.thread_id
    offset,     \* session_state.sink_offset
    turn,       \* the turn a session's script is answering, 0 for none
    phase,      \* where that turn is
    replies,    \* the usage of its own replies so far
    truth,      \* what each turn did, whether or not a line says so
    lost,       \* the threads one of whose lines cannot be read back
    runs, accidents

vars == <<sinkVars, file, cap, thread, offset, turn, phase, replies, truth, lost, runs, accidents>>

turnVars == <<turn, phase, replies>>
sessionVars == <<thread, offset>>

\* What one call costs, whatever its provider reports.
Price == [input_tokens |-> 2, output_tokens |-> 1]

\* A count that is reported is what the call cost.
ASSUME UsagesAssumption ==
    \A usage \in Usages : \A f \in DOMAIN usage \cap TOKEN_FIELDS :
       IsNumber(usage[f]) => usage[f] = Price[f]

\* None and Odd are no counts, and None is no thread and no turn's id.
ASSUME NoneAssumption ==
    /\ None \notin Nat /\ Odd \notin Nat
    /\ None \notin Sessions \X Nat
    /\ \A s \in Sessions : \A r \in 0..MaxRuns, n \in 1..MaxTurns : None # TurnId(<<s, r>>, n)

ASSUME BoundsAssumption == MaxTurns \in Nat /\ MaxRuns \in Nat

Unasked == [thread |-> None, model |-> 0, planner |-> 0, searched |-> FALSE, finished |-> FALSE]

Turns == {n \in DOMAIN truth : truth[n].thread # None}
Paid == SumFunctionOnSet([n \in DOMAIN truth |-> truth[n].model + truth[n].planner], DOMAIN truth)

Init ==
    /\ SinkInit
    /\ file = <<>>
    /\ cap \in {0, 3}
    /\ thread = [s \in Sessions |-> None]
    /\ offset = [s \in Sessions |-> None]
    /\ turn = [s \in Sessions |-> 0]
    /\ phase = [s \in Sessions |-> "none"]
    /\ replies = [s \in Sessions |-> <<>>]
    /\ truth = [n \in 1..MaxTurns |-> Unasked]
    /\ lost = {}
    /\ runs = 0
    /\ accidents = 0

-------------------------------------------------------------------------------

\* What follows a piece without its newline is on the same line as it.
Swallowed(s) == Len(file) > offset[s] /\ ~Last(file).ended

\* log_event, under the turn's id: one line in every file handler there is.
Emit(s, name, fields) ==
    LET line == Piece(Event(name, TurnId(thread[s], turn[s]), 1, fields), TRUE) IN
    /\ Len(file) < MaxLines
    /\ file' = file \o [i \in 1..Copies |-> line]
    /\ lost' = IF Copies = 0 \/ Swallowed(s) THEN lost \cup {thread[s]} ELSE lost

Moves(s, from, to) ==
    /\ at[s] = "configured"
    /\ phase[s] = from
    /\ phase' = [phase EXCEPT ![s] = to]

\* The top of the script: the logger, and the offset the first time.
BeginRun(s) ==
    /\ runs < MaxRuns
    /\ Clear(s)
    /\ runs' = runs + 1
    /\ UNCHANGED <<file, cap, sessionVars, turnVars, truth, lost, accidents>>

Configure(s) ==
    /\ Install(s)
    /\ offset' = [offset EXCEPT ![s] = IF @ = None THEN SinkOffset(file) ELSE @]
    /\ thread' = [thread EXCEPT ![s] = IF @ = None THEN <<s, runs>> ELSE @]
    /\ UNCHANGED <<file, cap, turnVars, truth, lost, runs, accidents>>

Quiet(s) ==
    /\ Return(s)
    /\ turn' = [turn EXCEPT ![s] = 0]
    /\ phase' = [phase EXCEPT ![s] = "none"]
    /\ replies' = [replies EXCEPT ![s] = <<>>]

\* A run ends without a total: nothing was asked, a model, a tool or the store
\* raised, the step limit was reached, or the reader clicked elsewhere.
EndRun(s) ==
    /\ Quiet(s)
    /\ UNCHANGED <<file, cap, sessionVars, truth, lost, runs, accidents>>

\* "Start over": a new thread, the offset as it was.
StartOver(s) ==
    /\ at[s] = "configured"
    /\ phase[s] = "none"
    /\ \E n \in Turns : truth[n].thread = thread[s]
    /\ thread' = [thread EXCEPT ![s] = <<s, runs>>]
    /\ UNCHANGED <<sinkVars, file, cap, offset, turnVars, truth, lost, runs, accidents>>

\* A question that passes the gate; one that is refused there spends nothing
\* the meter reads.
Ask(s) ==
    LET n == Cardinality(Turns) + 1 IN
    /\ n <= MaxTurns
    /\ Moves(s, "none", "model")
    /\ turn' = [turn EXCEPT ![s] = n]
    /\ truth' = [truth EXCEPT ![n].thread = thread[s]]
    /\ UNCHANGED <<sinkVars, file, cap, sessionVars, replies, lost, runs, accidents>>

\* A completion of the agent's loop, paid for whatever comes of it.
ModelCall(s, usage) ==
    /\ Paid < MaxCalls
    /\ Moves(s, "model", "replied")
    /\ replies' = [replies EXCEPT ![s] = Append(@, usage)]
    /\ truth' = [truth EXCEPT ![turn[s]].model = @ + 1]
    /\ UNCHANGED <<sinkVars, file, cap, sessionVars, turn, lost, runs, accidents>>

\* The reply asks for finance tools only.
UseTools(s) ==
    /\ Moves(s, "replied", "model")
    /\ UNCHANGED <<sinkVars, file, cap, sessionVars, turn, replies, truth, lost, runs, accidents>>

\* query_translation.translate: the planner's call unless the cap is zero.
Translate(s, usage) ==
    /\ IF cap = 0 THEN usage = <<>> ELSE Paid < MaxCalls
    /\ Moves(s, "replied", "retrieve")
    /\ Emit(s, "query_translation", Merged([max_sub_queries |-> cap], UsageFields(usage)))
    /\ truth' = [truth EXCEPT ![turn[s]].planner = @ + (IF cap = 0 THEN 0 ELSE 1),
                              ![turn[s]].searched = TRUE]
    /\ UNCHANGED <<sinkVars, cap, sessionVars, turn, replies, runs, accidents>>

\* The rest of retrieve.
Retrieve(s) ==
    /\ Moves(s, "retrieve", "model")
    /\ Emit(s, "retrieval", <<>>)
    /\ UNCHANGED <<sinkVars, cap, sessionVars, turn, replies, truth, runs, accidents>>

\* agent.answer's line, of the whole turn's calls, and the end of the run.
Finish(s) ==
    /\ phase[s] = "replied"
    /\ Quiet(s)
    /\ Emit(s, COMPLETED_EVENT, Merged([model |-> "chosen"], UsageTotal(replies[s])))
    /\ truth' = [truth EXCEPT ![turn[s]].finished = TRUE]
    /\ UNCHANGED <<cap, sessionVars, runs, accidents>>

-------------------------------------------------------------------------------

\* The process is killed, perhaps writing a line, and started again.
Kill ==
    /\ accidents < MaxAccidents
    /\ accidents' = accidents + 1
    /\ \E torn \in {<<>>, <<Piece(Fragment, FALSE)>>} : file' = file \o torn
    /\ handlers' = <<>>
    /\ lock' = Nobody
    /\ at' = [s \in Sessions |-> "idle"]
    /\ thread' = [s \in Sessions |-> None]
    /\ offset' = [s \in Sessions |-> None]
    /\ turn' = [s \in Sessions |-> 0]
    /\ phase' = [s \in Sessions |-> "none"]
    /\ replies' = [s \in Sessions |-> <<>>]
    /\ UNCHANGED <<cap, truth, lost, runs>>

\* An evaluation run, or a page of another process, writes to the same file.
Others == {Piece(Event(COMPLETED_EVENT, TurnId(<<"row">>, 1), 1,
                       [calls |-> 3, input_tokens |-> 5, input_tokens_calls |-> 3]), TRUE),
           Piece(Event("query_translation", None, 1, [max_sub_queries |-> 3]), TRUE),
           Piece(Fragment, FALSE)}

Foreign ==
    /\ accidents < MaxAccidents
    /\ accidents' = accidents + 1
    /\ Len(file) < MaxLines
    /\ \E piece \in Others : file' = Append(file, piece)
    /\ UNCHANGED <<sinkVars, cap, sessionVars, turnVars, truth, lost, runs>>

Turn(s) ==
    \/ Ask(s) \/ UseTools(s) \/ Retrieve(s) \/ Finish(s)
    \/ \E u \in Usages : ModelCall(s, u) \/ Translate(s, u)

Next ==
    \/ \E s \in Sessions : BeginRun(s) \/ Configure(s) \/ EndRun(s) \/ StartOver(s) \/ Turn(s)
    \/ Kill
    \/ Foreign

Spec == Init /\ [][Next]_vars

-------------------------------------------------------------------------------

\* What the meter of a session reads.
Meter(s) == ConversationSpend(ReadEvents(file, offset[s]), thread[s])

SumOver(g(_), S) == SumFunctionOnSet([n \in S |-> g(n)], S)

(* The meter never shows more than was paid for, whoever else writes to    *)
(* the file and however often the logger is configured.  Of a thread whose *)
(* lines can all be read back it says more: the turns that searched and    *)
(* have no total are counted, and a total not called a floor is what the   *)
(* finished turns and every planner's round cost, exactly, though          *)
(* providers report some calls, or one count of the two (spend.py:259-311, *)
(* tokens.py:57-83).                                                       *)
SpendIsHonest ==
    \A s \in Sessions : offset[s] # None =>
       LET seen == Meter(s)
           mine == {n \in Turns : truth[n].thread = thread[s]}
           paid == SumOver(LAMBDA n : truth[n].model + truth[n].planner, mine)
           covered == SumOver(LAMBDA n : truth[n].planner
                                         + (IF truth[n].finished THEN truth[n].model ELSE 0), mine)
           shown(tokens) == IF Measured(tokens) THEN tokens.total ELSE 0
       IN
       /\ shown(seen.input) <= paid * Price.input_tokens
       /\ shown(seen.output) <= paid * Price.output_tokens
       /\ seen.calls <= paid
       /\ thread[s] \notin lost =>
             /\ seen.unfinished = Cardinality({n \in mine : truth[n].searched /\ ~truth[n].finished})
             /\ AnyMeasured(seen) /\ ~Partial(seen) =>
                   /\ seen.calls = covered
                   /\ seen.input.total = covered * Price.input_tokens
                   /\ seen.output.total = covered * Price.output_tokens
==============================================================================
