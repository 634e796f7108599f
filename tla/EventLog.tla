------------------------------- MODULE EventLog -------------------------------
(***************************************************************************)
(* Reading the event log back (observability/events.py).  The sink is one  *)
(* append-only file of JSON lines.  What an append leaves in it is a       *)
(* piece: an event, or a fragment of one when the process was killed in    *)
(* the middle of the write, with its newline or without.  Pieces between   *)
(* two newlines are one line, so what is appended after a piece without    *)
(* its newline shares a line with it, and neither can be parsed.           *)
(***************************************************************************)
EXTENDS Places, Integers, Sequences, SequencesExt, FiniteSets, FiniteSetsExt, Functions

CONSTANTS
    None,   \* a field a line does not carry
    Odd     \* a value of a type its emitter never writes: a flag for a count

\* A line's turn id is thread:suffix, or None outside a turn.
TurnId(thread, n) == [thread |-> thread, n |-> n]

Event(name, turn, day, fields) ==
    [name |-> name, turn |-> turn, day |-> day, fields |-> fields]

Fragment == Event("fragment", None, 0, <<>>)

Piece(event, ended) == [event |-> event, ended |-> ended]

\* Event.field: None for a field the line never carried.
Field(event, f) == IF f \in DOMAIN event.fields THEN event.fields[f] ELSE None

\* The fields of both, the first's where they share one.
Merged(first, rest) ==
    [f \in DOMAIN first \cup DOMAIN rest |-> IF f \in DOMAIN first THEN first[f] ELSE rest[f]]

\* A value that is a number, and not a flag or a word.
IsNumber(x) == x \notin {None, Odd}

-------------------------------------------------------------------------------

\* The places after offset where a line begins, and where one ends.
LineStarts(file, offset) ==
    {i \in (offset + 1)..Len(file) : i = offset + 1 \/ file[i - 1].ended}

LineEnds(file) == {i \in DOMAIN file : i = Len(file) \/ file[i].ended}

\* read_events: the events on lines of their own after the offset, and how
\* many lines were not events.
ReadEvents(file, offset) ==
    LET starts == LineStarts(file, offset)
        alone == {i \in starts \cap LineEnds(file) : file[i].event # Fragment}
        said == Those(file, alone)
    IN [events |-> [i \in DOMAIN said |-> said[i].event],
        malformed |-> Cardinality(starts \ alone)]

SinkOffset(file) == Len(file)

\* EventLog.of
Of(log, names) == SelectSeq(log.events, LAMBDA e : e.name \in names)

\* EventLog.samples
Samples(log, name, f) ==
    LET selected == Of(log, {name})
        present == SelectSeq(selected, LAMBDA e : f \in DOMAIN e.fields)
    IN [present |-> [i \in DOMAIN present |-> present[i].fields[f]],
        absent |-> Len(selected) - Len(present)]

\* EventLog.by_turn
ByTurn(log) ==
    [t \in {log.events[i].turn : i \in DOMAIN log.events} |->
        SelectSeq(log.events, LAMBDA e : e.turn = t)]

\* The sum of g over events, a sequence of them or those at some places of one.
SumOf(g(_), events) == SumFunctionOnSet([i \in DOMAIN events |-> g(events[i])], DOMAIN events)
===============================================================================
