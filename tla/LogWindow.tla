------------------------------ MODULE LogWindow ------------------------------
(***************************************************************************)
(* The slice of the event log an evaluation artifact's latency and rates   *)
(* are taken over (observability/events.py, evaluation/latency.py and      *)
(* evaluate._log_window).  A sink is one append-only file every process    *)
(* that names it writes to.  A run that measures marks its end before it   *)
(* writes anything and saves the mark beside the cells it pays for; a run  *)
(* that only renders reads the saved mark.  What is read is everything     *)
(* after the mark.                                                         *)
(*                                                                         *)
(* A line is known by who wrote it and by how many evaluation runs had     *)
(* begun by then; nothing of that is in the file.                          *)
(***************************************************************************)
EXTENDS Integers, Sequences

CONSTANTS
    Sink,       \* the files FINBRIEF_LOG_FILE may name
    None        \* no sink, no mark, nothing there

ASSUME NoneIsNoSink == None \notin Sink

VARIABLES
    log,    \* log[s]: the lines of s as appended, by whom and since which run
    mark    \* the saved window, or None when the file is absent or unreadable

windowVars == <<log, mark>>

Other == 0          \* the app, a smoke run, a test: any process but a run

WindowInit ==
    /\ log = [s \in Sink |-> <<>>]
    /\ mark = None

Append1(s, by, era) ==
    log' = [log EXCEPT ![s] = Append(@, [by |-> by, era |-> era])]

\* events.sink_offset: the file's length now.
SinkOffset(s) == Len(log[s])

\* Mutant: the path in the mark is not looked at.
Describes_bug(w, s) == TRUE

\* Window.describes: the mark was taken against this file.
Describes(w, s) == w.path = s

\* What a run that measures takes and saves.
Marked(s, n) == [path |-> s, offset |-> SinkOffset(s), run |-> n]

\* The window of a run on sink s, whether it measures or only renders.
WindowOf(s, measures, n) ==
    IF s = None THEN None
    ELSE IF measures THEN Marked(s, n)
    ELSE IF mark # None /\ Describes(mark, s) THEN mark
    ELSE None

\* latency.load_log: the lines after the offset of the file named now.
LinesIn(w, s) ==
    IF w = None THEN <<>> ELSE SubSeq(log[s], w.offset + 1, Len(log[s]))

\* Another process appends a line to a sink.
OtherWrites(s, era) ==
    /\ Append1(s, Other, era)
    /\ UNCHANGED mark

\* The file is rotated or deleted; the next line recreates it.
Recreated(s) ==
    /\ log' = [log EXCEPT ![s] = <<>>]
    /\ UNCHANGED mark

==============================================================================
