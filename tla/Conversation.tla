----------------------------- MODULE Conversation -----------------------------
(***************************************************************************)
(* One reader's conversation: the page (app/Home.py), the agent loop it    *)
(* drives (agent/agent.py) and the citation register that loop keeps       *)
(* (agent/citations.py).                                                   *)
(*                                                                         *)
(* The thread's messages live in the checkpointer, which is written after  *)
(* every super-step.  A round of the loop is three super-steps: the        *)
(* register numbers every retrieved chunk of the thread, the model reads   *)
(* the thread and asks for tools or answers, the tools reply together.     *)
(* The page keeps its own transcript of the answers it rendered.  A turn   *)
(* can end without an answer: a model or a search raises, the step limit   *)
(* is reached, the reader's next click restarts the script.  What it       *)
(* checkpointed until then stays in the thread.                            *)
(***************************************************************************)
EXTENDS Integers, Sequences, FiniteSets

CONSTANTS
    MaxQuestions,   \* MAX_QUESTIONS_PER_SESSION
    MaxAgentSteps,  \* MAX_AGENT_STEPS, in super-steps
    MaxCalls,       \* bound: the model asks for at most so many calls a step
    Found,          \* how many chunks a search may return, 0..retrieval_k
    Histories       \* the threads a session can find in the checkpointer

ASSUME LimitsArePositive ==
    /\ MaxQuestions \in Nat \ {0}
    /\ MaxAgentSteps \in Nat \ {0}
    /\ MaxCalls \in Nat \ {0}

ASSUME FoundIsSizes == Found \subseteq Nat

VARIABLES
    messages,   \* the checkpointed thread
    phase,      \* who moves next: "page", "register", "model" or "tools",
                \* or the page again with an answer in hand: "answered"
    steps,      \* super-steps this turn has taken
    reported,   \* the tool calls this turn's progress note has listed
    asked,      \* questions_asked
    panel,      \* the numbered chunks under the transcript's answers
    read,       \* history: the numbered chunks the model has read
    torn        \* history: a turn of this thread ended before its tools

vars == <<messages, phase, steps, reported, asked, panel, read, torn>>

-------------------------------------------------------------------------------
(* Messages.  A call is known by where it was asked, its provider id; a    *)
(* search's reply carries its chunks' numbers twice: in the text the model *)
(* reads (cited) and in the artifact the page renders (kept).              *)

Tool == {"search_filings", "finance"}

Human == [kind |-> "human"]
AI(calls) == [kind |-> "ai", calls |-> calls]
Reply(call, numbers) ==
    [kind |-> "tool", call |-> call, cited |-> numbers, kept |-> numbers]

IsSearch(m) == m.kind = "tool" /\ m.call.tool = "search_filings"

Call == [id : (Nat \ {0}) \X (Nat \ {0}), tool : Tool]
Message ==
    {Human} \cup [kind : {"ai"}, calls : Seq(Call)]
    \cup [kind : {"tool"}, call : Call, cited : Seq(Nat), kept : Seq(Nat)]

\* A call is known by its place, and replied to at most once, later, with
\* one register in text and artifact.
IsThread(ms) ==
    /\ ms \in Seq(Message)
    /\ \A i \in DOMAIN ms :
          /\ ms[i].kind = "ai" =>
                \A j \in DOMAIN ms[i].calls : ms[i].calls[j].id = <<i, j>>
          /\ ms[i].kind = "tool" =>
                ms[i].call.id[1] < i /\ ms[i].cited = ms[i].kept
    /\ \A i, k \in DOMAIN ms :
          (/\ ms[i].kind = "tool" /\ ms[k].kind = "tool"
           /\ ms[i].call.id = ms[k].call.id) => i = k

ASSUME HistoriesAreThreads == \A h \in Histories : IsThread(h)

\* The numbered chunks of the search replies among ms: <<number, chunk>>,
\* a chunk being known by the search that retrieved it and its place there.
Contexts(ms) ==
    UNION {{<<ms[i].kept[j], <<ms[i].call.id, j>>>> : j \in DOMAIN ms[i].kept} :
           i \in {n \in DOMAIN ms : IsSearch(ms[n])}}

\* Mutant: the whole thread, the replayed turns included.
ThisTurn_bug(ms) == ms

\* The messages since the last question, or all when there is none.
ThisTurn(ms) ==
    LET questions == {i \in DOMAIN ms : ms[i].kind = "human"} IN
    IF questions = {} THEN ms
    ELSE LET last == CHOOSE i \in questions : \A j \in questions : j <= i
         IN SubSeq(ms, last, Len(ms))

-------------------------------------------------------------------------------
(* The register: one pass over the thread's search replies, in order.      *)

\* Mutant: the numbering restarts at every question.
NextNumber_bug(ms) ==
    LET next[i \in 0..Len(ms)] ==
            IF i = 0 \/ ms[i].kind = "human" THEN 1
            ELSE next[i - 1] + (IF IsSearch(ms[i]) THEN Len(ms[i].kept) ELSE 0)
    IN next

\* NextNumber(ms)[i] is the number owed to the first chunk after message i.
NextNumber(ms) ==
    LET next[i \in 0..Len(ms)] ==
            IF i = 0 THEN 1
            ELSE next[i - 1] + (IF IsSearch(ms[i]) THEN Len(ms[i].kept) ELSE 0)
    IN next

Owed(ms, i) ==
    [j \in DOMAIN ms[i].kept |-> NextNumber(ms)[i - 1] + j - 1]

\* The thread with every reply whose numbers are not those it is owed
\* replaced, text and artifact.
Renumbered(ms) ==
    [i \in DOMAIN ms |->
        IF IsSearch(ms[i]) /\ ms[i].kept # Owed(ms, i)
        THEN Reply(ms[i].call, Owed(ms, i))
        ELSE ms[i]]

-------------------------------------------------------------------------------
(* The progress note: every streamed state lists this turn's new calls.    *)

CallsIn(ms) ==
    LET calls[i \in 0..Len(ms)] ==
            IF i = 0 THEN <<>>
            ELSE calls[i - 1] \o (IF ms[i].kind = "ai" THEN ms[i].calls ELSE <<>>)
    IN calls[Len(ms)]

\* A call that is not listed yet is listed last.
Adding(listed, c) ==
    IF \E k \in DOMAIN listed : listed[k] = c THEN listed ELSE Append(listed, c)

\* What the note lists once it has been told of some calls.
Told(already) ==
    [calls \in Seq(Call) |->
        LET listed[i \in 0..Len(calls)] ==
                IF i = 0 THEN already ELSE Adding(listed[i - 1], calls[i])
        IN listed[Len(calls)]]

Reported(ms, already) == Told(already)[CallsIn(ThisTurn(ms))]

-------------------------------------------------------------------------------
(* What the thread holds.                                                  *)

Searches == {i \in DOMAIN messages : IsSearch(messages[i])}
Questions == {i \in DOMAIN messages : messages[i].kind = "human"}
Replies == {i \in DOMAIN messages : messages[i].kind = "tool"}

\* Every call the thread holds, and those nothing has replied to.
Calls ==
    UNION {{messages[i].calls[j] : j \in DOMAIN messages[i].calls} :
           i \in {n \in DOMAIN messages : messages[n].kind = "ai"}}
OpenCalls == Calls \ {messages[i].call : i \in Replies}

-------------------------------------------------------------------------------
Init ==
    /\ messages \in Histories
    /\ phase = "page"
    /\ steps = 0
    /\ reported = <<>>
    /\ asked = 0
    /\ panel = {}
    /\ read = {}
    /\ torn = (OpenCalls # {})

-------------------------------------------------------------------------------
(* The page.                                                               *)

\* A question the input gate blocks is counted and answered with a refusal;
\* the agent never sees it.
AskBlocked ==
    /\ phase = "page"
    /\ asked < MaxQuestions
    /\ asked' = asked + 1
    /\ UNCHANGED <<messages, phase, steps, reported, panel, read, torn>>

\* A question that passes is appended to the thread and streamed.
Ask ==
    /\ phase = "page"
    /\ asked < MaxQuestions
    /\ asked' = asked + 1
    /\ messages' = Append(messages, Human)
    /\ phase' = "register"
    /\ steps' = 0
    /\ reported' = <<>>
    /\ UNCHANGED <<panel, read, torn>>

\* Mutant: a fresh thread id, and the old transcript.
StartOver_bug ==
    /\ phase = "page"
    /\ messages' = <<>>
    /\ read' = {}
    /\ torn' = FALSE
    /\ steps' = 0
    /\ reported' = <<>>
    /\ UNCHANGED <<phase, asked, panel>>

\* A fresh thread id and an empty transcript; the questions stay counted.
StartOver ==
    /\ phase = "page"
    /\ messages' = <<>>
    /\ panel' = {}
    /\ read' = {}
    /\ torn' = FALSE
    /\ steps' = 0
    /\ reported' = <<>>
    /\ UNCHANGED <<phase, asked>>

-------------------------------------------------------------------------------
(* The agent's super-steps.                                                *)

\* Mutant: the limit is one super-step short.
OutOfSteps_bug == steps >= MaxAgentSteps - 1

OutOfSteps == steps >= MaxAgentSteps

Runs(node) ==
    /\ phase = node
    /\ ~OutOfSteps
    /\ steps' = steps + 1

Register ==
    /\ Runs("register")
    /\ messages' = Renumbered(messages)
    /\ phase' = "model"
    /\ reported' = Reported(messages', reported)
    /\ UNCHANGED <<asked, panel, read, torn>>

\* The model reads the whole thread.
Reads ==
    read' = read \cup
        UNION {{<<messages[i].cited[j], <<messages[i].call.id, j>>>> :
                    j \in DOMAIN messages[i].cited} :
               i \in {n \in DOMAIN messages : IsSearch(messages[n])}}

\* It asks for tools, and the page lists them before they run.
CallTools ==
    /\ Runs("model")
    /\ Reads
    /\ \E n \in 1..MaxCalls, tool \in [1..MaxCalls -> Tool] :
          LET calls == [j \in 1..n |-> [id |-> <<Len(messages) + 1, j>>, tool |-> tool[j]]]
          IN messages' = Append(messages, AI(calls))
    /\ phase' = "tools"
    /\ reported' = Reported(messages', reported)
    /\ UNCHANGED <<asked, panel, torn>>

\* It answers, and the stream ends.
Answer ==
    /\ Runs("model")
    /\ Reads
    /\ messages' = Append(messages, AI(<<>>))
    /\ phase' = "answered"
    /\ reported' = Reported(messages', reported)
    /\ UNCHANGED <<asked, panel, torn>>

\* The step's calls run together on the same input, each search numbering
\* its own chunks from one, and their replies are appended in some order.
Tools ==
    /\ Runs("tools")
    /\ LET calls == messages[Len(messages)].calls
           N == DOMAIN calls
       IN \E order \in {p \in [N -> N] : \A i, j \in N : p[i] = p[j] => i = j},
             found \in [N -> Found \cup {0}] :
             /\ \A i \in N : found[i] \in (IF calls[i].tool = "finance" THEN {0} ELSE Found)
             /\ messages' = messages \o
                    [i \in N |-> Reply(calls[order[i]], [j \in 1..found[order[i]] |-> j])]
    /\ phase' = "register"
    /\ reported' = Reported(messages', reported)
    /\ UNCHANGED <<asked, panel, read, torn>>

-------------------------------------------------------------------------------
(* How a turn ends.                                                        *)

\* Mutant: the limit's error never reaches the page.
GiveUp_bug ==
    /\ phase # "page"
    /\ OutOfSteps
    /\ UNCHANGED vars

\* The graph is checked for room before it is checked for work.
GiveUp ==
    /\ phase # "page"
    /\ OutOfSteps
    /\ phase' = "page"
    /\ UNCHANGED <<messages, steps, reported, asked, panel, read, torn>>

\* The chat model raises: its step is not checkpointed.
ModelRaises ==
    /\ phase = "model"
    /\ ~OutOfSteps
    /\ phase' = "page"
    /\ UNCHANGED <<messages, steps, reported, asked, panel, read, torn>>

\* A search raises, as when the query cannot be embedded: no reply of the
\* step is kept.  Finance tools answer a failed fetch with a card.
SearchRaises ==
    /\ phase = "tools"
    /\ ~OutOfSteps
    /\ \E i \in DOMAIN messages[Len(messages)].calls :
          messages[Len(messages)].calls[i].tool = "search_filings"
    /\ phase' = "page"
    /\ torn' = TRUE
    /\ UNCHANGED <<messages, steps, reported, asked, panel, read>>

\* A click while the turn runs restarts the script at its next write to the
\* page: the progress note, or the first after the answer is back.
Interrupt ==
    /\ phase \in {"tools", "answered"}
    /\ phase' = "page"
    /\ torn' = (torn \/ phase = "tools")
    /\ UNCHANGED <<messages, steps, reported, asked, panel, read>>

\* The output validator refuses the answer: a row without sources.
Refuse ==
    /\ phase = "answered"
    /\ ~OutOfSteps
    /\ phase' = "page"
    /\ UNCHANGED <<messages, steps, reported, asked, panel, read, torn>>

Numbers(contexts) == {c[1] : c \in contexts}

\* The numbers in the transcript, read when an answer's markers are checked.
IssuedRanks == Numbers(panel)

\* The answer is rendered over its sources, and the row kept.
Show ==
    /\ phase = "answered"
    /\ ~OutOfSteps
    /\ panel' = panel \cup Contexts(ThisTurn(messages))
    /\ phase' = "page"
    /\ UNCHANGED <<messages, steps, reported, asked, read, torn>>

-------------------------------------------------------------------------------
Loop == Register \/ CallTools \/ Answer \/ Tools \/ GiveUp \/ ModelRaises \/ SearchRaises
Page == Refuse \/ Show

Next == AskBlocked \/ Ask \/ StartOver \/ Interrupt \/ Loop \/ Page

Spec == Init /\ [][Next]_vars

\* Nothing in a turn waits for the reader: every node runs or raises (calls
\* have timeouts), and the page renders what comes back.
FairSpec == Spec /\ WF_vars(Loop \/ Page)

-------------------------------------------------------------------------------
(* What the model is about to read is numbered in one sequence, text and   *)
(* artifact alike: a chunk's number counts the chunks retrieved before it  *)
(* in the thread, whatever searches ran together, whatever order they      *)
(* replied in and however earlier turns ended (citations.renumbered).      *)
RegisterIsASequence ==
    LET chunks == UNION {{<<i, j>> : j \in DOMAIN messages[i].kept} : i \in Searches}
        earlier(p, q) == p[1] < q[1] \/ (p[1] = q[1] /\ p[2] < q[2])
        place(q) == 1 + Cardinality({p \in chunks : earlier(p, q)})
    IN phase = "model" =>
           \A i \in Searches :
              /\ messages[i].cited = messages[i].kept
              /\ \A j \in DOMAIN messages[i].kept :
                    messages[i].kept[j] = place(<<i, j>>)

(* One number means one chunk for the whole conversation: the model never  *)
(* reads a number naming two chunks, or a chunk under two numbers, however *)
(* far apart the two readings are (agent/citations.py, ADR-0008).          *)
OneChunkPerNumber ==
    \A r, s \in read : r[1] = s[1] <=> r[2] = s[2]

(* The register the model reads and the register it read are one.          *)
NumbersAreForGood == RegisterIsASequence /\ OneChunkPerNumber

(* A source the reader was shown keeps its number: every row of the        *)
(* transcript's panels is, to this day, what the thread's register says    *)
(* and what the model read (app/Home.py's replay of AgentTurn.contexts).   *)
PanelAgrees == panel \subseteq (Contexts(messages) \cap read)

(* When a turn's tools are about to run, the progress note has listed      *)
(* every call of this turn once and none of an earlier turn's, not even    *)
(* one an interrupted turn left in the thread (agent._report_steps).       *)
ReportedBeforeRun ==
    LET thisTurn == {c \in Calls : \A q \in Questions : c.id[1] > q} IN
    phase = "tools" =>
        /\ {reported[i] : i \in DOMAIN reported} = thisTurn
        /\ Len(reported) = Cardinality(thisTurn)

(* A call without a reply, which a provider would reject on the next turn, *)
(* is left behind only by a turn whose tools raised or were interrupted:   *)
(* the step limit falls between rounds and never cuts one open             *)
(* (agent.MAX_AGENT_STEPS).                                                *)
OpenCallsAreTorn ==
    phase # "tools" /\ OpenCalls # {} => torn

(* The step limit leaves room for all its rounds but the last: a turn is   *)
(* given up only when the model has asked for tools in more than seven     *)
(* rounds, at the configured 24 (agent.MAX_AGENT_STEPS, 60-70).            *)
Rounds ==
    Cardinality({c.id[1] : c \in {d \in Calls : \A q \in Questions : d.id[1] > q}})
SevenRoundsFit == GiveUp => Rounds > (MaxAgentSteps - 3) \div 3

(* Whatever a step does, it leaves no call open but a torn turn's, and if  *)
(* it gives a turn up, seven rounds were spent.                            *)
LimitFallsBetweenRounds == [][OpenCallsAreTorn' /\ SevenRoundsFit]_vars

(* Every turn ends, answered or not, however often the model asks for      *)
(* tools: the limit turns an endless search into an error (agent.answer).  *)
TurnEnds == phase # "page" ~> phase = "page"

(* The numbers the page holds valid when it checks an answer's markers are *)
(* all those the conversation has handed out (Home.issued_ranks).          *)
IssuedIsKnown ==
    phase = "answered" =>
        Numbers(Contexts(messages)) \subseteq
            IssuedRanks \cup Numbers(Contexts(ThisTurn(messages)))

===============================================================================
