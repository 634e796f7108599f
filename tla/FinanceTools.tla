----------------------------- MODULE FinanceTools -----------------------------
(***************************************************************************)
(* The three finance tools of tools/finance.py over the caches they share. *)
(* A call resolves its ticker, reads its own figures and then, for         *)
(* calculate_ratios, one peer after another; time passes and other calls   *)
(* refresh entries in between.  It always ends in a card: a refusal, an    *)
(* outage, or figures with one freshness for all of them.                  *)
(*                                                                         *)
(* The quote cache and the headline cache are two objects with the same    *)
(* TTL; here they are one `FetchContract` whose keys say which is meant.   *)
(***************************************************************************)
EXTENDS FetchContract, Sequences, FiniteSets, SequencesExt, FiniteSetsExt

CONSTANTS
    Ticker,     \* the Universe
    Peers,      \* Peers[k]: its cluster's other members, in order
    Argument,   \* what the model may pass as a ticker
    Resolve,    \* Resolve[a]: the ticker it strips and upper-cases to, or None
    MaxClock    \* bound: ticks that pass

VARIABLES
    call,       \* call[t]: the call t is in the middle of, or None
    card        \* card[t]: the card of t's last call, or None

financeVars == <<contractVars, call, card>>

Tool == {"get_stock_data", "calculate_ratios", "get_recent_news"}

Quote(k) == <<"quote", k>>
News(k) == <<"news", k>>

(* What a call reads, in order: its own entry, then its peers'.            *)
Reads(tool, k) ==
    CASE tool = "get_stock_data"   -> <<Quote(k)>>
      [] tool = "calculate_ratios" -> <<Quote(k)>> \o [i \in DOMAIN Peers[k] |-> Quote(Peers[k][i])]
      [] tool = "get_recent_news"  -> <<News(k)>>

FinanceInit ==
    /\ Init
    /\ call = [t \in Thread |-> None]
    /\ card = [t \in Thread |-> None]

Failed(tool, why) == [kind |-> "failed", tool |-> tool, why |-> why]

(* resolve_ticker: an argument outside the Universe is refused, and        *)
(* nothing is fetched for it.                                              *)
Refuse(t, tool, a) ==
    /\ call[t] = None
    /\ Resolve[a] \notin Ticker
    /\ card' = [card EXCEPT ![t] = Failed(tool, "refused")]
    /\ UNCHANGED <<contractVars, call>>

Begin(t, tool, a) ==
    /\ call[t] = None
    /\ Resolve[a] \in Ticker
    /\ call' = [call EXCEPT ![t] = [tool |-> tool, ticker |-> Resolve[a],
                                    todo |-> Reads(tool, Resolve[a]),
                                    took |-> {}, missed |-> {}, began |-> clock]]
    /\ UNCHANGED <<contractVars, card>>

AskNext(t) ==
    /\ call[t] # None
    /\ Ask(t, Head(call[t].todo))
    /\ UNCHANGED <<call, card>>

(* Mutant: the best of the fetches.                                        *)
FreshnessOf_bug(fetched) ==
    [stale |-> \A f \in fetched : f.kind = "stale",
     age |-> Min({f.age : f \in fetched})]

(* Freshness.of: the worst of the fetches behind a card.                   *)
FreshnessOf(fetched) ==
    [stale |-> \E f \in fetched : f.kind = "stale",
     age |-> Max({f.age : f \in fetched})]

DataCard(c, fetched, missed) ==
    [kind |-> c.tool, ticker |-> c.ticker, figures |-> fetched, unavailable |-> missed,
     freshness |-> FreshnessOf(fetched), began |-> c.began, at |-> clock]

(* The peers a call names as unavailable once r has answered.              *)
Missed(c, r) ==
    IF r.kind = "raised" THEN c.missed \cup {r.key[2]} ELSE c.missed

(* What the answer r to the fetch at the head of todo does to the call:    *)
(* an outage of its own source ends it, a peer's outage is noted, and the  *)
(* last read makes the card.                                               *)
Take(t, r) ==
    LET c == call[t]
        own == Head(c.todo) = Reads(c.tool, c.ticker)[1]
        took == IF r.kind = "raised" THEN c.took ELSE c.took \cup {r}
        ends(k) == /\ card' = [card EXCEPT ![t] = k]
                   /\ call' = [call EXCEPT ![t] = None]
    IN
    \/ own /\ r.kind = "raised" /\ ends(Failed(c.tool, "unavailable"))
    \/ /\ ~(own /\ r.kind = "raised")
       /\ Len(c.todo) = 1
       /\ ends(DataCard(c, took, Missed(c, r)))
    \/ /\ ~(own /\ r.kind = "raised")
       /\ Len(c.todo) > 1
       /\ call' = [call EXCEPT ![t] = [c EXCEPT !.todo = Tail(@), !.took = took,
                                                !.missed = Missed(c, r)]]
       /\ UNCHANGED card

(* The cache answers the fetch t has open, and the call goes on with it.   *)
Answered(t) ==
    /\ call[t] # None
    /\ AnswerFromCache(t) \/ AnswerFromSource(t) \/ AnswerStale(t) \/ AnswerRaised(t)
    /\ Take(t, reply'[t])

Tick ==
    /\ clock < MaxClock
    /\ Pass
    /\ UNCHANGED <<call, card>>

FinanceStep(t) == AskNext(t) \/ Answered(t)

-------------------------------------------------------------------------------

DataCards == {card[t] : t \in {u \in Thread : card[u] # None /\ card[u].kind # "failed"}}

(* When the source last answered with a figure the fetch f carried.        *)
Since(f) == f.at - f.age

(* A card never makes a figure look better than it is (finance.py:149-156, *)
(* "the only summary that cannot overstate"): unless it is marked stale    *)
(* every figure was inside its window when it was read, and no figure is   *)
(* older than the stated age plus the time the call itself took.  Every    *)
(* peer is either behind the figures or named as unavailable.              *)
CardsAreHonest ==
    \A c \in DataCards :
       /\ \A f \in c.figures :
             /\ c.freshness.stale \/ f.age <= TTL
             /\ c.at - Since(f) <= c.freshness.age + (c.at - c.began)
       /\ c.kind = "calculate_ratios" =>
             LET seen == {f.key[2] : f \in c.figures} IN
             /\ seen \cap c.unavailable = {}
             /\ seen \cup c.unavailable = {c.ticker} \cup ToSet(Peers[c.ticker])

(* Two calls whose reads of one company fall into one TTL window show the  *)
(* same figures, whichever tools they are and however they interleave      *)
(* (quotes.py:249-254, "every reader shares one TTL window").  Of two      *)
(* reads at one instant the stale one came first, before the window.       *)
OneFigurePerWindow ==
    \A c, d \in DataCards : \A f \in c.figures, g \in d.figures :
       (/\ f.key = g.key
        /\ g.at < f.at \/ (g.at = f.at /\ f.kind = "fresh")
        /\ f.at - Since(g) <= TTL)
          => Since(f) = Since(g) /\ f.taken = g.taken
==============================================================================
