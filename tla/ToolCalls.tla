------------------------------ MODULE ToolCalls ------------------------------
(***************************************************************************)
(* One super-step of the agent's tool node, and the next ones: the calls   *)
(* the model asked for run at once, a thread each, in one process.  They   *)
(* meet in what the process shares: the constructors searches wait for and *)
(* the caches the finance tools read.                                      *)
(***************************************************************************)
EXTENDS Search

CONSTANTS
    Ticker, Peers, Argument, Resolve, TTL, MaxClock,    \* see FinanceTools
    MaxCalls    \* bound: a thread runs at most so many calls

(* A cluster's other members, once each (config._build_peers).             *)
ASSUME PeersAreOthers ==
    /\ Peers \in [Ticker -> Seq(Ticker)]
    /\ \A k \in Ticker : k \notin ToSet(Peers[k]) /\ IsInjective(Peers[k])
ASSUME WindowIsACount == TTL \in Nat
ASSUME NoneIsNoEntry == None \notin [taken : Nat, at : Nat]

VARIABLES
    clock, held, pending, asked, reply, call, card,     \* see FinanceTools
    ran         \* ran[c]: how many calls thread c has begun

Finance == INSTANCE FinanceTools WITH
    Thread <- Caller, Key <- {"quote", "news"} \X Ticker

financeVars == <<clock, held, pending, asked, reply, call, card>>

vars == <<searchVars, financeVars, ran>>

Init ==
    /\ SearchInit
    /\ Finance!FinanceInit
    /\ ran = [c \in Caller |-> 0]

(* A thread of the pool takes its next call when it has none.              *)
Takes(c) ==
    /\ ran[c] < MaxCalls
    /\ ~Searching(c)
    /\ call[c] = None
    /\ ran' = [ran EXCEPT ![c] = @ + 1]

CallSearch(c) ==
    /\ Takes(c)
    /\ \E cfg \in Configuration : BeginSearch(c, cfg)
    /\ UNCHANGED financeVars

CallFinance(c) ==
    /\ Takes(c)
    /\ \E tool \in Finance!Tool, a \in Argument :
          Finance!Refuse(c, tool, a) \/ Finance!Begin(c, tool, a)
    /\ UNCHANGED searchVars

Runs(c) ==
    \/ SearchStep(c) /\ UNCHANGED financeVars
    \/ Finance!FinanceStep(c) /\ UNCHANGED searchVars

(* Time passes for the caches, a test or a shell clears a singleton.       *)
Elsewhere ==
    \/ Finance!Tick /\ UNCHANGED searchVars
    \/ (\E s \in Site : Clear(s)) /\ UNCHANGED <<search, financeVars>>

Next ==
    \/ \E c \in Caller : CallSearch(c) \/ CallFinance(c)
    \/ \E c \in Caller : Runs(c) /\ UNCHANGED ran
    \/ Elsewhere /\ UNCHANGED ran

Spec == Init /\ [][Next]_vars

(* A thread that can run is run: constructors and sources end, by          *)
(* returning or by raising (their clients have timeouts).                  *)
Fairness == \A c \in Caller : WF_vars(Runs(c) /\ UNCHANGED ran)

FairSpec == Spec /\ Fairness

-------------------------------------------------------------------------------

CardsAreHonest == Finance!CardsAreHonest

OneFigurePerWindow == Finance!OneFigurePerWindow

(* Every call ends, whatever raised under it or under another call that    *)
(* was building the same thing: a failed construction releases the lock    *)
(* and the next caller in line tries for itself.                           *)
EveryCallEnds ==
    \A c \in Caller :
       (Searching(c) \/ call[c] # None) ~> (~Searching(c) /\ call[c] = None)
==============================================================================
