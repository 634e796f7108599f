-------------------------------- MODULE Search --------------------------------
(***************************************************************************)
(* retrieval.retrieve as its callers run it, several at once: the          *)
(* collaborators a search builds on first use (the Chroma handle, the      *)
(* planner's model, the BM25 index over that handle's chunks) and the      *)
(* remote calls that can raise under it.  What the lists hold and how they *)
(* are fused is `Fusion`; here a search ends with chunks, with none, or by *)
(* raising.                                                                *)
(***************************************************************************)
EXTENDS BuildOnce

CONSTANT Settings       \* the argument the store and the planner are built with

VARIABLE
    search  \* search[c]: the stages c's search has left, the handle it reads

searchVars == <<onceVars, search>>

(* One retrieval configuration: the strategy, the translation switch and   *)
(* whether the cap leaves the planner anything to do.                      *)
Configuration == [hybrid : BOOLEAN, translate : BOOLEAN, cap : BOOLEAN]

(* The stages of one retrieval, in the order the code runs them.  A cap of *)
(* zero still constructs the planner's model: it is an argument of         *)
(* translate, evaluated before the cap is looked at.                       *)
Stages(cfg) ==
    <<"store">>
    \o (IF cfg.translate THEN <<"planner">> ELSE <<>>)
    \o (IF cfg.translate /\ cfg.cap THEN <<"plan">> ELSE <<>>)
    \o (IF cfg.hybrid THEN <<"index">> ELSE <<>>)
    \o <<"lists">>

Build == {"store", "planner", "index"}

ASSUME SitesAreBuilt == Site = Build

(* The index is asked for with a handle of the store, and of those there   *)
(* is one, and one more for every time the store is cleared.               *)
ASSUME ArgsCoverHandles == Settings \in Arg /\ 1..(1 + MaxClears["store"]) \subseteq Arg

Idle == [todo |-> <<>>, store |-> 0, outcome |-> "none"]

SearchInit ==
    /\ OnceInit
    /\ search = [c \in Caller |-> Idle]

Searching(c) == search[c].todo # <<>>

Stage(c) == Head(search[c].todo)

BeginSearch(c, cfg) ==
    /\ ~Searching(c)
    /\ search' = [search EXCEPT ![c] = [Idle EXCEPT !.todo = Stages(cfg)]]
    /\ UNCHANGED onceVars

(* The store and the planner are keyed on the settings, the index on the   *)
(* store object itself.                                                    *)
ArgumentOf(c) == IF Stage(c) = "index" THEN search[c].store ELSE Settings

AskFor(c) ==
    /\ Searching(c)
    /\ Stage(c) \in Build
    /\ Request(c, Stage(c), ArgumentOf(c))
    /\ UNCHANGED search

Raise(c) ==
    search' = [search EXCEPT ![c].todo = <<>>, ![c].outcome = "raised"]

Advance(c) ==
    search' = [search EXCEPT ![c].todo = Tail(@)]

(* A step of build_once on c's behalf; a constructor that raises raises    *)
(* out of the search, and out of no other.                                 *)
Obtain(c) ==
    /\ Searching(c)
    /\ Proceed(c)
    /\ \/ request'[c] # None /\ UNCHANGED search
       \/ request'[c] = None /\ got'[c] = 0 /\ Raise(c)
       \/ /\ request'[c] = None
          /\ got'[c] # 0
          /\ IF Stage(c) = "store"
             THEN search' = [search EXCEPT ![c].todo = Tail(@), ![c].store = got'[c]]
             ELSE Advance(c)

(* The planner's one chat call.                                            *)
Plan(c) ==
    /\ Searching(c)
    /\ Stage(c) = "plan"
    /\ Raise(c) \/ Advance(c)
    /\ UNCHANGED onceVars

(* Every variant through every retriever: the embedding calls can raise.   *)
ReadLists(c) ==
    /\ Searching(c)
    /\ Stage(c) = "lists"
    /\ \/ Raise(c)
       \/ \E r \in {"found", "empty"} :
             search' = [search EXCEPT ![c].todo = <<>>, ![c].outcome = r]
    /\ UNCHANGED onceVars

SearchStep(c) == AskFor(c) \/ Obtain(c) \/ Plan(c) \/ ReadLists(c)

==============================================================================
