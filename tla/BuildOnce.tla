------------------------------ MODULE BuildOnce ------------------------------
(***************************************************************************)
(* caching.build_once: process-level singletons that survive being asked   *)
(* for concurrently.  Each wrapped constructor is a site with one lock and *)
(* one least-recently-used memo.  The lock is held across the              *)
(* construction; a constructor that raises leaves nothing in the memo;     *)
(* cache_clear is forwarded from the memo and takes no lock.               *)
(*                                                                         *)
(* A site's objects for one argument are numbered in the order they were   *)
(* made, so two callers hold the same object iff the numbers are equal.    *)
(***************************************************************************)
EXTENDS Integers, Sequences, SequencesExt

CONSTANTS
    Caller,     \* the threads that ask
    Site,       \* the wrapped constructors
    Arg,        \* what they are called with
    MaxSize,    \* MaxSize[s]: the maxsize its memo was built with
    MaxClears,  \* bound: site s is cleared at most MaxClears[s] times
    None        \* nobody, nothing asked

ASSUME MemosHoldSomething == MaxSize \in [Site -> Nat \ {0}]
ASSUME ClearsAreCounted == MaxClears \in [Site -> Nat]
ASSUME NoneIsNoRequest == None \notin [site : Site, arg : Arg]

VARIABLES
    memo,       \* memo[s]: what the site holds, least recently used first
    builders,   \* builders[s]: the callers inside the constructor
    request,    \* request[c]: what c is waiting for, or None
    got,        \* got[c]: the number c's last call returned, 0 when it raised
    made,       \* history: made[s][a] objects were ever constructed
    dropped,    \* history: how often the site's memo let objects go
    clears      \* how often the site was cleared

onceVars == <<memo, builders, request, got, made, dropped, clears>>

Held == [arg : Arg, obj : Nat \ {0}]

(* The memo of s holds an object for a.                                    *)
Holds(s, a) == \E i \in DOMAIN memo[s] : memo[s][i].arg = a

OnceInit ==
    /\ memo = [s \in Site |-> <<>>]
    /\ builders = [s \in Site |-> {}]
    /\ request = [c \in Caller |-> None]
    /\ got = [c \in Caller |-> 0]
    /\ made = [s \in Site |-> [a \in Arg |-> 0]]
    /\ dropped = [s \in Site |-> 0]
    /\ clears = [s \in Site |-> 0]

(* c calls the wrapper of s with a: it has to take the lock first.         *)
Request(c, s, a) ==
    /\ request[c] = None
    /\ request' = [request EXCEPT ![c] = [site |-> s, arg |-> a]]
    /\ UNCHANGED <<memo, builders, got, made, dropped, clears>>

Return(c, n) ==
    /\ request' = [request EXCEPT ![c] = None]
    /\ got' = [got EXCEPT ![c] = n]

(* Mutant: lru_cache alone, no lock.                                       *)
LockIsFree_bug(s) == TRUE

(* The lock is free when nobody is inside the constructor.                 *)
LockIsFree(s) == builders[s] = {}

(* A memo hit, in one step under the lock: the entry becomes the youngest. *)
Hit(c) ==
    LET s == request[c].site IN
    /\ request[c] # None
    /\ LockIsFree(s)
    /\ \E i \in DOMAIN memo[s] :
          /\ memo[s][i].arg = request[c].arg
          /\ memo' = [memo EXCEPT ![s] = Append(RemoveAt(@, i), @[i])]
          /\ Return(c, memo[s][i].obj)
    /\ UNCHANGED <<builders, made, dropped, clears>>

(* A miss: c takes the lock and calls the constructor.                     *)
Miss(c) ==
    LET s == request[c].site IN
    /\ request[c] # None
    /\ LockIsFree(s)
    /\ ~Holds(s, request[c].arg)
    /\ builders' = [builders EXCEPT ![s] = @ \cup {c}]
    /\ UNCHANGED <<memo, request, got, made, dropped, clears>>

(* What lru_cache does with a new object: an argument somebody else has    *)
(* stored meanwhile is left alone, and a full memo lets its oldest go.     *)
Stored(s, a, n) ==
    LET e == [arg |-> a, obj |-> n] IN
    IF Holds(s, a) THEN memo[s]
    ELSE IF Len(memo[s]) >= MaxSize[s] THEN Append(Tail(memo[s]), e)
    ELSE Append(memo[s], e)

(* The constructor returned.                                               *)
Built(c) ==
    LET s == request[c].site
        a == request[c].arg
        n == made[s][a] + 1
        full == ~Holds(s, a) /\ Len(memo[s]) >= MaxSize[s]
    IN
    /\ request[c] # None
    /\ c \in builders[s]
    /\ made' = [made EXCEPT ![s][a] = n]
    /\ memo' = [memo EXCEPT ![s] = Stored(s, a, n)]
    /\ dropped' = [dropped EXCEPT ![s] = IF full THEN @ + 1 ELSE @]
    /\ builders' = [builders EXCEPT ![s] = @ \ {c}]
    /\ Return(c, n)
    /\ UNCHANGED clears

(* Mutant: a constructor that raises leaves the lock taken.                *)
Failed_bug(c) ==
    /\ request[c] # None
    /\ c \in builders[request[c].site]
    /\ Return(c, 0)
    /\ UNCHANGED <<memo, builders, made, dropped, clears>>

(* The constructor raised: the lock is released and nothing is kept.       *)
Failed(c) ==
    LET s == request[c].site IN
    /\ request[c] # None
    /\ c \in builders[s]
    /\ builders' = [builders EXCEPT ![s] = @ \ {c}]
    /\ Return(c, 0)
    /\ UNCHANGED <<memo, made, dropped, clears>>

(* cache_clear, at any moment, under no lock.                              *)
Clear(s) ==
    /\ clears[s] < MaxClears[s]
    /\ clears' = [clears EXCEPT ![s] = @ + 1]
    /\ memo' = [memo EXCEPT ![s] = <<>>]
    /\ dropped' = [dropped EXCEPT ![s] = @ + 1]
    /\ UNCHANGED <<builders, request, got, made>>

(* A call of c, once made, goes through these steps.                       *)
Proceed(c) == Hit(c) \/ Miss(c) \/ Built(c) \/ Failed(c)

OnceNext ==
    \/ \E c \in Caller : Proceed(c) \/ \E s \in Site, a \in Arg : Request(c, s, a)
    \/ \E s \in Site : Clear(s)

OnceSpec == OnceInit /\ [][OnceNext]_onceVars

-------------------------------------------------------------------------------

OnceTypeOK ==
    /\ memo \in [Site -> Seq(Held)]
    /\ builders \in [Site -> SUBSET Caller]
    /\ request \in [Caller -> {None} \cup [site : Site, arg : Arg]]
    /\ got \in [Caller -> Nat]
    /\ made \in [Site -> [Arg -> Nat]]
    /\ dropped \in [Site -> Nat]
    /\ clears \in [Site -> Nat]

(* Two callers are never inside the constructor of one site together: the  *)
(* race on chromadb's registry that the module docstring of caching.py     *)
(* records (caching.py:13-26).                                             *)
OneConstruction ==
    \A s \in Site : \A c, d \in builders[s] : c = d

(* A second object for the same argument exists only because the memo let  *)
(* one go: with no clear and room for every argument, callers that got     *)
(* anything got the same thing, however they overlapped and however many   *)
(* constructions raised before.                                            *)
MadeAgainOnlyIfDropped ==
    \A s \in Site, a \in Arg : made[s][a] <= 1 + dropped[s]
==============================================================================
