---------------------------- MODULE FetchContract ----------------------------
(***************************************************************************)
(* What `TimedCache.fetch` promises its callers, with no lock, no retry    *)
(* and no refresh in progress: every fetch is answered in one indivisible  *)
(* step, and the answer is one of the three the module docstring of        *)
(* finance/cache.py calls honest -- a fresh value, the last good value     *)
(* marked stale with its age, or an exception when nothing was ever held.  *)
(* `TimedCache` is shown to implement this specification.                  *)
(***************************************************************************)
EXTENDS Integers

CONSTANTS
    Thread,     \* the callers: tool calls of every session
    Key,        \* what is fetched: a ticker
    TTL,        \* ttl_seconds, in ticks
    None        \* no entry, no key, no value

VARIABLES
    clock,      \* time.monotonic
    held,       \* held[k]: the last good value of k and when it was fetched, or None
    pending,    \* pending[t]: the key t is waiting for, or None
    asked,      \* asked[t]: when t's current (or last) fetch began
    reply       \* reply[t]: the answer to t's last fetch

contractVars == <<clock, held, pending, asked, reply>>

(* A value is identified with the moment the source measured it.           *)
Entry == [taken : Nat, at : Nat]

Fetched == [kind : {"fresh", "stale"}, key : Key, taken : Nat, age : Nat, at : Nat]

Raised == [kind : {"raised"}, key : Key, at : Nat]

Reply == Fetched \cup Raised \cup {[kind |-> "none"]}

(* Mutant: an entry exactly TTL old counts as expired.                     *)
IsFresh_bug(e, now) == e # None /\ now - e.at < TTL

(* An entry still inside its TTL window at time `now`.                     *)
IsFresh(e, now) == e # None /\ now - e.at <= TTL

(* The answers a fetch of k can carry at time `now`.                       *)
FreshReply(k, e, now) ==
    [kind |-> "fresh", key |-> k, taken |-> e.taken, age |-> now - e.at, at |-> now]

StaleReply(k, e, now) ==
    [kind |-> "stale", key |-> k, taken |-> e.taken, age |-> now - e.at, at |-> now]

RaisedReply(k, now) == [kind |-> "raised", key |-> k, at |-> now]

Answer(t, r) ==
    /\ reply' = [reply EXCEPT ![t] = r]
    /\ pending' = [pending EXCEPT ![t] = None]
    /\ UNCHANGED <<clock, asked>>

Init ==
    /\ clock = 0
    /\ held = [k \in Key |-> None]
    /\ pending = [t \in Thread |-> None]
    /\ asked = [t \in Thread |-> 0]
    /\ reply = [t \in Thread |-> [kind |-> "none"]]

Ask(t, k) ==
    /\ pending[t] = None
    /\ pending' = [pending EXCEPT ![t] = k]
    /\ asked' = [asked EXCEPT ![t] = clock]
    /\ UNCHANGED <<clock, held, reply>>

(* The value held is inside its window: it is the answer, source uncalled. *)
AnswerFromCache(t) ==
    /\ pending[t] # None
    /\ IsFresh(held[pending[t]], clock)
    /\ Answer(t, FreshReply(pending[t], held[pending[t]], clock))
    /\ UNCHANGED held

(* A value measured while this very fetch was open, aged from now.         *)
AnswerFromSource(t) ==
    /\ pending[t] # None
    /\ ~IsFresh(held[pending[t]], clock)
    /\ \E m \in asked[t]..clock :
          LET e == [taken |-> m, at |-> clock] IN
          /\ held' = [held EXCEPT ![pending[t]] = e]
          /\ Answer(t, FreshReply(pending[t], e, clock))

(* The source failed and an expired value is held: it is served as stale,  *)
(* and it is not made to look younger for having been served.              *)
AnswerStale(t) ==
    /\ pending[t] # None
    /\ held[pending[t]] # None
    /\ ~IsFresh(held[pending[t]], clock)
    /\ Answer(t, StaleReply(pending[t], held[pending[t]], clock))
    /\ UNCHANGED held

(* The source failed and nothing was ever held.                            *)
AnswerRaised(t) ==
    /\ pending[t] # None
    /\ held[pending[t]] = None
    /\ Answer(t, RaisedReply(pending[t], clock))
    /\ UNCHANGED held

Forget ==
    /\ held' = [k \in Key |-> None]
    /\ UNCHANGED <<clock, pending, asked, reply>>

Pass ==
    /\ clock' = clock + 1
    /\ UNCHANGED <<held, pending, asked, reply>>

Next ==
    \/ \E t \in Thread :
          \/ \E k \in Key : Ask(t, k)
          \/ AnswerFromCache(t)
          \/ AnswerFromSource(t)
          \/ AnswerStale(t)
          \/ AnswerRaised(t)
    \/ Forget
    \/ Pass

Spec == Init /\ [][Next]_contractVars
==============================================================================
