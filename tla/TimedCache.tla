------------------------------ MODULE TimedCache ------------------------------
(***************************************************************************)
(* `TimedCache` of finance/cache.py: the TTL cache in front of each live   *)
(* source (one instance for quotes, one for headlines), shared by every    *)
(* session and by the parallel tool calls of one turn.  One lock guards    *)
(* the instance and is held across the whole refresh, retries and backoff  *)
(* sleeps included.                                                        *)
(*                                                                         *)
(* A thread's step is what it does between two points where another thread *)
(* or the clock can be observed: waiting for the lock, the call to the     *)
(* source, each backoff sleep, and the return.                             *)
(***************************************************************************)
EXTENDS Integers

CONSTANTS
    Thread,     \* the callers: tool calls of every session
    Key,        \* what is fetched: a ticker
    TTL,        \* ttl_seconds, in ticks
    Attempts,   \* attempts: how often a refresh is tried
    Backoff,    \* backoff_seconds, in ticks
    Horizon,    \* bound: no fetch is asked for at or after this time
    None        \* no entry, no key; also the lock when it is free

ASSUME TTLIsNat == TTL \in Nat
ASSUME AttemptsIsPositive == Attempts \in Nat \ {0}
ASSUME BackoffIsNat == Backoff \in Nat
ASSUME HorizonIsNat == Horizon \in Nat
ASSUME NoneIsFresh == None \notin Key /\ None \notin Thread

VARIABLES
    clock,      \* time.monotonic
    entries,    \* _entries: the value and fetch time of each key, or None
    lock,       \* _lock: the thread holding it, or None
    pc,         \* where each thread is inside `fetch`
    want,       \* the `key` argument of each thread's fetch
    entry,      \* the local `entry` read when the lock was obtained
    attempt,    \* the loop variable of _refresh_with_retries
    wakeAt,     \* when a thread's backoff sleep is over
    value,      \* the local `value` a refresh returned
    asked,      \* history: when each thread's fetch began
    reply       \* what each thread's last fetch returned or raised

vars == <<clock, entries, lock, pc, want, entry, attempt, wakeAt, value, asked, reply>>

(* What a caller can see of a fetch in progress: the key it waits for.     *)
pendingBar == [t \in Thread |-> IF pc[t] = "idle" THEN None ELSE want[t]]

Contract == INSTANCE FetchContract WITH held <- entries, pending <- pendingBar

Entry == Contract!Entry
IsFresh(e, now) == Contract!IsFresh(e, now)

(* The threads between obtaining the lock and giving it back.              *)
Holding == {"calling", "asleep", "answered", "gaveUp"}

TypeOK ==
    /\ clock \in Nat
    /\ entries \in [Key -> Entry \cup {None}]
    /\ lock \in Thread \cup {None}
    /\ pc \in [Thread -> {"idle", "waiting"} \cup Holding]
    /\ want \in [Thread -> Key \cup {None}]
    /\ entry \in [Thread -> Entry \cup {None}]
    /\ attempt \in [Thread -> 0..(Attempts - 1)]
    /\ wakeAt \in [Thread -> Int]
    /\ value \in [Thread -> Nat]
    /\ asked \in [Thread -> Nat]
    /\ reply \in [Thread -> Contract!Reply]

Init ==
    /\ clock = 0
    /\ entries = [k \in Key |-> None]
    /\ lock = None
    /\ pc = [t \in Thread |-> "idle"]
    /\ want = [t \in Thread |-> None]
    /\ entry = [t \in Thread |-> None]
    /\ attempt = [t \in Thread |-> 0]
    /\ wakeAt = [t \in Thread |-> 0]
    /\ value = [t \in Thread |-> 0]
    /\ asked = [t \in Thread |-> 0]
    /\ reply = [t \in Thread |-> [kind |-> "none"]]

-------------------------------------------------------------------------------
(* The definitions ending in _bug are faulty variants, each the way a      *)
(* plausible mistake in the code would change the one that follows it.     *)

(* The lock covers the dictionary but not the refresh.                     *)
Acquire_bug(t) == lock = None /\ UNCHANGED lock

(* `with self._lock`: entered, and left with an answer or an exception.    *)
Acquire(t) == lock = None /\ lock' = t

(* The exception leaves `fetch` without giving the lock back.              *)
Leave_bug(t, r) ==
    /\ lock' = IF r.kind = "raised" THEN lock ELSE None
    /\ reply' = [reply EXCEPT ![t] = r]
    /\ pc' = [pc EXCEPT ![t] = "idle"]

Leave(t, r) ==
    /\ lock' = None
    /\ reply' = [reply EXCEPT ![t] = r]
    /\ pc' = [pc EXCEPT ![t] = "idle"]

AttemptsLeft(t) == attempt[t] < Attempts - 1

(* `fetch` is entered; the thread blocks on the lock.                      *)
Request(t, k) ==
    /\ pc[t] = "idle"
    /\ clock < Horizon
    /\ pc' = [pc EXCEPT ![t] = "waiting"]
    /\ want' = [want EXCEPT ![t] = k]
    /\ asked' = [asked EXCEPT ![t] = clock]
    /\ UNCHANGED <<clock, entries, lock, entry, attempt, wakeAt, value, reply>>

(* The lock is obtained and the entry is inside its window: it is returned *)
(* without a call, and the lock is given back in the same breath.          *)
Hit(t) ==
    /\ pc[t] = "waiting"
    /\ lock = None
    /\ IsFresh(entries[want[t]], clock)
    /\ Leave(t, Contract!FreshReply(want[t], entries[want[t]], clock))
    /\ UNCHANGED <<clock, entries, want, entry, attempt, wakeAt, value, asked>>

(* The lock is obtained and the entry is missing or expired: the thread    *)
(* keeps it and makes its first attempt.                                   *)
Miss(t) ==
    /\ pc[t] = "waiting"
    /\ Acquire(t)
    /\ ~IsFresh(entries[want[t]], clock)
    /\ entry' = [entry EXCEPT ![t] = entries[want[t]]]
    /\ attempt' = [attempt EXCEPT ![t] = 0]
    /\ pc' = [pc EXCEPT ![t] = "calling"]
    /\ UNCHANGED <<clock, entries, want, wakeAt, value, asked, reply>>

(* `refresh()` returns a value the source measured now.                    *)
SourceAnswers(t) ==
    /\ pc[t] = "calling"
    /\ value' = [value EXCEPT ![t] = clock]
    /\ pc' = [pc EXCEPT ![t] = "answered"]
    /\ UNCHANGED <<clock, entries, lock, want, entry, attempt, wakeAt, asked, reply>>

(* `refresh()` raises and attempts are left: sleep backoff * 2^attempt.    *)
SourceFailsThenSleep(t) ==
    /\ pc[t] = "calling"
    /\ AttemptsLeft(t)
    /\ wakeAt' = [wakeAt EXCEPT ![t] = clock + Backoff * 2^attempt[t]]
    /\ pc' = [pc EXCEPT ![t] = "asleep"]
    /\ UNCHANGED <<clock, entries, lock, want, entry, attempt, value, asked, reply>>

Wake(t) ==
    /\ pc[t] = "asleep"
    /\ clock >= wakeAt[t]
    /\ attempt' = [attempt EXCEPT ![t] = @ + 1]
    /\ pc' = [pc EXCEPT ![t] = "calling"]
    /\ UNCHANGED <<clock, entries, lock, want, entry, wakeAt, value, asked, reply>>

(* `refresh()` raises on the last attempt: no sleep, the failure goes up.  *)
SourceFailsForGood(t) ==
    /\ pc[t] = "calling"
    /\ ~AttemptsLeft(t)
    /\ pc' = [pc EXCEPT ![t] = "gaveUp"]
    /\ UNCHANGED <<clock, entries, lock, want, entry, attempt, wakeAt, value, asked, reply>>

(* The value is stored, stamped with the clock after the refresh, and      *)
(* returned fresh with age zero; the lock is given back.                   *)
Record(t) ==
    /\ pc[t] = "answered"
    /\ LET new == [taken |-> value[t], at |-> clock] IN
       /\ entries' = [entries EXCEPT ![want[t]] = new]
       /\ Leave(t, Contract!FreshReply(want[t], new, clock))
    /\ UNCHANGED <<clock, want, entry, attempt, wakeAt, value, asked>>

LastResort(t) ==
    IF entry[t] = None THEN Contract!RaisedReply(want[t], clock)
                       ELSE Contract!StaleReply(want[t], entry[t], clock)

(* A stale serve stamps the entry with the time it was served.             *)
FallBack_bug(t) ==
    /\ pc[t] = "gaveUp"
    /\ Leave(t, LastResort(t))
    /\ entries' = IF entry[t] = None
                    THEN entries
                    ELSE [entries EXCEPT ![want[t]].at = clock]
    /\ UNCHANGED <<clock, want, entry, attempt, wakeAt, value, asked>>

(* Every attempt failed: the local `entry` is served as stale, its stamp   *)
(* untouched, or the failure is raised when there is none.                 *)
FallBack(t) ==
    /\ pc[t] = "gaveUp"
    /\ Leave(t, LastResort(t))
    /\ UNCHANGED <<clock, entries, want, entry, attempt, wakeAt, value, asked>>

(* `clear` does not take the lock.                                         *)
Clear_bug ==
    /\ entries' = [k \in Key |-> None]
    /\ UNCHANGED <<clock, lock, pc, want, entry, attempt, wakeAt, value, asked, reply>>

(* `clear`: under the lock, every entry is forgotten.                      *)
Clear ==
    /\ lock = None
    /\ entries' = [k \in Key |-> None]
    /\ UNCHANGED <<clock, lock, pc, want, entry, attempt, wakeAt, value, asked, reply>>

(* Time passes freely up to the horizon, and after it only as far as a     *)
(* sleeping thread still has to sleep.                                     *)
Tick ==
    /\ \/ clock < Horizon
       \/ \E t \in Thread : pc[t] = "asleep" /\ clock < wakeAt[t]
    /\ clock' = clock + 1
    /\ UNCHANGED <<entries, lock, pc, want, entry, attempt, wakeAt, value, asked, reply>>

Step(t) ==
    \/ Hit(t)
    \/ Miss(t)
    \/ SourceAnswers(t)
    \/ SourceFailsThenSleep(t)
    \/ Wake(t)
    \/ SourceFailsForGood(t)
    \/ Record(t)
    \/ FallBack(t)

Next ==
    \/ \E t \in Thread :
          \/ \E k \in Key : Request(t, k)
          \/ Step(t)
    \/ Clear
    \/ Tick

Spec == Init /\ [][Next]_vars

(* Threads are scheduled, and every call to a source ends: the sessions    *)
(* bound each request with FETCH_TIMEOUT_SECONDS (quotes.py, news.py).     *)
(* Nobody is obliged to ask or to clear, and no source ever has to answer. *)
Fairness == WF_clock(Tick) /\ \A t \in Thread : WF_vars(Step(t))

FairSpec == Spec /\ Fairness
-------------------------------------------------------------------------------

(* One refresh at a time: whoever is inside a refresh holds the lock, so   *)
(* an instance never has two calls to its source in flight.                *)
OneRefreshAtATime ==
    /\ \A t \in Thread : pc[t] \in Holding => lock = t
    /\ lock # None => pc[lock] \in Holding

(* The fallback is decided on an entry read before the refresh and served  *)
(* after it.  Through every retry and sleep that entry is still the one in *)
(* the cache and still not a fresh one, so nobody calls the source for a   *)
(* value another thread has just brought, and no stale serve hides one.    *)
RefreshSeesCurrentEntry ==
    \A t \in Thread : pc[t] \in Holding =>
        /\ entry[t] = entries[want[t]]
        /\ ~IsFresh(entries[want[t]], clock)

(* A key never goes back in time: the value a fetch returns was measured   *)
(* no earlier than any value a fetch of that key returned before it,       *)
(* whichever thread asked first and even across a clear.                   *)
NeverGoesBack ==
    [][\A t, u \in Thread :
          /\ reply'[t] # reply[t]
          /\ reply'[t].kind \in {"fresh", "stale"}
          /\ reply[u].kind \in {"fresh", "stale"}
          /\ reply[u].key = reply'[t].key
          => reply'[t].taken >= reply[u].taken]_vars

(* Every fetch is answered as the contract says, in one indivisible step:  *)
(* the lock, the retries and the sleeps are invisible to the callers.      *)
KeepsContract == Contract!Spec

(* Every fetch returns or raises: no outage, however long, keeps a caller  *)
(* waiting for ever once the demand on the cache is finite.                *)
EveryFetchReturns == \A t \in Thread : pc[t] = "waiting" ~> pc[t] = "idle"

===============================================================================
