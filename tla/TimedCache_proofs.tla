--------------------------- MODULE TimedCache_proofs ---------------------------
(***************************************************************************)
(* Proofs about `TimedCache` for any callers, keys, window, number of      *)
(* attempts, backoff and horizon.                                          *)
(***************************************************************************)
EXTENDS TimedCache, TLAPS

(* A fetch in progress knows its key, a sleeping one has attempts left,    *)
(* and a value in hand was measured while the fetch was open.              *)
FetchInv ==
    \A t \in Thread :
        /\ pc[t] # "idle" => want[t] \in Key
        /\ pc[t] = "asleep" => attempt[t] + 1 < Attempts
        /\ asked[t] <= clock
        /\ pc[t] = "answered" => asked[t] <= value[t] /\ value[t] <= clock

(* Nothing held is younger than now, so every age is a natural number.     *)
AgeInv == \A k \in Key : entries[k] # None => entries[k].at <= clock

IInv ==
    /\ TypeOK
    /\ OneRefreshAtATime
    /\ RefreshSeesCurrentEntry
    /\ FetchInv
    /\ AgeInv

USE TTLIsNat, AttemptsIsPositive, BackoffIsNat, HorizonIsNat, NoneIsFresh

(* IsFresh is about the entry's stamp only, and expiry is for good.        *)
LEMMA ExpiryIsForGood ==
    ASSUME NEW e \in Entry \cup {None}, NEW now \in Nat, ~IsFresh(e, now)
    PROVE  ~IsFresh(e, now + 1)
  BY DEF IsFresh, Contract!IsFresh, Entry, Contract!Entry

(* The replies a fetch can give have the type of a reply.                  *)
LEMMA ReplyTypes ==
    ASSUME NEW k \in Key, NEW e \in Entry, NEW now \in Nat, e.at <= now
    PROVE  /\ Contract!FreshReply(k, e, now) \in Contract!Reply
           /\ Contract!StaleReply(k, e, now) \in Contract!Reply
           /\ Contract!RaisedReply(k, now) \in Contract!Reply
  <1>1. e.taken \in Nat /\ e.at \in Nat /\ now - e.at \in Nat
    BY DEF Entry, Contract!Entry
  <1>2. QED
    BY <1>1 DEF Contract!FreshReply, Contract!StaleReply, Contract!RaisedReply,
                Contract!Reply, Contract!Fetched, Contract!Raised

LEMMA RaisedReplyType ==
    ASSUME NEW k \in Key, NEW now \in Nat
    PROVE  Contract!RaisedReply(k, now) \in Contract!Reply
  BY DEF Contract!RaisedReply, Contract!Reply, Contract!Raised

LEMMA InitIInv == Init => IInv
  <1> SUFFICES ASSUME Init PROVE IInv
    OBVIOUS
  <1>1. TypeOK
    BY DEF Init, TypeOK, Holding, Contract!Reply
  <1>2. OneRefreshAtATime /\ RefreshSeesCurrentEntry /\ FetchInv /\ AgeInv
    BY DEF Init, OneRefreshAtATime, RefreshSeesCurrentEntry, FetchInv, AgeInv, Holding
  <1>3. QED
    BY <1>1, <1>2 DEF IInv

(* A step of `fetch` by one thread.                                        *)
LEMMA RequestIInv ==
    ASSUME IInv, NEW t \in Thread, NEW k \in Key, Request(t, k)
    PROVE  IInv'
  <1> USE DEF IInv, Request
  <1>1. TypeOK'
    BY DEF TypeOK
  <1>2. OneRefreshAtATime'
    BY DEF OneRefreshAtATime, TypeOK, Holding
  <1>3. RefreshSeesCurrentEntry'
    BY DEF RefreshSeesCurrentEntry, TypeOK, Holding, IsFresh, Contract!IsFresh
  <1>4. FetchInv'
    BY DEF FetchInv, TypeOK
  <1>5. AgeInv'
    BY DEF AgeInv
  <1>6. QED
    BY <1>1, <1>2, <1>3, <1>4, <1>5

LEMMA HitIInv ==
    ASSUME IInv, NEW t \in Thread, Hit(t)
    PROVE  IInv'
  <1> USE DEF IInv, Hit, Leave
  <1>1. TypeOK'
    <2>1. want[t] \in Key
      BY DEF FetchInv
    <2>2. /\ entries[want[t]] \in Entry
          /\ entries[want[t]].at <= clock
      BY <2>1 DEF TypeOK, AgeInv, IsFresh, Contract!IsFresh
    <2>3. Contract!FreshReply(want[t], entries[want[t]], clock) \in Contract!Reply
      BY <2>1, <2>2, ReplyTypes DEF TypeOK
    <2>4. QED
      BY <2>3 DEF TypeOK
  <1>2. OneRefreshAtATime'
    BY DEF OneRefreshAtATime, TypeOK, Holding
  <1>3. RefreshSeesCurrentEntry'
    BY DEF RefreshSeesCurrentEntry, TypeOK, Holding, IsFresh, Contract!IsFresh
  <1>4. FetchInv'
    BY DEF FetchInv, TypeOK
  <1>5. AgeInv'
    BY DEF AgeInv
  <1>6. QED
    BY <1>1, <1>2, <1>3, <1>4, <1>5

LEMMA MissIInv ==
    ASSUME IInv, NEW t \in Thread, Miss(t)
    PROVE  IInv'
  <1> USE DEF IInv, Miss, Acquire
  <1>0. want[t] \in Key
    BY DEF FetchInv
  <1>1. TypeOK'
    BY <1>0 DEF TypeOK, Holding
  <1>2. OneRefreshAtATime'
    BY DEF OneRefreshAtATime, TypeOK, Holding
  <1>3. RefreshSeesCurrentEntry'
    BY DEF RefreshSeesCurrentEntry, OneRefreshAtATime, TypeOK, Holding, IsFresh, Contract!IsFresh
  <1>4. FetchInv'
    BY DEF FetchInv, TypeOK
  <1>5. AgeInv'
    BY DEF AgeInv
  <1>6. QED
    BY <1>1, <1>2, <1>3, <1>4, <1>5

LEMMA SourceAnswersIInv ==
    ASSUME IInv, NEW t \in Thread, SourceAnswers(t)
    PROVE  IInv'
  <1> USE DEF IInv, SourceAnswers
  <1>1. TypeOK'
    BY DEF TypeOK, Holding
  <1>2. OneRefreshAtATime'
    BY DEF OneRefreshAtATime, TypeOK, Holding
  <1>3. RefreshSeesCurrentEntry'
    BY DEF RefreshSeesCurrentEntry, TypeOK, Holding, IsFresh, Contract!IsFresh
  <1>4. FetchInv'
    BY DEF FetchInv, TypeOK
  <1>5. AgeInv'
    BY DEF AgeInv
  <1>6. QED
    BY <1>1, <1>2, <1>3, <1>4, <1>5

LEMMA SourceFailsThenSleepIInv ==
    ASSUME IInv, NEW t \in Thread, SourceFailsThenSleep(t)
    PROVE  IInv'
  <1> USE DEF IInv, SourceFailsThenSleep, AttemptsLeft
  <1>1. TypeOK'
    BY DEF TypeOK, Holding
  <1>2. OneRefreshAtATime'
    BY DEF OneRefreshAtATime, TypeOK, Holding
  <1>3. RefreshSeesCurrentEntry'
    BY DEF RefreshSeesCurrentEntry, TypeOK, Holding, IsFresh, Contract!IsFresh
  <1>4. FetchInv'
    BY DEF FetchInv, TypeOK
  <1>5. AgeInv'
    BY DEF AgeInv
  <1>6. QED
    BY <1>1, <1>2, <1>3, <1>4, <1>5

LEMMA WakeIInv ==
    ASSUME IInv, NEW t \in Thread, Wake(t)
    PROVE  IInv'
  <1> USE DEF IInv, Wake
  <1>1. TypeOK'
    BY DEF TypeOK, Holding, FetchInv
  <1>2. OneRefreshAtATime'
    BY DEF OneRefreshAtATime, TypeOK, Holding
  <1>3. RefreshSeesCurrentEntry'
    BY DEF RefreshSeesCurrentEntry, TypeOK, Holding, IsFresh, Contract!IsFresh
  <1>4. FetchInv'
    BY DEF FetchInv, TypeOK
  <1>5. AgeInv'
    BY DEF AgeInv
  <1>6. QED
    BY <1>1, <1>2, <1>3, <1>4, <1>5

LEMMA SourceFailsForGoodIInv ==
    ASSUME IInv, NEW t \in Thread, SourceFailsForGood(t)
    PROVE  IInv'
  <1> USE DEF IInv, SourceFailsForGood
  <1>1. TypeOK'
    BY DEF TypeOK, Holding
  <1>2. OneRefreshAtATime'
    BY DEF OneRefreshAtATime, TypeOK, Holding
  <1>3. RefreshSeesCurrentEntry'
    BY DEF RefreshSeesCurrentEntry, TypeOK, Holding, IsFresh, Contract!IsFresh
  <1>4. FetchInv'
    BY DEF FetchInv, TypeOK
  <1>5. AgeInv'
    BY DEF AgeInv
  <1>6. QED
    BY <1>1, <1>2, <1>3, <1>4, <1>5

LEMMA RecordIInv ==
    ASSUME IInv, NEW t \in Thread, Record(t)
    PROVE  IInv'
  <1> USE DEF IInv, Record, Leave
  <1>0. want[t] \in Key /\ lock = t
    BY DEF FetchInv, OneRefreshAtATime, Holding
  <1> DEFINE new == [taken |-> value[t], at |-> clock]
  <1>1. TypeOK'
    <2>1. new \in Entry /\ new.at <= clock
      BY DEF TypeOK, Entry, Contract!Entry
    <2>2. Contract!FreshReply(want[t], new, clock) \in Contract!Reply
      BY <1>0, <2>1, ReplyTypes DEF TypeOK
    <2>3. QED
      BY <1>0, <2>1, <2>2 DEF TypeOK
  <1>2. OneRefreshAtATime'
    BY <1>0 DEF OneRefreshAtATime, TypeOK, Holding
  <1>3. RefreshSeesCurrentEntry'
    BY <1>0 DEF RefreshSeesCurrentEntry, OneRefreshAtATime, TypeOK, Holding
  <1>4. FetchInv'
    BY DEF FetchInv, TypeOK
  <1>5. AgeInv'
    BY <1>0 DEF AgeInv, TypeOK
  <1>6. QED
    BY <1>1, <1>2, <1>3, <1>4, <1>5

LEMMA FallBackIInv ==
    ASSUME IInv, NEW t \in Thread, FallBack(t)
    PROVE  IInv'
  <1> USE DEF IInv, FallBack, Leave
  <1>0. want[t] \in Key /\ lock = t /\ entry[t] = entries[want[t]]
    BY DEF FetchInv, OneRefreshAtATime, RefreshSeesCurrentEntry, Holding
  <1>1. TypeOK'
    <2>1. LastResort(t) \in Contract!Reply
      BY <1>0, ReplyTypes, RaisedReplyType DEF LastResort, TypeOK, AgeInv
    <2>2. QED
      BY <2>1 DEF TypeOK
  <1>2. OneRefreshAtATime'
    BY <1>0 DEF OneRefreshAtATime, TypeOK, Holding
  <1>3. RefreshSeesCurrentEntry'
    BY <1>0 DEF RefreshSeesCurrentEntry, OneRefreshAtATime, TypeOK, Holding
  <1>4. FetchInv'
    BY DEF FetchInv, TypeOK
  <1>5. AgeInv'
    BY DEF AgeInv
  <1>6. QED
    BY <1>1, <1>2, <1>3, <1>4, <1>5

LEMMA ClearIInv == IInv /\ Clear => IInv'
  <1> SUFFICES ASSUME IInv, Clear PROVE IInv'
    OBVIOUS
  <1> USE DEF IInv, Clear
  <1>1. TypeOK'
    BY DEF TypeOK
  <1>2. OneRefreshAtATime'
    BY DEF OneRefreshAtATime
  <1>3. RefreshSeesCurrentEntry'
    BY DEF RefreshSeesCurrentEntry, OneRefreshAtATime
  <1>4. FetchInv' /\ AgeInv'
    BY DEF FetchInv, AgeInv
  <1>5. QED
    BY <1>1, <1>2, <1>3, <1>4

LEMMA TickIInv == IInv /\ Tick => IInv'
  <1> SUFFICES ASSUME IInv, Tick PROVE IInv'
    OBVIOUS
  <1> USE DEF IInv, Tick
  <1>1. TypeOK'
    BY DEF TypeOK
  <1>2. OneRefreshAtATime'
    BY DEF OneRefreshAtATime
  <1>3. RefreshSeesCurrentEntry'
    <2> SUFFICES ASSUME NEW t \in Thread, pc[t] \in Holding
                 PROVE  entry[t] = entries[want[t]] /\ ~IsFresh(entries[want[t]], clock + 1)
      BY DEF RefreshSeesCurrentEntry, IsFresh, Contract!IsFresh
    <2>1. entries[want[t]] \in Entry \cup {None}
      BY DEF TypeOK, FetchInv, Holding
    <2>2. QED
      BY <2>1, ExpiryIsForGood DEF RefreshSeesCurrentEntry, TypeOK
  <1>4. FetchInv' /\ AgeInv'
    BY DEF FetchInv, AgeInv, TypeOK, Entry, Contract!Entry
  <1>5. QED
    BY <1>1, <1>2, <1>3, <1>4

(* Every step of the cache preserves the inductive invariant.              *)
LEMMA NextIInv == IInv /\ [Next]_vars => IInv'
  <1> SUFFICES ASSUME IInv, [Next]_vars PROVE IInv'
    OBVIOUS
  <1>1. ASSUME NEW t \in Thread, NEW k \in Key, Request(t, k) PROVE IInv'
    BY <1>1, RequestIInv
  <1>2. ASSUME NEW t \in Thread, Step(t) PROVE IInv'
    BY <1>2, HitIInv, MissIInv, SourceAnswersIInv, SourceFailsThenSleepIInv, WakeIInv,
       SourceFailsForGoodIInv, RecordIInv, FallBackIInv DEF Step
  <1>3. CASE Clear
    BY <1>3, ClearIInv
  <1>4. CASE Tick
    BY <1>4, TickIInv
  <1>5. CASE UNCHANGED vars
    BY <1>5 DEF vars, IInv, TypeOK, OneRefreshAtATime, RefreshSeesCurrentEntry,
                FetchInv, AgeInv, IsFresh, Contract!IsFresh
  <1>6. QED
    BY <1>1, <1>2, <1>3, <1>4, <1>5 DEF Next

LEMMA Invariance == Spec => []IInv
  BY InitIInv, NextIInv, PTL DEF Spec

(* Type correctness of the cache, for every value of its constants.        *)
THEOREM TypeCorrect == Spec => []TypeOK
  BY Invariance, PTL DEF IInv

(* However many threads ask, one refresh is in progress at a time.         *)
THEOREM RefreshIsExclusive == Spec => []OneRefreshAtATime
  BY Invariance, PTL DEF IInv

(* A refresh is only ever for an entry that is, all along, the one in the  *)
(* cache and not a fresh one.                                              *)
THEOREM RefreshIsCurrent == Spec => []RefreshSeesCurrentEntry
  BY Invariance, PTL DEF IInv
-------------------------------------------------------------------------------
(* The refinement: every step of the cache is a step of the contract or    *)
(* leaves the contract's variables alone.                                  *)

LEMMA AnswerMaps ==
    ASSUME IInv, NEW t \in Thread, NEW r,
           pc[t] # "idle", Leave(t, r), UNCHANGED <<clock, want, asked>>
    PROVE  Contract!Answer(t, r) /\ pendingBar[t] = want[t] /\ want[t] # None
  <1>1. pendingBar' = [pendingBar EXCEPT ![t] = None]
    BY DEF pendingBar, Leave, IInv, TypeOK
  <1>2. want[t] \in Key
    BY DEF IInv, FetchInv
  <1>3. QED
    BY <1>1, <1>2 DEF Contract!Answer, Leave, pendingBar

LEMMA InitMaps == Init => Contract!Init
  BY DEF Init, Contract!Init, pendingBar

LEMMA RequestMaps ==
    ASSUME IInv, NEW t \in Thread, NEW k \in Key, Request(t, k)
    PROVE  Contract!Ask(t, k)
  BY DEF Request, Contract!Ask, pendingBar, IInv, TypeOK

LEMMA HitMaps ==
    ASSUME IInv, NEW t \in Thread, Hit(t)
    PROVE  Contract!AnswerFromCache(t)
  <1>1. /\ Contract!Answer(t, Contract!FreshReply(want[t], entries[want[t]], clock))
        /\ pendingBar[t] = want[t] /\ want[t] # None
    BY AnswerMaps DEF Hit
  <1>2. IsFresh(entries[want[t]], clock) /\ UNCHANGED entries
    BY DEF Hit
  <1>3. QED
    BY <1>1, <1>2 DEF Contract!AnswerFromCache, IsFresh

LEMMA RecordMaps ==
    ASSUME IInv, NEW t \in Thread, Record(t)
    PROVE  Contract!AnswerFromSource(t)
  <1> DEFINE new == [taken |-> value[t], at |-> clock]
  <1>1. /\ Contract!Answer(t, Contract!FreshReply(want[t], new, clock))
        /\ pendingBar[t] = want[t] /\ want[t] # None
    BY AnswerMaps DEF Record
  <1>2. value[t] \in asked[t]..clock
    BY DEF Record, IInv, FetchInv, TypeOK
  <1>3. ~IsFresh(entries[want[t]], clock)
    BY DEF Record, IInv, RefreshSeesCurrentEntry, Holding
  <1>4. entries' = [entries EXCEPT ![want[t]] = new]
    BY DEF Record
  <1>5. QED
    BY <1>1, <1>2, <1>3, <1>4 DEF Contract!AnswerFromSource, IsFresh

LEMMA FallBackMaps ==
    ASSUME IInv, NEW t \in Thread, FallBack(t)
    PROVE  Contract!AnswerStale(t) \/ Contract!AnswerRaised(t)
  <1>1. /\ Contract!Answer(t, LastResort(t))
        /\ pendingBar[t] = want[t] /\ want[t] # None
    BY AnswerMaps DEF FallBack
  <1>2. entry[t] = entries[want[t]] /\ ~IsFresh(entries[want[t]], clock)
    BY DEF FallBack, IInv, RefreshSeesCurrentEntry, Holding
  <1>3. UNCHANGED entries
    BY DEF FallBack
  <1>4. CASE entry[t] = None
    BY <1>1, <1>2, <1>3, <1>4 DEF LastResort, Contract!AnswerRaised
  <1>5. CASE entry[t] # None
    BY <1>1, <1>2, <1>3, <1>5 DEF LastResort, Contract!AnswerStale, IsFresh
  <1>6. QED
    BY <1>4, <1>5

(* Inside a refresh the caller is pending and nothing else shows.          *)
LEMMA InnerStepMaps ==
    ASSUME IInv, NEW t \in Thread,
           \/ Miss(t) \/ SourceAnswers(t) \/ SourceFailsThenSleep(t)
           \/ Wake(t) \/ SourceFailsForGood(t)
    PROVE  UNCHANGED <<clock, entries, pendingBar, asked, reply>>
  BY DEF Miss, SourceAnswers, SourceFailsThenSleep, Wake, SourceFailsForGood,
         pendingBar, IInv, TypeOK

LEMMA NextMaps == IInv /\ [Next]_vars => [Contract!Next]_(Contract!contractVars)
  <1> SUFFICES ASSUME IInv, [Next]_vars
               PROVE  [Contract!Next]_(Contract!contractVars)
    OBVIOUS
  <1>1. ASSUME NEW t \in Thread, NEW k \in Key, Request(t, k) PROVE Contract!Next
    BY <1>1, RequestMaps DEF Contract!Next
  <1>2. ASSUME NEW t \in Thread, Hit(t) \/ Record(t) \/ FallBack(t) PROVE Contract!Next
    BY <1>2, HitMaps, RecordMaps, FallBackMaps DEF Contract!Next
  <1>3. ASSUME NEW t \in Thread,
               \/ Miss(t) \/ SourceAnswers(t) \/ SourceFailsThenSleep(t)
               \/ Wake(t) \/ SourceFailsForGood(t)
        PROVE  UNCHANGED Contract!contractVars
    BY <1>3, InnerStepMaps DEF Contract!contractVars
  <1>4. CASE Clear
    BY <1>4 DEF Clear, Contract!Next, Contract!Forget, pendingBar
  <1>5. CASE Tick
    BY <1>5 DEF Tick, Contract!Next, Contract!Pass, pendingBar
  <1>6. CASE UNCHANGED vars
    BY <1>6 DEF vars, Contract!contractVars, pendingBar
  <1>7. QED
    BY <1>1, <1>2, <1>3, <1>4, <1>5, <1>6 DEF Next, Step

(* The cache implements the contract: behind the lock, the retries and the *)
(* sleeps, every fetch looks as if it were answered in one step.           *)
THEOREM CacheKeepsContract == Spec => KeepsContract
  BY InitMaps, NextMaps, Invariance, PTL DEF Spec, KeepsContract, Contract!Spec
-------------------------------------------------------------------------------
(* No value returned for a key is younger than the one in the cache, nor   *)
(* than one a refresh of that key is about to store.                       *)
OrderInv ==
    /\ \A k \in Key : entries[k] # None => entries[k].taken <= clock
    /\ \A u \in Thread : reply[u].kind \in {"fresh", "stale"} =>
          /\ reply[u].taken <= clock
          /\ entries[reply[u].key] # None => reply[u].taken <= entries[reply[u].key].taken
          /\ \A t \in Thread : pc[t] = "answered" /\ want[t] = reply[u].key
                => reply[u].taken <= value[t]

NoStepBack ==
    \A t, u \in Thread :
        /\ reply'[t] # reply[t]
        /\ reply'[t].kind \in {"fresh", "stale"}
        /\ reply[u].kind \in {"fresh", "stale"}
        /\ reply[u].key = reply'[t].key
        => reply'[t].taken >= reply[u].taken

LEMMA ReplyFields ==
    ASSUME TypeOK, NEW u \in Thread, reply[u].kind \in {"fresh", "stale"}
    PROVE  reply[u].key \in Key /\ reply[u].taken \in Nat
  BY DEF TypeOK, Contract!Reply, Contract!Fetched, Contract!Raised

LEMMA InitOrder == Init => OrderInv
  BY DEF Init, OrderInv

LEMMA HitOrder ==
    ASSUME IInv, OrderInv, NEW t \in Thread, Hit(t)
    PROVE  OrderInv' /\ NoStepBack
  <1> DEFINE r == Contract!FreshReply(want[t], entries[want[t]], clock)
  <1>1. /\ want[t] \in Key
        /\ entries[want[t]] \in Entry /\ entries[want[t]] # None
        /\ \A u \in Thread : pc[u] \notin Holding
    BY DEF Hit, IInv, TypeOK, FetchInv, OneRefreshAtATime, IsFresh, Contract!IsFresh
  <1>2. /\ r.kind = "fresh" /\ r.key = want[t]
        /\ r.taken = entries[want[t]].taken
        /\ r.taken \in Nat
    BY <1>1 DEF Contract!FreshReply, Entry, Contract!Entry
  <1>3. /\ reply' = [reply EXCEPT ![t] = r] /\ pc' = [pc EXCEPT ![t] = "idle"]
        /\ UNCHANGED <<clock, entries, want, value>>
    BY DEF Hit, Leave
  <1> HIDE DEF r
  <1>4. OrderInv'
    BY <1>1, <1>2, <1>3 DEF OrderInv, IInv, TypeOK, Holding
  <1>5. NoStepBack
    BY <1>1, <1>2, <1>3, ReplyFields DEF NoStepBack, OrderInv, IInv, TypeOK
  <1>6. QED
    BY <1>4, <1>5

LEMMA RecordOrder ==
    ASSUME IInv, OrderInv, NEW t \in Thread, Record(t)
    PROVE  OrderInv' /\ NoStepBack
  <1> DEFINE new == [taken |-> value[t], at |-> clock]
             r == Contract!FreshReply(want[t], new, clock)
  <1>1. /\ want[t] \in Key
        /\ value[t] \in Nat /\ value[t] <= clock
        /\ \A u \in Thread \ {t} : pc[u] \notin Holding
    BY DEF Record, IInv, TypeOK, FetchInv, OneRefreshAtATime, Holding
  <1>2. /\ r.kind = "fresh" /\ r.key = want[t] /\ r.taken = value[t]
        /\ new.taken = value[t]
    BY DEF Contract!FreshReply
  <1>3. /\ reply' = [reply EXCEPT ![t] = r] /\ pc' = [pc EXCEPT ![t] = "idle"]
        /\ entries' = [entries EXCEPT ![want[t]] = new]
        /\ UNCHANGED <<clock, want, value>>
    BY DEF Record, Leave
  <1> HIDE DEF r, new
  <1>4. \A u \in Thread : reply[u].kind \in {"fresh", "stale"} /\ reply[u].key = want[t]
                            => reply[u].taken <= value[t]
    BY DEF OrderInv, Record
  <1>5. OrderInv'
    BY <1>1, <1>2, <1>3, <1>4 DEF OrderInv, IInv, TypeOK, Holding
  <1>6. NoStepBack
    BY <1>1, <1>2, <1>3, <1>4, ReplyFields DEF NoStepBack, IInv, TypeOK
  <1>7. QED
    BY <1>5, <1>6

LEMMA FallBackOrder ==
    ASSUME IInv, OrderInv, NEW t \in Thread, FallBack(t)
    PROVE  OrderInv' /\ NoStepBack
  <1> DEFINE r == LastResort(t)
  <1>1. /\ want[t] \in Key
        /\ entry[t] = entries[want[t]]
        /\ entries[want[t]] \in Entry \cup {None}
        /\ \A u \in Thread \ {t} : pc[u] \notin Holding
    BY DEF FallBack, IInv, TypeOK, FetchInv, OneRefreshAtATime, RefreshSeesCurrentEntry, Holding
  <1>2. r.kind \in {"fresh", "stale"} =>
          /\ r.key = want[t] /\ entries[want[t]] \in Entry /\ entries[want[t]] # None
          /\ r.taken = entries[want[t]].taken /\ r.taken \in Nat
    BY <1>1 DEF LastResort, Contract!StaleReply, Contract!RaisedReply, Entry, Contract!Entry
  <1>3. /\ reply' = [reply EXCEPT ![t] = r] /\ pc' = [pc EXCEPT ![t] = "idle"]
        /\ UNCHANGED <<clock, entries, want, value>>
    BY DEF FallBack, Leave
  <1> HIDE DEF r
  <1>4. OrderInv'
    BY <1>1, <1>2, <1>3 DEF OrderInv, IInv, TypeOK, Holding
  <1>5. NoStepBack
    BY <1>1, <1>2, <1>3, ReplyFields DEF NoStepBack, OrderInv, IInv, TypeOK
  <1>6. QED
    BY <1>4, <1>5

(* The steps that answer nobody.                                           *)
LEMMA QuietOrder ==
    ASSUME IInv, OrderInv, UNCHANGED reply,
           clock' = clock \/ clock' = clock + 1,
           UNCHANGED entries \/ entries' = [k \in Key |-> None],
           \A t \in Thread : pc'[t] = "answered" =>
               \/ pc[t] = "answered" /\ value'[t] = value[t] /\ want'[t] = want[t]
               \/ value'[t] = clock
    PROVE  OrderInv' /\ NoStepBack
  <1>1. \A u \in Thread : reply[u].kind \in {"fresh", "stale"} =>
            reply[u].key \in Key /\ reply[u].taken \in Nat
    BY ReplyFields DEF IInv
  <1>2. \A k \in Key : entries[k] # None => entries[k].taken \in Nat
    BY DEF IInv, TypeOK, Entry, Contract!Entry
  <1>3. clock \in Nat
    BY DEF IInv, TypeOK
  <1>4. OrderInv'
    BY <1>1, <1>2, <1>3 DEF OrderInv
  <1>5. NoStepBack
    BY DEF NoStepBack
  <1>6. QED
    BY <1>4, <1>5

LEMMA NextOrder == IInv /\ OrderInv /\ [Next]_vars => OrderInv' /\ NoStepBack
  <1> SUFFICES ASSUME IInv, OrderInv, [Next]_vars PROVE OrderInv' /\ NoStepBack
    OBVIOUS
  <1>1. ASSUME NEW t \in Thread, NEW k \in Key, Request(t, k)
        PROVE  OrderInv' /\ NoStepBack
    BY <1>1, QuietOrder DEF Request, IInv, TypeOK
  <1>2. ASSUME NEW t \in Thread, Hit(t) \/ Record(t) \/ FallBack(t)
        PROVE  OrderInv' /\ NoStepBack
    BY <1>2, HitOrder, RecordOrder, FallBackOrder
  <1>3. ASSUME NEW t \in Thread,
               Miss(t) \/ SourceFailsThenSleep(t) \/ Wake(t) \/ SourceFailsForGood(t)
        PROVE  OrderInv' /\ NoStepBack
    BY <1>3, QuietOrder DEF Miss, SourceFailsThenSleep, Wake, SourceFailsForGood, IInv, TypeOK
  <1>4. ASSUME NEW t \in Thread, SourceAnswers(t)
        PROVE  OrderInv' /\ NoStepBack
    BY <1>4, QuietOrder DEF SourceAnswers, IInv, TypeOK
  <1>5. CASE Clear \/ Tick \/ UNCHANGED vars
    BY <1>5, QuietOrder DEF Clear, Tick, vars
  <1>6. QED
    BY <1>1, <1>2, <1>3, <1>4, <1>5 DEF Next, Step

(* The value of a key never goes back in time, whoever asks for it.        *)
THEOREM ValuesNeverGoBack == Spec => NeverGoesBack
  <1>1. Spec => []OrderInv
    BY InitOrder, NextOrder, Invariance, PTL DEF Spec
  <1>2. IInv /\ OrderInv /\ [Next]_vars => [NoStepBack]_vars
    BY NextOrder
  <1>3. Spec => [][NoStepBack]_vars
    BY <1>1, <1>2, Invariance, PTL DEF Spec
  <1>4. QED
    BY <1>3 DEF NeverGoesBack, NoStepBack
===============================================================================
