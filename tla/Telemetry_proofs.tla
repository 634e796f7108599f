---------------------------- MODULE Telemetry_proofs ----------------------------
(***************************************************************************)
(* Theorems about the event log's writers and the meter that reads it, for *)
(* any set of sessions, usages and bounds: first the handlers on their own *)
(* (`LogSink`), then under everything the turns do (`Telemetry`), then     *)
(* what the meter shows of it.                                             *)
(***************************************************************************)
EXTENDS Telemetry, TLAPS, FiniteSetTheorems, WellFoundedInduction

Both == <<"stream", "file">>

SinkTypeOK ==
    /\ handlers \in {<<>>, Both}
    /\ lock \in Sessions \cup {Nobody}
    /\ at \in [Sessions -> {"idle", "cleared", "configured"}]

\* Who has cleared the list holds the lock, and nothing is in it.
SwapIsExclusive ==
    \A s \in Sessions : at[s] = "cleared" <=> lock = s

ClearedIsEmpty ==
    \A s \in Sessions : lock = s => handlers = <<>>

\* The list is empty outside a swap only before the first one.
InstalledStays ==
    lock = Nobody /\ handlers = <<>> => \A s \in Sessions : at[s] = "idle"

SinkInv == SinkTypeOK /\ SwapIsExclusive /\ ClearedIsEmpty /\ InstalledStays

USE NobodyAssumption

LEMMA SinkStarts == SinkInit => SinkInv
  BY DEF SinkInit, SinkInv, SinkTypeOK, SwapIsExclusive, ClearedIsEmpty, InstalledStays

LEMMA ClearKeeps == ASSUME SinkInv, NEW s \in Sessions, Clear(s) PROVE SinkInv'
  <1> USE DEF SinkInv, Clear
  <1>1. SinkTypeOK'
    BY DEF SinkTypeOK
  <1>2. \A t \in Sessions : at[t] # "cleared"
    BY DEF SwapIsExclusive
  <1>3. SwapIsExclusive' /\ ClearedIsEmpty' /\ InstalledStays'
    BY <1>2 DEF SinkTypeOK, SwapIsExclusive, ClearedIsEmpty, InstalledStays
  <1> QED
    BY <1>1, <1>3

LEMMA InstallKeeps == ASSUME SinkInv, NEW s \in Sessions, Install(s) PROVE SinkInv'
  <1> USE DEF SinkInv, Install
  <1>1. lock = s /\ handlers = <<>>
    BY DEF SwapIsExclusive, ClearedIsEmpty
  <1>2. handlers' = Both
    BY <1>1 DEF Both
  <1>3. SinkTypeOK'
    BY <1>2 DEF SinkTypeOK
  <1>4. SwapIsExclusive'
    BY <1>1 DEF SinkTypeOK, SwapIsExclusive
  <1>5. ClearedIsEmpty' /\ InstalledStays'
    BY <1>2 DEF Both, ClearedIsEmpty, InstalledStays
  <1> QED
    BY <1>3, <1>4, <1>5

LEMMA ReturnKeeps == ASSUME SinkInv, NEW s \in Sessions, Return(s) PROVE SinkInv'
  BY DEF SinkInv, Return, SinkTypeOK, SwapIsExclusive, ClearedIsEmpty, InstalledStays

LEMMA SinkStep == SinkInv /\ [SinkNext]_sinkVars => SinkInv'
  <1> SUFFICES ASSUME SinkInv, [SinkNext]_sinkVars PROVE SinkInv'
    OBVIOUS
  <1>1. ASSUME NEW s \in Sessions, Clear(s) \/ Install(s) \/ Return(s) PROVE SinkInv'
    BY <1>1, ClearKeeps, InstallKeeps, ReturnKeeps
  <1>2. CASE UNCHANGED sinkVars
    BY <1>2 DEF SinkInv, SinkTypeOK, SwapIsExclusive, ClearedIsEmpty, InstalledStays, sinkVars
  <1> QED
    BY <1>1, <1>2 DEF SinkNext

\* The file is among the two handlers once, and not in the empty list.
LEMMA CopiesOf ==
    /\ handlers = <<>> => Copies = 0
    /\ handlers = Both => Copies = 1
  <1>1. CASE handlers = <<>>
    <2>1. {i \in DOMAIN handlers : handlers[i] = "file"} = {}
      BY <1>1
    <2> QED
      BY <1>1, <2>1, FS_EmptySet DEF Copies, Both
  <1>2. CASE handlers = Both
    <2>1. {i \in DOMAIN handlers : handlers[i] = "file"} = {2}
      BY <1>2 DEF Both
    <2> QED
      BY <1>2, <2>1, FS_Singleton DEF Copies, Both
  <1> QED
    BY <1>1, <1>2

LEMMA SinkSuffices == SinkInv => NoLineTwice
  <1> SUFFICES ASSUME SinkInv PROVE NoLineTwice
    OBVIOUS
  <1>1. Copies <= 1
    BY CopiesOf DEF SinkInv, SinkTypeOK
  <1>2. ASSUME lock = Nobody, NEW s \in Sessions, at[s] = "configured" PROVE Copies = 1
    BY <1>2, CopiesOf DEF SinkInv, SinkTypeOK, InstalledStays
  <1> QED
    BY <1>1, <1>2 DEF NoLineTwice

(* Whatever the number of sessions, and however the runs of their scripts  *)
(* overlap, the logger writes an event to the file once, or, during a      *)
(* swap, not at all (logging_setup.py:140-156).                            *)
THEOREM OneSink == SinkSpec => []NoLineTwice
  <1>1. SinkInv /\ [SinkNext]_sinkVars => SinkInv'
    BY SinkStep
  <1> QED
    BY <1>1, SinkStarts, SinkSuffices, PTL DEF SinkSpec

-------------------------------------------------------------------------------
(* The handlers under the turns.                                           *)

\* What a turn does besides, it does not do to the handlers, except that a
\* killed process starts with none.
LEMMA TelemetryStep ==
    ASSUME Next
    PROVE  SinkNext \/ UNCHANGED sinkVars \/ SinkInit'
  <1>1. ASSUME NEW s \in Sessions, BeginRun(s) PROVE SinkNext
    BY <1>1 DEF BeginRun, SinkNext
  <1>2. ASSUME NEW s \in Sessions, Configure(s) PROVE SinkNext
    BY <1>2 DEF Configure, SinkNext
  <1>3. ASSUME NEW s \in Sessions, EndRun(s) \/ Finish(s) PROVE SinkNext
    BY <1>3 DEF EndRun, Finish, Quiet, SinkNext
  <1>4. ASSUME NEW s \in Sessions, StartOver(s) PROVE UNCHANGED sinkVars
    BY <1>4 DEF StartOver
  <1>5. ASSUME NEW s \in Sessions, Ask(s) \/ UseTools(s) \/ Retrieve(s) PROVE UNCHANGED sinkVars
    BY <1>5 DEF Ask, UseTools, Retrieve
  <1>6. ASSUME NEW s \in Sessions, NEW u \in Usages, ModelCall(s, u) \/ Translate(s, u)
        PROVE  UNCHANGED sinkVars
    BY <1>6 DEF ModelCall, Translate
  <1>7. CASE Kill
    BY <1>7 DEF Kill, SinkInit
  <1>8. CASE Foreign
    BY <1>8 DEF Foreign
  <1> QED
    BY <1>1, <1>2, <1>3, <1>4, <1>5, <1>6, <1>7, <1>8 DEF Next, Turn

\* Which is as the program starts.
LEMMA SinkInvAtStart == SinkInit' => SinkInv'
  BY DEF SinkInit, SinkInv, SinkTypeOK, SwapIsExclusive, ClearedIsEmpty, InstalledStays

\* The handlers as they are after any number of steps.
LEMMA SinkAlways == Spec => []SinkInv
  <1>1. Init => SinkInv
    BY SinkStarts DEF Init
  <1>2. SinkInv /\ [Next]_vars => SinkInv'
    <2> SUFFICES ASSUME SinkInv, [Next]_vars PROVE SinkInv'
      OBVIOUS
    <2>1. CASE Next
      BY <2>1, TelemetryStep, SinkStep, SinkInvAtStart
    <2>2. CASE UNCHANGED vars
      BY <2>2, SinkStep DEF vars
    <2> QED
      BY <2>1, <2>2
  <1> QED
    BY <1>1, <1>2, PTL DEF Spec

(* The same under everything a turn may do meanwhile: sessions that ask,   *)
(* search, start over or end in the middle of another's swap, a process    *)
(* killed inside one and started again, and lines of other processes       *)
(* (logging_setup.py:140-156).                                             *)
THEOREM EachEventOnce == Spec => []NoLineTwice
  BY SinkAlways, SinkSuffices, PTL

-------------------------------------------------------------------------------
(* Sums over finite sets, which the folds of the modules compute.          *)

\* Counting up from zero reaches every natural number.
LEMMA CountingUp ==
    ASSUME NEW S \in SUBSET Nat, 0 \in S, \A n \in S : n + 1 \in S
    PROVE  S = Nat
  <1> DEFINE T == Nat \ S
             R == {ss \in Nat \X Nat : ss[1] < ss[2]}
  <1>1. SUFFICES ASSUME T # {} PROVE FALSE
    OBVIOUS
  <1>2. IsWellFoundedOn(R, Nat)
    BY NatLessThanWellFounded DEF OpToRel
  <1>3. PICK n \in T : \A m \in T : ~(<<m, n>> \in R)
    <2>1. T \subseteq Nat /\ T # {}
      BY <1>1
    <2> HIDE DEF R, T
    <2>2. QED
      BY <1>2, <2>1, WFMin
  <1>4. n \in Nat /\ n # 0
    BY <1>3
  <1>5. n - 1 \in Nat /\ n - 1 \notin T
    <2>1. <<n - 1, n>> \in R
      BY <1>4
    <2>2. QED
      BY <1>3, <1>4, <2>1
  <1>6. n - 1 \in S /\ (n - 1) + 1 = n
    BY <1>4, <1>5
  <1>7. QED
    BY <1>3, <1>6

\* What holds of a set when it holds of the set without any one member of it.
LEMMA Shrinking ==
    ASSUME NEW S, IsFiniteSet(S), NEW G, {} \in G,
           \A T \in SUBSET S : T # {} /\ (\A x \in T : T \ {x} \in G) => T \in G
    PROVE  \A T \in SUBSET S : T \in G
  <1> DEFINE Small == {n \in Nat : \A T \in SUBSET S : Cardinality(T) = n => T \in G}
  <1>1. \A T \in SUBSET S : IsFiniteSet(T) /\ Cardinality(T) \in Nat
    BY FS_Subset, FS_CardinalityType
  <1>2. 0 \in Small
    <2>1. \A T \in SUBSET S : Cardinality(T) = 0 => T = {}
      BY <1>1, FS_EmptySet
    <2> QED
      BY <2>1
  <1>3. ASSUME NEW n \in Small PROVE n + 1 \in Small
    <2>1. ASSUME NEW T \in SUBSET S, Cardinality(T) = n + 1 PROVE T \in G
      <3>1. T # {}
        <4>1. Cardinality({}) = 0
          BY FS_EmptySet
        <4>2. n \in Nat
          OBVIOUS
        <4> QED
          BY ONLY <2>1, <4>1, <4>2
      <3>2. ASSUME NEW x \in T PROVE T \ {x} \in G
        <4>1. Cardinality(T \ {x}) = n
          <5>1. IsFiniteSet(T)
            BY ONLY <1>1, <2>1
          <5>2. Cardinality(T \ {x}) = Cardinality(T) - 1
            BY ONLY <5>1, x \in T, FS_RemoveElement
          <5> QED
            BY ONLY <5>2, <2>1, n \in Nat
        <4> QED
          BY <4>1
      <3> QED
        BY <3>1, <3>2
    <2> QED
      BY <2>1
  <1>4. Small = Nat
    <2>1. Small \in SUBSET Nat
      OBVIOUS
    <2> HIDE DEF Small
    <2> QED
      BY <1>2, <1>3, <2>1, CountingUp
  <1> QED
    BY <1>1, <1>4

Pick(s) == CHOOSE x \in s : TRUE

\* g sums f over the subsets of S.
Sums(g, f, S) == g = [s \in SUBSET S |-> IF s = {} THEN 0 ELSE f[Pick(s)] + g[s \ {Pick(s)}]]

\* There is such a g: by the sizes of the subsets, one after another.
LEMMA SumsExist == ASSUME NEW f, NEW S, IsFiniteSet(S) PROVE \E g : Sums(g, f, S)
  <1> DEFINE Up(k) == {s \in SUBSET S : Cardinality(s) <= k}
             Fits(g, k) == g = [s \in Up(k) |-> IF s = {} THEN 0 ELSE f[Pick(s)] + g[s \ {Pick(s)}]]
             Has == {k \in Nat : \E g : Fits(g, k)}
  <1>1. \A T \in SUBSET S : IsFiniteSet(T) /\ Cardinality(T) \in Nat
    BY FS_Subset, FS_CardinalityType
  <1>2. 0 \in Has
    <2> DEFINE g == [s \in Up(0) |-> 0]
    <2>1. \A s \in Up(0) : s = {}
      BY <1>1, FS_EmptySet
    <2>2. Fits(g, 0)
      BY <2>1
    <2> QED
      BY <2>2
  <1>3. ASSUME NEW k \in Has PROVE k + 1 \in Has
    <2>1. PICK g : Fits(g, k)
      OBVIOUS
    <2> DEFINE h == [s \in Up(k + 1) |-> IF s = {} THEN 0 ELSE f[Pick(s)] + g[s \ {Pick(s)}]]
    <2>2. ASSUME NEW s \in Up(k + 1), s # {} PROVE h[s \ {Pick(s)}] = g[s \ {Pick(s)}]
      <3>1. Pick(s) \in s
        BY <2>2 DEF Pick
      <3>2. Cardinality(s \ {Pick(s)}) = Cardinality(s) - 1
        BY <1>1, <3>1, FS_RemoveElement
      <3>3. s \ {Pick(s)} \in Up(k) /\ s \ {Pick(s)} \in Up(k + 1)
        BY <1>1, <3>2
      <3> HIDE DEF Up
      <3> QED
        BY <2>1, <3>3
    <2>3. Fits(h, k + 1)
      <3> HIDE DEF Up
      <3> QED
        BY <2>2
    <2>4. k + 1 \in Nat
      OBVIOUS
    <2> HIDE DEF h, Fits
    <2> QED
      BY <2>3, <2>4
  <1>4. Has = Nat
    <2>1. Has \in SUBSET Nat
      OBVIOUS
    <2> HIDE DEF Has
    <2> QED
      BY <1>2, <1>3, <2>1, CountingUp
  <1>5. Cardinality(S) \in Nat /\ Up(Cardinality(S)) = SUBSET S
    BY <1>1, FS_Subset
  <1>6. PICK g : Fits(g, Cardinality(S))
    BY <1>4, <1>5
  <1> QED
    BY <1>5, <1>6 DEF Sums

\* It depends on the terms alone, not on the set they were taken from.
LEMMA SumsAgree ==
    ASSUME NEW S, IsFiniteSet(S), NEW g, NEW f, Sums(g, f, S),
           NEW R, NEW h, NEW e, Sums(h, e, R), S \subseteq R, \A x \in S : f[x] = e[x]
    PROVE  g[S] = h[S]
  <1> DEFINE G == {s \in SUBSET S : g[s] = h[s]}
  <1>1. {} \in G
    BY DEF Sums
  <1>2. ASSUME NEW T \in SUBSET S, T # {}, \A x \in T : T \ {x} \in G PROVE T \in G
    <2>1. Pick(T) \in T
      BY <1>2 DEF Pick
    <2>2. g[T] = f[Pick(T)] + g[T \ {Pick(T)}] /\ h[T] = e[Pick(T)] + h[T \ {Pick(T)}]
      BY <1>2 DEF Sums
    <2> QED
      BY <1>2, <2>1, <2>2
  <1> HIDE DEF G
  <1>3. S \in G
    <2>1. \A T \in SUBSET S : T # {} /\ (\A x \in T : T \ {x} \in G) => T \in G
      BY ONLY <1>2
    <2>2. \A T \in SUBSET S : T \in G
      BY ONLY IsFiniteSet(S), <1>1, <2>1, Shrinking
    <2> QED
      BY <2>2
  <1> QED
    BY <1>3 DEF G

\* The sum the modules speak of is one of them.
LEMMA SumIs ==
    ASSUME NEW f, NEW S, IsFiniteSet(S)
    PROVE  \E g : Sums(g, f, S) /\ SumFunctionOnSet(f, S) = g[S]
  <1> DEFINE g == CHOOSE h : Sums(h, f, S)
  <1>1. SumFunctionOnSet(f, S) = g[S]
    BY DEF SumFunctionOnSet, FoldFunctionOnSet, MapThenFoldSet, Sums, Pick
  <1>2. Sums(g, f, S)
    BY SumsExist
  <1> QED
    BY <1>1, <1>2

\* Only what f is on S counts.
LEMMA SumAgrees ==
    ASSUME NEW S, IsFiniteSet(S), NEW f, NEW e, \A x \in S : f[x] = e[x]
    PROVE  SumFunctionOnSet(f, S) = SumFunctionOnSet(e, S)
  <1>1. PICK g : Sums(g, f, S) /\ SumFunctionOnSet(f, S) = g[S]
    BY SumIs
  <1>2. PICK h : Sums(h, e, S) /\ SumFunctionOnSet(e, S) = h[S]
    BY SumIs
  <1> QED
    BY <1>1, <1>2, SumsAgree

\* A sum of nothing.
LEMMA SumEmpty == ASSUME NEW f PROVE SumFunctionOnSet(f, {}) = 0
  <1>1. IsFiniteSet({})
    BY FS_EmptySet
  <1>2. PICK g : Sums(g, f, {}) /\ SumFunctionOnSet(f, {}) = g[{}]
    BY <1>1, SumIs
  <1> QED
    BY <1>2 DEF Sums

\* A sum, term by term.
LEMMA SumPick ==
    ASSUME NEW S, IsFiniteSet(S), S # {}, NEW f
    PROVE  /\ Pick(S) \in S
           /\ SumFunctionOnSet(f, S) = f[Pick(S)] + SumFunctionOnSet(f, S \ {Pick(S)})
  <1> DEFINE R == S \ {Pick(S)}
  <1>1. Pick(S) \in S
    BY DEF Pick
  <1>2. IsFiniteSet(R)
    BY FS_Subset
  <1>3. PICK g : Sums(g, f, S) /\ SumFunctionOnSet(f, S) = g[S]
    BY SumIs
  <1>4. PICK h : Sums(h, f, R) /\ SumFunctionOnSet(f, R) = h[R]
    BY <1>2, SumIs
  <1>5. h[R] = g[R]
    BY <1>2, <1>3, <1>4, SumsAgree
  <1>6. g[S] = f[Pick(S)] + g[R]
    BY <1>3 DEF Sums
  <1> QED
    BY <1>1, <1>3, <1>4, <1>5, <1>6

\* A sum of numbers is a number.
LEMMA SumIsNat ==
    ASSUME NEW S, IsFiniteSet(S), NEW f, \A x \in S : f[x] \in Nat
    PROVE  SumFunctionOnSet(f, S) \in Nat
  <1> DEFINE G == {s \in SUBSET S : SumFunctionOnSet(f, s) \in Nat}
  <1>1. {} \in G
    BY SumEmpty
  <1>2. ASSUME NEW T \in SUBSET S, T # {}, \A x \in T : T \ {x} \in G PROVE T \in G
    <2>1. IsFiniteSet(T)
      BY FS_Subset
    <2>2. /\ Pick(T) \in T
          /\ SumFunctionOnSet(f, T) = f[Pick(T)] + SumFunctionOnSet(f, T \ {Pick(T)})
      BY <1>2, <2>1, SumPick
    <2>3. SumFunctionOnSet(f, T \ {Pick(T)}) \in Nat /\ f[Pick(T)] \in Nat
      BY <1>2, <2>2
    <2> QED
      BY <2>2, <2>3
  <1> HIDE DEF G
  <1>3. S \in G
    <2>1. \A T \in SUBSET S : T # {} /\ (\A x \in T : T \ {x} \in G) => T \in G
      BY ONLY <1>2
    <2>2. \A T \in SUBSET S : T \in G
      BY ONLY IsFiniteSet(S), <1>1, <2>1, Shrinking
    <2> QED
      BY <2>2
  <1> QED
    BY <1>3 DEF G

\* Whichever member is taken out, it is what the sum loses.
LEMMA SumWithout ==
    ASSUME NEW S, IsFiniteSet(S), NEW f, \A x \in S : f[x] \in Nat
    PROVE  \A x \in S : SumFunctionOnSet(f, S) = f[x] + SumFunctionOnSet(f, S \ {x})
  <1> DEFINE Sum(s) == SumFunctionOnSet(f, s)
             G == {s \in SUBSET S : \A x \in s : Sum(s) = f[x] + Sum(s \ {x})}
  <1>0. \A T \in SUBSET S : IsFiniteSet(T) /\ Sum(T) \in Nat
    BY FS_Subset, SumIsNat
  <1>1. {} \in G
    OBVIOUS
  <1>2. ASSUME NEW T \in SUBSET S, T # {}, \A x \in T : T \ {x} \in G PROVE T \in G
    <2> DEFINE p == Pick(T)
    <2>1. p \in T /\ Sum(T) = f[p] + Sum(T \ {p})
      BY <1>0, <1>2, SumPick
    <2>2. ASSUME NEW x \in T, x # p PROVE Sum(T) = f[x] + Sum(T \ {x})
      <3>1. Sum(T \ {p}) = f[x] + Sum((T \ {p}) \ {x})
        BY <1>2, <2>1, <2>2
      <3>2. Sum(T \ {x}) = f[p] + Sum((T \ {x}) \ {p})
        BY <1>2, <2>1, <2>2
      <3>3. (T \ {p}) \ {x} = (T \ {x}) \ {p}
        OBVIOUS
      <3>4. Sum((T \ {x}) \ {p}) \in Nat /\ f[x] \in Nat /\ f[p] \in Nat
        BY <1>0, <2>1
      <3> DEFINE left == Sum((T \ {x}) \ {p})
      <3>5. Sum((T \ {p}) \ {x}) = left
        BY <3>3
      <3>6. Sum(T) = f[p] + (f[x] + left) /\ Sum(T \ {x}) = f[p] + left
        BY <2>1, <3>1, <3>2, <3>5
      <3> HIDE DEF Sum, p, left
      <3> QED
        BY <3>4, <3>6 DEF left
    <2> QED
      BY <2>1, <2>2
  <1> HIDE DEF G
  <1>3. S \in G
    <2>1. \A T \in SUBSET S : T # {} /\ (\A x \in T : T \ {x} \in G) => T \in G
      BY ONLY <1>2
    <2>2. \A T \in SUBSET S : T \in G
      BY ONLY IsFiniteSet(S), <1>1, <2>1, Shrinking
    <2> QED
      BY <2>2
  <1> QED
    BY <1>3 DEF G

\* A sum of one term more.
LEMMA SumWith ==
    ASSUME NEW S, IsFiniteSet(S), NEW y, y \notin S, NEW f, NEW e,
           \A x \in S : f[x] \in Nat /\ e[x] = f[x], e[y] \in Nat
    PROVE  /\ SumFunctionOnSet(f, S) \in Nat
           /\ SumFunctionOnSet(e, S \cup {y}) = SumFunctionOnSet(f, S) + e[y]
  <1>1. IsFiniteSet(S \cup {y}) /\ (S \cup {y}) \ {y} = S
    BY FS_AddElement
  <1>2. SumFunctionOnSet(e, S \cup {y}) = e[y] + SumFunctionOnSet(e, S)
    BY <1>1, SumWithout
  <1>3. SumFunctionOnSet(e, S) = SumFunctionOnSet(f, S) /\ SumFunctionOnSet(f, S) \in Nat
    BY SumAgrees, SumIsNat
  <1> QED
    BY <1>2, <1>3

\* One value changed.
LEMMA SumChanged ==
    ASSUME NEW S, IsFiniteSet(S), NEW y \in S, NEW f, NEW e, NEW d \in Nat,
           \A x \in S : f[x] \in Nat /\ (x # y => e[x] = f[x]), e[y] = f[y] + d
    PROVE  SumFunctionOnSet(e, S) = SumFunctionOnSet(f, S) + d
  <1> DEFINE R == S \ {y}
  <1>1. IsFiniteSet(R)
    BY FS_Subset
  <1>2. SumFunctionOnSet(f, S) = f[y] + SumFunctionOnSet(f, R)
    BY SumWithout
  <1>3. SumFunctionOnSet(e, S) = e[y] + SumFunctionOnSet(e, R)
    BY SumWithout
  <1>4. SumFunctionOnSet(e, R) = SumFunctionOnSet(f, R) /\ SumFunctionOnSet(f, R) \in Nat
    BY <1>1, SumAgrees, SumIsNat
  <1> QED
    BY <1>2, <1>3, <1>4

\* A sum of terms no larger is no larger.
LEMMA SumBelow ==
    ASSUME NEW S, IsFiniteSet(S), NEW f, NEW e,
           \A x \in S : f[x] \in Nat /\ e[x] \in Nat /\ f[x] <= e[x]
    PROVE  SumFunctionOnSet(f, S) <= SumFunctionOnSet(e, S)
  <1> DEFINE G == {s \in SUBSET S : SumFunctionOnSet(f, s) <= SumFunctionOnSet(e, s)}
  <1>1. {} \in G
    BY SumEmpty
  <1>2. ASSUME NEW T \in SUBSET S, T # {}, \A x \in T : T \ {x} \in G PROVE T \in G
    <2> DEFINE R == T \ {Pick(T)}
    <2>1. IsFiniteSet(T) /\ IsFiniteSet(R)
      BY FS_Subset
    <2>2. /\ Pick(T) \in T
          /\ SumFunctionOnSet(f, T) = f[Pick(T)] + SumFunctionOnSet(f, R)
          /\ SumFunctionOnSet(e, T) = e[Pick(T)] + SumFunctionOnSet(e, R)
      BY <1>2, <2>1, SumPick
    <2>3. SumFunctionOnSet(f, R) \in Nat /\ SumFunctionOnSet(e, R) \in Nat
      BY <2>1, SumIsNat
    <2>4. SumFunctionOnSet(f, R) <= SumFunctionOnSet(e, R)
      BY <1>2, <2>2
    <2>5. f[Pick(T)] \in Nat /\ e[Pick(T)] \in Nat /\ f[Pick(T)] <= e[Pick(T)]
      BY <2>2
    <2> QED
      BY <2>2, <2>3, <2>4, <2>5
  <1> HIDE DEF G
  <1>3. \A T \in SUBSET S : T # {} /\ (\A x \in T : T \ {x} \in G) => T \in G
    BY <1>2
  <1>4. \A T \in SUBSET S : T \in G
    BY ONLY IsFiniteSet(S), <1>1, <1>3, Shrinking
  <1> QED
    BY <1>4 DEF G

-------------------------------------------------------------------------------
(* Lists, and the places of a set of numbers.                              *)

IsList(seq) == seq \in Seq({seq[i] : i \in DOMAIN seq})

Reporting(e, f) ==
    IF Field(e, CallsField(f)) # None THEN Field(e, CallsField(f)) ELSE CallsBehind(e).made

LineOK(e) ==
    /\ CallsBehind(e).made \in Nat
    /\ \A f \in TOKEN_FIELDS : Field(e, f) # None => Field(e, f) \in Nat /\ Reporting(e, f) \in Nat

ShownOf(tokens) == IF Measured(tokens) THEN tokens.total ELSE 0

TokensOK(tokens, price) ==
    /\ tokens.calls \in Nat /\ tokens.reported \in Nat
    /\ tokens.reported <= tokens.calls
    /\ ShownOf(tokens) = price * tokens.reported

\* What a sequence is, without a word about what it holds.
LEMMA ListIs ==
    ASSUME NEW seq, IsList(seq)
    PROVE  /\ Len(seq) \in Nat /\ DOMAIN seq = 1..Len(seq)
           /\ seq = [i \in 1..Len(seq) |-> seq[i]]
  BY DEF IsList

\* A function on the first n numbers is one.
LEMMA ListOf ==
    ASSUME NEW n \in Nat, NEW f, DOMAIN f = 1..n, f = [i \in 1..n |-> f[i]]
    PROVE  IsList(f) /\ Len(f) = n
  <1> DEFINE S == {f[i] : i \in DOMAIN f}
  <1>1. f \in [1..n -> S]
    OBVIOUS
  <1> HIDE DEF S
  <1>2. f \in Seq(S) /\ Len(f) = n
    BY <1>1
  <1> QED
    BY <1>2 DEF IsList, S

\* And so is one with an element more.
LEMMA ListAppend ==
    ASSUME NEW seq, IsList(seq), NEW x
    PROVE  LET more == Append(seq, x) IN
           /\ IsList(more)
           /\ Len(more) = Len(seq) + 1
           /\ more[Len(seq) + 1] = x
           /\ \A i \in DOMAIN seq : more[i] = seq[i]
           /\ more = seq \o <<x>>
           /\ more = [i \in 1..(Len(seq) + 1) |-> IF i = Len(seq) + 1 THEN x ELSE seq[i]]
  <1> DEFINE S == {seq[i] : i \in DOMAIN seq}
             R == S \cup {x}
             n == Len(seq)
             more == Append(seq, x)
  <1>1. seq \in Seq(S)
    BY DEF IsList
  <1>2. S \subseteq R /\ x \in R
    OBVIOUS
  <1> HIDE DEF S, R
  <1>3. seq \in Seq(R)
    BY <1>1, <1>2
  <1>4. more \in Seq(R) /\ Len(more) = n + 1 /\ n \in Nat
    BY <1>2, <1>3
  <1>5. /\ more[n + 1] = x
        /\ \A i \in 1..n : more[i] = seq[i]
        /\ DOMAIN more = 1..(n + 1) /\ DOMAIN seq = 1..n
        /\ more = [i \in 1..(n + 1) |-> more[i]]
    <2>1. more[n + 1] = x /\ \A i \in 1..n : more[i] = seq[i]
      BY <1>2, <1>3
    <2>2. DOMAIN more = 1..(n + 1) /\ DOMAIN seq = 1..n
      BY <1>3, <1>4
    <2>3. more = [i \in 1..Len(more) |-> more[i]]
      <3> HIDE DEF more
      <3> QED
        BY <1>4
    <2> QED
      BY <1>4, <2>1, <2>2, <2>3
  <1>6. more = [i \in 1..(n + 1) |-> IF i = n + 1 THEN x ELSE seq[i]]
    BY <1>4, <1>5
  <1>7. more = seq \o <<x>>
    BY <1>2, <1>3
  <1>8. IsList(more)
    BY <1>4, <1>5, ListOf
  <1> QED
    BY <1>4, <1>5, <1>6, <1>7, <1>8

-----------------------------------------------------------------------------
\* A set of places, and one more after them all.
LEMMA NthKeeps ==
    ASSUME NEW S \in SUBSET Nat, IsFiniteSet(S), NEW m \in Nat, \A i \in S : i < m
    PROVE  /\ Cardinality(S) \in Nat
           /\ Cardinality(S \cup {m}) = Cardinality(S) + 1
           /\ \A k \in 1..Cardinality(S) : Nth(S \cup {m}, k) = Nth(S, k)
           /\ Nth(S \cup {m}, Cardinality(S) + 1) = m
  <1> DEFINE R == S \cup {m}
             c == Cardinality(S)
             below(T, i) == {j \in T : j <= i}
  <1>1. c \in Nat /\ Cardinality(R) = c + 1 /\ IsFiniteSet(R)
    <2>1. m \notin S
      OBVIOUS
    <2> QED
      BY <2>1, FS_AddElement, FS_CardinalityType
  <1>2. \A i \in S : below(R, i) = below(S, i) /\ Cardinality(below(S, i)) \in 0..c
    <2>1. ASSUME NEW i \in S PROVE below(R, i) = below(S, i)
      OBVIOUS
    <2>2. ASSUME NEW i \in S PROVE Cardinality(below(S, i)) \in 0..c
      <3>1. below(S, i) \in SUBSET S
        OBVIOUS
      <3> HIDE DEF below
      <3> QED
        BY <1>1, <3>1, FS_Subset, FS_CardinalityType
    <2> QED
      BY <2>1, <2>2
  <1>3. below(R, m) = R
    <2>1. \A i \in R : i <= m
      OBVIOUS
    <2> QED
      BY <2>1
  <1>4. ASSUME NEW k \in 1..c PROVE Nth(R, k) = Nth(S, k)
    <2>1. Cardinality(below(R, m)) # k
      BY <1>1, <1>3
    <2>2. \A i : i \in R /\ Cardinality(below(R, i)) = k <=> i \in S /\ Cardinality(below(S, i)) = k
      <3> HIDE DEF below
      <3>1. ASSUME NEW i \in S PROVE Cardinality(below(R, i)) = Cardinality(below(S, i))
        BY <1>2
      <3> QED
        BY <2>1, <3>1
    <2> QED
      BY <2>2 DEF Nth
  <1>5. Nth(R, c + 1) = m
    <2>1. \A i : i \in R /\ Cardinality(below(R, i)) = c + 1 <=> i = m
      <3> HIDE DEF below
      <3>1. ASSUME NEW i \in S PROVE Cardinality(below(R, i)) # c + 1
        BY <1>1, <1>2
      <3>2. Cardinality(below(R, m)) = c + 1
        BY <1>1, <1>3
      <3> QED
        BY <3>1, <3>2
    <2> QED
      BY <2>1 DEF Nth
  <1> QED
    BY <1>1, <1>4, <1>5

\* A finite set of numbers has a largest.
LEMMA LargestOf ==
    ASSUME NEW S \in SUBSET Nat, IsFiniteSet(S), S # {}
    PROVE  \E m \in S : \A i \in S : i <= m
  <1> DEFINE G == {T \in SUBSET S : T = {} \/ \E m \in T : \A i \in T : i <= m}
  <1>1. {} \in G
    OBVIOUS
  <1>2. ASSUME NEW T \in SUBSET S, T # {}, \A x \in T : T \ {x} \in G PROVE T \in G
    <2>1. PICK x \in T : TRUE
      BY <1>2
    <2>2. CASE T \ {x} = {}
      BY <2>1, <2>2
    <2>3. CASE T \ {x} # {}
      <3>1. PICK m \in T \ {x} : \A i \in T \ {x} : i <= m
        BY <1>2, <2>3
      <3>2. CASE x <= m
        BY <3>1, <3>2
      <3>3. CASE m < x
        <4>1. \A i \in T : i <= x
          BY <3>1, <3>3
        <4> QED
          BY <2>1, <4>1
      <3> QED
        BY <3>1, <3>2, <3>3
    <2> QED
      BY <2>2, <2>3
  <1>3. \A T \in SUBSET S : T # {} /\ (\A x \in T : T \ {x} \in G) => T \in G
    BY <1>2
  <1> HIDE DEF G
  <1>4. S \in G
    BY ONLY IsFiniteSet(S), <1>1, <1>3, Shrinking
  <1> QED
    BY <1>4 DEF G

\* The k-th place is a place.
LEMMA NthIs ==
    ASSUME NEW S \in SUBSET Nat, IsFiniteSet(S)
    PROVE  \A k \in 1..Cardinality(S) : Nth(S, k) \in S
  <1> DEFINE G == {T \in SUBSET S : \A k \in 1..Cardinality(T) : Nth(T, k) \in T}
  <1>1. {} \in G
    <2>1. Cardinality({}) = 0
      BY FS_EmptySet
    <2> QED
      BY <2>1
  <1>2. ASSUME NEW T \in SUBSET S, T # {}, \A x \in T : T \ {x} \in G PROVE T \in G
    <2>1. IsFiniteSet(T)
      BY FS_Subset
    <2>2. PICK m \in T : \A i \in T : i <= m
      BY <1>2, <2>1, LargestOf
    <2> DEFINE R == T \ {m}
    <2>3. R \cup {m} = T /\ \A i \in R : i < m
      BY <2>2
    <2>4. IsFiniteSet(R) /\ R \in SUBSET Nat /\ m \in Nat
      BY <2>1, FS_Subset
    <2>5. /\ Cardinality(R) \in Nat /\ Cardinality(T) = Cardinality(R) + 1
          /\ \A k \in 1..Cardinality(R) : Nth(T, k) = Nth(R, k)
          /\ Nth(T, Cardinality(R) + 1) = m
      <3> HIDE DEF R
      <3> QED
        BY <2>3, <2>4, NthKeeps
    <2>6. R \in G
      BY <1>2, <2>2
    <2>7. ASSUME NEW k \in 1..Cardinality(T) PROVE Nth(T, k) \in T
      <3>1. k \in 1..Cardinality(R) \/ k = Cardinality(R) + 1
        BY <2>5
      <3> QED
        BY <2>2, <2>3, <2>5, <2>6, <3>1
    <2> QED
      BY <2>7
  <1>3. \A T \in SUBSET S : T # {} /\ (\A x \in T : T \ {x} \in G) => T \in G
    BY <1>2
  <1> HIDE DEF G
  <1>4. S \in G
    BY ONLY IsFiniteSet(S), <1>1, <1>3, Shrinking
  <1> QED
    BY <1>4 DEF G

\* Pieces one could find in a file: only a fragment is without its newline.
PiecesOK(pieces) ==
    /\ IsList(pieces)
    /\ \A i \in DOMAIN pieces :
          /\ pieces[i].ended \in BOOLEAN
          /\ ~pieces[i].ended => pieces[i].event = Fragment

Alone(pieces, o) ==
    {i \in LineStarts(pieces, o) \cap LineEnds(pieces) : pieces[i].event # Fragment}

\* The events a reading yields.
Said(pieces, o) == ReadEvents(pieces, o).events

\* The lines a reading yields stand at the places of the whole ones.
LEMMA SaidIs ==
    ASSUME NEW pieces, IsList(pieces), NEW o \in Nat
    PROVE  LET S == Alone(pieces, o) IN
           /\ IsFiniteSet(S) /\ S \in SUBSET (1..Len(pieces)) /\ Cardinality(S) \in Nat
           /\ Said(pieces, o) = [k \in 1..Cardinality(S) |-> pieces[Nth(S, k)].event]
  <1> DEFINE S == Alone(pieces, o)
  <1>1. Len(pieces) \in Nat /\ DOMAIN pieces = 1..Len(pieces)
    BY ListIs
  <1>2. S \in SUBSET (1..Len(pieces))
    BY <1>1 DEF Alone, LineEnds
  <1>3. IsFiniteSet(S) /\ Cardinality(S) \in Nat
    <2> HIDE DEF S
    <2>1. IsFiniteSet(1..Len(pieces))
      BY <1>1, FS_Interval
    <2>2. IsFiniteSet(S)
      BY ONLY <1>2, <2>1, FS_Subset
    <2> QED
      BY ONLY <2>2, FS_CardinalityType
  <1>4. Said(pieces, o) = [k \in 1..Cardinality(S) |-> pieces[Nth(S, k)].event]
    BY DEF Said, ReadEvents, Those, Alone
  <1> QED
    BY <1>2, <1>3, <1>4

\* Each of them is a piece of the file.
LEMMA SaidList ==
    ASSUME NEW pieces, IsList(pieces), NEW o \in Nat
    PROVE  /\ IsList(Said(pieces, o)) /\ Len(Said(pieces, o)) = Cardinality(Alone(pieces, o))
           /\ \A k \in DOMAIN Said(pieces, o) : \E i \in DOMAIN pieces :
                 Said(pieces, o)[k] = pieces[i].event
  <1> DEFINE E == Said(pieces, o)
             S == Alone(pieces, o)
  <1>1. /\ IsFiniteSet(S) /\ S \in SUBSET (1..Len(pieces)) /\ Cardinality(S) \in Nat
        /\ E = [k \in 1..Cardinality(S) |-> pieces[Nth(S, k)].event]
    BY SaidIs
  <1>2. Len(pieces) \in Nat /\ DOMAIN pieces = 1..Len(pieces)
    BY ListIs
  <1> HIDE DEF E, S
  <1>3. DOMAIN E = 1..Cardinality(S) /\ E = [k \in 1..Cardinality(S) |-> E[k]]
    BY <1>1
  <1>4. IsList(E) /\ Len(E) = Cardinality(S)
    BY ONLY <1>1, <1>3, ListOf
  <1>5. \A k \in 1..Cardinality(S) : Nth(S, k) \in S
    BY <1>1, <1>2, NthIs
  <1> QED
    BY <1>1, <1>2, <1>3, <1>4, <1>5 DEF E, S

\* One more piece is one more event of a reading, or none.
Swallows(pieces, o) == Len(pieces) > o /\ ~pieces[Len(pieces)].ended

\* One more piece is one more line of a reading, unless it is a fragment or shares
\* its line with one.
LEMMA SaidAppend ==
    ASSUME NEW pieces, PiecesOK(pieces), NEW p, p.ended \in BOOLEAN,
           NEW o \in 0..Len(pieces)
    PROVE  Said(Append(pieces, p), o) =
              IF Swallows(pieces, o) \/ p.event = Fragment THEN Said(pieces, o)
              ELSE Append(Said(pieces, o), p.event)
  <1> DEFINE n == Len(pieces)
             longer == Append(pieces, p)
             E == Said(pieces, o)
             more == Said(longer, o)
             swallowed == n > o /\ ~pieces[n].ended
             S == Alone(pieces, o)
             R == Alone(longer, o)
  <1>1. n \in Nat /\ DOMAIN pieces = 1..n /\ IsList(pieces) /\ n + 1 \in Nat /\ o \in Nat /\ o <= n
    BY ListIs DEF PiecesOK
  <1>2. /\ IsList(longer) /\ Len(longer) = n + 1 /\ longer[n + 1] = p
        /\ \A i \in 1..n : longer[i] = pieces[i]
        /\ DOMAIN longer = 1..(n + 1)
    <2>1. IsList(longer) /\ Len(longer) = n + 1 /\ longer[n + 1] = p
      BY ONLY <1>1, ListAppend
    <2>2. \A i \in DOMAIN pieces : longer[i] = pieces[i]
      BY ONLY <1>1, ListAppend
    <2>3. DOMAIN longer = 1..Len(longer)
      BY ONLY <2>1, ListIs
    <2> QED
      BY ONLY <1>1, <2>1, <2>2, <2>3
  <1>3. /\ IsFiniteSet(S) /\ S \in SUBSET (1..n)
        /\ E = [k \in 1..Cardinality(S) |-> pieces[Nth(S, k)].event]
        /\ IsList(E) /\ Len(E) = Cardinality(S)
    <2>1. IsFiniteSet(S) /\ S \in SUBSET (1..n) /\ E = [k \in 1..Cardinality(S) |-> pieces[Nth(S, k)].event]
      BY <1>1, SaidIs
    <2>2. IsList(E) /\ Len(E) = Cardinality(S)
      BY <1>1, SaidList
    <2> QED
      BY <2>1, <2>2
  <1>4. more = [k \in 1..Cardinality(R) |-> longer[Nth(R, k)].event]
    BY <1>1, <1>2, SaidIs
  <1>5. R = IF swallowed \/ p.event = Fragment THEN S ELSE S \cup {n + 1}
    <2>1. \A i \in 1..n : i \in LineStarts(longer, o) <=> i \in LineStarts(pieces, o)
      BY <1>1, <1>2 DEF LineStarts
    <2>2. n + 1 \in LineStarts(longer, o) <=> ~swallowed
      <3>1. n + 1 \in LineStarts(longer, o) <=> n = o \/ longer[(n + 1) - 1].ended
        <4> HIDE DEF n, longer
        <4>1. n + 1 \in (o + 1)..Len(longer) /\ (n + 1 = o + 1 <=> n = o)
          <5>1. Len(longer) = n + 1
            BY <1>2
          <5> QED
            BY ONLY <1>1, <5>1
        <4> QED
          BY <4>1 DEF LineStarts
      <3>2. CASE n = o
        <4> HIDE DEF n, longer
        <4>1. ~(n > o)
          BY ONLY <1>1, <3>2
        <4> QED
          BY <3>1, <3>2, <4>1
      <3>3. CASE n > o
        <4>1. n \in 1..n /\ (n + 1) - 1 = n
          BY <1>1, <3>3
        <4>2. longer[(n + 1) - 1].ended <=> pieces[n].ended
          BY <1>2, <4>1
        <4> HIDE DEF n, longer
        <4>3. n # o
          BY ONLY <1>1, <3>3
        <4>4. swallowed <=> ~pieces[n].ended
          BY <3>3
        <4>5. n + 1 \in LineStarts(longer, o) <=> longer[(n + 1) - 1].ended
          BY ONLY <3>1, <4>3
        <4>6. n + 1 \in LineStarts(longer, o) <=> pieces[n].ended
          BY ONLY <4>2, <4>5
        <4> HIDE DEF swallowed
        <4> QED
          BY ONLY <4>4, <4>6
      <3>4. n = o \/ n > o
        <4> HIDE DEF n
        <4> QED
          BY ONLY <1>1
      <3> QED
        BY ONLY <3>2, <3>3, <3>4
    <2>3. n + 1 \in LineEnds(longer)
      BY <1>1, <1>2 DEF LineEnds
    <2>4. ASSUME NEW i \in 1..n PROVE i \in R <=> i \in S
      <3>1. longer[i] = pieces[i] /\ i # n + 1
        BY <1>1, <1>2
      <3>2. i \in LineEnds(longer) <=> pieces[i].ended
        BY <1>1, <1>2, <3>1 DEF LineEnds
      <3>3. i \in LineEnds(pieces) <=> i = n \/ pieces[i].ended
        BY <1>1 DEF LineEnds
      <3>4. pieces[i].ended \/ pieces[i].event = Fragment
        BY <1>1 DEF PiecesOK
      <3> QED
        BY <2>1, <3>1, <3>2, <3>3, <3>4 DEF Alone
    <2>5. n + 1 \in R <=> ~(swallowed \/ p.event = Fragment)
      BY <1>2, <2>2, <2>3 DEF Alone
    <2>6. R \subseteq 1..(n + 1)
      BY <1>2 DEF Alone, LineEnds
    <2> HIDE DEF R, S, swallowed, n
    <2>7. ASSUME swallowed \/ p.event = Fragment PROVE R = S
      <3>1. \A i \in R : i \in 1..n
        BY <1>1, <2>5, <2>6, <2>7
      <3> QED
        BY <1>3, <2>4, <3>1
    <2>8. ASSUME ~(swallowed \/ p.event = Fragment) PROVE R = S \cup {n + 1}
      <3>1. \A i \in R : i \in 1..n \/ i = n + 1
        BY <1>1, <2>6
      <3> QED
        BY <1>3, <2>4, <2>5, <2>8, <3>1
    <2> QED
      BY <2>7, <2>8
  <1> HIDE DEF E, more, swallowed, S, R, n, longer
  <1>6. S \in SUBSET Nat /\ \A i \in S : i < n + 1 /\ i \in 1..n
    BY <1>1, <1>3
  <1>7. \A k \in 1..Cardinality(S) : Nth(S, k) \in S
    BY <1>3, <1>6, NthIs
  <1>8. CASE swallowed \/ p.event = Fragment
    <2>1. R = S
      BY <1>5, <1>8
    <2>2. more = E
      BY <1>2, <1>3, <1>4, <1>6, <1>7, <2>1
    <2> QED
      BY <1>8, <2>2 DEF E, more, swallowed, n, longer, Swallows
  <1>9. CASE ~(swallowed \/ p.event = Fragment)
    <2> DEFINE c == Cardinality(S)
    <2>1. R = S \cup {n + 1}
      BY <1>5, <1>9
    <2>2. /\ c \in Nat /\ Cardinality(R) = c + 1
          /\ \A k \in 1..c : Nth(R, k) = Nth(S, k)
          /\ Nth(R, c + 1) = n + 1
      <3>1. n + 1 \in Nat /\ IsFiniteSet(S) /\ S \in SUBSET Nat /\ \A i \in S : i < n + 1
        BY <1>1, <1>3, <1>6
      <3> QED
        BY ONLY <3>1, <2>1, NthKeeps
    <2>3. Append(E, p.event) = [k \in 1..(c + 1) |-> IF k = c + 1 THEN p.event ELSE E[k]]
      <3>1. IsList(E) /\ Len(E) = c
        BY <1>3
      <3> HIDE DEF c
      <3> QED
        BY ONLY <3>1, ListAppend
    <2>4. ASSUME NEW k \in 1..(c + 1)
          PROVE  longer[Nth(R, k)].event = IF k = c + 1 THEN p.event ELSE E[k]
      <3>1. CASE k = c + 1
        BY <1>2, <2>2, <3>1
      <3>2. CASE k # c + 1
        <4>1. k \in 1..c
          BY <2>2, <3>2
        <4>2. longer[Nth(R, k)] = pieces[Nth(S, k)]
          BY <1>2, <1>6, <1>7, <2>2, <4>1
        <4> QED
          BY <1>3, <3>2, <4>1, <4>2
      <3> QED
        BY <3>1, <3>2
    <2>5. more = Append(E, p.event)
      BY <1>4, <2>2, <2>3, <2>4
    <2> QED
      BY <1>9, <2>5 DEF E, more, swallowed, n, longer, Swallows
  <1> QED
    BY <1>8, <1>9

-----------------------------------------------------------------------------
IsOurs(e, thr, names) == e.name \in names /\ e.turn # None /\ e.turn.thread = thr

\* The log holds one line more.
Longer(log, more, e) == IsList(log.events) /\ more.events = Append(log.events, e)

\* The lines at some places, and one more.
OneMore(L, M, e) ==
    /\ IsFiniteSet(DOMAIN L)
    /\ \E y : /\ y \notin DOMAIN L /\ DOMAIN M = DOMAIN L \cup {y}
             /\ M[y] = e /\ \A i \in DOMAIN L : M[i] = L[i]

\* A thread's lines, at the places they have in the log.
LEMMA OursIs ==
    ASSUME NEW log, NEW thr, NEW names
    PROVE  LET D == {i \in DOMAIN log.events : IsOurs(log.events[i], thr, names)} IN
           Ours(log, thr, names) = [i \in D |-> log.events[i]]
  BY DEF Ours, IsOurs, Restrict

\* A line more of the log is one more of its thread's, or none.
LEMMA OursLonger ==
    ASSUME NEW log, NEW more, NEW e, Longer(log, more, e), NEW thr, NEW names
    PROVE  /\ ~IsOurs(e, thr, names) => Ours(more, thr, names) = Ours(log, thr, names)
           /\ IsOurs(e, thr, names) => OneMore(Ours(log, thr, names), Ours(more, thr, names), e)
  <1> DEFINE E == log.events
             F == more.events
             y == Len(E) + 1
             D == {i \in DOMAIN E : IsOurs(E[i], thr, names)}
             C == {i \in DOMAIN F : IsOurs(F[i], thr, names)}
             L == Ours(log, thr, names)
             M == Ours(more, thr, names)
  <1>0. IsList(E) /\ F = Append(E, e)
    BY DEF Longer
  <1>1. L = [i \in D |-> E[i]] /\ M = [i \in C |-> F[i]]
    BY OursIs
  <1>2. /\ Len(E) \in Nat /\ DOMAIN E = 1..Len(E)
        /\ DOMAIN F = 1..(Len(E) + 1) /\ F[y] = e /\ \A i \in DOMAIN E : F[i] = E[i]
    BY <1>0, ListIs, ListAppend
  <1>3. IsFiniteSet(D) /\ y \notin D
    <2>1. IsFiniteSet(1..Len(E)) /\ D \subseteq 1..Len(E)
      BY <1>2, FS_Interval
    <2> QED
      BY <1>2, <2>1, FS_Subset
  <1>4. C = IF IsOurs(e, thr, names) THEN D \cup {y} ELSE D
    <2>1. y \in C <=> IsOurs(e, thr, names)
      BY <1>2
    <2>2. \A i \in DOMAIN E : i \in C <=> i \in D
      BY <1>2
    <2>3. C \subseteq DOMAIN E \cup {y} /\ D \subseteq DOMAIN E
      BY <1>2
    <2> HIDE DEF C, D, E, F, y, L, M
    <2>4. ASSUME IsOurs(e, thr, names) PROVE C = D \cup {y}
      BY <2>1, <2>2, <2>3, <2>4
    <2>5. ASSUME ~IsOurs(e, thr, names) PROVE C = D
      BY <2>1, <2>2, <2>3, <2>5
    <2> QED
      BY <2>4, <2>5
  <1>5. \A i \in D : F[i] = E[i]
    BY <1>2
  <1>6. DOMAIN L = D
    BY <1>1
  <1>7. ASSUME ~IsOurs(e, thr, names) PROVE M = L
    BY <1>1, <1>4, <1>5, <1>7
  <1>8. ASSUME IsOurs(e, thr, names) PROVE OneMore(L, M, e)
    <2>1. y \notin DOMAIN L /\ DOMAIN M = DOMAIN L \cup {y} /\ M[y] = e /\ \A i \in DOMAIN L : M[i] = L[i]
      <3> HIDE DEF D, C, E, F, y, L, M
      <3> QED
        BY <1>1, <1>2, <1>3, <1>4, <1>5, <1>6, <1>8
    <2> HIDE DEF D, L, M, y
    <2> QED
      BY <1>3, <1>6, <2>1 DEF OneMore
  <1> QED
    BY <1>7, <1>8

\* There are finitely many of them.
LEMMA OursFinite ==
    ASSUME NEW log, IsList(log.events), NEW thr, NEW names
    PROVE  IsFiniteSet(DOMAIN Ours(log, thr, names))
  <1> DEFINE D == {i \in DOMAIN log.events : IsOurs(log.events[i], thr, names)}
  <1>1. Len(log.events) \in Nat /\ D \subseteq 1..Len(log.events)
    BY ListIs
  <1>2. IsFiniteSet(1..Len(log.events))
    BY <1>1, FS_Interval
  <1>3. IsFiniteSet(D)
    BY <1>1, <1>2, FS_Subset
  <1>4. DOMAIN Ours(log, thr, names) = D
    BY OursIs
  <1> QED
    BY <1>3, <1>4

\* Whose turns are then those there were and its own.
LEMMA TurnsOneMore ==
    ASSUME NEW L, NEW M, NEW e, OneMore(L, M, e)
    PROVE  TurnsIn(M) = TurnsIn(L) \cup {e.turn}
  <1>1. PICK y : /\ y \notin DOMAIN L /\ DOMAIN M = DOMAIN L \cup {y}
                 /\ M[y] = e /\ \A i \in DOMAIN L : M[i] = L[i]
    BY DEF OneMore
  <1> QED
    BY <1>1 DEF TurnsIn

-------------------------------------------------------------------------------
(* What one line more adds to a meter's totals.                            *)

Made(e) == CallsBehind(e).made
CallsThat(e, f) == IF Field(e, f) # None THEN Reporting(e, f) ELSE 0
CountIn(e, f) == IF Field(e, f) # None THEN Field(e, f) ELSE 0

\* A total, its reporting calls and all its calls, as three sums.
LEMMA TokensAre ==
    ASSUME NEW L, NEW f, IsFiniteSet(DOMAIN L), \A i \in DOMAIN L : LineOK(L[i]),
           f \in TOKEN_FIELDS
    PROVE  LET a == Tokens(L, f)
               W == {i \in DOMAIN L : Field(L[i], f) # None} IN
           /\ a.calls = SumFunctionOnSet([i \in DOMAIN L |-> Made(L[i])], DOMAIN L)
           /\ a.reported = SumFunctionOnSet([i \in W |-> Reporting(L[i], f)], W)
           /\ a.total = IF W = {} THEN None ELSE SumFunctionOnSet([i \in W |-> Field(L[i], f)], W)
           /\ IsFiniteSet(W)
           /\ \A i \in W : Field(L[i], f) \in Nat /\ Reporting(L[i], f) \in Nat
           /\ \A i \in DOMAIN L : Made(L[i]) \in Nat
  <1> DEFINE W == {i \in DOMAIN L : Field(L[i], f) # None}
             R == Restrict(L, W)
             a == Tokens(L, f)
  <1>1. R = [i \in W |-> L[i]] /\ DOMAIN R = W
    BY DEF Restrict
  <1>2. a.calls = SumFunctionOnSet([i \in DOMAIN L |-> Made(L[i])], DOMAIN L)
    BY DEF Tokens, SumOf, Made
  <1>3. a.reported = SumFunctionOnSet([i \in DOMAIN R |-> Reporting(R[i], f)], DOMAIN R)
    BY DEF Tokens, SumOf, Reporting
  <1>4. [i \in DOMAIN R |-> Reporting(R[i], f)] = [i \in W |-> Reporting(L[i], f)]
    <2> HIDE DEF W, R
    <2> QED
      BY <1>1
  <1>5. a.total = IF W = {} THEN None
                  ELSE SumFunctionOnSet([i \in DOMAIN R |-> Field(R[i], f)], DOMAIN R)
    BY <1>1 DEF Tokens, SumOf
  <1>6. [i \in DOMAIN R |-> Field(R[i], f)] = [i \in W |-> Field(L[i], f)]
    <2> HIDE DEF W, R
    <2> QED
      BY <1>1
  <1>7. IsFiniteSet(W)
    BY FS_Subset
  <1>8. /\ \A i \in W : Field(L[i], f) \in Nat /\ Reporting(L[i], f) \in Nat
        /\ \A i \in DOMAIN L : Made(L[i]) \in Nat
    BY DEF LineOK, Made
  <1> HIDE DEF R, a
  <1> QED
    BY <1>1, <1>2, <1>3, <1>4, <1>5, <1>6, <1>7, <1>8 DEF a

\* What a meter shows is a sum, and nothing is shown of what was not reported.
LEMMA ShownIs ==
    ASSUME NEW L, NEW f, IsFiniteSet(DOMAIN L), \A i \in DOMAIN L : LineOK(L[i]),
           f \in TOKEN_FIELDS, None \notin Nat
    PROVE  LET a == Tokens(L, f)
               W == {i \in DOMAIN L : Field(L[i], f) # None} IN
           /\ ShownOf(a) = SumFunctionOnSet([i \in W |-> Field(L[i], f)], W)
           /\ a.calls \in Nat /\ a.reported \in Nat /\ ShownOf(a) \in Nat
  <1> DEFINE a == Tokens(L, f)
             W == {i \in DOMAIN L : Field(L[i], f) # None}
             h == [i \in W |-> Field(L[i], f)]
             g == [i \in W |-> Reporting(L[i], f)]
             k == [i \in DOMAIN L |-> Made(L[i])]
  <1>1. /\ a.calls = SumFunctionOnSet(k, DOMAIN L)
        /\ a.reported = SumFunctionOnSet(g, W)
        /\ a.total = IF W = {} THEN None ELSE SumFunctionOnSet(h, W)
        /\ IsFiniteSet(W)
        /\ \A i \in W : Field(L[i], f) \in Nat /\ Reporting(L[i], f) \in Nat
        /\ \A i \in DOMAIN L : Made(L[i]) \in Nat
    BY TokensAre
  <1>2. /\ \A i \in W : h[i] \in Nat /\ g[i] \in Nat
        /\ \A i \in DOMAIN L : k[i] \in Nat
    BY <1>1
  <1> HIDE DEF h, g, k, W, a
  <1>3. SumFunctionOnSet(h, W) \in Nat /\ SumFunctionOnSet(g, W) \in Nat
        /\ SumFunctionOnSet(k, DOMAIN L) \in Nat
    BY <1>1, <1>2, SumIsNat
  <1>4. W = {} => SumFunctionOnSet(h, W) = 0
    BY SumEmpty
  <1>5. ShownOf(a) = SumFunctionOnSet(h, W)
    BY <1>1, <1>3, <1>4 DEF ShownOf, Measured
  <1> QED
    BY <1>1, <1>3, <1>5 DEF a, h, W

\* What one more line adds to each of them.
LEMMA TokensWith ==
    ASSUME NEW L, NEW M, NEW f, NEW e, OneMore(L, M, e),
           \A i \in DOMAIN L : LineOK(L[i]), LineOK(e), f \in TOKEN_FIELDS, None \notin Nat
    PROVE  LET a == Tokens(L, f)
               b == Tokens(M, f) IN
           /\ a.calls \in Nat /\ a.reported \in Nat /\ ShownOf(a) \in Nat
           /\ b.calls = a.calls + Made(e)
           /\ b.reported = a.reported + CallsThat(e, f)
           /\ ShownOf(b) = ShownOf(a) + CountIn(e, f)
  <1>0. PICK y : /\ y \notin DOMAIN L /\ DOMAIN M = DOMAIN L \cup {y}
                 /\ M[y] = e /\ \A i \in DOMAIN L : M[i] = L[i]
    BY DEF OneMore
  <1>f. IsFiniteSet(DOMAIN L)
    BY DEF OneMore
  <1> DEFINE a == Tokens(L, f)
             b == Tokens(M, f)
             W == {i \in DOMAIN L : Field(L[i], f) # None}
             V == {i \in DOMAIN M : Field(M[i], f) # None}
             h == [i \in W |-> Field(L[i], f)]
             g == [i \in W |-> Reporting(L[i], f)]
             k == [i \in DOMAIN L |-> Made(L[i])]
             hh == [i \in V |-> Field(M[i], f)]
             gg == [i \in V |-> Reporting(M[i], f)]
             kk == [i \in DOMAIN M |-> Made(M[i])]
  <1>1. /\ a.calls = SumFunctionOnSet(k, DOMAIN L) /\ a.reported = SumFunctionOnSet(g, W)
        /\ IsFiniteSet(W)
        /\ \A i \in W : Field(L[i], f) \in Nat /\ Reporting(L[i], f) \in Nat
        /\ \A i \in DOMAIN L : Made(L[i]) \in Nat
    BY <1>f, TokensAre
  <1>2. IsFiniteSet(DOMAIN M) /\ \A i \in DOMAIN M : LineOK(M[i])
    BY <1>0, <1>f, FS_AddElement
  <1>3. b.calls = SumFunctionOnSet(kk, DOMAIN M) /\ b.reported = SumFunctionOnSet(gg, V)
    BY <1>2, TokensAre
  <1>4. /\ ShownOf(a) = SumFunctionOnSet(h, W)
        /\ a.calls \in Nat /\ a.reported \in Nat /\ ShownOf(a) \in Nat
    BY <1>f, ShownIs
  <1>5. ShownOf(b) = SumFunctionOnSet(hh, V)
    BY <1>2, ShownIs
  <1>6. y \notin W /\ V = IF Field(e, f) # None THEN W \cup {y} ELSE W
    BY <1>0
  <1>7. Made(e) \in Nat /\ (Field(e, f) # None => Field(e, f) \in Nat /\ Reporting(e, f) \in Nat)
    BY DEF LineOK, Made
  <1>8. /\ \A i \in DOMAIN L : k[i] \in Nat /\ kk[i] = k[i]
        /\ kk[y] = Made(e)
    BY <1>0, <1>1
  <1>9. \A i \in W : h[i] \in Nat /\ g[i] \in Nat /\ hh[i] = h[i] /\ gg[i] = g[i]
    BY <1>0, <1>1
  <1>10. Field(e, f) # None => hh[y] = Field(e, f) /\ gg[y] = Reporting(e, f)
    BY <1>0, <1>6
  <1> HIDE DEF h, g, k, hh, gg, kk, W, V, a, b
  <1>11. SumFunctionOnSet(kk, DOMAIN L \cup {y}) = SumFunctionOnSet(k, DOMAIN L) + kk[y]
    <2>1. /\ IsFiniteSet(DOMAIN L) /\ y \notin DOMAIN L /\ kk[y] \in Nat
          /\ \A x \in DOMAIN L : k[x] \in Nat /\ kk[x] = k[x]
      BY <1>0, <1>f, <1>7, <1>8
    <2>2. /\ SumFunctionOnSet(k, DOMAIN L) \in Nat
          /\ SumFunctionOnSet(kk, DOMAIN L \cup {y}) = SumFunctionOnSet(k, DOMAIN L) + kk[y]
      <3> DEFINE S == DOMAIN L
      <3>1. IsFiniteSet(S) /\ y \notin S /\ kk[y] \in Nat /\ \A x \in S : k[x] \in Nat /\ kk[x] = k[x]
        BY ONLY <2>1
      <3> HIDE DEF S
      <3>2. SumFunctionOnSet(k, S) \in Nat /\ SumFunctionOnSet(kk, S \cup {y}) = SumFunctionOnSet(k, S) + kk[y]
        BY ONLY <3>1, SumWith
      <3> QED
        BY ONLY <3>2 DEF S
    <2> QED
      BY ONLY <2>2
  <1>12. CASE Field(e, f) # None
    <2>1. hh[y] \in Nat /\ gg[y] \in Nat /\ V = W \cup {y}
      BY <1>6, <1>7, <1>10, <1>12
    <2>2. SumFunctionOnSet(hh, W \cup {y}) = SumFunctionOnSet(h, W) + hh[y]
      <3>1. /\ IsFiniteSet(W) /\ y \notin W /\ hh[y] \in Nat
            /\ \A x \in W : h[x] \in Nat /\ hh[x] = h[x]
        BY <1>1, <1>6, <1>9, <2>1
      <3> QED
        BY ONLY <3>1, SumWith
    <2>3. SumFunctionOnSet(gg, W \cup {y}) = SumFunctionOnSet(g, W) + gg[y]
      <3>1. /\ IsFiniteSet(W) /\ y \notin W /\ gg[y] \in Nat
            /\ \A x \in W : g[x] \in Nat /\ gg[x] = g[x]
        BY <1>1, <1>6, <1>9, <2>1
      <3> QED
        BY ONLY <3>1, SumWith
    <2> QED
      BY <1>0, <1>1, <1>3, <1>4, <1>5, <1>8, <1>10, <1>11, <1>12, <2>1, <2>2, <2>3
         DEF CallsThat, CountIn, a, b
  <1>13. CASE Field(e, f) = None
    <2>1. V = W
      BY <1>6, <1>13
    <2>2. SumFunctionOnSet(h, W) = SumFunctionOnSet(hh, W)
      BY <1>1, <1>9, SumAgrees
    <2>3. SumFunctionOnSet(g, W) = SumFunctionOnSet(gg, W)
      BY <1>1, <1>9, SumAgrees
    <2> QED
      BY <1>0, <1>1, <1>3, <1>4, <1>5, <1>8, <1>11, <1>13, <2>1, <2>2, <2>3
         DEF CallsThat, CountIn, a, b
  <1> QED
    BY <1>12, <1>13

\* No line, no call.
LEMMA TokensOfNothing ==
    ASSUME NEW L, NEW f, DOMAIN L = {}, f \in TOKEN_FIELDS, None \notin Nat
    PROVE  LET a == Tokens(L, f) IN a.calls = 0 /\ a.reported = 0 /\ ShownOf(a) = 0
  <1> DEFINE a == Tokens(L, f)
             W == {i \in DOMAIN L : Field(L[i], f) # None}
  <1>1. IsFiniteSet(DOMAIN L) /\ W = {}
    BY FS_EmptySet
  <1>2. /\ a.calls = SumFunctionOnSet([i \in DOMAIN L |-> Made(L[i])], DOMAIN L)
        /\ a.reported = SumFunctionOnSet([i \in W |-> Reporting(L[i], f)], W)
        /\ ShownOf(a) = SumFunctionOnSet([i \in W |-> Field(L[i], f)], W)
    BY <1>1, TokensAre, ShownIs
  <1> QED
    BY <1>1, <1>2, SumEmpty

-------------------------------------------------------------------------------
(* What the emitters write.                                                *)

\* What a line says of the d calls it was written for.
Says(e, d) ==
    /\ LineOK(e)
    /\ Made(e) <= d
    /\ \A f \in TOKEN_FIELDS :
          CallsThat(e, f) <= Made(e) /\ CountIn(e, f) = Price[f] * CallsThat(e, f)
    /\ Made(e) = d \/ CallsThat(e, "input_tokens") < Made(e)

\* A price is a positive number.
LEMMA PriceOf == \A f \in TOKEN_FIELDS : Price[f] \in Nat \ {0}
  BY DEF Price, TOKEN_FIELDS

\* What a round of the planner reports, or one that made no call.
LEMMA PlannerSays ==
    ASSUME NEW usage \in Usages, cap \in {0, 3}, cap = 0 => usage = <<>>, NEW id
    PROVE  LET e == Event("query_translation", id, 1,
                          Merged([max_sub_queries |-> cap], UsageFields(usage)))
           IN Says(e, IF cap = 0 THEN 0 ELSE 1)
  <1> DEFINE U == UsageFields(usage)
             F == Merged([max_sub_queries |-> cap], U)
             e == Event("query_translation", id, 1, F)
  <1>1. /\ DOMAIN U \subseteq TOKEN_FIELDS
        /\ \A f \in DOMAIN U : U[f] = Price[f]
        /\ cap = 0 => DOMAIN U = {}
    BY UsagesAssumption DEF UsageFields, Restrict
  <1>2. e.name = "query_translation" /\ e.fields = F
    BY DEF Event
  <1> HIDE DEF U
  <1>3. /\ DOMAIN F = {"max_sub_queries"} \cup DOMAIN U
        /\ F["max_sub_queries"] = cap
        /\ \A f \in DOMAIN U : F[f] = Price[f]
    BY <1>1 DEF Merged, TOKEN_FIELDS
  <1> HIDE DEF F, e
  <1>4. Made(e) = IF cap = 0 THEN 0 ELSE 1
    BY <1>2, <1>3 DEF Made, CallsBehind, Field
  <1>5. ASSUME NEW f \in TOKEN_FIELDS
        PROVE  /\ Field(e, CallsField(f)) = None
               /\ Field(e, f) = IF f \in DOMAIN U THEN Price[f] ELSE None
    BY <1>1, <1>2, <1>3 DEF Field, CallsField, TOKEN_FIELDS
  <1>6. ASSUME NEW f \in TOKEN_FIELDS
        PROVE  /\ Field(e, f) # None => f \in DOMAIN U /\ Field(e, f) = Price[f] /\ Reporting(e, f) = 1
               /\ Price[f] \in Nat
    <2>1. Field(e, f) # None => cap # 0
      BY <1>1, <1>5
    <2> QED
      BY <1>4, <1>5, <2>1, PriceOf DEF Reporting, Made
  <1>7. LineOK(e)
    BY <1>4, <1>6 DEF LineOK, Made
  <1>8. ASSUME NEW f \in TOKEN_FIELDS
        PROVE  CallsThat(e, f) <= Made(e) /\ CountIn(e, f) = Price[f] * CallsThat(e, f)
    <2>1. CASE Field(e, f) # None
      <3>1. CallsThat(e, f) = 1 /\ CountIn(e, f) = Price[f] /\ Price[f] \in Nat
        BY <1>6, <2>1 DEF CallsThat, CountIn
      <3>2. Made(e) = 1
        BY <1>1, <1>4, <1>6, <2>1
      <3> QED
        BY <3>1, <3>2
    <2>2. CASE Field(e, f) = None
      <3>1. CallsThat(e, f) = 0 /\ CountIn(e, f) = 0 /\ Price[f] \in Nat
        BY <1>6, <2>2 DEF CallsThat, CountIn
      <3> QED
        BY <1>4, <3>1
    <2> QED
      BY <2>1, <2>2
  <1>9. Says(e, IF cap = 0 THEN 0 ELSE 1)
    BY <1>4, <1>7, <1>8 DEF Says
  <1> QED
    BY <1>9 DEF e, F, U

\* A total of one price, so many times.
LEMMA SumConstant ==
    ASSUME NEW S, IsFiniteSet(S), NEW p \in Nat, NEW f, \A x \in S : f[x] = p
    PROVE  SumFunctionOnSet(f, S) = p * Cardinality(S)
  <1> DEFINE G == {T \in SUBSET S : SumFunctionOnSet(f, T) = p * Cardinality(T)}
  <1>1. {} \in G
    BY SumEmpty, FS_EmptySet
  <1>2. ASSUME NEW T \in SUBSET S, T # {}, \A x \in T : T \ {x} \in G PROVE T \in G
    <2> DEFINE R == T \ {Pick(T)}
    <2>1. IsFiniteSet(T)
      BY FS_Subset
    <2>2. Pick(T) \in T /\ SumFunctionOnSet(f, T) = f[Pick(T)] + SumFunctionOnSet(f, R)
      BY <1>2, <2>1, SumPick
    <2>3. Cardinality(T) \in Nat /\ Cardinality(R) = Cardinality(T) - 1
      BY <2>1, <2>2, FS_RemoveElement, FS_CardinalityType
    <2>4. R \in G
      BY <1>2, <2>2
    <2>5. SumFunctionOnSet(f, R) = p * Cardinality(R) /\ f[Pick(T)] = p
      BY <2>2, <2>4
    <2> HIDE DEF R
    <2>6. SumFunctionOnSet(f, T) = p + p * (Cardinality(T) - 1)
      BY <2>2, <2>3, <2>5
    <2>7. p + p * (Cardinality(T) - 1) = p * Cardinality(T)
      <3> DEFINE c == Cardinality(T)
      <3>1. c \in Nat
        BY <2>3
      <3> HIDE DEF c
      <3>2. p + p * (c - 1) = p * c
        BY <3>1
      <3> QED
        BY <3>2 DEF c
    <2> QED
      BY <2>6, <2>7
  <1>3. \A T \in SUBSET S : T # {} /\ (\A x \in T : T \ {x} \in G) => T \in G
    BY <1>2
  <1> HIDE DEF G
  <1>4. \A T \in SUBSET S : T \in G
    BY ONLY IsFiniteSet(S), <1>1, <1>3, Shrinking
  <1> QED
    BY <1>4 DEF G

\* What the fields of a turn's own total are.
LEMMA TotalIs ==
    ASSUME NEW calls \in Seq(Usages), NEW T, T = UsageTotal(calls)
    PROVE  \/ DOMAIN T = {}
           \/ /\ DOMAIN T \subseteq TOKEN_FIELDS \cup {CallsField(f) : f \in TOKEN_FIELDS} \cup {"calls"}
              /\ "calls" \in DOMAIN T /\ T["calls"] = Len(calls)
              /\ \A f \in TOKEN_FIELDS :
                    /\ f \in DOMAIN T <=> CallsField(f) \in DOMAIN T
                    /\ f \in DOMAIN T =>
                          /\ T[CallsField(f)] \in 0..Len(calls)
                          /\ T[f] = Price[f] * T[CallsField(f)]
  <1> DEFINE reported == [i \in DOMAIN calls |-> UsageFields(calls[i])]
             with(f) == {i \in DOMAIN calls : f \in DOMAIN reported[i]}
             fields == {f \in TOKEN_FIELDS : with(f) # {}}
             A == [f \in fields |-> SumFunctionOnSet([i \in with(f) |-> reported[i][f]], with(f))]
             B == [c \in {CallsField(f) : f \in fields} |->
                      Cardinality(with(CHOOSE f \in fields : CallsField(f) = c))]
             C == [calls |-> Len(calls)]
  <1>1. T = IF fields = {} THEN <<>> ELSE Merged(A, Merged(B, C))
    BY DEF UsageTotal
  <1>2. Len(calls) \in Nat /\ DOMAIN calls = 1..Len(calls) /\ \A i \in DOMAIN calls : calls[i] \in Usages
    OBVIOUS
  <1>3. ASSUME NEW f \in TOKEN_FIELDS
        PROVE  /\ Cardinality(with(f)) \in 0..Len(calls)
               /\ SumFunctionOnSet([i \in with(f) |-> reported[i][f]], with(f))
                     = Price[f] * Cardinality(with(f))
    <2> DEFINE W == with(f)
               g == [i \in W |-> reported[i][f]]
    <2>1. W \subseteq 1..Len(calls) /\ \A i \in W : g[i] = Price[f]
      BY <1>2, UsagesAssumption DEF UsageFields, Restrict
    <2> HIDE DEF W, g
    <2>2. IsFiniteSet(1..Len(calls)) /\ Cardinality(1..Len(calls)) = Len(calls)
      BY <1>2, FS_Interval
    <2>3. IsFiniteSet(W) /\ Cardinality(W) \in 0..Len(calls)
      <3>1. IsFiniteSet(W) /\ Cardinality(W) <= Cardinality(1..Len(calls))
        BY ONLY <2>1, <2>2, FS_Subset
      <3>2. Cardinality(W) \in Nat
        BY ONLY <3>1, FS_CardinalityType
      <3> QED
        BY ONLY <1>2, <2>2, <3>1, <3>2
    <2>4. Price[f] \in Nat
      BY PriceOf
    <2>5. SumFunctionOnSet(g, W) = Price[f] * Cardinality(W)
      BY ONLY <2>1, <2>3, <2>4, SumConstant
    <2> QED
      BY <2>3, <2>5 DEF W, g
  <1>4. fields \subseteq TOKEN_FIELDS
    OBVIOUS
  <1>5. DOMAIN A = fields /\ DOMAIN B = {CallsField(f) : f \in fields} /\ DOMAIN C = {"calls"}
    OBVIOUS
  <1>6. \A f \in fields : A[f] = Price[f] * Cardinality(with(f))
    BY <1>3, <1>4
  <1>7. \A f \in fields : B[CallsField(f)] = Cardinality(with(f))
    <2>1. \A f, g \in fields : CallsField(f) = CallsField(g) => f = g
      BY <1>4 DEF CallsField, TOKEN_FIELDS
    <2> HIDE DEF fields, with
    <2>2. ASSUME NEW f \in fields PROVE (CHOOSE g \in fields : CallsField(g) = CallsField(f)) = f
      BY <2>1
    <2> QED
      BY <2>2
  <1>8. C["calls"] = Len(calls)
    OBVIOUS
  <1> DEFINE k(f) == Cardinality(with(f))
  <1>9. \A f \in fields : k(f) \in 0..Len(calls)
    BY <1>3
  <1> HIDE DEF with, A, B, C, fields, reported
  <1>10. CASE fields = {}
    BY <1>1, <1>10
  <1>11. CASE fields # {}
    <2>1. T = Merged(A, Merged(B, C))
      BY <1>1, <1>11
    <2>2. DOMAIN T = fields \cup {CallsField(f) : f \in fields} \cup {"calls"}
      BY <1>5, <2>1 DEF Merged
    <2>3. \A f \in fields : CallsField(f) \notin TOKEN_FIELDS /\ CallsField(f) # "calls"
      BY <1>4 DEF TOKEN_FIELDS, CallsField
    <2>4. "calls" \notin TOKEN_FIELDS
      BY DEF TOKEN_FIELDS
    <2>5. \A f \in fields : T[f] = A[f]
      BY <1>5, <2>1, <2>2 DEF Merged
    <2>6. \A f \in fields : T[CallsField(f)] = B[CallsField(f)]
      BY <1>4, <1>5, <2>1, <2>3 DEF Merged
    <2>7. T["calls"] = C["calls"]
      BY <1>4, <1>5, <2>1, <2>3, <2>4 DEF Merged
    <2>8. \A f, g \in TOKEN_FIELDS : (CallsField(f) = CallsField(g) => f = g) /\ CallsField(f) # g
                                     /\ CallsField(f) # "calls" /\ f # "calls"
      BY DEF TOKEN_FIELDS, CallsField
    <2>9. ASSUME NEW f \in TOKEN_FIELDS
          PROVE  /\ f \in DOMAIN T <=> f \in fields
                 /\ CallsField(f) \in DOMAIN T <=> f \in fields
      BY <1>4, <2>2, <2>8
    <2>10. ASSUME NEW f \in fields
           PROVE  T[CallsField(f)] \in 0..Len(calls) /\ T[f] = Price[f] * T[CallsField(f)]
      BY <1>6, <1>7, <1>9, <2>5, <2>6
    <2>11. DOMAIN T \subseteq TOKEN_FIELDS \cup {CallsField(f) : f \in TOKEN_FIELDS} \cup {"calls"}
      BY <1>4, <2>2
    <2> QED
      BY <1>8, <2>2, <2>7, <2>9, <2>10, <2>11
  <1> QED
    BY <1>10, <1>11

\* What a finished turn's line says of its calls.
LEMMA TotalSays ==
    ASSUME NEW calls \in Seq(Usages), calls # <<>>, NEW id
    PROVE  Says(Event(COMPLETED_EVENT, id, 1, Merged([model |-> "chosen"], UsageTotal(calls))),
                Len(calls))
  <1> DEFINE T == UsageTotal(calls)
             F == Merged([model |-> "chosen"], T)
             e == Event(COMPLETED_EVENT, id, 1, F)
  <1>1. Len(calls) \in Nat \ {0}
    OBVIOUS
  <1>2. \/ DOMAIN T = {}
        \/ /\ DOMAIN T \subseteq TOKEN_FIELDS \cup {CallsField(f) : f \in TOKEN_FIELDS} \cup {"calls"}
           /\ "calls" \in DOMAIN T /\ T["calls"] = Len(calls)
           /\ \A f \in TOKEN_FIELDS :
                 /\ f \in DOMAIN T <=> CallsField(f) \in DOMAIN T
                 /\ f \in DOMAIN T =>
                       /\ T[CallsField(f)] \in 0..Len(calls)
                       /\ T[f] = Price[f] * T[CallsField(f)]
    BY TotalIs
  <1> HIDE DEF T
  <1>3. e.name = "agent_turn" /\ e.fields = F
    BY DEF Event, COMPLETED_EVENT
  <1>4. DOMAIN F = {"model"} \cup DOMAIN T /\ \A x \in DOMAIN T : x # "model" => F[x] = T[x]
    BY DEF Merged
  <1> HIDE DEF F, e
  <1>5. \A x : x # "model" => Field(e, x) = IF x \in DOMAIN T THEN T[x] ELSE None
    BY <1>3, <1>4 DEF Field
  <1>6. \A f \in TOKEN_FIELDS : f # "model" /\ CallsField(f) # "model"
    BY DEF TOKEN_FIELDS, CallsField
  <1>7. Made(e) = IF Field(e, "calls") = None THEN 1 ELSE Field(e, "calls")
    BY <1>3 DEF Made, CallsBehind
  <1>8. Field(e, "calls") = IF "calls" \in DOMAIN T THEN T["calls"] ELSE None
    BY <1>5
  <1>9. CASE DOMAIN T = {}
    <2>1. Made(e) = 1
      BY <1>7, <1>8, <1>9
    <2>2. \A f \in TOKEN_FIELDS : Field(e, f) = None
      BY <1>5, <1>6, <1>9
    <2>3. \A f \in TOKEN_FIELDS : CallsThat(e, f) = 0 /\ CountIn(e, f) = 0 /\ Price[f] \in Nat
      BY <2>2, PriceOf DEF CallsThat, CountIn
    <2>4. LineOK(e)
      BY <2>1, <2>2 DEF LineOK, Made
    <2>5. "input_tokens" \in TOKEN_FIELDS
      BY DEF TOKEN_FIELDS
    <2> QED
      BY <1>1, <2>1, <2>3, <2>4, <2>5 DEF Says, e, F, T
  <1>10. CASE DOMAIN T # {}
    <2>1. Made(e) = Len(calls)
      BY <1>1, <1>2, <1>7, <1>8, <1>10, NoneAssumption
    <2>2. ASSUME NEW f \in TOKEN_FIELDS
          PROVE  /\ Field(e, f) # None => /\ Field(e, f) \in Nat /\ Reporting(e, f) \in 0..Len(calls)
                                          /\ Field(e, f) = Price[f] * Reporting(e, f)
                 /\ Price[f] \in Nat
      <3>1. Price[f] \in Nat
        BY PriceOf
      <3>2. ASSUME Field(e, f) # None
            PROVE  /\ Field(e, f) \in Nat /\ Reporting(e, f) \in 0..Len(calls)
                   /\ Field(e, f) = Price[f] * Reporting(e, f)
        <4>1. f \in DOMAIN T /\ Field(e, f) = T[f]
          BY <1>5, <1>6, <3>2
        <4>2. /\ T[CallsField(f)] \in 0..Len(calls) /\ T[f] = Price[f] * T[CallsField(f)]
              /\ CallsField(f) \in DOMAIN T
          BY <1>2, <1>10, <4>1
        <4>3. Field(e, CallsField(f)) = T[CallsField(f)] /\ T[CallsField(f)] \in Nat
          BY <1>1, <1>5, <1>6, <4>2
        <4>4. Reporting(e, f) = T[CallsField(f)]
          BY <4>3, NoneAssumption DEF Reporting
        <4> QED
          BY <3>1, <4>1, <4>2, <4>3, <4>4
      <3> QED
        BY <3>1, <3>2
    <2>3. ASSUME NEW f \in TOKEN_FIELDS
          PROVE  CallsThat(e, f) <= Made(e) /\ CountIn(e, f) = Price[f] * CallsThat(e, f)
      <3>1. CASE Field(e, f) # None
        BY <1>1, <2>1, <2>2, <3>1 DEF CallsThat, CountIn
      <3>2. CASE Field(e, f) = None
        BY <1>1, <2>1, <2>2, <3>2 DEF CallsThat, CountIn
      <3> QED
        BY <3>1, <3>2
    <2>4. LineOK(e)
      BY <1>1, <2>1, <2>2 DEF LineOK, Made
    <2> QED
      BY <1>1, <2>1, <2>3, <2>4 DEF Says, e, F, T
  <1> QED
    BY <1>9, <1>10

-------------------------------------------------------------------------------
(* A reading, right for its thread.                                        *)

TurnIds(thr, ns) == {TurnId(thr, n) : n \in ns}

\* A meter's calls are no more than covered, and on a thread none of whose
\* lines was lost they are all of them unless some line could not say.
MeterOK(lines, covered, whole) ==
    LET input == Tokens(lines, "input_tokens") IN
    /\ \A f \in TOKEN_FIELDS : TokensOK(Tokens(lines, f), Price[f])
    /\ input.calls <= covered
    /\ whole => input.calls = covered \/ input.reported < input.calls

TurnsOK(log, thr, searched, finished) ==
    /\ TurnsIn(Ours(log, thr, ANSWERING_EVENTS)) = TurnIds(thr, searched)
    /\ TurnsIn(Ours(log, thr, {COMPLETED_EVENT})) = TurnIds(thr, finished)

ReadingOK(log, thr, covered, searched, finished, whole) ==
    /\ MeterOK(Ours(log, thr, TOKEN_EVENTS), covered, whole)
    /\ whole => TurnsOK(log, thr, searched, finished)

\* A meter stays right with one more line that says what its calls cost.
LEMMA MeterGrows ==
    ASSUME NEW L, NEW M, NEW e, OneMore(L, M, e),
           \A i \in DOMAIN L : LineOK(L[i]), NEW c \in Nat, NEW d \in Nat, Says(e, d),
           NEW whole, MeterOK(L, c, whole)
    PROVE  MeterOK(M, c + d, whole)
  <1> DEFINE a(f) == Tokens(L, f)
             b(f) == Tokens(M, f)
             I == "input_tokens"
  <1>1. ASSUME NEW f \in TOKEN_FIELDS
        PROVE  /\ a(f).calls \in Nat /\ a(f).reported \in Nat /\ ShownOf(a(f)) \in Nat
               /\ b(f).calls = a(f).calls + Made(e)
               /\ b(f).reported = a(f).reported + CallsThat(e, f)
               /\ ShownOf(b(f)) = ShownOf(a(f)) + CountIn(e, f)
    BY TokensWith, NoneAssumption DEF Says
  <1>2. ASSUME NEW f \in TOKEN_FIELDS
        PROVE  /\ a(f).reported <= a(f).calls
               /\ ShownOf(a(f)) = Price[f] * a(f).reported
               /\ Price[f] \in Nat
    BY PriceOf DEF MeterOK, TokensOK
  <1>3. ASSUME NEW f \in TOKEN_FIELDS
        PROVE  /\ CallsThat(e, f) \in Nat /\ CallsThat(e, f) <= Made(e)
               /\ CountIn(e, f) = Price[f] * CallsThat(e, f) /\ Made(e) \in Nat
    BY DEF Says, LineOK, CallsThat, Made
  <1> HIDE DEF a, b
  <1>4. ASSUME NEW f \in TOKEN_FIELDS PROVE TokensOK(b(f), Price[f])
    <2> DEFINE p == Price[f]
               r == a(f).reported
               t == CallsThat(e, f)
    <2>1. p \in Nat /\ r \in Nat /\ t \in Nat
      BY <1>1, <1>2, <1>3
    <2>2. ShownOf(b(f)) = p * r + p * t
      BY <1>1, <1>2, <1>3
    <2>3. b(f).reported = r + t
      BY <1>1
    <2>4. b(f).calls \in Nat /\ b(f).reported \in Nat /\ b(f).reported <= b(f).calls
      BY <1>1, <1>2, <1>3
    <2> HIDE DEF p, r, t
    <2>5. p * (r + t) = p * r + p * t
      BY ONLY <2>1
    <2>6. ShownOf(b(f)) = p * b(f).reported
      BY ONLY <2>2, <2>3, <2>5
    <2> QED
      BY <2>4, <2>6 DEF TokensOK, p
  <1>5. I \in TOKEN_FIELDS
    BY DEF TOKEN_FIELDS
  <1>6. a(I).calls <= c /\ (whole => a(I).calls = c \/ a(I).reported < a(I).calls)
    BY DEF MeterOK, a
  <1>7. Made(e) <= d /\ (Made(e) = d \/ CallsThat(e, I) < Made(e))
    BY DEF Says
  <1>8. b(I).calls <= c + d /\ (whole => b(I).calls = c + d \/ b(I).reported < b(I).calls)
    <2>1. /\ a(I).calls \in Nat /\ a(I).reported \in Nat
          /\ b(I).calls = a(I).calls + Made(e) /\ b(I).reported = a(I).reported + CallsThat(e, I)
          /\ CallsThat(e, I) \in Nat /\ CallsThat(e, I) <= Made(e) /\ Made(e) \in Nat
          /\ a(I).reported <= a(I).calls
      BY <1>1, <1>2, <1>3, <1>5
    <2> QED
      BY ONLY <2>1, <1>6, <1>7, c \in Nat, d \in Nat
  <1> QED
    BY <1>4, <1>8 DEF MeterOK, b

\* A line that was lost leaves it short.
LEMMA MeterFalls ==
    ASSUME NEW L, NEW c \in Nat, NEW b \in Nat, c <= b, NEW whole, MeterOK(L, c, whole)
    PROVE  MeterOK(L, b, FALSE)
  <1>1. Tokens(L, "input_tokens").calls \in Nat
    BY DEF MeterOK, TokensOK, TOKEN_FIELDS
  <1> QED
    BY <1>1 DEF MeterOK

\* A line of the thread's own, read.
LEMMA ReadingOurs ==
    ASSUME NEW log, NEW more, NEW e, Longer(log, more, e),
           \A i \in DOMAIN log.events : LineOK(log.events[i]),
           NEW thr, NEW n, e.turn = TurnId(thr, n), e.turn # None,
           NEW c \in Nat, NEW d \in Nat,
           e.name \in TOKEN_EVENTS => Says(e, d), e.name \notin TOKEN_EVENTS => d = 0,
           NEW S, NEW F, NEW whole, ReadingOK(log, thr, c, S, F, whole)
    PROVE  ReadingOK(more, thr, c + d,
                     S \cup {m \in {n} : e.name \in ANSWERING_EVENTS},
                     F \cup {m \in {n} : e.name = COMPLETED_EVENT}, whole)
  <1> DEFINE L == Ours(log, thr, TOKEN_EVENTS)
             M == Ours(more, thr, TOKEN_EVENTS)
  <1>1. e.turn.thread = thr
    BY DEF TurnId
  <1>2. \A names : IsOurs(e, thr, names) <=> e.name \in names
    BY <1>1 DEF IsOurs
  <1>3. ASSUME NEW names
        PROVE  /\ e.name \notin names => Ours(more, thr, names) = Ours(log, thr, names)
               /\ e.name \in names => OneMore(Ours(log, thr, names), Ours(more, thr, names), e)
    BY ONLY Longer(log, more, e), <1>2, OursLonger
  <1>4. ASSUME NEW names
        PROVE  TurnsIn(Ours(more, thr, names))
                  = TurnsIn(Ours(log, thr, names)) \cup {t \in {e.turn} : e.name \in names}
    <2>1. CASE e.name \in names
      <3>1. TurnsIn(Ours(more, thr, names)) = TurnsIn(Ours(log, thr, names)) \cup {e.turn}
        BY <1>3, <2>1, TurnsOneMore
      <3> QED
        BY <2>1, <3>1
    <2>2. CASE e.name \notin names
      BY <1>3, <2>2
    <2> QED
      BY <2>1, <2>2
  <1>5. \A i \in DOMAIN L : LineOK(L[i])
    BY OursIs
  <1>6. MeterOK(L, c, whole)
    BY DEF ReadingOK
  <1> HIDE DEF L, M
  <1>7. MeterOK(M, c + d, whole)
    <2>1. CASE e.name \in TOKEN_EVENTS
      <3>1. OneMore(L, M, e)
        BY <1>3, <2>1 DEF L, M
      <3>2. Says(e, d)
        BY <2>1
      <3> QED
        BY <1>5, <1>6, <3>1, <3>2, MeterGrows
    <2>2. CASE e.name \notin TOKEN_EVENTS
      <3>1. M = L /\ d = 0
        BY <1>3, <2>2 DEF L, M
      <3> QED
        BY <1>6, <3>1
    <2> QED
      BY <2>1, <2>2
  <1>8. ASSUME NEW ns, NEW names, TurnsIn(Ours(log, thr, names)) = TurnIds(thr, ns)
        PROVE  TurnsIn(Ours(more, thr, names)) = TurnIds(thr, ns \cup {m \in {n} : e.name \in names})
    <2>1. CASE e.name \in names
      BY <1>4, <1>8, <2>1 DEF TurnIds
    <2>2. CASE e.name \notin names
      BY <1>4, <1>8, <2>2 DEF TurnIds
    <2> QED
      BY <2>1, <2>2
  <1>9. ASSUME whole
        PROVE  TurnsOK(more, thr, S \cup {m \in {n} : e.name \in ANSWERING_EVENTS},
                       F \cup {m \in {n} : e.name = COMPLETED_EVENT})
    <2>1. /\ TurnsIn(Ours(log, thr, ANSWERING_EVENTS)) = TurnIds(thr, S)
          /\ TurnsIn(Ours(log, thr, {COMPLETED_EVENT})) = TurnIds(thr, F)
      BY <1>9 DEF ReadingOK, TurnsOK
    <2>2. {m \in {n} : e.name \in {COMPLETED_EVENT}} = {m \in {n} : e.name = COMPLETED_EVENT}
      OBVIOUS
    <2>3. TurnsIn(Ours(more, thr, ANSWERING_EVENTS))
             = TurnIds(thr, S \cup {m \in {n} : e.name \in ANSWERING_EVENTS})
      BY <1>8, <2>1
    <2>4. TurnsIn(Ours(more, thr, {COMPLETED_EVENT}))
             = TurnIds(thr, F \cup {m \in {n} : e.name \in {COMPLETED_EVENT}})
      BY <1>8, <2>1
    <2> QED
      BY <2>2, <2>3, <2>4 DEF TurnsOK
  <1> QED
    BY <1>7, <1>9 DEF ReadingOK, M

\* Only what it holds of a thread's own lines counts.
LEMMA ReadingSame ==
    ASSUME NEW log, NEW more,
           NEW thr, \A names : Ours(more, thr, names) = Ours(log, thr, names),
           NEW c, NEW S, NEW F, NEW whole, ReadingOK(log, thr, c, S, F, whole)
    PROVE  ReadingOK(more, thr, c, S, F, whole)
  BY DEF ReadingOK, TurnsOK

\* The same of the whole reading.
LEMMA ReadingLost ==
    ASSUME NEW log, NEW thr, NEW c \in Nat, NEW b \in Nat, c <= b, NEW S, NEW F, NEW whole,
           ReadingOK(log, thr, c, S, F, whole), NEW R, NEW G
    PROVE  ReadingOK(log, thr, b, R, G, FALSE)
  <1>1. MeterOK(Ours(log, thr, TOKEN_EVENTS), c, whole)
    BY DEF ReadingOK
  <1>2. MeterOK(Ours(log, thr, TOKEN_EVENTS), b, FALSE)
    BY ONLY <1>1, c \in Nat, b \in Nat, c <= b, MeterFalls
  <1> QED
    BY <1>2 DEF ReadingOK

\* A thread without a line.
LEMMA ReadingNothing ==
    ASSUME NEW log, NEW thr, NEW whole,
           \A i \in DOMAIN log.events : log.events[i].turn = None \/ log.events[i].turn.thread # thr
    PROVE  ReadingOK(log, thr, 0, {}, {}, whole)
  <1>1. ASSUME NEW names PROVE DOMAIN Ours(log, thr, names) = {}
    <2>1. {i \in DOMAIN log.events : IsOurs(log.events[i], thr, names)} = {}
      BY DEF IsOurs
    <2> QED
      BY <2>1, OursIs
  <1>2. \A names : TurnsIn(Ours(log, thr, names)) = {}
    BY <1>1 DEF TurnsIn
  <1>3. TurnIds(thr, {}) = {}
    BY DEF TurnIds
  <1>4. ASSUME NEW f \in TOKEN_FIELDS
        PROVE  LET a == Tokens(Ours(log, thr, TOKEN_EVENTS), f) IN
               /\ a.calls = 0 /\ TokensOK(a, Price[f])
    BY <1>1, TokensOfNothing, NoneAssumption, PriceOf DEF TokensOK
  <1>5. MeterOK(Ours(log, thr, TOKEN_EVENTS), 0, whole)
    BY <1>4 DEF MeterOK, TOKEN_FIELDS
  <1> QED
    BY <1>2, <1>3, <1>5 DEF ReadingOK, TurnsOK

-----------------------------------------------------------------------------
(* The same of a file's pieces.                                            *)
LEMMA SaidFine ==
    ASSUME NEW pieces, PiecesOK(pieces), \A i \in DOMAIN pieces : LineOK(pieces[i].event),
           NEW o \in 0..Len(pieces)
    PROVE  IsList(Said(pieces, o)) /\ \A k \in DOMAIN Said(pieces, o) : LineOK(Said(pieces, o)[k])
  <1>1. o \in Nat /\ IsList(pieces)
    BY ListIs DEF PiecesOK
  <1>2. /\ IsList(Said(pieces, o))
        /\ \A k \in DOMAIN Said(pieces, o) : \E i \in DOMAIN pieces :
              Said(pieces, o)[k] = pieces[i].event
    BY ONLY <1>1, SaidList
  <1> QED
    BY <1>2

\* A piece that is not the thread's changes nothing of what it reads.
LEMMA PieceOthers ==
    ASSUME NEW pieces, PiecesOK(pieces), \A i \in DOMAIN pieces : LineOK(pieces[i].event),
           NEW o \in 0..Len(pieces), NEW p, p.ended \in BOOLEAN,
           NEW thr, p.event.turn = None \/ p.event.turn.thread # thr,
           NEW c, NEW S, NEW F, NEW whole, ReadingOK(ReadEvents(pieces, o), thr, c, S, F, whole)
    PROVE  ReadingOK(ReadEvents(Append(pieces, p), o), thr, c, S, F, whole)
  <1> DEFINE log == ReadEvents(pieces, o)
             more == ReadEvents(Append(pieces, p), o)
  <1>1. log.events = Said(pieces, o) /\ more.events = Said(Append(pieces, p), o)
    BY DEF Said
  <1>2. more.events = log.events \/ Longer(log, more, p.event)
    <2>1. Said(Append(pieces, p), o) \in {Said(pieces, o), Append(Said(pieces, o), p.event)}
      BY SaidAppend
    <2>2. IsList(Said(pieces, o))
      BY SaidFine
    <2> HIDE DEF log, more
    <2> QED
      BY <1>1, <2>1, <2>2 DEF Longer
  <1>3. ASSUME NEW names PROVE Ours(more, thr, names) = Ours(log, thr, names)
    <2>1. ~IsOurs(p.event, thr, names)
      BY DEF IsOurs
    <2> HIDE DEF log, more
    <2>2. CASE more.events = log.events
      BY <2>2 DEF Ours
    <2>3. CASE Longer(log, more, p.event)
      BY ONLY <2>1, <2>3, OursLonger
    <2> QED
      BY <1>2, <2>2, <2>3
  <1>4. \A names : Ours(more, thr, names) = Ours(log, thr, names)
    BY <1>3
  <1> HIDE DEF log, more
  <1>5. ReadingOK(log, thr, c, S, F, whole)
    BY DEF log
  <1>6. ReadingOK(more, thr, c, S, F, whole)
    BY ONLY <1>4, <1>5, ReadingSame
  <1> QED
    BY <1>6 DEF more

\* A line takes what is covered from c calls to b.
Adds(e, c, b) ==
    /\ c \in Nat /\ b \in Nat /\ c <= b
    /\ e.name \in TOKEN_EVENTS => Says(e, b - c)
    /\ e.name \notin TOKEN_EVENTS => b = c

\* A line of its own is read, or is lost in a line that cannot be parsed.
LEMMA PieceOurs ==
    ASSUME NEW pieces, PiecesOK(pieces), \A i \in DOMAIN pieces : LineOK(pieces[i].event),
           NEW o \in 0..Len(pieces), NEW e, e # Fragment,
           NEW thr, NEW n, e.turn = TurnId(thr, n), e.turn # None,
           NEW c, NEW b, Adds(e, c, b),
           NEW S, NEW F, NEW whole, ReadingOK(ReadEvents(pieces, o), thr, c, S, F, whole),
           NEW still, still => whole /\ ~Swallows(pieces, o)
    PROVE  ReadingOK(ReadEvents(Append(pieces, Piece(e, TRUE)), o), thr, b,
                     S \cup {m \in {n} : e.name \in ANSWERING_EVENTS},
                     F \cup {m \in {n} : e.name = COMPLETED_EVENT}, still)
  <1> DEFINE p == Piece(e, TRUE)
             log == ReadEvents(pieces, o)
             more == ReadEvents(Append(pieces, p), o)
             swallowed == Swallows(pieces, o)
             R == S \cup {m \in {n} : e.name \in ANSWERING_EVENTS}
             G == F \cup {m \in {n} : e.name = COMPLETED_EVENT}
             d == b - c
  <1>0. /\ c \in Nat /\ b \in Nat /\ c <= b /\ d \in Nat /\ c + d = b
        /\ e.name \in TOKEN_EVENTS => Says(e, d)
        /\ e.name \notin TOKEN_EVENTS => d = 0
    BY DEF Adds
  <1> HIDE DEF d
  <1>1. IsList(log.events) /\ \A i \in DOMAIN log.events : LineOK(log.events[i])
    BY SaidFine DEF Said
  <1>2. p.ended \in BOOLEAN /\ p.event = e
    BY DEF Piece
  <1>3. more.events = IF swallowed THEN log.events ELSE Append(log.events, e)
    <2> HIDE DEF p
    <2>1. Said(Append(pieces, p), o) = IF swallowed THEN Said(pieces, o) ELSE Append(Said(pieces, o), e)
      BY <1>2, SaidAppend
    <2> QED
      BY <2>1 DEF Said
  <1>4. ReadingOK(log, thr, c, S, F, whole)
    OBVIOUS
  <1>5. still => whole /\ ~swallowed
    OBVIOUS
  <1> HIDE DEF log, more, swallowed, p
  <1>6. CASE swallowed
    <2>1. \A names : Ours(more, thr, names) = Ours(log, thr, names)
      BY <1>3, <1>6 DEF Ours
    <2> HIDE DEF R, G
    <2>2. ReadingOK(log, thr, b, R, G, FALSE)
      BY ONLY <1>0, <1>4, ReadingLost
    <2>3. ReadingOK(more, thr, b, R, G, FALSE)
      BY ONLY <2>1, <2>2, ReadingSame
    <2> QED
      BY <1>5, <1>6, <2>3 DEF R, G, more, p, ReadingOK, MeterOK
  <1>7. CASE ~swallowed
    <2>1. Longer(log, more, e)
      BY <1>1, <1>3, <1>7 DEF Longer
    <2>2. ReadingOK(more, thr, c + d, R, G, whole)
      BY <1>0, <1>1, <1>4, <2>1, ReadingOurs
    <2>3. ReadingOK(more, thr, b, R, G, whole)
      BY <1>0, <2>2
    <2> HIDE DEF R, G
    <2> QED
      BY <1>5, <2>3 DEF R, G, more, p, ReadingOK, MeterOK
  <1> QED
    BY <1>6, <1>7

-------------------------------------------------------------------------------
(* What the turns did.                                                     *)

\* The turns a truth knows of, and those of one thread.
Asked(tr) == {n \in DOMAIN tr : tr[n].thread # None}
Mine(tr, thr) == {n \in Asked(tr) : tr[n].thread = thr}

\* What the lines of a turn account for, and what it paid for.
Accounted(t) == t.planner + (IF t.finished THEN t.model ELSE 0)
PaidIn(t) == t.model + t.planner

Covered(tr, thr) == SumFunctionOnSet([n \in Mine(tr, thr) |-> Accounted(tr[n])], Mine(tr, thr))
Searched(tr, thr) == {n \in Mine(tr, thr) : tr[n].searched}
Finished(tr, thr) == {n \in Mine(tr, thr) : tr[n].finished}

Turned == [thread : {None} \cup (Sessions \X Nat), model : Nat, planner : Nat,
           searched : BOOLEAN, finished : BOOLEAN]

\* Turns are numbered as they are asked, and nothing is known of the others.
TruthFine(tr, r) ==
    /\ tr \in [1..MaxTurns -> Turned]
    /\ Asked(tr) = 1..Cardinality(Asked(tr))
    /\ \A n \in (1..MaxTurns) \ Asked(tr) : tr[n] = Unasked
    /\ \A n \in Asked(tr) : tr[n].thread[2] <= r

\* What a thread's lines account for is a number.
LEMMA CoveredIs ==
    ASSUME NEW tr \in [1..MaxTurns -> Turned], NEW thr
    PROVE  /\ IsFiniteSet(Mine(tr, thr)) /\ Mine(tr, thr) \subseteq 1..MaxTurns
           /\ \A n \in 1..MaxTurns : Accounted(tr[n]) \in Nat
           /\ Covered(tr, thr) \in Nat
  <1> DEFINE M == Mine(tr, thr)
             f == [n \in M |-> Accounted(tr[n])]
  <1>1. M \subseteq 1..MaxTurns
    BY DEF Mine, Asked
  <1>2. IsFiniteSet(1..MaxTurns)
    BY FS_Interval, BoundsAssumption
  <1>3. \A n \in 1..MaxTurns : Accounted(tr[n]) \in Nat
    BY DEF Accounted, Turned
  <1> HIDE DEF M
  <1>4. IsFiniteSet(M)
    BY ONLY <1>1, <1>2, FS_Subset
  <1>5. \A n \in M : f[n] \in Nat
    BY <1>1, <1>3
  <1> HIDE DEF f
  <1>6. SumFunctionOnSet(f, M) \in Nat
    BY ONLY <1>4, <1>5, SumIsNat
  <1> QED
    BY <1>1, <1>3, <1>4, <1>6 DEF Covered, M, f

\* One turn does something, which its lines account for with d calls more.
Moved(after, tr, m, d) ==
    /\ m \in Asked(tr)
    /\ after \in [1..MaxTurns -> Turned]
    /\ \A n \in 1..MaxTurns : n # m => after[n] = tr[n]
    /\ after[m].thread = tr[m].thread
    /\ Accounted(after[m]) = Accounted(tr[m]) + d
    /\ tr[m].searched => after[m].searched
    /\ tr[m].finished => after[m].finished

\* What that is to the thread of the turn, and to the others.
LEMMA TurnMoves ==
    ASSUME NEW r, NEW tr, TruthFine(tr, r), NEW m, NEW d \in Nat, NEW after, Moved(after, tr, m, d),
           NEW thr
    PROVE  /\ TruthFine(after, r) /\ Asked(after) = Asked(tr)
           /\ \A n \in 1..MaxTurns : after[n].thread = tr[n].thread
           /\ Mine(after, thr) = Mine(tr, thr)
           /\ thr # tr[m].thread => /\ Covered(after, thr) = Covered(tr, thr)
                                    /\ Searched(after, thr) = Searched(tr, thr)
                                    /\ Finished(after, thr) = Finished(tr, thr)
           /\ thr = tr[m].thread =>
                 /\ Covered(after, thr) = Covered(tr, thr) + d
                 /\ Searched(after, thr) = Searched(tr, thr) \cup {x \in {m} : after[m].searched}
                 /\ Finished(after, thr) = Finished(tr, thr) \cup {x \in {m} : after[m].finished}
  <1> DEFINE M == Mine(tr, thr)
             f == [n \in M |-> Accounted(tr[n])]
             e == [n \in M |-> Accounted(after[n])]
  <1>0. /\ m \in Asked(tr) /\ after \in [1..MaxTurns -> Turned]
        /\ \A n \in 1..MaxTurns : n # m => after[n] = tr[n]
        /\ after[m].thread = tr[m].thread /\ Accounted(after[m]) = Accounted(tr[m]) + d
        /\ (tr[m].searched => after[m].searched) /\ (tr[m].finished => after[m].finished)
    BY DEF Moved
  <1>1. tr \in [1..MaxTurns -> Turned] /\ m \in 1..MaxTurns
    BY <1>0 DEF TruthFine, Asked
  <1>2. \A n \in 1..MaxTurns : after[n].thread = tr[n].thread
    BY <1>0
  <1>3. Asked(after) = Asked(tr)
    BY <1>0, <1>1, <1>2 DEF Asked
  <1>4. Mine(after, thr) = M
    BY <1>1, <1>2, <1>3 DEF Mine, Asked
  <1>5. TruthFine(after, r)
    <2>1. \A n \in (1..MaxTurns) \ Asked(after) : after[n] = Unasked
      BY <1>0, <1>3 DEF TruthFine
    <2>2. \A n \in Asked(after) : after[n].thread[2] <= r
      BY <1>1, <1>2, <1>3 DEF TruthFine, Asked
    <2>3. Asked(after) = 1..Cardinality(Asked(after))
      BY <1>3 DEF TruthFine
    <2> QED
      BY <1>0, <2>1, <2>2, <2>3 DEF TruthFine
  <1>6. IsFiniteSet(M) /\ M \subseteq 1..MaxTurns /\ \A n \in 1..MaxTurns : Accounted(tr[n]) \in Nat
    BY <1>1, CoveredIs
  <1>7. Covered(tr, thr) = SumFunctionOnSet(f, M)
    BY DEF Covered
  <1>8. Covered(after, thr) = SumFunctionOnSet(e, M)
    <2>1. Covered(after, thr)
             = SumFunctionOnSet([n \in Mine(after, thr) |-> Accounted(after[n])], Mine(after, thr))
      BY DEF Covered
    <2> HIDE DEF M
    <2> QED
      BY <1>4, <2>1
  <1>9. \A n \in M : n # m => e[n] = f[n]
    BY <1>0, <1>6
  <1>10. \A n \in M : f[n] \in Nat
    BY <1>6
  <1>11. m \in M <=> thr = tr[m].thread
    BY <1>0 DEF Mine
  <1>12. m \in M => e[m] = f[m] + d
    BY <1>0
  <1> HIDE DEF M, e, f
  <1>13. ASSUME thr # tr[m].thread PROVE Covered(after, thr) = Covered(tr, thr)
    <2>1. \A n \in M : f[n] = e[n]
      BY <1>9, <1>11, <1>13
    <2>2. SumFunctionOnSet(f, M) = SumFunctionOnSet(e, M)
      BY ONLY <1>6, <2>1, SumAgrees
    <2> QED
      BY <1>7, <1>8, <2>2
  <1>14. ASSUME thr = tr[m].thread PROVE Covered(after, thr) = Covered(tr, thr) + d
    <2>1. m \in M /\ e[m] = f[m] + d
      BY <1>11, <1>12, <1>14
    <2>2. \A n \in M : f[n] \in Nat /\ (n # m => e[n] = f[n])
      BY <1>9, <1>10
    <2>a. IsFiniteSet(M) /\ d \in Nat
      BY <1>6
    <2>3. SumFunctionOnSet(e, M) = SumFunctionOnSet(f, M) + d
      BY ONLY <2>1, <2>2, <2>a, SumChanged
    <2> QED
      BY <1>7, <1>8, <2>3
  <1>15. /\ Searched(after, thr) = {n \in M : after[n].searched}
         /\ Searched(tr, thr) = {n \in M : tr[n].searched}
         /\ Finished(after, thr) = {n \in M : after[n].finished}
         /\ Finished(tr, thr) = {n \in M : tr[n].finished}
    BY <1>4 DEF Searched, Finished, M
  <1>16. ASSUME thr # tr[m].thread
         PROVE  Searched(after, thr) = Searched(tr, thr) /\ Finished(after, thr) = Finished(tr, thr)
    <2>1. \A n \in M : after[n] = tr[n]
      BY <1>0, <1>6, <1>11, <1>16
    <2> QED
      BY <1>15, <2>1
  <1>17. ASSUME thr = tr[m].thread
         PROVE  /\ Searched(after, thr) = Searched(tr, thr) \cup {x \in {m} : after[m].searched}
                /\ Finished(after, thr) = Finished(tr, thr) \cup {x \in {m} : after[m].finished}
    <2>1. m \in M /\ \A n \in M : n # m => after[n] = tr[n]
      BY <1>0, <1>6, <1>11, <1>17
    <2> QED
      BY <1>0, <1>15, <2>1
  <1> QED
    BY <1>2, <1>3, <1>4, <1>5, <1>13, <1>14, <1>16, <1>17 DEF M

\* The next turn's number is free.
NextTurnIs(tr, n) == n = Cardinality(Asked(tr)) + 1 /\ n <= MaxTurns

\* It has not been asked before.
LEMMA NextTurn ==
    ASSUME NEW r, NEW tr, TruthFine(tr, r), NEW n, NextTurnIs(tr, n)
    PROVE  /\ n \in 1..MaxTurns /\ n \notin Asked(tr) /\ tr[n] = Unasked
           /\ n - 1 \in Nat /\ Asked(tr) = 1..(n - 1)
  <1> DEFINE c == Cardinality(Asked(tr))
  <1>1. tr \in [1..MaxTurns -> Turned] /\ Asked(tr) = 1..c
    BY DEF TruthFine
  <1>2. c \in Nat
    <2>1. IsFiniteSet(1..MaxTurns) /\ Asked(tr) \subseteq 1..MaxTurns
      BY <1>1, FS_Interval, BoundsAssumption DEF Asked
    <2>2. IsFiniteSet(Asked(tr))
      BY ONLY <2>1, FS_Subset
    <2> QED
      BY ONLY <2>2, FS_CardinalityType
  <1>3. n = c + 1 /\ n <= MaxTurns
    BY DEF NextTurnIs
  <1> HIDE DEF c
  <1>4. n \in 1..MaxTurns /\ n - 1 = c /\ n \notin 1..c
    BY ONLY <1>2, <1>3, BoundsAssumption
  <1>5. tr[n] = Unasked
    BY <1>1, <1>4 DEF TruthFine
  <1> QED
    BY <1>1, <1>2, <1>4, <1>5

\* One more turn is asked, in a thread.
JustAsked(after, tr, n, r) ==
    /\ after \in [1..MaxTurns -> Turned]
    /\ \A k \in 1..MaxTurns : k # n => after[k] = tr[k]
    /\ after[n].thread \in Sessions \X Nat /\ after[n].thread[2] <= r
    /\ Accounted(after[n]) = 0 /\ ~after[n].searched /\ ~after[n].finished

\* Which is nothing yet to what any thread covers.
LEMMA TurnAsked ==
    ASSUME NEW r, NEW tr, TruthFine(tr, r), NEW n, NextTurnIs(tr, n),
           NEW after, JustAsked(after, tr, n, r), NEW thr
    PROVE  /\ TruthFine(after, r) /\ n \in Asked(after) /\ n \notin Asked(tr)
           /\ Asked(after) = Asked(tr) \cup {n}
           /\ \A k \in Asked(tr) : k # n /\ k \in 1..MaxTurns /\ after[k] = tr[k]
           /\ Covered(after, thr) = Covered(tr, thr)
           /\ Searched(after, thr) = Searched(tr, thr)
           /\ Finished(after, thr) = Finished(tr, thr)
  <1> DEFINE M == Mine(tr, thr)
             N == Mine(after, thr)
             f == [k \in M |-> Accounted(tr[k])]
             e == [k \in N |-> Accounted(after[k])]
             c == n - 1
             t == after[n].thread
  <1>1. tr \in [1..MaxTurns -> Turned]
    BY DEF TruthFine
  <1>2. n \in 1..MaxTurns /\ n \notin Asked(tr) /\ c \in Nat /\ Asked(tr) = 1..c
    BY ONLY TruthFine(tr, r), NextTurnIs(tr, n), NextTurn
  <1>3. Asked(tr) = 1..c /\ c \in Nat /\ n = c + 1 /\ n \in 1..MaxTurns
    BY <1>2
  <1> HIDE DEF c
  <1>4. n \notin Asked(tr)
    BY <1>2
  <1>5. t # None
    <2>1. t \in Sessions \X Nat
      BY DEF JustAsked
    <2> QED
      BY ONLY <2>1, NoneAssumption
  <1>6. \A k \in 1..MaxTurns : k # n => after[k] = tr[k]
    BY DEF JustAsked
  <1>7. /\ after[n].thread = t /\ Accounted(after[n]) = 0
        /\ ~after[n].searched /\ ~after[n].finished /\ t[2] <= r
    BY DEF JustAsked
  <1>8. after \in [1..MaxTurns -> Turned]
    BY DEF JustAsked
  <1> HIDE DEF t, M, N, f, e
  <1>9. Asked(after) = Asked(tr) \cup {n}
    <2>1. ASSUME NEW k \in 1..MaxTurns PROVE after[k].thread # None <=> tr[k].thread # None \/ k = n
      BY <1>5, <1>6, <1>7
    <2>2. DOMAIN tr = 1..MaxTurns /\ DOMAIN after = 1..MaxTurns
      BY <1>1, <1>8
    <2> QED
      BY <1>3, <2>1, <2>2 DEF Asked
  <1>10. \A k \in Asked(tr) : k # n /\ k \in 1..MaxTurns /\ after[k] = tr[k]
    BY <1>1, <1>4, <1>6 DEF Asked
  <1>11. TruthFine(after, r)
    <2>0. 1..(c + 1) = 1..c \cup {c + 1}
      <3>1. c \in Nat
        BY <1>3
      <3> QED
        BY ONLY <3>1
    <2>1. Asked(after) = 1..(c + 1)
      BY <1>3, <1>9, <2>0
    <2>2. Cardinality(Asked(after)) = c + 1
      <3>1. c \in Nat
        BY <1>3
      <3>2. Cardinality(1..(c + 1)) = c + 1
        BY ONLY <3>1, FS_Interval
      <3> QED
        BY <2>1, <3>2
    <2>3. \A k \in (1..MaxTurns) \ Asked(after) : after[k] = Unasked
      BY <1>6, <1>9 DEF TruthFine
    <2>4. \A k \in Asked(after) : after[k].thread[2] <= r
      BY <1>7, <1>9, <1>10 DEF TruthFine
    <2> QED
      BY <1>8, <2>1, <2>2, <2>3, <2>4 DEF TruthFine
  <1> USE DEF M, N, f, e
  <1>12. N = M \cup {k \in {n} : thr = t} /\ n \notin M
    BY <1>4, <1>7, <1>9, <1>10 DEF Mine
  <1>13. IsFiniteSet(M) /\ M \subseteq 1..MaxTurns /\ \A k \in 1..MaxTurns : Accounted(tr[k]) \in Nat
    BY <1>1, CoveredIs
  <1>14. \A k \in M : k # n /\ k \in N /\ after[k] = tr[k]
    BY <1>10, <1>12 DEF Mine
  <1>15. /\ \A k \in M : f[k] \in Nat /\ e[k] = f[k]
         /\ n \in N => e[n] = 0
    <2> HIDE DEF M, N
    <2>1. \A k \in M : f[k] = Accounted(tr[k]) /\ e[k] = Accounted(after[k])
      BY <1>14
    <2> QED
      BY <1>7, <1>13, <1>14, <2>1
  <1>16. Covered(tr, thr) = SumFunctionOnSet(f, M) /\ Covered(after, thr) = SumFunctionOnSet(e, N)
    BY DEF Covered
  <1>17. Searched(after, thr) = Searched(tr, thr) /\ Finished(after, thr) = Finished(tr, thr)
    <2>1. /\ Searched(after, thr) = {k \in N : after[k].searched}
          /\ Searched(tr, thr) = {k \in M : tr[k].searched}
          /\ Finished(after, thr) = {k \in N : after[k].finished}
          /\ Finished(tr, thr) = {k \in M : tr[k].finished}
      BY DEF Searched, Finished
    <2> HIDE DEF M, N
    <2> QED
      BY <1>7, <1>12, <1>14, <2>1
  <1> HIDE DEF M, N, f, e
  <1>18. Covered(after, thr) = Covered(tr, thr)
    <2>1. CASE thr = t
      <3>1. N = M \cup {n} /\ n \notin M
        BY <1>12, <2>1
      <3>2. e[n] = 0 /\ 0 \in Nat
        BY <1>15, <3>1
      <3>3. /\ SumFunctionOnSet(f, M) \in Nat
            /\ SumFunctionOnSet(e, M \cup {n}) = SumFunctionOnSet(f, M) + e[n]
        <4>1. /\ IsFiniteSet(M) /\ n \notin M /\ e[n] \in Nat
              /\ \A x \in M : f[x] \in Nat /\ e[x] = f[x]
          BY <1>13, <1>15, <3>1, <3>2
        <4> QED
          BY ONLY <4>1, SumWith
      <3> QED
        BY <1>16, <3>1, <3>2, <3>3
    <2>2. CASE thr # t
      <3>1. N = M /\ \A k \in M : f[k] = e[k]
        BY <1>12, <1>15, <2>2
      <3>2. SumFunctionOnSet(f, M) = SumFunctionOnSet(e, M)
        BY ONLY <1>13, <3>1, SumAgrees
      <3> QED
        BY <1>16, <3>1, <3>2
    <2> QED
      BY <2>1, <2>2
  <1> QED
    BY <1>4, <1>9, <1>10, <1>11, <1>17, <1>18

-------------------------------------------------------------------------------
(* The invariant: each thread reads back what its turns accounted for.     *)

\* A thread that would be named now has no turn yet.
Fresh(tr, s, r) == \A n \in Asked(tr) : tr[n].thread # <<s, r>>

SessionOK(s) ==
    /\ phase[s] \in {"none", "model", "replied", "retrieve"}
    /\ offset[s] = None => thread[s] = None
    /\ offset[s] # None => offset[s] \in 0..Len(file) /\ thread[s] \in {s} \X (0..runs)
    /\ at[s] = "configured" => offset[s] # None
    /\ at[s] = "cleared" \/ (at[s] = "configured" /\ phase[s] = "none") => Fresh(truth, s, runs)
    /\ replies[s] \in Seq(Usages)
    /\ phase[s] = "none" => replies[s] = <<>>
    /\ phase[s] # "none" =>
          /\ at[s] = "configured"
          /\ turn[s] \in Mine(truth, thread[s])
          /\ ~truth[turn[s]].finished
          /\ truth[turn[s]].model = Len(replies[s])
    /\ phase[s] \in {"replied", "retrieve"} => replies[s] # <<>>
    /\ phase[s] = "retrieve" => truth[turn[s]].searched

Shaped ==
    /\ runs \in 0..MaxRuns
    /\ cap \in {0, 3}
    /\ DOMAIN thread = Sessions /\ DOMAIN offset = Sessions
    /\ DOMAIN turn = Sessions /\ DOMAIN phase = Sessions /\ DOMAIN replies = Sessions

Threads(tr) == {tr[n].thread : n \in Asked(tr)}

\* A line is a fragment, another process's, or of a turn that was asked.
FileFine(pieces, tr) ==
    /\ PiecesOK(pieces)
    /\ \A i \in DOMAIN pieces : LineOK(pieces[i].event)
    /\ \A i \in DOMAIN pieces :
          pieces[i].event.turn # None => pieces[i].event.turn.thread \in {<<"row">>} \cup Threads(tr)

Reads(pieces, o, tr, thr, whole) ==
    ReadingOK(ReadEvents(pieces, o), thr, Covered(tr, thr), Searched(tr, thr), Finished(tr, thr), whole)

ReadingsOK ==
    \A s \in Sessions :
       offset[s] # None => Reads(file, offset[s], truth, thread[s], thread[s] \notin lost)

SpendInv ==
    /\ Shaped
    /\ TruthFine(truth, runs)
    /\ FileFine(file, truth)
    /\ \A s \in Sessions : SessionOK(s)
    /\ ReadingsOK

-----------------------------------------------------------------------------
\* Nothing appended.
LEMMA ListEmpty == ASSUME NEW seq, IsList(seq) PROVE seq \o <<>> = seq
  <1> DEFINE S == {seq[i] : i \in DOMAIN seq}
  <1>1. seq \in Seq(S)
    BY DEF IsList
  <1> HIDE DEF S
  <1> QED
    BY <1>1

PieceFine(p, tr) ==
    /\ p.ended \in BOOLEAN
    /\ ~p.ended => p.event = Fragment
    /\ LineOK(p.event)
    /\ p.event.turn # None => p.event.turn.thread \in {<<"row">>} \cup Threads(tr)

\* One such piece more.
LEMMA FileGrows ==
    ASSUME NEW pieces, NEW tr, FileFine(pieces, tr), NEW p, PieceFine(p, tr)
    PROVE  FileFine(Append(pieces, p), tr) /\ Len(Append(pieces, p)) = Len(pieces) + 1
  <1> DEFINE more == Append(pieces, p)
             n == Len(pieces)
  <1>1. IsList(pieces)
    BY DEF FileFine, PiecesOK
  <1>2. /\ IsList(more) /\ Len(more) = n + 1 /\ more[n + 1] = p
        /\ \A i \in DOMAIN pieces : more[i] = pieces[i]
    <2>1. IsList(more) /\ Len(more) = n + 1 /\ more[n + 1] = p
      BY ONLY <1>1, ListAppend
    <2>2. \A i \in DOMAIN pieces : more[i] = pieces[i]
      BY ONLY <1>1, ListAppend
    <2> QED
      BY ONLY <2>1, <2>2
  <1>3. n \in Nat /\ DOMAIN pieces = 1..n
    BY ONLY <1>1, ListIs
  <1>4. DOMAIN more = 1..(n + 1)
    <2>1. DOMAIN more = 1..Len(more)
      BY ONLY <1>2, ListIs
    <2> QED
      BY ONLY <2>1, <1>2
  <1>5. ASSUME NEW i \in DOMAIN more PROVE i = n + 1 \/ i \in DOMAIN pieces
    BY ONLY <1>3, <1>4, <1>5
  <1> HIDE DEF more, n
  <1>6. PiecesOK(more)
    BY <1>2, <1>5 DEF FileFine, PiecesOK, PieceFine
  <1>7. \A i \in DOMAIN more :
           /\ LineOK(more[i].event)
           /\ more[i].event.turn # None => more[i].event.turn.thread \in {<<"row">>} \cup Threads(tr)
    BY <1>2, <1>5 DEF FileFine, PieceFine
  <1> QED
    BY <1>2, <1>6, <1>7 DEF FileFine, more, n

\* A fragment is one.
LEMMA FragmentFine == LineOK(Fragment) /\ Fragment.turn = None
  BY DEF LineOK, Fragment, Event, Field, CallsBehind

\* A thread without a turn has no line.
LEMMA ReadsFresh ==
    ASSUME NEW pieces, NEW tr, FileFine(pieces, tr), NEW o \in 0..Len(pieces),
           NEW thr, thr # <<"row">>, thr \notin Threads(tr), NEW whole
    PROVE  Reads(pieces, o, tr, thr, whole)
  <1>a. IsList(pieces)
    BY DEF FileFine, PiecesOK
  <1>b. Len(pieces) \in Nat
    BY ONLY <1>a, ListIs
  <1>1. o \in Nat
    BY ONLY <1>b, o \in 0..Len(pieces)
  <1>2. \A k \in DOMAIN Said(pieces, o) : \E i \in DOMAIN pieces : Said(pieces, o)[k] = pieces[i].event
    BY ONLY <1>1, <1>a, SaidList
  <1>3. \A k \in DOMAIN Said(pieces, o) :
           Said(pieces, o)[k].turn = None \/ Said(pieces, o)[k].turn.thread # thr
    BY <1>2 DEF FileFine
  <1>4. ReadingOK(ReadEvents(pieces, o), thr, 0, {}, {}, whole)
    <2> DEFINE log == ReadEvents(pieces, o)
    <2>1. \A k \in DOMAIN log.events : log.events[k].turn = None \/ log.events[k].turn.thread # thr
      BY <1>3 DEF Said
    <2> HIDE DEF log
    <2>2. ReadingOK(log, thr, 0, {}, {}, whole)
      BY <2>1, ReadingNothing
    <2> QED
      BY <2>2 DEF log
  <1>5. Mine(tr, thr) = {}
    BY DEF Mine, Threads
  <1>6. Covered(tr, thr) = 0 /\ Searched(tr, thr) = {} /\ Finished(tr, thr) = {}
    BY <1>5, SumEmpty DEF Covered, Searched, Finished
  <1> QED
    BY <1>4, <1>6 DEF Reads

\* A row's thread, an evaluation's, is no session's.
LEMMA RowIsNoThread == ASSUME NEW s, NEW R, NEW thr \in {s} \X R PROVE thr # <<"row">>
  OBVIOUS

\* A name that no run has given is free.
LEMMA TruthLater ==
    ASSUME NEW r \in Nat, NEW tr, TruthFine(tr, r), NEW s
    PROVE  TruthFine(tr, r + 1) /\ Fresh(tr, s, r + 1)
  <1>1. ASSUME NEW n \in Asked(tr) PROVE tr[n].thread[2] \in Nat /\ tr[n].thread[2] <= r
    <2>1. tr[n] \in Turned /\ tr[n].thread # None
      BY DEF TruthFine, Asked
    <2>2. tr[n].thread \in Sessions \X Nat
      BY <2>1 DEF Turned
    <2> QED
      BY <2>2 DEF TruthFine
  <1>2. \A n \in Asked(tr) : tr[n].thread[2] <= r + 1 /\ tr[n].thread # <<s, r + 1>>
    BY <1>1
  <1> QED
    BY <1>2 DEF TruthFine, Fresh

-----------------------------------------------------------------------------
\* A session that is not the one that moves.
LEMMA OthersFine ==
    ASSUME NEW t \in Sessions, SessionOK(t),
           thread'[t] = thread[t], offset'[t] = offset[t], turn'[t] = turn[t],
           phase'[t] = phase[t], replies'[t] = replies[t], at'[t] = at[t],
           Len(file) \in Nat, Len(file') \in Nat, Len(file) <= Len(file'),
           runs \in Nat, runs' \in Nat, runs <= runs',
           Fresh(truth, t, runs) => Fresh(truth', t, runs'),
           turn[t] \in Mine(truth, thread[t]) =>
              turn[t] \in Mine(truth', thread[t]) /\ truth'[turn[t]] = truth[turn[t]]
    PROVE  SessionOK(t)'
  <1>1. offset[t] \in 0..Len(file) => offset[t] \in 0..Len(file')
    OBVIOUS
  <1>2. thread[t] \in {t} \X (0..runs) => thread[t] \in {t} \X (0..runs')
    OBVIOUS
  <1> QED
    BY <1>1, <1>2 DEF SessionOK

\* What is read is as it was, or of a thread of its own.
LEMMA ReadingsKept ==
    ASSUME ReadingsOK, file' = file, lost' = lost,
           \A thr : /\ Covered(truth', thr) = Covered(truth, thr)
                    /\ Searched(truth', thr) = Searched(truth, thr)
                    /\ Finished(truth', thr) = Finished(truth, thr),
           \A t \in Sessions : offset'[t] # None =>
              \/ offset[t] # None /\ offset'[t] = offset[t] /\ thread'[t] = thread[t]
              \/ \A whole : Reads(file, offset'[t], truth, thread'[t], whole)
    PROVE  ReadingsOK'
  <1> SUFFICES ASSUME NEW t \in Sessions, offset'[t] # None
               PROVE  Reads(file', offset'[t], truth', thread'[t], thread'[t] \notin lost')
    BY DEF ReadingsOK
  <1>1. Reads(file, offset'[t], truth, thread'[t], thread'[t] \notin lost)
    BY DEF ReadingsOK
  <1> QED
    BY <1>1 DEF Reads

\* It holds at the start.
LEMMA SpendStarts == Init => SpendInv
  <1> SUFFICES ASSUME Init PROVE SpendInv
    OBVIOUS
  <1>1. Shaped
    BY BoundsAssumption DEF Init, Shaped
  <1>2. TruthFine(truth, runs)
    <2>1. truth = [n \in 1..MaxTurns |-> Unasked] /\ Unasked.thread = None
      BY DEF Init, Unasked
    <2>2. Asked(truth) = {}
      BY <2>1 DEF Asked
    <2>3. Unasked \in Turned
      BY DEF Unasked, Turned
    <2>4. Cardinality({}) = 0
      BY FS_EmptySet
    <2> QED
      <3>1. truth \in [1..MaxTurns -> Turned]
        BY <2>1, <2>3
      <3>2. 1..0 = {}
        OBVIOUS
      <3> QED
        BY <2>1, <2>2, <2>4, <3>1, <3>2 DEF TruthFine
  <1>3. FileFine(file, truth)
    <2>1. file = <<>> /\ DOMAIN file = {} /\ Len(file) = 0 /\ IsList(file)
      BY DEF Init, IsList
    <2> QED
      BY <2>1 DEF FileFine, PiecesOK
  <1>4. ASSUME NEW s \in Sessions PROVE SessionOK(s) /\ offset[s] = None
    BY <1>4 DEF Init, SinkInit, SessionOK
  <1>5. ReadingsOK
    BY <1>4 DEF ReadingsOK
  <1> QED
    BY <1>1, <1>2, <1>3, <1>4, <1>5 DEF SpendInv

\* What it says, part by part.
LEMMA SpendFacts ==
    ASSUME SpendInv
    PROVE  /\ runs \in Nat /\ Len(file) \in Nat
           /\ \A t \in Sessions : SessionOK(t)
           /\ TruthFine(truth, runs) /\ FileFine(file, truth) /\ Shaped /\ ReadingsOK
  BY ListIs, BoundsAssumption DEF SpendInv, Shaped, FileFine, PiecesOK

\* The next lemmas: each action keeps it.
LEMMA BeginRunKeeps ==
    ASSUME SinkInv, SpendInv, NEW s \in Sessions, BeginRun(s)
    PROVE  SpendInv'
  <1>1. /\ runs < MaxRuns /\ runs' = runs + 1 /\ at[s] = "idle"
        /\ at' = [at EXCEPT ![s] = "cleared"] /\ DOMAIN at = Sessions
        /\ file' = file /\ cap' = cap /\ thread' = thread /\ offset' = offset
        /\ turn' = turn /\ phase' = phase /\ replies' = replies /\ truth' = truth /\ lost' = lost
    BY DEF BeginRun, Clear, sessionVars, turnVars, SinkInv, SinkTypeOK
  <1>2. /\ runs \in Nat /\ Len(file) \in Nat
        /\ \A t \in Sessions : SessionOK(t)
        /\ TruthFine(truth, runs) /\ FileFine(file, truth) /\ Shaped /\ ReadingsOK
    BY SpendFacts
  <1>3. TruthFine(truth, runs + 1) /\ \A t : Fresh(truth, t, runs + 1)
    BY <1>2, TruthLater
  <1>4. ASSUME NEW t \in Sessions, t # s PROVE SessionOK(t)'
    <2>1. at'[t] = at[t]
      BY <1>1, <1>4
    <2> QED
      BY <1>1, <1>2, <1>3, <2>1, OthersFine
  <1>5. SessionOK(s)'
    <2>1. at'[s] = "cleared" /\ phase[s] = "none"
      BY <1>1, <1>2 DEF SessionOK
    <2>2. thread[s] \in {s} \X (0..runs) => thread[s] \in {s} \X (0..(runs + 1))
      BY <1>2
    <2> QED
      BY <1>1, <1>2, <1>3, <2>1, <2>2 DEF SessionOK
  <1>6. Shaped'
    BY <1>1, <1>2, BoundsAssumption DEF Shaped
  <1>7. ReadingsOK'
    BY <1>1, <1>2, ReadingsKept
  <1> QED
    BY <1>1, <1>2, <1>3, <1>4, <1>5, <1>6, <1>7 DEF SpendInv

\* A thread that is named now has no line yet, wherever the offset is.
LEMMA ConfigureKeeps ==
    ASSUME SinkInv, SpendInv, NEW s \in Sessions, Configure(s)
    PROVE  SpendInv'
  <1>1. /\ at[s] = "cleared" /\ at' = [at EXCEPT ![s] = "configured"] /\ DOMAIN at = Sessions
        /\ offset' = [offset EXCEPT ![s] = IF @ = None THEN Len(file) ELSE @]
        /\ thread' = [thread EXCEPT ![s] = IF @ = None THEN <<s, runs>> ELSE @]
        /\ file' = file /\ cap' = cap /\ turn' = turn /\ phase' = phase /\ replies' = replies
        /\ truth' = truth /\ lost' = lost /\ runs' = runs
    BY DEF Configure, Install, SinkOffset, turnVars, SinkInv, SinkTypeOK
  <1>2. /\ runs \in Nat /\ Len(file) \in Nat
        /\ \A t \in Sessions : SessionOK(t)
        /\ TruthFine(truth, runs) /\ FileFine(file, truth) /\ Shaped /\ ReadingsOK
    BY SpendFacts
  <1>3. DOMAIN offset = Sessions /\ DOMAIN thread = Sessions
    BY <1>2 DEF Shaped
  <1>4. \A t \in Sessions : t # s =>
           at'[t] = at[t] /\ offset'[t] = offset[t] /\ thread'[t] = thread[t]
    BY <1>1, <1>3
  <1>5. /\ at'[s] = "configured"
        /\ offset'[s] = IF offset[s] = None THEN Len(file) ELSE offset[s]
        /\ thread'[s] = IF thread[s] = None THEN <<s, runs>> ELSE thread[s]
    BY <1>1, <1>3
  <1>6. /\ phase[s] = "none" /\ Fresh(truth, s, runs)
        /\ offset[s] = None <=> thread[s] = None
    <2>1. phase[s] = "none" /\ Fresh(truth, s, runs)
      BY <1>1, <1>2 DEF SessionOK
    <2>2. offset[s] = None => thread[s] = None
      BY <1>2 DEF SessionOK
    <2>3. offset[s] # None => thread[s] \in Sessions \X Nat
      BY <1>2 DEF SessionOK
    <2> QED
      BY <2>1, <2>2, <2>3, NoneAssumption
  <1>7. ASSUME NEW t \in Sessions, t # s PROVE SessionOK(t)'
    BY <1>1, <1>2, <1>4, <1>7, OthersFine
  <1>8. /\ offset'[s] \in 0..Len(file) /\ thread'[s] \in {s} \X (0..runs) /\ offset'[s] # None
    <2>1. CASE offset[s] = None
      BY <1>2, <1>5, <1>6, <2>1, NoneAssumption
    <2>2. CASE offset[s] # None
      BY <1>2, <1>5, <1>6, <2>2 DEF SessionOK
    <2> QED
      BY <2>1, <2>2
  <1>9. SessionOK(s)'
    BY <1>1, <1>2, <1>5, <1>6, <1>8 DEF SessionOK
  <1>10. Shaped'
    BY <1>1, <1>2 DEF Shaped
  <1>11. ASSUME offset[s] = None, NEW whole PROVE Reads(file, offset'[s], truth, thread'[s], whole)
    <2>1. thread'[s] = <<s, runs>>
      BY <1>5, <1>6, <1>11
    <2>2. thread'[s] \notin Threads(truth)
      BY <1>6, <2>1 DEF Fresh, Threads
    <2>3. thread'[s] # <<"row">>
      BY <1>8, RowIsNoThread
    <2> QED
      BY <1>2, <1>8, <2>2, <2>3, ReadsFresh
  <1>12. ASSUME NEW t \in Sessions, offset'[t] # None
         PROVE  \/ offset[t] # None /\ offset'[t] = offset[t] /\ thread'[t] = thread[t]
                \/ \A whole : Reads(file, offset'[t], truth, thread'[t], whole)
    <2>1. CASE t # s
      BY <1>4, <1>12, <2>1
    <2>2. CASE t = s /\ offset[s] = None
      BY <1>11, <2>2
    <2>3. CASE t = s /\ offset[s] # None
      BY <1>5, <1>6, <2>3
    <2> QED
      BY <2>1, <2>2, <2>3
  <1>13. ReadingsOK'
    BY <1>1, <1>2, <1>12, ReadingsKept
  <1> QED
    BY <1>1, <1>2, <1>7, <1>9, <1>10, <1>13 DEF SpendInv

\* A turn that ends without a total leaves what its lines say.
LEMMA EndRunKeeps ==
    ASSUME SinkInv, SpendInv, NEW s \in Sessions, EndRun(s)
    PROVE  SpendInv'
  <1>1. /\ at' = [at EXCEPT ![s] = "idle"] /\ DOMAIN at = Sessions
        /\ turn' = [turn EXCEPT ![s] = 0] /\ phase' = [phase EXCEPT ![s] = "none"]
        /\ replies' = [replies EXCEPT ![s] = <<>>]
        /\ file' = file /\ cap' = cap /\ thread' = thread /\ offset' = offset
        /\ truth' = truth /\ lost' = lost /\ runs' = runs
    BY DEF EndRun, Quiet, Return, sessionVars, SinkInv, SinkTypeOK
  <1>2. /\ runs \in Nat /\ Len(file) \in Nat
        /\ \A t \in Sessions : SessionOK(t)
        /\ TruthFine(truth, runs) /\ FileFine(file, truth) /\ Shaped /\ ReadingsOK
    BY SpendFacts
  <1>3. /\ DOMAIN turn = Sessions /\ DOMAIN phase = Sessions /\ DOMAIN replies = Sessions
    BY <1>2 DEF Shaped
  <1>4. ASSUME NEW t \in Sessions, t # s PROVE SessionOK(t)'
    <2>1. at'[t] = at[t] /\ turn'[t] = turn[t] /\ phase'[t] = phase[t] /\ replies'[t] = replies[t]
      BY <1>1, <1>3, <1>4
    <2> QED
      BY <1>1, <1>2, <2>1, OthersFine
  <1>5. SessionOK(s)'
    <2>1. at'[s] = "idle" /\ phase'[s] = "none" /\ replies'[s] = <<>>
      BY <1>1, <1>3
    <2> QED
      BY <1>1, <1>2, <2>1 DEF SessionOK
  <1>6. Shaped'
    BY <1>1, <1>2 DEF Shaped
  <1>7. ReadingsOK'
    BY <1>1, <1>2, ReadingsKept
  <1> QED
    BY <1>1, <1>2, <1>4, <1>5, <1>6, <1>7 DEF SpendInv

\* The new thread has no line after the old offset.
LEMMA StartOverKeeps ==
    ASSUME SpendInv, NEW s \in Sessions, StartOver(s)
    PROVE  SpendInv'
  <1>1. /\ at[s] = "configured" /\ phase[s] = "none"
        /\ thread' = [thread EXCEPT ![s] = <<s, runs>>]
        /\ at' = at /\ file' = file /\ cap' = cap /\ offset' = offset
        /\ turn' = turn /\ phase' = phase /\ replies' = replies
        /\ truth' = truth /\ lost' = lost /\ runs' = runs
    BY DEF StartOver, sinkVars, turnVars
  <1>2. /\ runs \in Nat /\ Len(file) \in Nat
        /\ \A t \in Sessions : SessionOK(t)
        /\ TruthFine(truth, runs) /\ FileFine(file, truth) /\ Shaped /\ ReadingsOK
    BY SpendFacts
  <1>3. DOMAIN thread = Sessions
    BY <1>2 DEF Shaped
  <1>4. ASSUME NEW t \in Sessions, t # s PROVE thread'[t] = thread[t] /\ SessionOK(t)'
    <2>1. thread'[t] = thread[t]
      BY <1>1, <1>3, <1>4
    <2> QED
      BY <1>1, <1>2, <2>1, OthersFine
  <1>5. /\ thread'[s] = <<s, runs>> /\ Fresh(truth, s, runs)
        /\ offset[s] # None /\ offset[s] \in 0..Len(file)
    BY <1>1, <1>2, <1>3 DEF SessionOK
  <1>6. thread'[s] \in {s} \X (0..runs)
    BY <1>2, <1>5
  <1>7. SessionOK(s)'
    BY <1>1, <1>2, <1>5, <1>6 DEF SessionOK
  <1>8. Shaped'
    BY <1>1, <1>2 DEF Shaped
  <1>9. ASSUME NEW whole PROVE Reads(file, offset'[s], truth, thread'[s], whole)
    <2>1. thread'[s] \notin Threads(truth) /\ thread'[s] # <<"row">>
      BY <1>5, <1>6, RowIsNoThread DEF Fresh, Threads
    <2>2. offset'[s] \in 0..Len(file)
      BY <1>1, <1>5
    <2> QED
      BY <1>2, <2>1, <2>2, ReadsFresh
  <1>10. ReadingsOK'
    <2>1. ASSUME NEW t \in Sessions, offset'[t] # None
          PROVE  \/ offset[t] # None /\ offset'[t] = offset[t] /\ thread'[t] = thread[t]
                 \/ \A whole : Reads(file, offset'[t], truth, thread'[t], whole)
      BY <1>1, <1>4, <1>9, <2>1
    <2> QED
      BY <1>1, <1>2, <2>1, ReadingsKept
  <1> QED
    BY <1>1, <1>2, <1>4, <1>7, <1>8, <1>10 DEF SpendInv

\* A round of finance tools writes nothing the meter reads.
LEMMA UseToolsKeeps ==
    ASSUME SpendInv, NEW s \in Sessions, UseTools(s)
    PROVE  SpendInv'
  <1>1. /\ at[s] = "configured" /\ phase[s] = "replied" /\ phase' = [phase EXCEPT ![s] = "model"]
        /\ at' = at /\ file' = file /\ cap' = cap /\ thread' = thread /\ offset' = offset
        /\ turn' = turn /\ replies' = replies
        /\ truth' = truth /\ lost' = lost /\ runs' = runs
    BY DEF UseTools, Moves, sinkVars, sessionVars
  <1>2. /\ runs \in Nat /\ Len(file) \in Nat
        /\ \A t \in Sessions : SessionOK(t)
        /\ TruthFine(truth, runs) /\ FileFine(file, truth) /\ Shaped /\ ReadingsOK
    BY SpendFacts
  <1>3. DOMAIN phase = Sessions
    BY <1>2 DEF Shaped
  <1>4. ASSUME NEW t \in Sessions, t # s PROVE SessionOK(t)'
    <2>1. phase'[t] = phase[t]
      BY <1>1, <1>3, <1>4
    <2> QED
      BY <1>1, <1>2, <2>1, OthersFine
  <1>5. SessionOK(s)'
    <2>1. phase'[s] = "model"
      BY <1>1, <1>3
    <2> QED
      BY <1>1, <1>2, <2>1 DEF SessionOK
  <1>6. Shaped'
    BY <1>1, <1>2 DEF Shaped
  <1>7. ReadingsOK'
    BY <1>1, <1>2, ReadingsKept
  <1> QED
    BY <1>1, <1>2, <1>4, <1>5, <1>6, <1>7 DEF SpendInv

\* What a file holds stays of a turn that was asked.
LEMMA FileOfMore ==
    ASSUME NEW pieces, NEW tr, FileFine(pieces, tr), NEW after, Threads(tr) \subseteq Threads(after)
    PROVE  FileFine(pieces, after)
  BY DEF FileFine

\* A turn that is only asked accounts for nothing.
LEMMA AskKeeps ==
    ASSUME SpendInv, NEW s \in Sessions, Ask(s)
    PROVE  SpendInv'
  <1> DEFINE n == Cardinality(Asked(truth)) + 1
  <1>0. Turns = Asked(truth)
    BY DEF Turns, Asked
  <1>1. /\ n <= MaxTurns /\ at[s] = "configured" /\ phase[s] = "none"
        /\ phase' = [phase EXCEPT ![s] = "model"]
        /\ turn' = [turn EXCEPT ![s] = n]
        /\ truth' = [truth EXCEPT ![n].thread = thread[s]]
        /\ at' = at /\ file' = file /\ cap' = cap /\ thread' = thread /\ offset' = offset
        /\ replies' = replies /\ lost' = lost /\ runs' = runs
    BY <1>0 DEF Ask, Moves, sinkVars, sessionVars
  <1>2. /\ runs \in Nat /\ Len(file) \in Nat
        /\ \A t \in Sessions : SessionOK(t)
        /\ TruthFine(truth, runs) /\ FileFine(file, truth) /\ Shaped /\ ReadingsOK
    BY SpendFacts
  <1>3. DOMAIN phase = Sessions /\ DOMAIN turn = Sessions
    BY <1>2 DEF Shaped
  <1>4. /\ thread[s] \in {s} \X (0..runs) /\ offset[s] # None /\ replies[s] = <<>>
    BY <1>1, <1>2 DEF SessionOK
  <1>5. thread[s] \in Sessions \X Nat /\ thread[s][2] <= runs
    BY <1>2, <1>4
  <1> HIDE DEF n
  <1>7. /\ truth'[n].thread = thread[s] /\ truth'[n].model = 0 /\ Accounted(truth'[n]) = 0
        /\ ~truth'[n].searched /\ ~truth'[n].finished
        /\ truth' \in [1..MaxTurns -> Turned]
        /\ \A k \in 1..MaxTurns : k # n => truth'[k] = truth[k]
    <2>1. /\ Unasked \in Turned /\ Unasked.model = 0 /\ Unasked.planner = 0
          /\ Unasked.searched = FALSE /\ Unasked.finished = FALSE
      BY DEF Unasked, Turned
    <2> DEFINE u == Unasked
    <2>2. n \in 1..MaxTurns /\ truth[n] = u
      <3>1. NextTurnIs(truth, n)
        BY <1>1 DEF n, NextTurnIs
      <3> QED
        BY <1>2, <3>1, NextTurn
    <2>3. truth \in [1..MaxTurns -> Turned]
      BY <1>2 DEF TruthFine
    <2> HIDE DEF u
    <2>4. /\ truth' = [truth EXCEPT ![n] = [u EXCEPT !.thread = thread[s]]]
          /\ u \in Turned
      BY <1>1, <2>1, <2>2, <2>3 DEF u
    <2> DEFINE v == [u EXCEPT !.thread = thread[s]]
    <2>5. v \in Turned
      BY <1>5, <2>4 DEF Turned
    <2>6. /\ v.thread = thread[s] /\ v.model = u.model /\ v.planner = u.planner
          /\ v.searched = u.searched /\ v.finished = u.finished
      BY <2>4 DEF Turned
    <2> HIDE DEF v
    <2>7. /\ truth'[n] = v /\ truth' \in [1..MaxTurns -> Turned]
          /\ \A k \in 1..MaxTurns : k # n => truth'[k] = truth[k]
      BY <2>2, <2>3, <2>4, <2>5 DEF v
    <2> QED
      BY <2>1, <2>6, <2>7 DEF u, Accounted
  <1>6. ASSUME NEW thr
        PROVE  /\ TruthFine(truth', runs) /\ n \in Asked(truth') /\ n \notin Asked(truth)
               /\ Asked(truth') = Asked(truth) \cup {n}
               /\ \A k \in Asked(truth) : k # n /\ k \in 1..MaxTurns /\ truth'[k] = truth[k]
               /\ Covered(truth', thr) = Covered(truth, thr)
               /\ Searched(truth', thr) = Searched(truth, thr)
               /\ Finished(truth', thr) = Finished(truth, thr)
    <2>1. NextTurnIs(truth, n) /\ TruthFine(truth, runs)
      BY <1>1, <1>2 DEF n, NextTurnIs
    <2>2. JustAsked(truth', truth, n, runs)
      BY <1>5, <1>7 DEF JustAsked
    <2> QED
      BY ONLY <2>1, <2>2, TurnAsked
  <1>8. ASSUME NEW t \in Sessions, t # s PROVE SessionOK(t)'
    <2>1. phase'[t] = phase[t] /\ turn'[t] = turn[t]
      BY <1>1, <1>3, <1>8
    <2>2. Fresh(truth, t, runs) => Fresh(truth', t, runs)
      <3>1. thread[s] # <<t, runs>>
        BY <1>4, <1>8
      <3> QED
        BY <1>6, <1>7, <3>1 DEF Fresh
    <2>3. turn[t] \in Mine(truth, thread[t]) =>
             turn[t] \in Mine(truth', thread[t]) /\ truth'[turn[t]] = truth[turn[t]]
      BY <1>6 DEF Mine
    <2>4. /\ thread'[t] = thread[t] /\ offset'[t] = offset[t] /\ replies'[t] = replies[t]
          /\ at'[t] = at[t] /\ Len(file) \in Nat /\ Len(file') \in Nat /\ Len(file) <= Len(file')
          /\ runs \in Nat /\ runs' = runs /\ SessionOK(t)
      BY <1>1, <1>2
    <2>5. Fresh(truth, t, runs) => Fresh(truth', t, runs')
      BY <2>2, <2>4
    <2>6. runs' \in Nat /\ runs <= runs'
      BY <2>4
    <2> QED
      BY ONLY t \in Sessions, <2>1, <2>3, <2>4, <2>5, <2>6, OthersFine
  <1>9. SessionOK(s)'
    <2>1. phase'[s] = "model" /\ turn'[s] = n
      BY <1>1, <1>3
    <2>2. n \in Mine(truth', thread[s])
      BY <1>6, <1>7 DEF Mine
    <2>3. Len(replies[s]) = 0
      BY <1>4
    <2> QED
      BY <1>1, <1>2, <1>4, <1>7, <2>1, <2>2, <2>3 DEF SessionOK
  <1>10. Shaped'
    BY <1>1, <1>2 DEF Shaped
  <1>11. FileFine(file, truth')
    <2>1. Threads(truth) \subseteq Threads(truth')
      BY <1>6 DEF Threads
    <2> QED
      BY <1>2, <2>1, FileOfMore
  <1>12. ReadingsOK'
    BY <1>1, <1>2, <1>6, ReadingsKept
  <1> QED
    BY <1>1, <1>6, <1>8, <1>9, <1>10, <1>11, <1>12 DEF SpendInv

\* No two sessions have a thread in common.
LEMMA ThreadsDiffer ==
    ASSUME NEW s \in Sessions, NEW t \in Sessions, s # t, SessionOK(s), SessionOK(t), offset[s] # None
    PROVE  thread[s] # thread[t]
  <1>1. thread[s] \in {s} \X (0..runs) /\ thread[s] # None
    <2>1. thread[s] \in {s} \X (0..runs)
      BY DEF SessionOK
    <2>2. CASE runs \in Nat
      BY <2>1, <2>2, NoneAssumption
    <2> QED
      BY <2>1, <2>2, NoneAssumption
  <1>2. thread[t] = None \/ thread[t] \in {t} \X (0..runs)
    BY DEF SessionOK
  <1> QED
    BY <1>1, <1>2

\* A session's turn is nothing to the turns of the others.
LEMMA MovedOthers ==
    ASSUME SpendInv, NEW s \in Sessions, NEW t \in Sessions, t # s,
           offset[s] # None, NEW m, m \in Mine(truth, thread[s]), NEW d, Moved(truth', truth, m, d)
    PROVE  /\ Fresh(truth, t, runs) => Fresh(truth', t, runs)
           /\ turn[t] \in Mine(truth, thread[t]) =>
                 turn[t] \in Mine(truth', thread[t]) /\ truth'[turn[t]] = truth[turn[t]]
  <1>1. TruthFine(truth, runs) /\ SessionOK(s) /\ SessionOK(t)
    BY SpendFacts
  <1>2. truth \in [1..MaxTurns -> Turned] /\ truth' \in [1..MaxTurns -> Turned]
    BY <1>1 DEF TruthFine, Moved
  <1>3. \A n \in 1..MaxTurns : truth'[n].thread = truth[n].thread
    BY DEF Moved
  <1>4. Asked(truth') = Asked(truth) /\ Asked(truth) \subseteq 1..MaxTurns
    BY <1>2, <1>3 DEF Asked
  <1>5. thread[s] # thread[t]
    BY <1>1, ThreadsDiffer
  <1>6. ASSUME turn[t] \in Mine(truth, thread[t])
        PROVE  turn[t] \in Mine(truth', thread[t]) /\ truth'[turn[t]] = truth[turn[t]]
    <2>1. turn[t] # m /\ turn[t] \in 1..MaxTurns
      BY <1>4, <1>5, <1>6 DEF Mine
    <2>2. truth'[turn[t]] = truth[turn[t]]
      BY <2>1 DEF Moved
    <2> QED
      BY <1>4, <1>6, <2>2 DEF Mine
  <1> QED
    BY <1>3, <1>4, <1>6 DEF Fresh

\* A completion is paid for now and accounted for by the total.
LEMMA ModelCallKeeps ==
    ASSUME SpendInv, NEW s \in Sessions, NEW usage \in Usages, ModelCall(s, usage)
    PROVE  SpendInv'
  <1> DEFINE m == turn[s]
             u == truth[m]
             v == [u EXCEPT !.model = @ + 1]
  <1>1. /\ at[s] = "configured" /\ phase[s] = "model"
        /\ phase' = [phase EXCEPT ![s] = "replied"]
        /\ replies' = [replies EXCEPT ![s] = Append(@, usage)]
        /\ truth' = [truth EXCEPT ![m] = v]
        /\ at' = at /\ file' = file /\ cap' = cap /\ thread' = thread /\ offset' = offset
        /\ turn' = turn /\ lost' = lost /\ runs' = runs
    BY DEF ModelCall, Moves, sinkVars, sessionVars
  <1>2. /\ runs \in Nat /\ Len(file) \in Nat
        /\ \A t \in Sessions : SessionOK(t)
        /\ TruthFine(truth, runs) /\ FileFine(file, truth) /\ Shaped /\ ReadingsOK
    BY SpendFacts
  <1>3. DOMAIN phase = Sessions /\ DOMAIN replies = Sessions
    BY <1>2 DEF Shaped
  <1>4. /\ offset[s] # None /\ m \in Mine(truth, thread[s]) /\ ~u.finished
        /\ u.model = Len(replies[s]) /\ replies[s] \in Seq(Usages)
    BY <1>1, <1>2 DEF SessionOK
  <1>5. truth \in [1..MaxTurns -> Turned] /\ m \in 1..MaxTurns /\ u \in Turned /\ m \in Asked(truth)
    BY <1>2, <1>4 DEF TruthFine, Mine, Asked
  <1> HIDE DEF u, m
  <1>6. /\ v \in Turned /\ v.model = u.model + 1 /\ v.planner = u.planner
        /\ v.thread = u.thread /\ v.searched = u.searched /\ v.finished = u.finished
    BY <1>5 DEF Turned
  <1> HIDE DEF v
  <1>7. /\ truth'[m] = v /\ truth' \in [1..MaxTurns -> Turned]
        /\ \A n \in 1..MaxTurns : n # m => truth'[n] = truth[n]
    BY <1>1, <1>5, <1>6
  <1>8. Moved(truth', truth, m, 0)
    <2>1. Accounted(v) = Accounted(u) + 0
      <3>1. u.planner \in Nat
        BY <1>5 DEF Turned
      <3> QED
        BY <1>4, <1>6, <3>1 DEF Accounted
    <2>2. truth[m] = u
      BY DEF u
    <2> QED
      BY <1>5, <1>6, <1>7, <2>1, <2>2 DEF Moved
  <1>9. /\ TruthFine(truth', runs) /\ Asked(truth') = Asked(truth)
        /\ \A n \in 1..MaxTurns : truth'[n].thread = truth[n].thread
        /\ \A thr : Mine(truth', thr) = Mine(truth, thr)
    <2>1. 0 \in Nat /\ TruthFine(truth, runs)
      BY <1>2
    <2>2. ASSUME NEW thr
          PROVE  /\ TruthFine(truth', runs) /\ Asked(truth') = Asked(truth)
                 /\ Mine(truth', thr) = Mine(truth, thr)
      BY ONLY <1>8, <2>1, TurnMoves
    <2>3. \A n \in 1..MaxTurns : truth'[n].thread = truth[n].thread
      BY <1>8 DEF Moved
    <2> QED
      BY <2>2, <2>3
  <1>10. ASSUME NEW thr
         PROVE  /\ Covered(truth', thr) = Covered(truth, thr)
                /\ Searched(truth', thr) = Searched(truth, thr)
                /\ Finished(truth', thr) = Finished(truth, thr)
    <2>1. 0 \in Nat /\ u.thread = truth[m].thread /\ Covered(truth, thr) \in Nat
      BY <1>5, CoveredIs DEF u
    <2>4. /\ thr # truth[m].thread => /\ Covered(truth', thr) = Covered(truth, thr)
                                      /\ Searched(truth', thr) = Searched(truth, thr)
                                      /\ Finished(truth', thr) = Finished(truth, thr)
          /\ thr = truth[m].thread =>
                /\ Covered(truth', thr) = Covered(truth, thr) + 0
                /\ Searched(truth', thr) = Searched(truth, thr) \cup {x \in {m} : truth'[m].searched}
                /\ Finished(truth', thr) = Finished(truth, thr) \cup {x \in {m} : truth'[m].finished}
      <3>1. TruthFine(truth, runs) /\ 0 \in Nat
        BY <1>2
      <3> QED
        BY ONLY <1>8, <3>1, TurnMoves
    <2>2. CASE thr # truth[m].thread
      BY <2>2, <2>4
    <2>3. CASE thr = truth[m].thread
      <3>1. /\ Covered(truth', thr) = Covered(truth, thr) + 0
            /\ Searched(truth', thr) = Searched(truth, thr) \cup {x \in {m} : truth'[m].searched}
            /\ Finished(truth', thr) = Finished(truth, thr) \cup {x \in {m} : truth'[m].finished}
        BY <2>3, <2>4
      <3>2. /\ truth'[m].searched = truth[m].searched /\ truth'[m].finished = truth[m].finished
            /\ m \in Mine(truth, thr)
        BY <1>4, <1>6, <1>7, <2>3 DEF u, Mine
      <3> QED
        BY <2>1, <3>1, <3>2 DEF Searched, Finished
    <2> QED
      BY <2>2, <2>3
  <1>11. ASSUME NEW t \in Sessions, t # s PROVE SessionOK(t)'
    <2>1. /\ phase'[t] = phase[t] /\ replies'[t] = replies[t] /\ turn'[t] = turn[t]
          /\ thread'[t] = thread[t] /\ offset'[t] = offset[t] /\ at'[t] = at[t]
          /\ Len(file') = Len(file) /\ Len(file) \in Nat /\ Len(file) <= Len(file')
          /\ runs \in Nat /\ runs' = runs /\ runs <= runs' /\ SessionOK(t)
      BY <1>1, <1>2, <1>3, <1>11
    <2>2. /\ Fresh(truth, t, runs) => Fresh(truth', t, runs)
          /\ turn[t] \in Mine(truth, thread[t]) =>
                turn[t] \in Mine(truth', thread[t]) /\ truth'[turn[t]] = truth[turn[t]]
      BY <1>4, <1>8, <1>11, MovedOthers
    <2> QED
      BY <2>1, <2>2, OthersFine
  <1>12. SessionOK(s)'
    <2>1. /\ phase'[s] = "replied" /\ replies'[s] = Append(replies[s], usage) /\ turn'[s] = m
      BY <1>1, <1>3 DEF m
    <2>2. /\ replies'[s] \in Seq(Usages) /\ replies'[s] # <<>>
          /\ Len(replies'[s]) = Len(replies[s]) + 1
      BY <1>4, <2>1
    <2>3. m \in Mine(truth', thread[s]) /\ truth'[m].model = Len(replies'[s]) /\ ~truth'[m].finished
      BY <1>4, <1>6, <1>7, <1>9, <2>2
    <2> QED
      BY <1>1, <1>2, <2>1, <2>2, <2>3 DEF SessionOK
  <1>13. Shaped'
    BY <1>1, <1>2 DEF Shaped
  <1>14. FileFine(file, truth')
    <2>1. Threads(truth) \subseteq Threads(truth')
      BY <1>5, <1>9 DEF Threads, Asked
    <2> QED
      BY <1>2, <2>1, FileOfMore
  <1>15. ReadingsOK'
    BY <1>1, <1>2, <1>10, ReadingsKept
  <1> QED
    BY <1>1, <1>9, <1>11, <1>12, <1>13, <1>14, <1>15 DEF SpendInv

\* A kill leaves no session with an offset to read from.
LEMMA KillKeeps ==
    ASSUME SpendInv, Kill
    PROVE  SpendInv'
  <1>1. /\ at' = [t \in Sessions |-> "idle"] /\ thread' = [t \in Sessions |-> None]
        /\ offset' = [t \in Sessions |-> None] /\ turn' = [t \in Sessions |-> 0]
        /\ phase' = [t \in Sessions |-> "none"] /\ replies' = [t \in Sessions |-> <<>>]
        /\ cap' = cap /\ truth' = truth /\ lost' = lost /\ runs' = runs
    BY DEF Kill
  <1>2. /\ runs \in Nat /\ Len(file) \in Nat
        /\ TruthFine(truth, runs) /\ FileFine(file, truth) /\ Shaped
    BY SpendFacts
  <1>3. FileFine(file', truth)
    <2>1. IsList(file)
      BY <1>2 DEF FileFine, PiecesOK
    <2>2. file' = file \o <<>> \/ file' = file \o <<Piece(Fragment, FALSE)>>
      BY DEF Kill
    <2>3. CASE file' = file \o <<>>
      BY <1>2, <2>1, <2>3, ListEmpty
    <2>4. CASE file' = file \o <<Piece(Fragment, FALSE)>>
      <3> DEFINE p == Piece(Fragment, FALSE)
      <3>1. p.ended = FALSE /\ p.event = Fragment
        BY DEF Piece
      <3>2. LineOK(p.event) /\ p.event.turn = None
        BY <3>1, FragmentFine
      <3> HIDE DEF p
      <3>3. file' = Append(file, p)
        BY <2>1, <2>4, ListAppend DEF p
      <3>4. PieceFine(p, truth)
        BY <3>1, <3>2 DEF PieceFine
      <3>5. FileFine(Append(file, p), truth)
        BY ONLY <1>2, <3>4, FileGrows
      <3> QED
        BY <3>3, <3>5
    <2> QED
      BY <2>2, <2>3, <2>4
  <1>4. ASSUME NEW t \in Sessions PROVE SessionOK(t)'
    BY <1>1 DEF SessionOK
  <1>5. Shaped'
    BY <1>1, <1>2 DEF Shaped
  <1>6. ReadingsOK'
    BY <1>1 DEF ReadingsOK
  <1> QED
    BY <1>1, <1>2, <1>3, <1>4, <1>5, <1>6 DEF SpendInv

\* Every line another process writes is one the meter passes over.
LEMMA OthersLines ==
    ASSUME NEW p \in Others
    PROVE  /\ p.ended \in BOOLEAN /\ (~p.ended => p.event = Fragment) /\ LineOK(p.event)
           /\ p.event.turn = None \/ p.event.turn.thread = <<"row">>
  <1> DEFINE e1 == Event(COMPLETED_EVENT, TurnId(<<"row">>, 1), 1,
                         [calls |-> 3, input_tokens |-> 5, input_tokens_calls |-> 3])
             e2 == Event("query_translation", None, 1, [max_sub_queries |-> 3])
  <1>1. CASE p = Piece(e1, TRUE)
    <2>1. /\ e1.name = "agent_turn" /\ e1.turn.thread = <<"row">>
          /\ Field(e1, "calls") = 3 /\ Field(e1, "input_tokens") = 5
          /\ Field(e1, "input_tokens_calls") = 3 /\ Field(e1, "output_tokens") = None
      BY DEF Event, Field, COMPLETED_EVENT, TurnId
    <2>2. p.ended = TRUE /\ p.event = e1
      BY <1>1 DEF Piece
    <2> HIDE DEF e1
    <2>3. CallsBehind(e1).made = 3
      BY <2>1, NoneAssumption DEF CallsBehind
    <2>4. LineOK(e1)
      BY <2>1, <2>3, NoneAssumption DEF LineOK, TOKEN_FIELDS, Reporting, CallsField
    <2> QED
      BY <2>1, <2>2, <2>4
  <1>2. CASE p = Piece(e2, TRUE)
    <2>1. /\ e2.name = "query_translation" /\ e2.turn = None
          /\ Field(e2, "max_sub_queries") = 3 /\ Field(e2, "input_tokens") = None
          /\ Field(e2, "output_tokens") = None
      BY DEF Event, Field
    <2>2. p.ended = TRUE /\ p.event = e2
      BY <1>2 DEF Piece
    <2> HIDE DEF e2
    <2>3. CallsBehind(e2).made = 1
      BY <2>1 DEF CallsBehind
    <2>4. LineOK(e2)
      BY <2>1, <2>3 DEF LineOK, TOKEN_FIELDS
    <2> QED
      BY <2>1, <2>2, <2>4
  <1>3. CASE p = Piece(Fragment, FALSE)
    <2>1. p.ended = FALSE /\ p.event = Fragment
      BY <1>3 DEF Piece
    <2> QED
      BY <2>1, FragmentFine
  <1> QED
    BY <1>1, <1>2, <1>3 DEF Others

\* So it changes nothing of what a thread reads.
LEMMA ForeignKeeps ==
    ASSUME SpendInv, Foreign
    PROVE  SpendInv'
  <1>1. PICK p \in Others : file' = Append(file, p)
    BY DEF Foreign
  <1>2. /\ at' = at /\ cap' = cap /\ thread' = thread /\ offset' = offset /\ turn' = turn
        /\ phase' = phase /\ replies' = replies /\ truth' = truth /\ lost' = lost /\ runs' = runs
    BY DEF Foreign, sinkVars, sessionVars, turnVars
  <1>3. /\ runs \in Nat /\ Len(file) \in Nat
        /\ \A t \in Sessions : SessionOK(t)
        /\ TruthFine(truth, runs) /\ FileFine(file, truth) /\ Shaped /\ ReadingsOK
    BY SpendFacts
  <1>4. /\ p.ended \in BOOLEAN /\ (~p.ended => p.event = Fragment) /\ LineOK(p.event)
        /\ p.event.turn = None \/ p.event.turn.thread = <<"row">>
    BY OthersLines
  <1>5. FileFine(file', truth) /\ Len(file') = Len(file) + 1
    <2>0. PieceFine(p, truth)
      BY <1>4 DEF PieceFine
    <2>1. FileFine(Append(file, p), truth) /\ Len(Append(file, p)) = Len(file) + 1
      BY ONLY <1>3, <2>0, FileGrows
    <2> QED
      BY <1>1, <2>1
  <1>6. ASSUME NEW t \in Sessions PROVE SessionOK(t)'
    <2>1. /\ Len(file') \in Nat /\ Len(file) <= Len(file') /\ runs' \in Nat /\ runs <= runs'
      BY <1>2, <1>3, <1>5
    <2> QED
      BY <1>2, <1>3, <2>1, OthersFine
  <1>7. Shaped'
    BY <1>2, <1>3 DEF Shaped
  <1>8. ReadingsOK'
    <2> SUFFICES ASSUME NEW t \in Sessions, offset[t] # None
                 PROVE  Reads(file', offset[t], truth, thread[t], thread[t] \notin lost)
      BY <1>2 DEF ReadingsOK
    <2>1. Reads(file, offset[t], truth, thread[t], thread[t] \notin lost)
      BY <1>3 DEF ReadingsOK
    <2>2. offset[t] \in 0..Len(file) /\ thread[t] # <<"row">>
      BY <1>3, RowIsNoThread DEF SessionOK
    <2>3. PiecesOK(file) /\ \A i \in DOMAIN file : LineOK(file[i].event)
      BY <1>3 DEF FileFine
    <2>4. p.event.turn = None \/ p.event.turn.thread # thread[t]
      BY <1>4, <2>2
    <2> QED
      BY <1>1, <1>4, <2>1, <2>2, <2>3, <2>4, PieceOthers DEF Reads
  <1> QED
    BY <1>2, <1>3, <1>5, <1>6, <1>7, <1>8 DEF SpendInv

\* What an emitted line is: a line of the session's turn, of d calls.
LineOf(e, s, d) ==
    /\ e.turn = TurnId(thread[s], turn[s])
    /\ e.name # "fragment"
    /\ LineOK(e)
    /\ e.name \in TOKEN_EVENTS => Says(e, d)
    /\ e.name \notin TOKEN_EVENTS => d = 0

\* And what it leaves behind, written once or not at all.
Written(e, s) ==
    \/ /\ file' = file
       /\ lost' = lost \cup {thread[s]}
    \/ /\ file' = Append(file, Piece(e, TRUE))
       /\ lost' = IF Swallows(file, offset[s]) THEN lost \cup {thread[s]} ELSE lost

\* What the handlers make of an event: a line, or, in a swap, none.
LEMMA EmitWrites ==
    ASSUME SinkInv, SpendInv, NEW s \in Sessions, NEW name, NEW fields, Emit(s, name, fields),
           NEW e, e = Event(name, TurnId(thread[s], turn[s]), 1, fields)
    PROVE  Written(e, s)
  <1> DEFINE p == Piece(e, TRUE)
  <1>1. IsList(file)
    BY SpendFacts DEF FileFine, PiecesOK
  <1>2. /\ file' = file \o [i \in 1..Copies |-> p]
        /\ lost' = IF Copies = 0 \/ Swallows(file, offset[s]) THEN lost \cup {thread[s]} ELSE lost
    BY DEF Emit, Swallowed, Swallows, Last
  <1>3. Copies = 0 \/ Copies = 1
    BY CopiesOf DEF SinkInv, SinkTypeOK
  <1> HIDE DEF p
  <1>4. CASE Copies = 0
    <2>1. [i \in 1..Copies |-> p] = <<>>
      BY <1>4
    <2> QED
      BY <1>1, <1>2, <1>4, <2>1, ListEmpty DEF Written
  <1>5. CASE Copies = 1
    <2>1. [i \in 1..Copies |-> p] = <<p>>
      <3>1. 1..Copies = {1}
        BY <1>5
      <3> QED
        BY <3>1
    <2>2. file \o <<p>> = Append(file, p)
      BY <1>1, ListAppend
    <2>3. file' = Append(file, p)
      BY <1>2, <2>1, <2>2
    <2>4. lost' = IF Swallows(file, offset[s]) THEN lost \cup {thread[s]} ELSE lost
      BY <1>2, <1>5
    <2> QED
      BY ONLY <2>3, <2>4 DEF Written, p
  <1> QED
    BY <1>3, <1>4, <1>5

\* Either way each reading says of its thread what the turn has come to.
LEMMA WrittenKeeps ==
    ASSUME SpendInv, NEW s \in Sessions, phase[s] # "none", NEW e, NEW d \in Nat,
           LineOf(e, s, d), Written(e, s), thread' = thread, offset' = offset,
           Moved(truth', truth, turn[s], d),
           truth'[turn[s]].searched <=> truth[turn[s]].searched \/ e.name \in ANSWERING_EVENTS,
           truth'[turn[s]].finished <=> truth[turn[s]].finished \/ e.name = COMPLETED_EVENT
    PROVE  FileFine(file', truth') /\ ReadingsOK' /\ Len(file') \in Nat /\ Len(file) <= Len(file')
  <1> DEFINE m == turn[s]
             p == Piece(e, TRUE)
             thr == thread[s]
  <1>1. /\ runs \in Nat /\ Len(file) \in Nat
        /\ \A t \in Sessions : SessionOK(t)
        /\ TruthFine(truth, runs) /\ FileFine(file, truth) /\ Shaped /\ ReadingsOK
    BY SpendFacts
  <1>2. offset[s] # None /\ m \in Mine(truth, thr) /\ thr \in {s} \X (0..runs) /\ offset[s] \in 0..Len(file)
    BY <1>1 DEF SessionOK
  <1>3. truth \in [1..MaxTurns -> Turned] /\ m \in Asked(truth) /\ m \in 1..MaxTurns /\ truth[m].thread = thr
    BY <1>1, <1>2 DEF TruthFine, Mine, Asked
  <1>4. e.turn = TurnId(thr, m) /\ e.turn # None /\ e.turn.thread = thr
    <2>1. PICK r \in 0..runs : thr = <<s, r>>
      BY <1>2
    <2>2. r \in 0..MaxRuns
      BY <1>1, BoundsAssumption DEF Shaped
    <2>3. None # TurnId(<<s, r>>, m)
      BY <1>3, <2>2, NoneAssumption
    <2> QED
      BY <2>1, <2>3 DEF LineOf, TurnId
  <1>5. /\ Moved(truth', truth, m, d)
        /\ truth'[m].searched <=> truth[m].searched \/ e.name \in ANSWERING_EVENTS
        /\ truth'[m].finished <=> truth[m].finished \/ e.name = COMPLETED_EVENT
    OBVIOUS
  <1> HIDE DEF m, thr
  <1>6. ASSUME NEW t
        PROVE  /\ t # thr => /\ Covered(truth', t) = Covered(truth, t)
                             /\ Searched(truth', t) = Searched(truth, t)
                             /\ Finished(truth', t) = Finished(truth, t)
               /\ t = thr =>
                     /\ Covered(truth', t) = Covered(truth, t) + d
                     /\ Searched(truth', t) = Searched(truth, t) \cup {x \in {m} : truth'[m].searched}
                     /\ Finished(truth', t) = Finished(truth, t) \cup {x \in {m} : truth'[m].finished}
    <2>1. TruthFine(truth, runs) /\ thr = truth[m].thread
      BY <1>1, <1>3
    <2> QED
      BY ONLY <1>5, <2>1, d \in Nat, TurnMoves
  <1>7. /\ Covered(truth', thr) = Covered(truth, thr) + d
        /\ Searched(truth', thr) = Searched(truth, thr) \cup {x \in {m} : e.name \in ANSWERING_EVENTS}
        /\ Finished(truth', thr) = Finished(truth, thr) \cup {x \in {m} : e.name = COMPLETED_EVENT}
    <2>1. truth[m].searched => m \in Searched(truth, thr)
      BY <1>2 DEF Searched
    <2>2. truth[m].finished => m \in Finished(truth, thr)
      BY <1>2 DEF Finished
    <2>3. /\ Covered(truth', thr) = Covered(truth, thr) + d
          /\ Searched(truth', thr) = Searched(truth, thr) \cup {x \in {m} : truth'[m].searched}
          /\ Finished(truth', thr) = Finished(truth, thr) \cup {x \in {m} : truth'[m].finished}
      BY <1>6
    <2> QED
      BY <1>5, <2>1, <2>2, <2>3
  <1>8. Threads(truth') = Threads(truth) /\ thr \in Threads(truth)
    <2>1. /\ Asked(truth') = Asked(truth) /\ Asked(truth) \subseteq 1..MaxTurns
          /\ \A n \in 1..MaxTurns : truth'[n].thread = truth[n].thread
      <3>1. \A n \in 1..MaxTurns : truth'[n].thread = truth[n].thread
        BY <1>5 DEF Moved
      <3>2. truth' \in [1..MaxTurns -> Turned]
        BY <1>5 DEF Moved
      <3> QED
        BY <1>3, <3>1, <3>2 DEF Asked
    <2> QED
      BY <1>3, <2>1 DEF Threads
  <1>9. p.ended = TRUE /\ p.event = e
    BY DEF Piece
  <1> HIDE DEF p
  <1>10. PieceFine(p, truth)
    BY <1>4, <1>8, <1>9 DEF PieceFine, LineOf
  <1>11. file' = file \/ file' = Append(file, p)
    BY DEF Written, p
  <1>12. FileFine(file', truth) /\ Len(file') \in Nat /\ Len(file) <= Len(file')
    <2>1. FileFine(Append(file, p), truth) /\ Len(Append(file, p)) = Len(file) + 1
      BY ONLY <1>1, <1>10, FileGrows
    <2>2. CASE file' = file
      BY <1>1, <2>2
    <2>3. CASE file' = Append(file, p)
      <3>1. FileFine(file', truth) /\ Len(file') = Len(file) + 1 /\ Len(file) \in Nat
        BY <1>1, <2>1, <2>3
      <3> QED
        BY ONLY <3>1
    <2> QED
      BY <1>11, <2>2, <2>3
  <1>13. FileFine(file', truth')
    BY <1>8, <1>12 DEF FileFine
  <1>14. PiecesOK(file) /\ \A i \in DOMAIN file : LineOK(file[i].event)
    BY <1>1 DEF FileFine
  <1>15. ASSUME NEW t \in Sessions, offset[t] # None
         PROVE  Reads(file', offset[t], truth', thread[t], thread[t] \notin lost')
    <2>1. Reads(file, offset[t], truth, thread[t], thread[t] \notin lost)
      BY <1>1, <1>15 DEF ReadingsOK
    <2>2. offset[t] \in 0..Len(file)
      BY <1>1, <1>15 DEF SessionOK
    <2>3. CASE t # s
      <3> DEFINE other == thread[t]
                 whole == other \notin lost
                 C == Covered(truth, other)
                 S == Searched(truth, other)
                 F == Finished(truth, other)
                 o == offset[t]
      <3>1. other # thr
        BY <1>1, <1>2, <2>3, ThreadsDiffer DEF thr
      <3>2. C = Covered(truth', other) /\ S = Searched(truth', other) /\ F = Finished(truth', other)
        BY <1>6, <3>1
      <3>3. whole <=> other \notin lost'
        BY <3>1 DEF Written, thr
      <3>4. ReadingOK(ReadEvents(file, o), other, C, S, F, whole)
        BY <2>1 DEF Reads
      <3>5. p.ended \in BOOLEAN /\ p.event.turn.thread # other
        BY <1>4, <1>9, <3>1
      <3> HIDE DEF C, S, F, other, whole, o
      <3>6. ReadingOK(ReadEvents(Append(file, p), o), other, C, S, F, whole)
        <4>1. o \in 0..Len(file)
          BY <2>2 DEF o
        <4> QED
          BY ONLY <1>14, <3>4, <3>5, <4>1, PieceOthers
      <3>7. ReadingOK(ReadEvents(file', o), other, C, S, F, whole)
        BY <1>11, <3>4, <3>6
      <3>8. ReadingOK(ReadEvents(file', o), other, C, S, F, other \notin lost')
        BY <3>3, <3>7 DEF ReadingOK, MeterOK
      <3> QED
        BY <3>2, <3>8 DEF Reads, other, o
    <2>4. CASE t = s
      <3> DEFINE whole == thr \notin lost
                 still == thr \notin lost'
                 C == Covered(truth, thr)
                 S == Searched(truth, thr)
                 F == Finished(truth, thr)
                 R == S \cup {x \in {m} : e.name \in ANSWERING_EVENTS}
                 G == F \cup {x \in {m} : e.name = COMPLETED_EVENT}
                 o == offset[s]
                 b == C + d
      <3>1. b = Covered(truth', thr) /\ R = Searched(truth', thr) /\ G = Finished(truth', thr)
        BY <1>7
      <3>2. C \in Nat /\ b \in Nat /\ C <= b /\ b - C = d
        <4>1. C \in Nat
          BY <1>3, CoveredIs
        <4> HIDE DEF C
        <4> QED
          BY <4>1
      <3>3. ReadingOK(ReadEvents(file, o), thr, C, S, F, whole)
        BY <2>1, <2>4 DEF Reads, thr
      <3>4. \/ file' = file /\ ~still
            \/ file' = Append(file, p) /\ (still => whole /\ ~Swallows(file, o))
        BY DEF Written, thr, p
      <3> DEFINE log == ReadEvents(file, o)
                 more == ReadEvents(Append(file, p), o)
                 then == ReadEvents(file', o)
      <3>5. ReadingOK(log, thr, C, S, F, whole)
        BY <3>3
      <3>6. \/ then = log /\ ~still
            \/ then = more /\ (still => whole /\ ~Swallows(file, o))
        BY <3>4
      <3>7. o \in 0..Len(file)
        BY <1>2
      <3> HIDE DEF C, S, F, whole, still, o, b, R, G, log, more, then
      <3>8. ReadingOK(log, thr, b, R, G, FALSE)
        <4>1. C \in Nat /\ b \in Nat /\ C <= b
          BY <3>2
        <4> QED
          BY ONLY <3>5, <4>1, ReadingLost
      <3>9. ASSUME still => whole /\ ~Swallows(file, o)
            PROVE  ReadingOK(more, thr, b, R, G, still)
        <4>1. e # Fragment
          BY DEF LineOf, Fragment, Event
        <4>2. Adds(e, C, b)
          BY <3>2 DEF LineOf, Adds
        <4>3. e.turn = TurnId(thr, m) /\ e.turn # None
          BY <1>4
        <4>4. ReadingOK(ReadEvents(file, o), thr, C, S, F, whole)
          BY <3>5 DEF log
        <4>5. ReadingOK(ReadEvents(Append(file, Piece(e, TRUE)), o), thr, b,
                        S \cup {x \in {m} : e.name \in ANSWERING_EVENTS},
                        F \cup {x \in {m} : e.name = COMPLETED_EVENT}, still)
          BY ONLY <1>14, <3>7, <3>9, <4>1, <4>2, <4>3, <4>4, PieceOurs
        <4> QED
          BY <4>5 DEF p, R, G, more
      <3>10. ReadingOK(then, thr, b, R, G, still)
        <4>1. CASE then = log /\ ~still
          <5>1. ReadingOK(then, thr, b, R, G, FALSE)
            BY <3>8, <4>1
          <5> QED
            BY ONLY <4>1, <5>1 DEF ReadingOK, MeterOK
        <4>2. CASE then = more /\ (still => whole /\ ~Swallows(file, o))
          BY <3>9, <4>2
        <4> QED
          BY <3>6, <4>1, <4>2
      <3>11. ReadingOK(ReadEvents(file', o), thr, b, R, G, still)
        BY <3>10 DEF then
      <3> QED
        BY <2>4, <3>1, <3>11 DEF Reads, thr, o, still
    <2> QED
      BY <2>3, <2>4
  <1>16. ReadingsOK'
    BY <1>15 DEF ReadingsOK
  <1> QED
    BY <1>12, <1>13, <1>16

-------------------------------------------------------------------------------
(* The actions that write a line.                                          *)

\* A session writes a line of its turn; the others do nothing.
OthersRest(s) ==
    /\ thread' = thread /\ offset' = offset /\ runs' = runs /\ cap' = cap
    /\ DOMAIN turn' = Sessions /\ DOMAIN phase' = Sessions /\ DOMAIN replies' = Sessions
    /\ \A t \in Sessions : t # s =>
          /\ turn'[t] = turn[t] /\ phase'[t] = phase[t]
          /\ replies'[t] = replies[t] /\ at'[t] = at[t]

\* So an action that writes a line keeps the rest, if it keeps its own session right.
LEMMA LineKeeps ==
    ASSUME SpendInv, NEW s \in Sessions, phase[s] # "none", NEW e, NEW d \in Nat,
           LineOf(e, s, d), Written(e, s), OthersRest(s),
           Moved(truth', truth, turn[s], d),
           truth'[turn[s]].searched <=> truth[turn[s]].searched \/ e.name \in ANSWERING_EVENTS,
           truth'[turn[s]].finished <=> truth[turn[s]].finished \/ e.name = COMPLETED_EVENT
    PROVE  /\ Len(file) \in Nat /\ Len(file') \in Nat /\ Len(file) <= Len(file')
           /\ turn[s] \in Mine(truth', thread[s])
           /\ SessionOK(s)' => SpendInv'
  <1>1. /\ runs \in Nat /\ Len(file) \in Nat
        /\ \A t \in Sessions : SessionOK(t)
        /\ TruthFine(truth, runs) /\ FileFine(file, truth) /\ Shaped /\ ReadingsOK
    BY SpendFacts
  <1>2. /\ thread' = thread /\ offset' = offset /\ runs' = runs /\ cap' = cap
        /\ DOMAIN turn' = Sessions /\ DOMAIN phase' = Sessions /\ DOMAIN replies' = Sessions
        /\ \A t \in Sessions : t # s =>
              /\ turn'[t] = turn[t] /\ phase'[t] = phase[t]
              /\ replies'[t] = replies[t] /\ at'[t] = at[t]
    BY DEF OthersRest
  <1>3. FileFine(file', truth') /\ ReadingsOK' /\ Len(file') \in Nat /\ Len(file) <= Len(file')
    BY <1>2, WrittenKeeps
  <1>4. offset[s] # None /\ turn[s] \in Mine(truth, thread[s])
    BY <1>1 DEF SessionOK
  <1>5. ASSUME NEW thr PROVE TruthFine(truth', runs) /\ Mine(truth', thr) = Mine(truth, thr)
    <2>1. TruthFine(truth, runs) /\ Moved(truth', truth, turn[s], d) /\ d \in Nat
      BY <1>1
    <2>2. TruthFine(truth', runs)
      BY ONLY <2>1, TurnMoves
    <2>3. Mine(truth', thr) = Mine(truth, thr)
      <3>1. truth \in [1..MaxTurns -> Turned] /\ truth' \in [1..MaxTurns -> Turned]
        BY <2>1 DEF TruthFine, Moved
      <3>2. \A n \in 1..MaxTurns : truth'[n].thread = truth[n].thread
        BY <2>1 DEF Moved
      <3> QED
        BY ONLY <3>1, <3>2 DEF Mine, Asked
    <2> QED
      BY <2>2, <2>3
  <1>6. ASSUME NEW t \in Sessions, t # s PROVE SessionOK(t)'
    <2>1. /\ Fresh(truth, t, runs) => Fresh(truth', t, runs)
          /\ turn[t] \in Mine(truth, thread[t]) =>
                turn[t] \in Mine(truth', thread[t]) /\ truth'[turn[t]] = truth[turn[t]]
      BY <1>4, <1>6, MovedOthers
    <2>2. /\ turn'[t] = turn[t] /\ phase'[t] = phase[t] /\ replies'[t] = replies[t] /\ at'[t] = at[t]
          /\ thread'[t] = thread[t] /\ offset'[t] = offset[t]
          /\ Len(file) \in Nat /\ Len(file') \in Nat /\ Len(file) <= Len(file')
          /\ runs \in Nat /\ runs' \in Nat /\ runs <= runs' /\ SessionOK(t)
          /\ Fresh(truth, t, runs) => Fresh(truth', t, runs')
      BY <1>1, <1>2, <1>3, <1>6, <2>1
    <2> QED
      BY ONLY t \in Sessions, <2>1, <2>2, OthersFine
  <1>7. Shaped'
    BY <1>1, <1>2 DEF Shaped
  <1>8. SessionOK(s)' => \A t \in Sessions : SessionOK(t)'
    BY <1>6
  <1>9. TruthFine(truth', runs')
    BY <1>2, <1>5
  <1> QED
    BY <1>1, <1>3, <1>4, <1>5, <1>7, <1>8, <1>9 DEF SpendInv

\* The two changes to a turn that search makes, as one.
LEMMA PlannerMoves ==
    ASSUME NEW tr, NEW m, NEW d, NEW D, m \in D, DOMAIN tr = D,
           NEW x, x = [tr EXCEPT ![m].planner = @ + d, ![m].searched = TRUE]
    PROVE  /\ DOMAIN x = D /\ x = [n \in D |-> x[n]]
           /\ \A n \in D : n # m => x[n] = tr[n]
           /\ x[m] = [tr[m] EXCEPT !.planner = @ + d, !.searched = TRUE]
  <1>1. x[m] = [tr[m] EXCEPT !.planner = @ + d, !.searched = TRUE]
    OBVIOUS
  <1>2. DOMAIN x = D /\ (\A n \in D : n # m => x[n] = tr[n])
    OBVIOUS
  <1>3. x = [n \in D |-> x[n]]
    OBVIOUS
  <1> QED
    BY <1>1, <1>2, <1>3

\* The planner's round: its line says its call's price.
LEMMA TranslateKeeps ==
    ASSUME SinkInv, SpendInv, NEW s \in Sessions, NEW usage \in Usages, Translate(s, usage)
    PROVE  SpendInv'
  <1> DEFINE m == turn[s]
             u == truth[m]
             d == IF cap = 0 THEN 0 ELSE 1
             fields == Merged([max_sub_queries |-> cap], UsageFields(usage))
             v == [u EXCEPT !.planner = @ + d, !.searched = TRUE]
             e == Event("query_translation", TurnId(thread[s], m), 1, fields)
  <1>1. /\ at[s] = "configured" /\ phase[s] = "replied" /\ phase' = [phase EXCEPT ![s] = "retrieve"]
        /\ cap = 0 => usage = <<>>
        /\ Emit(s, "query_translation", fields)
        /\ at' = at /\ cap' = cap /\ thread' = thread /\ offset' = offset
        /\ turn' = turn /\ replies' = replies /\ runs' = runs
    BY DEF Translate, Moves, sinkVars, sessionVars
  <1>2. /\ \A t \in Sessions : SessionOK(t)
        /\ TruthFine(truth, runs) /\ Shaped
    BY SpendFacts
  <1>3. DOMAIN phase = Sessions /\ DOMAIN turn = Sessions /\ DOMAIN replies = Sessions /\ cap \in {0, 3}
    BY <1>2 DEF Shaped
  <1>4. /\ offset[s] # None /\ m \in Mine(truth, thread[s]) /\ ~u.finished
        /\ offset[s] \in 0..Len(file) /\ thread[s] \in {s} \X (0..runs)
        /\ u.model = Len(replies[s]) /\ replies[s] \in Seq(Usages) /\ replies[s] # <<>>
    BY <1>1, <1>2 DEF SessionOK
  <1>5. truth \in [1..MaxTurns -> Turned] /\ m \in 1..MaxTurns /\ u \in Turned /\ m \in Asked(truth)
    BY <1>2, <1>4 DEF TruthFine, Mine, Asked
  <1>6. Written(e, s)
    BY <1>1, EmitWrites
  <1>7. LineOf(e, s, d)
    <2>1. Says(e, d)
      BY <1>1, <1>3, PlannerSays
    <2>2. e.name = "query_translation" /\ e.turn = TurnId(thread[s], turn[s])
      BY DEF Event
    <2> HIDE DEF e, d
    <2> QED
      BY <2>1, <2>2 DEF LineOf, Says, TOKEN_EVENTS
  <1>8. e.name = "query_translation"
    BY DEF Event
  <1>9. truth' = [truth EXCEPT ![m].planner = @ + d, ![m].searched = TRUE] /\ d \in Nat
    BY DEF Translate
  <1> HIDE DEF m, u, d, e
  <1>10. /\ truth'[m] = v
         /\ \A n \in 1..MaxTurns : n # m => truth'[n] = truth[n]
         /\ truth' = [n \in 1..MaxTurns |-> truth'[n]]
    <2>1. m \in 1..MaxTurns /\ DOMAIN truth = 1..MaxTurns
      BY <1>5
    <2>2. truth' = [truth EXCEPT ![m].planner = @ + d, ![m].searched = TRUE]
      BY <1>9
    <2> QED
      BY ONLY <2>1, <2>2, PlannerMoves DEF u, v
  <1>11. /\ v \in Turned /\ v.model = u.model /\ v.planner = u.planner + d
         /\ v.thread = u.thread /\ v.searched = TRUE /\ v.finished = u.finished
    <2> DEFINE w == [u EXCEPT !.planner = @ + d]
    <2>1. u \in Turned /\ u.planner + d \in Nat
      BY <1>5, <1>9 DEF Turned
    <2>2. /\ w \in Turned /\ w.model = u.model /\ w.planner = u.planner + d
          /\ w.thread = u.thread /\ w.finished = u.finished
      BY <2>1 DEF Turned
    <2>3. v = [w EXCEPT !.searched = TRUE]
      OBVIOUS
    <2> HIDE DEF w, v
    <2>4. /\ v \in Turned /\ v.model = w.model /\ v.planner = w.planner
          /\ v.thread = w.thread /\ v.searched = TRUE /\ v.finished = w.finished
      BY <2>2, <2>3 DEF Turned
    <2> QED
      BY <2>2, <2>4
  <1> HIDE DEF v
  <1>12. truth' \in [1..MaxTurns -> Turned]
    <2>1. \A n \in 1..MaxTurns : truth'[n] \in Turned
      BY <1>5, <1>10, <1>11
    <2> QED
      BY <1>10, <2>1
  <1>13. Moved(truth', truth, m, d)
    <2>1. Accounted(v) = Accounted(u) + d
      <3>1. u.planner \in Nat /\ u.model \in Nat /\ d \in Nat
        BY <1>5, <1>9 DEF Turned
      <3> QED
        BY <1>4, <1>11, <3>1 DEF Accounted
    <2>2. truth[m] = u
      BY DEF u
    <2> QED
      BY <1>5, <1>10, <1>11, <1>12, <2>1, <2>2 DEF Moved
  <1>14. /\ truth'[m].searched <=> truth[m].searched \/ e.name \in ANSWERING_EVENTS
         /\ truth'[m].finished <=> truth[m].finished \/ e.name = COMPLETED_EVENT
    BY <1>8, <1>10, <1>11 DEF u, ANSWERING_EVENTS, COMPLETED_EVENT
  <1>15. OthersRest(s)
    BY <1>1, <1>3 DEF OthersRest
  <1>16. /\ Len(file) \in Nat /\ Len(file') \in Nat /\ Len(file) <= Len(file')
         /\ m \in Mine(truth', thread[s])
         /\ SessionOK(s)' => SpendInv'
    BY <1>1, <1>6, <1>7, <1>9, <1>13, <1>14, <1>15, LineKeeps DEF m
  <1>17. SessionOK(s)'
    <2>1. /\ phase'[s] = "retrieve" /\ turn'[s] = m /\ offset'[s] \in 0..Len(file')
          /\ truth'[m].searched /\ ~truth'[m].finished /\ truth'[m].model = Len(replies[s])
      BY <1>1, <1>3, <1>4, <1>10, <1>11, <1>16 DEF m
    <2> QED
      BY <1>1, <1>4, <1>16, <2>1 DEF SessionOK
  <1> QED
    BY <1>16, <1>17

\* The rest of the search: a line of no calls.
LEMMA RetrieveKeeps ==
    ASSUME SinkInv, SpendInv, NEW s \in Sessions, Retrieve(s)
    PROVE  SpendInv'
  <1> DEFINE m == turn[s]
             e == Event("retrieval", TurnId(thread[s], m), 1, <<>>)
  <1>1. /\ at[s] = "configured" /\ phase[s] = "retrieve" /\ phase' = [phase EXCEPT ![s] = "model"]
        /\ Emit(s, "retrieval", <<>>)
        /\ at' = at /\ cap' = cap /\ thread' = thread /\ offset' = offset
        /\ turn' = turn /\ replies' = replies /\ runs' = runs /\ truth' = truth
    BY DEF Retrieve, Moves, sinkVars, sessionVars
  <1>2. /\ \A t \in Sessions : SessionOK(t)
        /\ TruthFine(truth, runs) /\ Shaped
    BY SpendFacts
  <1>3. DOMAIN phase = Sessions /\ DOMAIN turn = Sessions /\ DOMAIN replies = Sessions
    BY <1>2 DEF Shaped
  <1>4. /\ offset[s] # None /\ m \in Mine(truth, thread[s]) /\ ~truth[m].finished /\ truth[m].searched
        /\ offset[s] \in 0..Len(file) /\ thread[s] \in {s} \X (0..runs)
        /\ truth[m].model = Len(replies[s]) /\ replies[s] \in Seq(Usages)
    BY <1>1, <1>2 DEF SessionOK
  <1>5. truth \in [1..MaxTurns -> Turned] /\ m \in 1..MaxTurns /\ m \in Asked(truth)
    BY <1>2, <1>4 DEF TruthFine, Mine, Asked
  <1>6. Written(e, s)
    BY <1>1, EmitWrites
  <1>7. e.name = "retrieval" /\ e.turn = TurnId(thread[s], turn[s]) /\ e.fields = <<>>
    BY DEF Event
  <1> HIDE DEF m, e
  <1>8. LineOf(e, s, 0)
    <2>1. \A f : Field(e, f) = None
      BY <1>7 DEF Field
    <2>2. CallsBehind(e).made = 1
      BY <1>7, <2>1 DEF CallsBehind
    <2>3. LineOK(e)
      BY <2>1, <2>2 DEF LineOK
    <2> QED
      BY <1>7, <2>3 DEF LineOf, TOKEN_EVENTS
  <1>9. Moved(truth', truth, m, 0)
    <2>2. Accounted(truth[m]) = Accounted(truth[m]) + 0
      <3> DEFINE a == Accounted(truth[m])
      <3>1. a \in Nat
        BY <1>5, CoveredIs
      <3> HIDE DEF a
      <3>2. a = a + 0
        BY <3>1
      <3> QED
        BY <3>2 DEF a
    <2> QED
      BY <1>1, <1>5, <2>2 DEF Moved
  <1>10. /\ truth'[m].searched <=> truth[m].searched \/ e.name \in ANSWERING_EVENTS
         /\ truth'[m].finished <=> truth[m].finished \/ e.name = COMPLETED_EVENT
    BY <1>1, <1>4, <1>7 DEF COMPLETED_EVENT
  <1>11. OthersRest(s)
    BY <1>1, <1>3 DEF OthersRest
  <1>12. /\ Len(file) \in Nat /\ Len(file') \in Nat /\ Len(file) <= Len(file')
         /\ m \in Mine(truth', thread[s])
         /\ SessionOK(s)' => SpendInv'
    BY <1>1, <1>6, <1>8, <1>9, <1>10, <1>11, LineKeeps DEF m
  <1>13. SessionOK(s)'
    <2>1. /\ phase'[s] = "model" /\ turn'[s] = m /\ offset'[s] \in 0..Len(file')
      BY <1>1, <1>3, <1>4, <1>12 DEF m
    <2> QED
      BY <1>1, <1>4, <1>12, <2>1 DEF SessionOK
  <1> QED
    BY <1>12, <1>13

\* The turn's total: its line says the price of every reply that reported.
LEMMA FinishKeeps ==
    ASSUME SinkInv, SpendInv, NEW s \in Sessions, Finish(s)
    PROVE  SpendInv'
  <1> DEFINE m == turn[s]
             u == truth[m]
             d == Len(replies[s])
             fields == Merged([model |-> "chosen"], UsageTotal(replies[s]))
             v == [u EXCEPT !.finished = TRUE]
             e == Event(COMPLETED_EVENT, TurnId(thread[s], m), 1, fields)
  <1>1. /\ at[s] = "configured" /\ phase[s] = "replied" /\ phase' = [phase EXCEPT ![s] = "none"]
        /\ Emit(s, COMPLETED_EVENT, fields) /\ at' = [at EXCEPT ![s] = "idle"] /\ DOMAIN at = Sessions
        /\ turn' = [turn EXCEPT ![s] = 0] /\ replies' = [replies EXCEPT ![s] = <<>>]
        /\ truth' = [truth EXCEPT ![m] = v]
        /\ cap' = cap /\ thread' = thread /\ offset' = offset /\ runs' = runs
    BY DEF Finish, Quiet, Return, sessionVars, SinkInv, SinkTypeOK
  <1>2. /\ \A t \in Sessions : SessionOK(t)
        /\ TruthFine(truth, runs) /\ Shaped
    BY SpendFacts
  <1>3. DOMAIN phase = Sessions /\ DOMAIN turn = Sessions /\ DOMAIN replies = Sessions
    BY <1>2 DEF Shaped
  <1>4. /\ offset[s] # None /\ m \in Mine(truth, thread[s]) /\ ~u.finished
        /\ offset[s] \in 0..Len(file) /\ thread[s] \in {s} \X (0..runs)
        /\ u.model = d /\ replies[s] \in Seq(Usages) /\ replies[s] # <<>>
    BY <1>1, <1>2 DEF SessionOK
  <1>5. truth \in [1..MaxTurns -> Turned] /\ m \in 1..MaxTurns /\ u \in Turned /\ m \in Asked(truth)
    BY <1>2, <1>4 DEF TruthFine, Mine, Asked
  <1>6. Written(e, s)
    BY <1>1, EmitWrites
  <1>7. LineOf(e, s, d)
    <2>1. Says(e, d)
      BY <1>4, TotalSays
    <2>2. e.name = "agent_turn" /\ e.turn = TurnId(thread[s], turn[s])
      BY DEF Event, COMPLETED_EVENT
    <2> HIDE DEF e, d
    <2> QED
      BY <2>1, <2>2 DEF LineOf, Says, TOKEN_EVENTS
  <1>8. e.name = COMPLETED_EVENT /\ d \in Nat
    BY <1>4 DEF Event
  <1> HIDE DEF m, u, d, e
  <1>11. /\ v \in Turned /\ v.model = u.model /\ v.planner = u.planner
         /\ v.thread = u.thread /\ v.searched = u.searched /\ v.finished = TRUE
    BY <1>5 DEF Turned
  <1> HIDE DEF v
  <1>10. /\ truth'[m] = v /\ truth' \in [1..MaxTurns -> Turned]
         /\ \A n \in 1..MaxTurns : n # m => truth'[n] = truth[n]
    BY <1>1, <1>5, <1>11
  <1>13. Moved(truth', truth, m, d)
    <2>1. Accounted(v) = Accounted(u) + d
      <3>1. u.planner \in Nat /\ u.model \in Nat
        BY <1>5 DEF Turned
      <3> QED
        BY <1>4, <1>8, <1>11, <3>1 DEF Accounted
    <2>2. truth[m] = u
      BY DEF u
    <2> QED
      BY <1>5, <1>10, <1>11, <2>1, <2>2 DEF Moved
  <1>14. /\ truth'[m].searched <=> truth[m].searched \/ e.name \in ANSWERING_EVENTS
         /\ truth'[m].finished <=> truth[m].finished \/ e.name = COMPLETED_EVENT
    BY <1>8, <1>10, <1>11 DEF u, ANSWERING_EVENTS, COMPLETED_EVENT
  <1>15. OthersRest(s)
    BY <1>1, <1>3 DEF OthersRest
  <1>16. /\ Len(file) \in Nat /\ Len(file') \in Nat /\ Len(file) <= Len(file')
         /\ SessionOK(s)' => SpendInv'
    BY <1>1, <1>6, <1>7, <1>8, <1>13, <1>14, <1>15, LineKeeps DEF m
  <1>17. SessionOK(s)'
    <2>1. /\ phase'[s] = "none" /\ at'[s] = "idle" /\ replies'[s] = <<>>
          /\ offset'[s] \in 0..Len(file')
      BY <1>1, <1>3, <1>4, <1>16
    <2> QED
      BY <1>1, <1>4, <2>1 DEF SessionOK
  <1> QED
    BY <1>16, <1>17

\* And so every step keeps it.
LEMMA SpendStep == SinkInv /\ SpendInv /\ [Next]_vars => SpendInv'
  <1> SUFFICES ASSUME SinkInv, SpendInv, [Next]_vars PROVE SpendInv'
    OBVIOUS
  <1>1. ASSUME NEW s \in Sessions, BeginRun(s) PROVE SpendInv'
    BY <1>1, BeginRunKeeps
  <1>2. ASSUME NEW s \in Sessions, Configure(s) PROVE SpendInv'
    BY <1>2, ConfigureKeeps
  <1>3. ASSUME NEW s \in Sessions, EndRun(s) PROVE SpendInv'
    BY <1>3, EndRunKeeps
  <1>4. ASSUME NEW s \in Sessions, StartOver(s) PROVE SpendInv'
    BY <1>4, StartOverKeeps
  <1>5. ASSUME NEW s \in Sessions, Ask(s) PROVE SpendInv'
    BY <1>5, AskKeeps
  <1>6. ASSUME NEW s \in Sessions, UseTools(s) PROVE SpendInv'
    BY <1>6, UseToolsKeeps
  <1>7. ASSUME NEW s \in Sessions, Retrieve(s) PROVE SpendInv'
    BY <1>7, RetrieveKeeps
  <1>8. ASSUME NEW s \in Sessions, Finish(s) PROVE SpendInv'
    BY <1>8, FinishKeeps
  <1>9. ASSUME NEW s \in Sessions, NEW u \in Usages, ModelCall(s, u) PROVE SpendInv'
    BY <1>9, ModelCallKeeps
  <1>10. ASSUME NEW s \in Sessions, NEW u \in Usages, Translate(s, u) PROVE SpendInv'
    BY <1>10, TranslateKeeps
  <1>11. CASE Kill
    BY <1>11, KillKeeps
  <1>12. CASE Foreign
    BY <1>12, ForeignKeeps
  <1>13. CASE UNCHANGED vars
    <2>1. /\ at' = at /\ file' = file /\ cap' = cap /\ thread' = thread /\ offset' = offset
          /\ turn' = turn /\ phase' = phase /\ replies' = replies
          /\ truth' = truth /\ lost' = lost /\ runs' = runs
      BY <1>13 DEF vars, sinkVars
    <2> QED
      BY <2>1 DEF SpendInv, Shaped, SessionOK, ReadingsOK
  <1> QED
    BY <1>1, <1>2, <1>3, <1>4, <1>5, <1>6, <1>7, <1>8, <1>9, <1>10, <1>11, <1>12, <1>13
       DEF Next, Turn

-------------------------------------------------------------------------------
(* The meter.                                                              *)

\* The meter's parts, where the reading puts them.
LEMMA MeterIs ==
    ASSUME NEW log, NEW thr, NEW seen, seen = ConversationSpend(log, thr)
    PROVE  LET L == Ours(log, thr, TOKEN_EVENTS) IN
           /\ seen.input = Tokens(L, "input_tokens") /\ seen.output = Tokens(L, "output_tokens")
           /\ seen.calls = Tokens(L, "input_tokens").calls
           /\ seen.calls = Tokens(L, "output_tokens").calls
           /\ seen.unfinished = Unfinished(log, thr)
  <1> DEFINE L == Ours(log, thr, TOKEN_EVENTS)
             a == Tokens(L, "input_tokens")
             b == Tokens(L, "output_tokens")
             c == SumOf(LAMBDA e : CallsBehind(e).made, L)
             u == Unfinished(log, thr)
  <1>1. a.calls = c /\ b.calls = c
    BY DEF Tokens
  <1> DEFINE T == TokenTotals(L)
             R == [turns |-> Cardinality(TurnsIn(L)), unfinished |-> u]
  <1>2. /\ DOMAIN T = {"calls", "floored", "input", "output", "models"}
        /\ T["calls"] = c /\ T["input"] = a /\ T["output"] = b
    BY DEF TokenTotals
  <1>3. DOMAIN R = {"turns", "unfinished"} /\ R["unfinished"] = u
    OBVIOUS
  <1>4. seen = Merged(T, R)
    BY DEF ConversationSpend
  <1> HIDE DEF L, a, b, c, u, T, R
  <1>5. DOMAIN seen = DOMAIN T \cup DOMAIN R
        /\ \A f \in DOMAIN seen : seen[f] = IF f \in DOMAIN T THEN T[f] ELSE R[f]
    BY <1>4 DEF Merged
  <1>6. /\ seen["input"] = a /\ seen["output"] = b /\ seen["calls"] = c /\ seen["unfinished"] = u
    BY <1>2, <1>3, <1>5
  <1> QED
    BY <1>1, <1>6 DEF L, a, b, u

\* Turns are as many as their ids.
LEMMA UnfinishedIs ==
    ASSUME NEW thr, NEW S, NEW F, IsFiniteSet(S)
    PROVE  Cardinality(TurnIds(thr, S) \ TurnIds(thr, F)) = Cardinality(S \ F)
  <1> DEFINE D == S \ F
             T == TurnIds(thr, S) \ TurnIds(thr, F)
             f == [n \in D |-> TurnId(thr, n)]
  <1>1. \A n, k : TurnId(thr, n) = TurnId(thr, k) => n = k
    BY DEF TurnId
  <1>2. T = {TurnId(thr, n) : n \in D}
    BY <1>1 DEF TurnIds
  <1>3. f \in Bijection(D, T)
    <2>1. f \in [D -> T] /\ \A t \in T : \E n \in D : f[n] = t
      BY <1>2
    <2>2. \A n, k \in D : f[n] = f[k] => n = k
      BY <1>1
    <2> HIDE DEF f, T, D
    <2> QED
      BY <2>1, <2>2 DEF Bijection, Injection, Surjection, IsInjective
  <1>4. IsFiniteSet(D)
    BY FS_Subset
  <1> HIDE DEF D, T, f
  <1>5. ExistsBijection(D, T)
    BY <1>3 DEF ExistsBijection
  <1>6. Cardinality(T) = Cardinality(D)
    BY ONLY <1>4, <1>5, FS_Bijection
  <1> QED
    BY <1>6 DEF D, T

\* What one field of a meter shows, of the calls paid for.
LEMMA ShownBelow ==
    ASSUME NEW a, NEW p \in Nat, TokensOK(a, p), NEW c \in Nat, a.calls <= c
    PROVE  /\ ShownOf(a) <= c * p
           /\ Measured(a) /\ ~PartialField(a) => a.reported = a.calls /\ a.total = a.calls * p
  <1> DEFINE r == a.reported
             k == a.calls
  <1>1. r \in Nat /\ k \in Nat /\ r <= k /\ ShownOf(a) = p * r /\ k <= c
    BY DEF TokensOK
  <1>2. Measured(a) /\ ~PartialField(a) => r >= k /\ a.total = ShownOf(a)
    BY <1>1 DEF PartialField, ShownOf
  <1> HIDE DEF r, k
  <1>3. p * r <= c * p
    <2>1. c - r \in Nat
      BY <1>1
    <2> DEFINE x == c - r
    <2>2. x \in Nat /\ c = r + x
      BY <1>1
    <2> HIDE DEF x
    <2>3. p * x \in Nat
      BY <2>2
    <2>4. c * p = p * r + p * x
      BY ONLY <2>2, <1>1, p \in Nat
    <2>5. p * r \in Nat
      BY <1>1
    <2> DEFINE y == p * x
               z == p * r
    <2> HIDE DEF y, z
    <2>6. z <= z + y
      BY <2>3, <2>5 DEF y, z
    <2> QED
      BY <2>4, <2>6 DEF y, z
  <1>4. ASSUME r >= k PROVE r = k /\ p * r = k * p
    <2>1. r = k
      BY <1>1, <1>4
    <2> QED
      BY <1>1, <2>1
  <1>5. ShownOf(a) <= c * p
    BY <1>1, <1>3
  <1>6. Measured(a) /\ ~PartialField(a) => r = k /\ a.total = k * p
    BY <1>1, <1>2, <1>4
  <1> QED
    BY <1>5, <1>6 DEF r, k

\* More calls cost no less.
LEMMA TimesUp == ASSUME NEW c \in Nat, NEW d \in Nat, c <= d, NEW p \in Nat PROVE c * p <= d * p
  <1> DEFINE x == d - c
  <1>1. x \in Nat /\ d = c + x
    OBVIOUS
  <1> HIDE DEF x
  <1>2. d * p = c * p + x * p
    BY ONLY <1>1, c \in Nat, p \in Nat
  <1>3. x * p \in Nat /\ c * p \in Nat
    BY <1>1
  <1> QED
    BY ONLY <1>2, <1>3

\* What it says of a meter.
LEMMA SpendSuffices == SpendInv => SpendIsHonest
  <1> SUFFICES ASSUME SpendInv, NEW s \in Sessions, offset[s] # None
               PROVE  LET seen == Meter(s)
                          mine == {n \in Turns : truth[n].thread = thread[s]}
                          paid == SumOver(LAMBDA n : truth[n].model + truth[n].planner, mine)
                          covered == SumOver(LAMBDA n : truth[n].planner
                                         + (IF truth[n].finished THEN truth[n].model ELSE 0), mine)
                          shown(tokens) == IF Measured(tokens) THEN tokens.total ELSE 0
                      IN
                      /\ shown(seen.input) <= paid * Price.input_tokens
                      /\ shown(seen.output) <= paid * Price.output_tokens
                      /\ seen.calls <= paid
                      /\ thread[s] \notin lost =>
                            /\ seen.unfinished
                                  = Cardinality({n \in mine : truth[n].searched /\ ~truth[n].finished})
                            /\ AnyMeasured(seen) /\ ~Partial(seen) =>
                                  /\ seen.calls = covered
                                  /\ seen.input.total = covered * Price.input_tokens
                                  /\ seen.output.total = covered * Price.output_tokens
    BY DEF SpendIsHonest
  <1> DEFINE thr == thread[s]
             log == ReadEvents(file, offset[s])
             seen == Meter(s)
             M == {n \in Turns : truth[n].thread = thread[s]}
             f == [n \in M |-> truth[n].model + truth[n].planner]
             g == [n \in M |-> truth[n].planner
                                   + (IF truth[n].finished THEN truth[n].model ELSE 0)]
             paid == SumFunctionOnSet(f, M)
             covered == SumFunctionOnSet(g, M)
             whole == thr \notin lost
             S == Searched(truth, thr)
             F == Finished(truth, thr)
             a == seen.input
             b == seen.output
             L == Ours(log, thr, TOKEN_EVENTS)
             pa == Price["input_tokens"]
             pb == Price["output_tokens"]
  <1>1. ReadingsOK /\ TruthFine(truth, runs)
    BY SpendFacts
  <1>2. truth \in [1..MaxTurns -> Turned]
    BY <1>1 DEF TruthFine
  <1>3. M = Mine(truth, thr)
    BY DEF Mine, Asked, Turns
  <1>4. covered = Covered(truth, thr)
    <2>1. g = [n \in M |-> Accounted(truth[n])]
      BY DEF Accounted
    <2> HIDE DEF M, g
    <2> QED
      BY <1>3, <2>1 DEF Covered
  <1>5. ReadingOK(log, thr, covered, S, F, whole)
    <2> HIDE DEF covered
    <2> QED
      BY <1>1, <1>4 DEF ReadingsOK, Reads
  <1>6. IsFiniteSet(M) /\ M \subseteq 1..MaxTurns
    BY <1>2, <1>3, CoveredIs
  <1>7. \A n \in M : f[n] \in Nat /\ g[n] \in Nat /\ g[n] <= f[n]
    <2>1. \A n \in M : truth[n].model \in Nat /\ truth[n].planner \in Nat
      BY <1>2, <1>6 DEF Turned
    <2> HIDE DEF M
    <2> QED
      BY <2>1
  <1>8. covered \in Nat /\ paid \in Nat /\ covered <= paid
    <2> HIDE DEF M, f, g
    <2>1. covered <= paid
      BY ONLY <1>6, <1>7, SumBelow
    <2>2. covered \in Nat
      BY ONLY <1>6, <1>7, SumIsNat
    <2>3. paid \in Nat
      BY ONLY <1>6, <1>7, SumIsNat
    <2> QED
      BY <2>1, <2>2, <2>3
  <1>9. seen = ConversationSpend(log, thr)
    BY DEF Meter
  <1>10. /\ a = Tokens(L, "input_tokens") /\ b = Tokens(L, "output_tokens")
         /\ seen.calls = a.calls /\ seen.calls = b.calls
         /\ seen.unfinished = Unfinished(log, thr)
    <2> HIDE DEF seen, log, thr
    <2> QED
      BY <1>9, MeterIs
  <1>11. /\ TokensOK(a, pa) /\ TokensOK(b, pb) /\ pa \in Nat /\ pb \in Nat
         /\ a.calls <= covered
         /\ whole => a.calls = covered \/ a.reported < a.calls
    <2> HIDE DEF a, b, L, covered, whole, seen, thr, log
    <2>1. MeterOK(L, covered, whole)
      BY <1>5 DEF ReadingOK, L
    <2>2. "input_tokens" \in TOKEN_FIELDS /\ "output_tokens" \in TOKEN_FIELDS
      BY DEF TOKEN_FIELDS
    <2> QED
      BY <1>10, <2>1, <2>2, PriceOf DEF MeterOK
  <1>12. /\ whole => TurnsOK(log, thr, S, F)
    BY <1>5 DEF ReadingOK
  <1>13. ASSUME whole
         PROVE  seen.unfinished = Cardinality({n \in M : truth[n].searched /\ ~truth[n].finished})
    <2>1. S \subseteq M
      BY <1>3 DEF Searched
    <2>2. S \ F = {n \in M : truth[n].searched /\ ~truth[n].finished}
      BY <1>3 DEF Searched, Finished
    <2> HIDE DEF S, F, M, log, thr, seen, whole
    <2>3. IsFiniteSet(S)
      BY ONLY <1>6, <2>1, FS_Subset
    <2>4. Unfinished(log, thr) = Cardinality(TurnIds(thr, S) \ TurnIds(thr, F))
      BY <1>12, <1>13 DEF Unfinished, TurnsOK
    <2> QED
      BY <1>10, <2>2, <2>3, <2>4, UnfinishedIs
  <1>14. /\ ShownOf(a) <= covered * pa /\ ShownOf(b) <= covered * pb
         /\ Measured(a) /\ ~PartialField(a) => a.reported = a.calls /\ a.total = a.calls * pa
         /\ Measured(b) /\ ~PartialField(b) => b.reported = b.calls /\ b.total = b.calls * pb
    <2> HIDE DEF a, b, covered, pa, pb, seen
    <2>1. a.calls <= covered /\ b.calls <= covered
      BY <1>10, <1>11
    <2>2. TokensOK(a, pa) /\ TokensOK(b, pb) /\ pa \in Nat /\ pb \in Nat /\ covered \in Nat
      BY <1>8, <1>11
    <2>3. /\ ShownOf(a) <= covered * pa
          /\ Measured(a) /\ ~PartialField(a) => a.reported = a.calls /\ a.total = a.calls * pa
      BY ONLY <2>1, <2>2, ShownBelow
    <2>4. /\ ShownOf(b) <= covered * pb
          /\ Measured(b) /\ ~PartialField(b) => b.reported = b.calls /\ b.total = b.calls * pb
      BY ONLY <2>1, <2>2, ShownBelow
    <2> QED
      BY <2>3, <2>4
  <1>15. covered * pa <= paid * pa /\ covered * pb <= paid * pb
    <2> HIDE DEF covered, paid, pa, pb
    <2> QED
      BY <1>8, <1>11, TimesUp
  <1>16. ShownOf(a) <= paid * pa /\ ShownOf(b) <= paid * pb /\ seen.calls <= paid
    <2> HIDE DEF covered, paid, pa, pb, a, b, seen
    <2>1. ShownOf(a) = pa * a.reported /\ ShownOf(b) = pb * b.reported /\ a.calls \in Nat
          /\ a.reported \in Nat /\ b.reported \in Nat
      BY <1>11 DEF TokensOK
    <2> DEFINE x == ShownOf(a)
               y == ShownOf(b)
               cx == covered * pa
               cy == covered * pb
               px == paid * pa
               py == paid * pb
    <2>2. /\ x \in Nat /\ y \in Nat /\ cx \in Nat /\ cy \in Nat /\ px \in Nat /\ py \in Nat
      BY <1>8, <1>11, <2>1
    <2>3. x <= cx /\ cx <= px /\ y <= cy /\ cy <= py
      BY <1>14, <1>15
    <2> HIDE DEF x, y, cx, cy, px, py
    <2>4. x <= px /\ y <= py
      BY ONLY <2>2, <2>3
    <2>5. seen.calls <= paid
      BY <1>8, <1>10, <1>11, <2>1
    <2> QED
      BY <2>4, <2>5 DEF x, y, px, py
  <1>17. ASSUME whole, AnyMeasured(seen), ~Partial(seen)
         PROVE  seen.calls = covered /\ a.total = covered * pa /\ b.total = covered * pb
    <2>1. Measured(a) /\ Measured(b) /\ ~PartialField(a) /\ ~PartialField(b)
      BY <1>17 DEF Partial
    <2> HIDE DEF covered, pa, pb, a, b, seen, whole
    <2>2. a.calls \in Nat /\ a.reported = a.calls
      BY <1>11, <1>14, <2>1 DEF TokensOK
    <2>3. a.calls = covered
      BY <1>11, <1>17, <2>2
    <2> QED
      BY <1>10, <1>14, <2>1, <2>3
  <1> HIDE DEF f, g
  <1>18. /\ paid = SumOver(LAMBDA n : truth[n].model + truth[n].planner, M)
         /\ covered = SumOver(LAMBDA n : truth[n].planner
                                 + (IF truth[n].finished THEN truth[n].model ELSE 0), M)
    BY DEF SumOver, f, g
  <1> HIDE DEF paid, covered
  <1> QED
    BY <1>13, <1>16, <1>17, <1>18 DEF ShownOf

(* Of any number of sessions that share the logger and the file, whatever  *)
(* else writes to it and whatever a kill leaves of a line: a meter never   *)
(* shows more than its thread paid for, counts the turns that searched and *)
(* have no total, and a figure it does not call a floor is exact           *)
(* (spend.py:259-311, tokens.py:57-83).                                    *)
THEOREM MeterIsHonest == Spec => []SpendIsHonest
  BY SinkAlways, SpendStarts, SpendStep, SpendSuffices, PTL DEF Spec
===============================================================================
