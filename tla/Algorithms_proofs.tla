-------------------------- MODULE Algorithms_proofs --------------------------
(***************************************************************************)
(* Theorems about the pure functions, for every set of inputs that are     *)
(* what the code hands them: what is known of an answer (`ResultOK`), and  *)
(* from it the planner's variants, the suite's verdict, the output         *)
(* validator's clauses and the input gate's disguises.                     *)
(***************************************************************************)
EXTENDS Algorithms, TLAPS, FiniteSetTheorems, WellFoundedInduction

-------------------------------------------------------------------------------
(* Filters as places: sets of numbers, counted up.                         *)

\* Counting up from zero reaches every natural number.
LEMMA CountingUp ==
    ASSUME NEW S \in SUBSET Nat, 0 \in S, \A n \in S : n + 1 \in S
    PROVE  S = Nat
  <1> DEFINE T == Nat \ S
             R == {ss \in Nat \X Nat : ss[1] < ss[2]}
  <1>1. SUFFICES ASSUME T # {} PROVE FALSE
    OBVIOUS
  <1>2. IsWellFoundedOn(R, Nat)
    BY NatLessThanWellFounded DEF OpToRel
  <1>3. PICK n \in T : \A m \in T : ~(<<m, n>> \in R)
    <2>1. T \subseteq Nat /\ T # {}
      BY <1>1
    <2> HIDE DEF R, T
    <2>2. QED
      BY <1>2, <2>1, WFMin
  <1>4. n \in Nat /\ n # 0
    BY <1>3
  <1>5. n - 1 \in Nat /\ n - 1 \notin T
    <2>1. <<n - 1, n>> \in R
      BY <1>4
    <2>2. QED
      BY <1>3, <1>4, <2>1
  <1>6. n - 1 \in S /\ (n - 1) + 1 = n
    BY <1>4, <1>5
  <1>7. QED
    BY <1>3, <1>6

\* What holds of a set when it holds of the set without any one member of it.
LEMMA Shrinking ==
    ASSUME NEW S, IsFiniteSet(S), NEW G, {} \in G,
           \A T \in SUBSET S : T # {} /\ (\A x \in T : T \ {x} \in G) => T \in G
    PROVE  \A T \in SUBSET S : T \in G
  <1> DEFINE Small == {n \in Nat : \A T \in SUBSET S : Cardinality(T) = n => T \in G}
  <1>1. \A T \in SUBSET S : IsFiniteSet(T) /\ Cardinality(T) \in Nat
    BY FS_Subset, FS_CardinalityType
  <1>2. 0 \in Small
    <2>1. \A T \in SUBSET S : Cardinality(T) = 0 => T = {}
      BY <1>1, FS_EmptySet
    <2> QED
      BY <2>1
  <1>3. ASSUME NEW n \in Small PROVE n + 1 \in Small
    <2>1. ASSUME NEW T \in SUBSET S, Cardinality(T) = n + 1 PROVE T \in G
      <3>1. T # {}
        <4>1. Cardinality({}) = 0
          BY FS_EmptySet
        <4>2. n \in Nat
          OBVIOUS
        <4> QED
          BY ONLY <2>1, <4>1, <4>2
      <3>2. ASSUME NEW x \in T PROVE T \ {x} \in G
        <4>1. Cardinality(T \ {x}) = n
          <5>1. IsFiniteSet(T)
            BY ONLY <1>1, <2>1
          <5>2. Cardinality(T \ {x}) = Cardinality(T) - 1
            BY ONLY <5>1, x \in T, FS_RemoveElement
          <5> QED
            BY ONLY <5>2, <2>1, n \in Nat
        <4> QED
          BY <4>1
      <3> QED
        BY <3>1, <3>2
    <2> QED
      BY <2>1
  <1>4. Small = Nat
    <2>1. Small \in SUBSET Nat
      OBVIOUS
    <2> HIDE DEF Small
    <2> QED
      BY <1>2, <1>3, <2>1, CountingUp
  <1> QED
    BY <1>1, <1>4

\* A finite set of numbers has a largest.
LEMMA LargestOf ==
    ASSUME NEW S \in SUBSET Nat, IsFiniteSet(S), S # {}
    PROVE  \E m \in S : \A i \in S : i <= m
  <1> DEFINE G == {T \in SUBSET S : T = {} \/ \E m \in T : \A i \in T : i <= m}
  <1>1. {} \in G
    OBVIOUS
  <1>2. ASSUME NEW T \in SUBSET S, T # {}, \A x \in T : T \ {x} \in G PROVE T \in G
    <2>1. PICK x \in T : TRUE
      BY <1>2
    <2>2. CASE T \ {x} = {}
      BY <2>1, <2>2
    <2>3. CASE T \ {x} # {}
      <3>1. PICK m \in T \ {x} : \A i \in T \ {x} : i <= m
        BY <1>2, <2>3
      <3>2. CASE x <= m
        BY <3>1, <3>2
      <3>3. CASE m < x
        <4>1. \A i \in T : i <= x
          BY <3>1, <3>3
        <4> QED
          BY <2>1, <4>1
      <3> QED
        BY <3>1, <3>2, <3>3
    <2> QED
      BY <2>2, <2>3
  <1>3. \A T \in SUBSET S : T # {} /\ (\A x \in T : T \ {x} \in G) => T \in G
    BY <1>2
  <1> HIDE DEF G
  <1>4. S \in G
    BY ONLY IsFiniteSet(S), <1>1, <1>3, Shrinking
  <1> QED
    BY <1>4 DEF G

-------------------------------------------------------------------------------
\* A set of places, and one more after them all.
LEMMA NthKeeps ==
    ASSUME NEW S \in SUBSET Nat, IsFiniteSet(S), NEW m \in Nat, \A i \in S : i < m
    PROVE  /\ Cardinality(S) \in Nat
           /\ Cardinality(S \cup {m}) = Cardinality(S) + 1
           /\ \A k \in 1..Cardinality(S) : Nth(S \cup {m}, k) = Nth(S, k)
           /\ Nth(S \cup {m}, Cardinality(S) + 1) = m
  <1> DEFINE R == S \cup {m}
             c == Cardinality(S)
             below(T, i) == {j \in T : j <= i}
  <1>1. c \in Nat /\ Cardinality(R) = c + 1 /\ IsFiniteSet(R)
    <2>1. m \notin S
      OBVIOUS
    <2> QED
      BY <2>1, FS_AddElement, FS_CardinalityType
  <1>2. \A i \in S : below(R, i) = below(S, i) /\ Cardinality(below(S, i)) \in 0..c
    <2>1. ASSUME NEW i \in S PROVE below(R, i) = below(S, i)
      OBVIOUS
    <2>2. ASSUME NEW i \in S PROVE Cardinality(below(S, i)) \in 0..c
      <3>1. below(S, i) \in SUBSET S
        OBVIOUS
      <3> HIDE DEF below
      <3> QED
        BY <1>1, <3>1, FS_Subset, FS_CardinalityType
    <2> QED
      BY <2>1, <2>2
  <1>3. below(R, m) = R
    <2>1. \A i \in R : i <= m
      OBVIOUS
    <2> QED
      BY <2>1
  <1>4. ASSUME NEW k \in 1..c PROVE Nth(R, k) = Nth(S, k)
    <2>1. Cardinality(below(R, m)) # k
      BY <1>1, <1>3
    <2>2. \A i : i \in R /\ Cardinality(below(R, i)) = k <=> i \in S /\ Cardinality(below(S, i)) = k
      <3> HIDE DEF below
      <3>1. ASSUME NEW i \in S PROVE Cardinality(below(R, i)) = Cardinality(below(S, i))
        BY <1>2
      <3> QED
        BY <2>1, <3>1
    <2> QED
      BY <2>2 DEF Nth
  <1>5. Nth(R, c + 1) = m
    <2>1. \A i : i \in R /\ Cardinality(below(R, i)) = c + 1 <=> i = m
      <3> HIDE DEF below
      <3>1. ASSUME NEW i \in S PROVE Cardinality(below(R, i)) # c + 1
        BY <1>1, <1>2
      <3>2. Cardinality(below(R, m)) = c + 1
        BY <1>1, <1>3
      <3> QED
        BY <3>1, <3>2
    <2> QED
      BY <2>1 DEF Nth
  <1> QED
    BY <1>1, <1>4, <1>5

\* The k-th place is a place.
LEMMA NthIs ==
    ASSUME NEW S \in SUBSET Nat, IsFiniteSet(S)
    PROVE  \A k \in 1..Cardinality(S) : Nth(S, k) \in S
  <1> DEFINE G == {T \in SUBSET S : \A k \in 1..Cardinality(T) : Nth(T, k) \in T}
  <1>1. {} \in G
    <2>1. Cardinality({}) = 0
      BY FS_EmptySet
    <2> QED
      BY <2>1
  <1>2. ASSUME NEW T \in SUBSET S, T # {}, \A x \in T : T \ {x} \in G PROVE T \in G
    <2>1. IsFiniteSet(T)
      BY FS_Subset
    <2>2. PICK m \in T : \A i \in T : i <= m
      BY <1>2, <2>1, LargestOf
    <2> DEFINE R == T \ {m}
    <2>3. R \cup {m} = T /\ \A i \in R : i < m
      BY <2>2
    <2>4. IsFiniteSet(R) /\ R \in SUBSET Nat /\ m \in Nat
      BY <2>1, FS_Subset
    <2>5. /\ Cardinality(R) \in Nat /\ Cardinality(T) = Cardinality(R) + 1
          /\ \A k \in 1..Cardinality(R) : Nth(T, k) = Nth(R, k)
          /\ Nth(T, Cardinality(R) + 1) = m
      <3> HIDE DEF R
      <3> QED
        BY <2>3, <2>4, NthKeeps
    <2>6. R \in G
      BY <1>2, <2>2
    <2>7. ASSUME NEW k \in 1..Cardinality(T) PROVE Nth(T, k) \in T
      <3>1. k \in 1..Cardinality(R) \/ k = Cardinality(R) + 1
        BY <2>5
      <3> QED
        BY <2>2, <2>3, <2>5, <2>6, <3>1
    <2> QED
      BY <2>7
  <1>3. \A T \in SUBSET S : T # {} /\ (\A x \in T : T \ {x} \in G) => T \in G
    BY <1>2
  <1> HIDE DEF G
  <1>4. S \in G
    BY ONLY IsFiniteSet(S), <1>1, <1>3, Shrinking
  <1> QED
    BY <1>4 DEF G

\* Every place is one of them, and no two are the same.
LEMMA NthReaches ==
    ASSUME NEW S \in SUBSET Nat, IsFiniteSet(S)
    PROVE  \A i \in S : \E k \in 1..Cardinality(S) : Nth(S, k) = i
  <1> DEFINE G == {T \in SUBSET S : \A i \in T : \E k \in 1..Cardinality(T) : Nth(T, k) = i}
  <1>1. {} \in G
    OBVIOUS
  <1>2. ASSUME NEW T \in SUBSET S, T # {}, \A x \in T : T \ {x} \in G PROVE T \in G
    <2>1. IsFiniteSet(T)
      BY FS_Subset
    <2>2. PICK m \in T : \A i \in T : i <= m
      BY <1>2, <2>1, LargestOf
    <2> DEFINE R == T \ {m}
    <2>3. R \cup {m} = T /\ \A i \in R : i < m
      BY <2>2
    <2>4. IsFiniteSet(R) /\ R \in SUBSET Nat /\ m \in Nat
      BY <2>1, FS_Subset
    <2>5. /\ Cardinality(R) \in Nat /\ Cardinality(T) = Cardinality(R) + 1
          /\ \A k \in 1..Cardinality(R) : Nth(T, k) = Nth(R, k)
          /\ Nth(T, Cardinality(R) + 1) = m
      <3> HIDE DEF R
      <3> QED
        BY <2>3, <2>4, NthKeeps
    <2>6. R \in G
      BY <1>2, <2>2
    <2>7. ASSUME NEW i \in T PROVE \E k \in 1..Cardinality(T) : Nth(T, k) = i
      <3>1. CASE i = m
        <4>1. Cardinality(T) \in 1..Cardinality(T) /\ Nth(T, Cardinality(T)) = i
          BY <2>5, <3>1
        <4> QED
          BY <4>1
      <3>2. CASE i # m
        <4>1. PICK k \in 1..Cardinality(R) : Nth(R, k) = i
          BY <2>6, <3>2
        <4>2. k \in 1..Cardinality(T) /\ Nth(T, k) = i
          BY <2>5, <4>1
        <4> QED
          BY <4>2
      <3> QED
        BY <3>1, <3>2
    <2> QED
      BY <2>7
  <1>3. \A T \in SUBSET S : T # {} /\ (\A x \in T : T \ {x} \in G) => T \in G
    BY <1>2
  <1> HIDE DEF G
  <1>4. S \in G
    BY ONLY IsFiniteSet(S), <1>1, <1>3, Shrinking
  <1> QED
    BY <1>4 DEF G

\* What stands at some places, and a set in ascending order.
LEMMA ThoseHold ==
    ASSUME NEW S \in SUBSET Nat, IsFiniteSet(S), NEW seq
    PROVE  /\ Cardinality(S) \in Nat
           /\ Len(Those(seq, S)) = Cardinality(S)
           /\ ToSet(Those(seq, S)) = {seq[i] : i \in S}
           /\ Len(Ascending(S)) = Cardinality(S)
           /\ ToSet(Ascending(S)) = S
  <1> DEFINE n == Cardinality(S)
  <1>1. n \in Nat
    BY FS_CardinalityType
  <1>2. /\ \A k \in 1..n : Nth(S, k) \in S
        /\ \A i \in S : \E k \in 1..n : Nth(S, k) = i
    BY NthIs, NthReaches
  <1> HIDE DEF n
  <1>3. Len([k \in 1..n |-> seq[Nth(S, k)]]) = n /\ Len([k \in 1..n |-> Nth(S, k)]) = n
    BY <1>1
  <1>4. ToSet([k \in 1..n |-> seq[Nth(S, k)]]) = {seq[i] : i \in S}
    BY <1>2 DEF ToSet
  <1>5. ToSet([k \in 1..n |-> Nth(S, k)]) = S
    BY <1>2 DEF ToSet
  <1> QED
    BY <1>1, <1>3, <1>4, <1>5 DEF n, Those, Ascending

-------------------------------------------------------------------------------
(* A fold over a list of n, from its last element down.                    *)

\* it is what FoldLeft iterates, g what a step makes of the place and the rest.
Chain(it, n, V, base, g) ==
    /\ it \in [SUBSET (1..n) -> V]
    /\ it = [s \in SUBSET (1..n) |-> IF s = {} THEN base ELSE g[<<Max(s), it[s \ {Max(s)}]>>]]

\* The largest of some places is one of them, and none is above it.
LEMMA MaxIs ==
    ASSUME NEW n \in Nat, NEW s \in SUBSET (1..n), s # {}
    PROVE  Max(s) \in s /\ \A y \in s : Max(s) >= y
  <1>1. IsFiniteSet(1..n)
    BY FS_Interval
  <1>a. IsFiniteSet(s)
    BY ONLY <1>1, s \in SUBSET (1..n), FS_Subset
  <1>2. IsFiniteSet(s) /\ s \in SUBSET Nat
    BY <1>a
  <1>3. PICK m \in s : \A i \in s : i <= m
    BY <1>2, LargestOf
  <1>4. \A y \in s : m >= y
    BY <1>2, <1>3
  <1> QED
    BY <1>3, <1>4 DEF Max

\* Counting one further, the new number is the largest.
LEMMA MaxUpTo ==
    ASSUME NEW m \in Nat
    PROVE  Max(1..(m + 1)) = m + 1 /\ (1..(m + 1)) \ {m + 1} = 1..m /\ 1..(m + 1) # {}
  <1> DEFINE s == 1..(m + 1)
  <1>1. s # {} /\ m + 1 \in s /\ \A y \in s : y \in Nat /\ y <= m + 1
    OBVIOUS
  <1>2. Max(s) \in s /\ \A y \in s : Max(s) >= y
    BY <1>1, MaxIs
  <1> HIDE DEF s
  <1>3. Max(s) = m + 1
    BY <1>1, <1>2
  <1> QED
    BY <1>1, <1>3 DEF s

\* There is such a chain, by the sizes of the sets.
LEMMA ChainExists ==
    ASSUME NEW n \in Nat, NEW V, NEW base \in V, NEW g \in [(1..n) \X V -> V]
    PROVE  \E it : Chain(it, n, V, base, g)
  <1> DEFINE D == 1..n
             Up(k) == {s \in SUBSET D : Cardinality(s) <= k}
             step(it, s) == IF s = {} THEN base ELSE g[<<Max(s), it[s \ {Max(s)}]>>]
             Fits(it, k) == it \in [Up(k) -> V] /\ \A s \in Up(k) : it[s] = step(it, s)
             Has == {k \in Nat : \E it : Fits(it, k)}
  <1>0. \A s \in SUBSET D : s # {} => Max(s) \in s
    BY MaxIs
  <1>a. IsFiniteSet(D)
    BY FS_Interval
  <1> HIDE DEF D
  <1>1. \A T \in SUBSET D : IsFiniteSet(T) /\ Cardinality(T) \in Nat
    BY <1>a, FS_Subset, FS_CardinalityType
  <1>2. 0 \in Has
    <2> DEFINE it == [s \in Up(0) |-> base]
    <2>1. \A s \in Up(0) : s = {}
      BY <1>1, FS_EmptySet
    <2>2. Fits(it, 0)
      BY <2>1
    <2> QED
      BY <2>2
  <1>3. ASSUME NEW k \in Has PROVE k + 1 \in Has
    <2>1. PICK it : Fits(it, k)
      OBVIOUS
    <2> DEFINE h == [s \in Up(k + 1) |-> step(it, s)]
    <2>2. ASSUME NEW s \in Up(k + 1), s # {}
          PROVE  /\ Max(s) \in D /\ s \ {Max(s)} \in Up(k) /\ s \ {Max(s)} \in Up(k + 1)
      <3>1. Max(s) \in s
        BY <1>0, <2>2
      <3>2. Cardinality(s \ {Max(s)}) = Cardinality(s) - 1
        BY <1>1, <3>1, FS_RemoveElement
      <3> QED
        BY <1>1, <3>1, <3>2
    <2> HIDE DEF Up
    <2>3. \A s \in Up(k + 1) : h[s] \in V
      <3> SUFFICES ASSUME NEW s \in Up(k + 1), s # {} PROVE step(it, s) \in V
        OBVIOUS
      <3>1. Max(s) \in D /\ it[s \ {Max(s)}] \in V
        BY <2>1, <2>2
      <3> QED
        BY <3>1 DEF D
    <2>4. \A s \in Up(k) : it[s] = step(it, s)
      BY <2>1
    <2>5. ASSUME NEW s \in Up(k + 1), s # {} PROVE h[s \ {Max(s)}] = it[s \ {Max(s)}]
      BY <2>2, <2>4, <2>5
    <2>6. \A s \in Up(k + 1) : h[s] = step(h, s)
      BY <2>5
    <2>7. Fits(h, k + 1)
      BY <2>3, <2>6
    <2>8. k + 1 \in Nat
      OBVIOUS
    <2> HIDE DEF h, Fits
    <2> QED
      BY <2>7, <2>8
  <1>4. Has = Nat
    <2>1. Has \in SUBSET Nat
      OBVIOUS
    <2> HIDE DEF Has
    <2> QED
      BY ONLY <1>2, <1>3, <2>1, CountingUp
  <1>5. Cardinality(D) \in Nat /\ Up(Cardinality(D)) = SUBSET D
    BY <1>1, <1>a, FS_Subset
  <1>6. PICK it : Fits(it, Cardinality(D))
    <2>1. Cardinality(D) \in Has
      BY <1>4, <1>5
    <2> HIDE DEF Fits
    <2> QED
      BY <2>1
  <1> HIDE DEF Up
  <1>7. it \in [SUBSET D -> V] /\ \A s \in SUBSET D : it[s] = step(it, s)
    BY <1>5, <1>6
  <1> QED
    BY <1>7 DEF Chain, D

\* What the fold has after each element.
Climb(it, n) == [i \in 0..n |-> it[1..i]]

Climbs(f, n, V, base, g) ==
    f \in [0..n -> V] /\ f[0] = base /\ \A i \in 1..n : f[i] = g[<<i, f[i - 1]>>]

\* Read from the empty list up, the chain is a sequence of sums.
LEMMA ChainFolds ==
    ASSUME NEW n \in Nat, NEW V, NEW base, NEW g, NEW it, Chain(it, n, V, base, g)
    PROVE  Climbs(Climb(it, n), n, V, base, g) /\ it[1..n] = Climb(it, n)[n]
  <1> DEFINE f == Climb(it, n)
  <1>0. f = [i \in 0..n |-> it[1..i]]
    BY DEF Climb
  <1>1. \A i \in 0..n : 1..i \in SUBSET (1..n)
    OBVIOUS
  <1> HIDE DEF f
  <1>2. f \in [0..n -> V]
    BY <1>0, <1>1 DEF Chain
  <1>3. f[0] = base
    <2>1. 1..0 = {} /\ f[0] = it[1..0]
      BY <1>0
    <2> QED
      BY <2>1 DEF Chain
  <1>4. ASSUME NEW i \in 1..n PROVE f[i] = g[<<i, f[i - 1]>>]
    <2>1. i - 1 \in Nat /\ i - 1 \in 0..n /\ i \in 0..n /\ (i - 1) + 1 = i
      OBVIOUS
    <2>2. Max(1..i) = i /\ (1..i) \ {i} = 1..(i - 1) /\ 1..i # {}
      BY ONLY <2>1, MaxUpTo
    <2>3. it[1..i] = g[<<i, it[1..(i - 1)]>>]
      BY <1>1, <2>1, <2>2 DEF Chain
    <2> QED
      BY <1>0, <2>1, <2>3
  <1>5. it[1..n] = f[n]
    BY <1>0
  <1> QED
    BY <1>2, <1>3, <1>4, <1>5 DEF f, Climbs

-------------------------------------------------------------------------------
(* The planner's lines (query_translation.py).                             *)

\* What sub_queries makes of one more line.
KeepLine(kept, line, known, limit) ==
    IF Len(kept) < limit /\ line # Noise /\ line.fold \notin Folds(known) \cup Folds(kept)
    THEN Append(kept, line) ELSE kept

\* f[i] is what is kept of the first i lines.
SubQueriesBy(f, reply, known, limit) ==
    /\ f[0] = <<>>
    /\ \A i \in 1..Len(reply) : f[i] = KeepLine(f[i - 1], reply[i], known, limit)
    /\ SubQueries(reply, known, limit) = f[Len(reply)]

\* The lines kept of a reply, one line after another.
LEMMA SubQueriesFold ==
    ASSUME NEW reply, IsList(reply), NEW known, NEW limit
    PROVE  \E f : SubQueriesBy(f, reply, known, limit)
  <1> DEFINE n == Len(reply)
             V == Seq(ToSet(reply))
             g == [p \in (1..n) \X V |-> KeepLine(p[2], reply[p[1]], known, limit)]
             iterated(it) == it = [s \in SUBSET (DOMAIN reply) |->
                 IF s = {} THEN <<>>
                 ELSE KeepLine(it[s \ {Max(s)}], reply[Max(s)], known, limit)]
             it == CHOOSE h : iterated(h)
  <1>1. n \in Nat /\ DOMAIN reply = 1..n /\ \A i \in 1..n : reply[i] \in ToSet(reply)
    BY DEF IsList, ToSet
  <1>2. g \in [(1..n) \X V -> V] /\ <<>> \in V
    <2> DEFINE S == ToSet(reply)
    <2>1. ASSUME NEW i \in 1..n, NEW kept \in Seq(S) PROVE KeepLine(kept, reply[i], known, limit) \in Seq(S)
      <3>1. reply[i] \in S
        BY <1>1
      <3> HIDE DEF S
      <3>2. Append(kept, reply[i]) \in Seq(S)
        BY <3>1
      <3> QED
        BY <3>2 DEF KeepLine
    <2> QED
      BY <2>1
  <1> HIDE DEF V, n
  <1>3. PICK c : Chain(c, n, V, <<>>, g)
    BY ONLY <1>1, <1>2, ChainExists
  <1>4. iterated(c)
    <2> DEFINE h == c
    <2>1. ASSUME NEW s \in SUBSET (1..n), s # {}
          PROVE  g[<<Max(s), h[s \ {Max(s)}]>>] = KeepLine(h[s \ {Max(s)}], reply[Max(s)], known, limit)
      <3>1. Max(s) \in 1..n /\ h[s \ {Max(s)}] \in V
        BY <1>1, <1>3, <2>1, MaxIs DEF Chain
      <3> QED
        BY <3>1
    <2> HIDE DEF g, Climbs
    <2> QED
      BY <1>1, <1>3, <2>1 DEF Chain
  <1>6. iterated(it)
    BY <1>4
  <1>7. it = c
    <2> DEFINE E == {s \in SUBSET (1..n) : it[s] = c[s]}
    <2>1. {} \in E
      BY <1>1, <1>4, <1>6
    <2>2. ASSUME NEW T \in SUBSET (1..n), T # {}, \A x \in T : T \ {x} \in E PROVE T \in E
      <3>1. Max(T) \in T
        BY <1>1, <2>2, MaxIs
      <3>2. it[T \ {Max(T)}] = c[T \ {Max(T)}]
        BY <2>2, <3>1
      <3> HIDE DEF it
      <3>3. /\ it[T] = KeepLine(it[T \ {Max(T)}], reply[Max(T)], known, limit)
            /\ c[T] = KeepLine(c[T \ {Max(T)}], reply[Max(T)], known, limit)
        BY <1>1, <1>4, <1>6, <2>2
      <3> QED
        BY <3>2, <3>3
    <2>3. IsFiniteSet(1..n)
      BY <1>1, FS_Interval
    <2> HIDE DEF E, iterated
    <2>4. \A T \in SUBSET (1..n) : T \in E
      BY ONLY <2>1, <2>2, <2>3, Shrinking
    <2>5. \A T \in SUBSET (1..n) : it[T] = c[T]
      BY <2>4 DEF E
    <2>6. /\ c = [s \in SUBSET (1..n) |-> c[s]] /\ it = [s \in SUBSET (1..n) |-> it[s]]
      <3>1. it = [s \in SUBSET (1..n) |-> it[s]]
        <4> HIDE DEF it
        <4> QED
          BY <1>1, <1>6 DEF iterated
      <3> QED
        BY <1>3, <3>1 DEF Chain
    <2> HIDE DEF it
    <2> QED
      BY <2>5, <2>6
  <1>8. SubQueries(reply, known, limit) = it[1..n]
    BY <1>1 DEF SubQueries, FoldLeft, MapThenFoldSet, KeepLine
  <1> HIDE DEF it, iterated, g
  <1> DEFINE f == Climb(c, n)
  <1>9. Climbs(f, n, V, <<>>, g) /\ c[1..n] = f[n]
    <2>1. n \in Nat
      BY <1>1
    <2> QED
      BY ONLY <2>1, <1>3, ChainFolds
  <1> HIDE DEF f
  <1>10. \A i \in 1..n : f[i] = KeepLine(f[i - 1], reply[i], known, limit)
    <2> SUFFICES ASSUME NEW i \in 1..n PROVE f[i] = KeepLine(f[i - 1], reply[i], known, limit)
      OBVIOUS
    <2>1. i - 1 \in 0..n
      BY <1>1
    <2>2. f[i - 1] \in V
      BY <1>9, <2>1 DEF Climbs
    <2> QED
      BY <1>9, <2>2 DEF g, Climbs
  <1> QED
    BY <1>7, <1>8, <1>9, <1>10 DEF n, V, Climbs, SubQueriesBy

FoldsAt(reply, K) == {reply[i].fold : i \in K}

\* The lines at K are what is kept of the first m.
Kept(K, m, reply, known, limit) ==
    /\ K \in SUBSET (1..m)
    /\ \A i \in K : reply[i] # Noise /\ reply[i].fold \notin Folds(known)
    /\ \A i, j \in K : reply[i].fold = reply[j].fold => i = j
    /\ Cardinality(K) <= limit
    /\ Cardinality(K) < limit =>
          \A i \in 1..m : reply[i] # Noise => reply[i].fold \in Folds(known) \cup FoldsAt(reply, K)

\* The folds of the lines at some places.
LEMMA FoldsOfThose ==
    ASSUME NEW K \in SUBSET Nat, IsFiniteSet(K), NEW reply
    PROVE  Folds(Those(reply, K)) = FoldsAt(reply, K)
  <1> DEFINE t == Those(reply, K)
  <1>1. ToSet(t) = {reply[i] : i \in K}
    BY ThoseHold
  <1>2. ToSet(t) = {t[i] : i \in DOMAIN t}
    BY DEF ToSet
  <1> HIDE DEF t
  <1>3. \A x : (\E i \in DOMAIN t : x = t[i].fold) <=> (\E i \in K : x = reply[i].fold)
    <2>1. ASSUME NEW i \in DOMAIN t PROVE \E j \in K : t[i].fold = reply[j].fold
      <3>1. t[i] \in {reply[j] : j \in K}
        BY <1>1, <1>2
      <3> QED
        BY <3>1
    <2>2. ASSUME NEW j \in K PROVE \E i \in DOMAIN t : reply[j].fold = t[i].fold
      <3>1. reply[j] \in {t[i] : i \in DOMAIN t}
        BY <1>1, <1>2
      <3> QED
        BY <3>1
    <2> QED
      BY <2>1, <2>2
  <1> QED
    BY <1>3 DEF t, Folds, FoldsAt

\* One more place, after them all.
LEMMA ThoseAppend ==
    ASSUME NEW m \in Nat, NEW K \in SUBSET (1..m), NEW seq
    PROVE  /\ IsFiniteSet(K) /\ K \in SUBSET Nat
           /\ Cardinality(K \cup {m + 1}) = Cardinality(K) + 1
           /\ Those(seq, K \cup {m + 1}) = Append(Those(seq, K), seq[m + 1])
  <1>1. IsFiniteSet(1..m)
    BY FS_Interval
  <1>2. IsFiniteSet(K)
    BY ONLY <1>1, K \in SUBSET (1..m), FS_Subset
  <1>3. K \in SUBSET Nat /\ m + 1 \in Nat /\ \A i \in K : i < m + 1
    OBVIOUS
  <1>4. /\ Cardinality(K) \in Nat
        /\ Cardinality(K \cup {m + 1}) = Cardinality(K) + 1
        /\ \A k \in 1..Cardinality(K) : Nth(K \cup {m + 1}, k) = Nth(K, k)
        /\ Nth(K \cup {m + 1}, Cardinality(K) + 1) = m + 1
    BY ONLY <1>2, <1>3, NthKeeps
  <1> DEFINE n == Cardinality(K)
             t == [k \in 1..n |-> seq[Nth(K, k)]]
             R == K \cup {m + 1}
             u == [k \in 1..(n + 1) |-> seq[Nth(R, k)]]
  <1>5. Append(t, seq[m + 1]) = [k \in 1..(n + 1) |-> IF k = n + 1 THEN seq[m + 1] ELSE t[k]]
    <2> DEFINE S == {t[k] : k \in 1..n} \cup {seq[m + 1]}
    <2>1. t \in [1..n -> S] /\ seq[m + 1] \in S /\ n \in Nat
      BY <1>4
    <2> HIDE DEF t, S, n
    <2>2. t \in Seq(S) /\ Len(t) = n
      BY <2>1
    <2> QED
      BY <2>1, <2>2
  <1>6. ASSUME NEW k \in 1..(n + 1) PROVE u[k] = IF k = n + 1 THEN seq[m + 1] ELSE t[k]
    <2>1. u[k] = seq[Nth(R, k)]
      OBVIOUS
    <2>2. CASE k = n + 1
      BY <1>4, <2>1, <2>2
    <2>3. CASE k # n + 1
      <3>1. k \in 1..n
        BY <1>4, <2>3
      <3>2. Nth(R, k) = Nth(K, k)
        BY <1>4, <3>1
      <3> QED
        BY <2>1, <2>3, <3>1, <3>2
    <2> QED
      BY <2>2, <2>3
  <1>7. u = Append(t, seq[m + 1])
    <2>1. u = [k \in 1..(n + 1) |-> u[k]]
      OBVIOUS
    <2> HIDE DEF u, t, n
    <2> QED
      BY <1>5, <1>6, <2>1
  <1>8. Those(seq, R) = u /\ Those(seq, K) = t
    BY <1>4 DEF Those
  <1> QED
    BY <1>2, <1>3, <1>4, <1>7, <1>8

\* One line more.
LEMMA KeptStep ==
    ASSUME NEW m \in Nat, NEW limit \in Nat, NEW reply, NEW known, NEW K, Kept(K, m, reply, known, limit)
    PROVE  \E R : /\ Kept(R, m + 1, reply, known, limit)
                  /\ KeepLine(Those(reply, K), reply[m + 1], known, limit) = Those(reply, R)
  <1> DEFINE line == reply[m + 1]
             R == K \cup {m + 1}
  <1>1. K \in SUBSET (1..m) /\ 1..(m + 1) = (1..m) \cup {m + 1} /\ m + 1 \notin K
    BY DEF Kept
  <1>2. IsFiniteSet(K) /\ K \in SUBSET Nat /\ Cardinality(R) = Cardinality(K) + 1
        /\ Those(reply, R) = Append(Those(reply, K), line)
    BY ONLY <1>1, m \in Nat, ThoseAppend
  <1>3. Len(Those(reply, K)) = Cardinality(K) /\ Cardinality(K) \in Nat
    BY ONLY <1>2, ThoseHold
  <1>4. Folds(Those(reply, K)) = FoldsAt(reply, K)
    BY ONLY <1>2, FoldsOfThose
  <1>5. FoldsAt(reply, R) = FoldsAt(reply, K) \cup {line.fold}
    BY DEF FoldsAt
  <1>6. CASE Cardinality(K) < limit /\ line # Noise /\ line.fold \notin Folds(known) \cup FoldsAt(reply, K)
    <2>1. KeepLine(Those(reply, K), line, known, limit) = Those(reply, R)
      BY <1>2, <1>3, <1>4, <1>6 DEF KeepLine
    <2>2. \A i \in R : reply[i] # Noise /\ reply[i].fold \notin Folds(known)
      BY <1>6 DEF Kept
    <2>3. \A i, j \in R : reply[i].fold = reply[j].fold => i = j
      <3>1. \A i \in K : reply[i].fold # line.fold
        BY <1>6 DEF FoldsAt
      <3> QED
        BY <3>1 DEF Kept
    <2>4. Cardinality(R) <= limit
      BY <1>2, <1>3, <1>6
    <2>5. \A i \in 1..(m + 1) : reply[i] # Noise => reply[i].fold \in Folds(known) \cup FoldsAt(reply, R)
      BY <1>1, <1>5, <1>6 DEF Kept
    <2>6. R \in SUBSET (1..(m + 1))
      BY <1>1
    <2> HIDE DEF R, line
    <2> QED
      BY <2>1, <2>2, <2>3, <2>4, <2>5, <2>6 DEF Kept, line
  <1>7. CASE ~(Cardinality(K) < limit /\ line # Noise /\ line.fold \notin Folds(known) \cup FoldsAt(reply, K))
    <2>1. KeepLine(Those(reply, K), line, known, limit) = Those(reply, K)
      BY <1>3, <1>4, <1>7 DEF KeepLine
    <2>2. Cardinality(K) < limit =>
             \A i \in 1..(m + 1) : reply[i] # Noise => reply[i].fold \in Folds(known) \cup FoldsAt(reply, K)
      BY <1>1, <1>7 DEF Kept
    <2>3. Kept(K, m + 1, reply, known, limit)
      BY <1>1, <2>2 DEF Kept
    <2> QED
      BY <2>1, <2>3
  <1> QED
    BY <1>6, <1>7

\* What sub_queries keeps, of any reply.
LEMMA SubQueriesKeep ==
    ASSUME NEW reply, IsList(reply), NEW known, NEW limit \in Nat
    PROVE  \E K : /\ Kept(K, Len(reply), reply, known, limit)
                  /\ SubQueries(reply, known, limit) = Those(reply, K)
  <1> DEFINE n == Len(reply)
  <1>1. n \in Nat
    BY DEF IsList
  <1>0. PICK f : SubQueriesBy(f, reply, known, limit)
    BY ONLY IsList(reply), SubQueriesFold
  <1>2. /\ f[0] = <<>>
        /\ \A i \in 1..n : f[i] = KeepLine(f[i - 1], reply[i], known, limit)
        /\ SubQueries(reply, known, limit) = f[n]
    BY <1>0 DEF SubQueriesBy
  <1> HIDE DEF n
  <1> DEFINE Good(m) == \E K : Kept(K, m, reply, known, limit) /\ f[m] = Those(reply, K)
             G == {m \in Nat : m <= n => Good(m)}
  <1>3. Good(0)
    <2>1. Cardinality({}) = 0 /\ IsFiniteSet({})
      BY FS_EmptySet
    <2>2. Kept({}, 0, reply, known, limit)
      BY <2>1 DEF Kept
    <2>3. Those(reply, {}) = <<>>
      BY <2>1 DEF Those
    <2> QED
      BY <1>2, <2>2, <2>3
  <1>4. ASSUME NEW m \in G PROVE m + 1 \in G
    <2> SUFFICES ASSUME m + 1 <= n PROVE Good(m + 1)
      OBVIOUS
    <2>1. m \in Nat /\ m <= n /\ m + 1 \in 1..n /\ (m + 1) - 1 = m
      BY <1>1
    <2>2. PICK K : Kept(K, m, reply, known, limit) /\ f[m] = Those(reply, K)
      BY <2>1
    <2>3. f[m + 1] = KeepLine(f[m], reply[m + 1], known, limit)
      BY <1>2, <2>1
    <2>4. PICK R : /\ Kept(R, m + 1, reply, known, limit)
                   /\ KeepLine(Those(reply, K), reply[m + 1], known, limit) = Those(reply, R)
      BY ONLY <2>1, <2>2, limit \in Nat, KeptStep
    <2> QED
      BY <2>2, <2>3, <2>4
  <1> HIDE DEF Good
  <1>5. 0 \in G /\ G \in SUBSET Nat
    BY <1>3
  <1> HIDE DEF G
  <1>6. G = Nat
    BY ONLY <1>4, <1>5, CountingUp
  <1>7. Good(n)
    BY <1>1, <1>6 DEF G
  <1> QED
    BY <1>2, <1>7 DEF Good, n

\* The places after the first one.
LEMMA NthAfterFirst ==
    ASSUME NEW n \in Nat
    PROVE  Cardinality(2..(n + 1)) = n /\ \A k \in 1..n : Nth(2..(n + 1), k) = k + 1
  <1> DEFINE G == {m \in Nat : \A k \in 1..m : Nth(2..(m + 1), k) = k + 1}
  <1>1. 0 \in G
    OBVIOUS
  <1>a. \A m \in Nat : IsFiniteSet(2..(m + 1)) /\ Cardinality(2..(m + 1)) = m
    BY FS_Interval
  <1>2. ASSUME NEW m \in G PROVE m + 1 \in G
    <2>1. /\ 2..(m + 1) \in SUBSET Nat /\ m + 2 \in Nat /\ \A i \in 2..(m + 1) : i < m + 2
          /\ 2..((m + 1) + 1) = (2..(m + 1)) \cup {m + 2}
          /\ IsFiniteSet(2..(m + 1)) /\ Cardinality(2..(m + 1)) = m
      BY <1>a
    <2>2. /\ \A k \in 1..Cardinality(2..(m + 1)) : Nth((2..(m + 1)) \cup {m + 2}, k) = Nth(2..(m + 1), k)
          /\ Nth((2..(m + 1)) \cup {m + 2}, Cardinality(2..(m + 1)) + 1) = m + 2
      BY ONLY <2>1, NthKeeps
    <2>3. \A k \in 1..m : Nth(2..((m + 1) + 1), k) = k + 1
      BY <2>1, <2>2
    <2>4. Nth(2..((m + 1) + 1), m + 1) = m + 2
      BY <2>1, <2>2
    <2>5. \A k \in 1..(m + 1) : Nth(2..((m + 1) + 1), k) = k + 1
      BY <2>3, <2>4
    <2> QED
      BY <2>5
  <1>3. G \in SUBSET Nat
    OBVIOUS
  <1>4. G = Nat
    <2> HIDE DEF G
    <2> QED
      BY ONLY <1>1, <1>2, <1>3, CountingUp
  <1> QED
    BY <1>4, <1>a

\* All but the first.
LEMMA ThoseAfterFirst ==
    ASSUME NEW S, NEW first \in S, NEW rest \in Seq(S)
    PROVE  Those(<<first>> \o rest, 2..(Len(rest) + 1)) = rest
  <1> DEFINE n == Len(rest)
             t == <<first>> \o rest
  <1>1. n \in Nat /\ rest = [k \in 1..n |-> rest[k]] /\ \A k \in 1..n : t[k + 1] = rest[k]
    OBVIOUS
  <1>2. Cardinality(2..(n + 1)) = n /\ \A k \in 1..n : Nth(2..(n + 1), k) = k + 1
    BY <1>1, NthAfterFirst
  <1> HIDE DEF n, t
  <1>3. Those(t, 2..(n + 1)) = [k \in 1..n |-> t[Nth(2..(n + 1), k)]]
    BY <1>2 DEF Those
  <1> QED
    BY <1>1, <1>2, <1>3 DEF t, n

\* As many folds as texts, where no two agree.
LEMMA FoldsCount ==
    ASSUME NEW v, NEW n \in Nat, DOMAIN v = 1..n,
           \A i, j \in 1..n : v[i].fold = v[j].fold => i = j
    PROVE  Cardinality(Folds(v)) = n
  <1> DEFINE f == [i \in 1..n |-> v[i].fold]
  <1>1. f \in Bijection(1..n, Folds(v))
    <2>1. f \in [1..n -> Folds(v)] /\ \A i, j \in 1..n : f[i] = f[j] => i = j
      BY DEF Folds
    <2>2. \A t \in Folds(v) : \E i \in 1..n : f[i] = t
      BY DEF Folds
    <2> QED
      BY <2>1, <2>2 DEF Bijection, Injection, Surjection, IsInjective
  <1>2. IsFiniteSet(1..n) /\ Cardinality(1..n) = n
    BY FS_Interval
  <1>3. ExistsBijection(1..n, Folds(v))
    BY <1>1 DEF ExistsBijection
  <1> QED
    BY <1>2, <1>3, FS_Bijection

\* Lists are equal where they agree.
LEMMA SameList ==
    ASSUME NEW S, NEW s \in Seq(S), NEW t \in Seq(S), Len(s) = Len(t), \A i \in 1..Len(s) : s[i] = t[i]
    PROVE  s = t
  OBVIOUS

\* v is the question, its other form and the planner's lines, cut where the page cuts it.
Cut(v, q, form, subs) ==
    /\ DOMAIN v = 1..Len(v) /\ Len(v) = 1 + Len(form) + Len(subs) /\ Len(v) \in Nat
    /\ v[1] = q /\ Head(v) = q
    /\ Tail(v) = form \o subs
    /\ SubSeq(v, 2 + Len(form), Len(v)) = subs
    /\ Len(form) = 1 => v[2] = form[1]
    /\ \A i \in 1..Len(subs) : v[1 + Len(form) + i] = subs[i]

\* Each place of the question, its form and the planned lines, joined,
\* holds what its part holds there.
LEMMA CutsApart ==
    ASSUME NEW S, NEW q \in S, NEW form \in Seq(S), Len(form) \in 0..1, NEW subs \in Seq(S)
    PROVE  Cut((<<q>> \o form) \o subs, q, form, subs)
  <1> DEFINE v == (<<q>> \o form) \o subs
  <1>1. v \in Seq(S) /\ Len(v) = 1 + Len(form) + Len(subs) /\ Len(v) \in Nat /\ Len(form) \in 0..1
        /\ Len(subs) \in Nat
    <2> DEFINE k == <<q>> \o form
    <2>0. <<q>> \in Seq(S) /\ Len(<<q>>) = 1
      OBVIOUS
    <2>4. Len(form) \in Nat /\ Len(subs) \in Nat
      BY ONLY form \in Seq(S), subs \in Seq(S)
    <2>3. Len(form) \in 0..1 /\ Len(subs) \in Nat
      BY ONLY <2>4, Len(form) \in 0..1
    <2>1. k \in Seq(S) /\ Len(k) = 1 + Len(form)
      BY <2>0
    <2> HIDE DEF k
    <2>2. k \o subs \in Seq(S) /\ Len(k \o subs) = Len(k) + Len(subs)
      BY <2>1
    <2> QED
      BY <2>1, <2>2, <2>3 DEF k
  <1>2. v[1] = q /\ (Len(form) = 1 => v[2] = form[1])
    OBVIOUS
  <1>3. \A i \in 1..Len(subs) : v[1 + Len(form) + i] = subs[i]
    OBVIOUS
  <1>4. form \o subs \in Seq(S) /\ Len(form \o subs) = Len(form) + Len(subs)
    OBVIOUS
  <1>5. \A i \in 1..Len(form \o subs) : v[i + 1] = (form \o subs)[i]
    <2> SUFFICES ASSUME NEW i \in 1..Len(form \o subs) PROVE v[i + 1] = (form \o subs)[i]
      OBVIOUS
    <2>1. CASE Len(form) = 0
      BY <2>1, <1>1, <1>4, <1>3
    <2>2. CASE Len(form) = 1
      BY <2>2, <1>1, <1>4, <1>2, <1>3
    <2> QED
      BY <1>1, <2>1, <2>2
  <1> HIDE DEF v
  <1>6. Tail(v) = form \o subs
    <2> DEFINE w == form \o subs
               t == Tail(v)
    <2>1. t \in Seq(S) /\ Len(t) = Len(v) - 1 /\ \A i \in 1..Len(t) : t[i] = v[i + 1]
      BY <1>1
    <2>2. w \in Seq(S) /\ Len(w) = Len(v) - 1 /\ \A i \in 1..Len(w) : v[i + 1] = w[i]
      BY <1>1, <1>4, <1>5
    <2> HIDE DEF w, t
    <2>3. Len(t) = Len(w) /\ \A i \in 1..Len(t) : t[i] = w[i]
      BY <2>1, <2>2
    <2>4. t = w
      BY ONLY <2>1, <2>2, <2>3, SameList
    <2> QED
      BY <2>4 DEF w, t
  <1>7. SubSeq(v, 2 + Len(form), Len(v)) = subs
    <2> DEFINE k == Len(form)
    <2>1. k \in 0..1 /\ Len(v) = 1 + k + Len(subs) /\ \A i \in 1..Len(subs) : v[1 + k + i] = subs[i]
      BY <1>1, <1>3
    <2> HIDE DEF k
    <2>2. SubSeq(v, 2 + k, Len(v)) = [i \in 1..Len(subs) |-> v[(2 + k) + i - 1]]
      BY <2>1, <1>1
    <2>3. \A i \in 1..Len(subs) : v[(2 + k) + i - 1] = subs[i]
      BY <2>1
    <2>4. subs = [i \in 1..Len(subs) |-> subs[i]]
      OBVIOUS
    <2> QED
      BY <2>2, <2>3, <2>4 DEF k
  <1>8. Head(v) = v[1] /\ DOMAIN v = 1..Len(v)
    BY <1>1
  <1> QED
    BY <1>1, <1>2, <1>3, <1>6, <1>7, <1>8 DEF v, Cut

\* No place comes twice.
LEMMA NthApart ==
    ASSUME NEW S \in SUBSET Nat, IsFiniteSet(S)
    PROVE  \A i, j \in 1..Cardinality(S) : Nth(S, i) = Nth(S, j) => i = j
  <1> DEFINE n == Cardinality(S)
             f == [k \in 1..n |-> Nth(S, k)]
  <1>1. /\ \A k \in 1..n : Nth(S, k) \in S
        /\ \A i \in S : \E k \in 1..n : Nth(S, k) = i
        /\ n \in Nat
    BY NthIs, NthReaches, FS_CardinalityType
  <1>2. IsFiniteSet(1..n) /\ Cardinality(1..n) = n
    BY <1>1, FS_Interval
  <1>3. f \in Surjection(1..n, S)
    <2>1. f \in [1..n -> S]
      BY <1>1
    <2>2. \A t \in S : \E k \in 1..n : f[k] = t
      BY <1>1
    <2> QED
      BY <2>1, <2>2 DEF Surjection
  <1>4. f \in Injection(1..n, S)
    <2> HIDE DEF f
    <2>1. Cardinality(1..n) = Cardinality(S)
      BY <1>2
    <2> QED
      BY ONLY <1>2, <1>3, <2>1, FS_SurjSameCardinalityImpliesInj
  <1> QED
    BY <1>4 DEF Injection, IsInjective

\* What is taken from a list is a list.
LEMMA ThoseList ==
    ASSUME NEW seq, IsList(seq), NEW K \in SUBSET (1..Len(seq))
    PROVE  /\ IsFiniteSet(K) /\ K \in SUBSET Nat
           /\ Those(seq, K) \in Seq(ToSet(seq))
           /\ Len(Those(seq, K)) = Cardinality(K)
           /\ \A i \in 1..Len(Those(seq, K)) : \E j \in K : j = Nth(K, i) /\ Those(seq, K)[i] = seq[j]
  <1>1. Len(seq) \in Nat /\ DOMAIN seq = 1..Len(seq)
    BY DEF IsList
  <1>2. IsFiniteSet(1..Len(seq))
    BY <1>1, FS_Interval
  <1>3. IsFiniteSet(K) /\ K \in SUBSET Nat
    <2>1. IsFiniteSet(K)
      BY ONLY <1>2, K \in SUBSET (1..Len(seq)), FS_Subset
    <2> QED
      BY <1>1, <2>1
  <1>4. Cardinality(K) \in Nat /\ \A k \in 1..Cardinality(K) : Nth(K, k) \in K
    BY ONLY <1>3, NthIs, FS_CardinalityType
  <1> DEFINE n == Cardinality(K)
             S == ToSet(seq)
             t == [k \in 1..n |-> seq[Nth(K, k)]]
  <1>5. \A k \in 1..n : seq[Nth(K, k)] \in S
    BY <1>1, <1>4 DEF ToSet
  <1>6. Those(seq, K) = t
    BY DEF Those
  <1>8. \A i \in 1..n : \E j \in K : j = Nth(K, i) /\ t[i] = seq[j]
    BY <1>4
  <1>7. t \in Seq(S) /\ Len(t) = n
    <2>1. n \in Nat /\ t \in [1..n -> S]
      BY <1>4, <1>5
    <2> HIDE DEF t, n, S
    <2> QED
      BY <2>1
  <1> HIDE DEF t, n
  <1> QED
    BY <1>3, <1>6, <1>7, <1>8 DEF n

\* What a question is retrieved over.
LEMMA TranslateIs ==
    ASSUME NEW q, NEW reply, IsList(reply), NEW cap \in Nat
    PROVE  \E K : /\ Kept(K, Len(reply), reply, <<q>> \o Normalised(q), cap)
                  /\ Translate(q, reply, cap) = (<<q>> \o Normalised(q)) \o Those(reply, K)
  <1> DEFINE known == <<q>> \o Normalised(q)
  <1>1. CASE cap > 0
    <2> HIDE DEF known
    <2>1. PICK K : /\ Kept(K, Len(reply), reply, known, cap)
                   /\ SubQueries(reply, known, cap) = Those(reply, K)
      BY ONLY IsList(reply), cap \in Nat, SubQueriesKeep
    <2> QED
      BY <1>1, <2>1 DEF Translate, known
  <1>2. CASE ~(cap > 0)
    <2>1. cap = 0
      BY <1>2
    <2>2. IsFiniteSet({}) /\ Cardinality({}) = 0
      BY FS_EmptySet
    <2> HIDE DEF known
    <2>3. Kept({}, Len(reply), reply, known, cap)
      BY <2>1, <2>2 DEF Kept
    <2>4. Those(reply, {}) = <<>>
      BY <2>2 DEF Those
    <2> QED
      BY <1>2, <2>3, <2>4 DEF Translate, known
  <1> QED
    BY <1>1, <1>2

\* The lines kept have folds of their own, apart from the known ones.
LEMMA KeptApart ==
    ASSUME NEW reply, IsList(reply), NEW known, NEW limit \in Nat, NEW K,
           Kept(K, Len(reply), reply, known, limit)
    PROVE  LET subs == Those(reply, K) IN
           /\ subs \in Seq(ToSet(reply)) /\ Len(subs) = Cardinality(K) /\ Len(subs) <= limit
           /\ \A i \in 1..Len(subs) : subs[i].fold \notin Folds(known)
           /\ \A i, j \in 1..Len(subs) : subs[i].fold = subs[j].fold => i = j
           /\ Folds(subs) = FoldsAt(reply, K)
  <1> DEFINE subs == Those(reply, K)
  <1>1. K \in SUBSET (1..Len(reply))
    BY DEF Kept
  <1>2. /\ IsFiniteSet(K) /\ K \in SUBSET Nat
        /\ subs \in Seq(ToSet(reply)) /\ Len(subs) = Cardinality(K)
        /\ \A i \in 1..Len(subs) : \E j \in K : j = Nth(K, i) /\ subs[i] = reply[j]
    BY ONLY <1>1, IsList(reply), ThoseList
  <1>3. Folds(subs) = FoldsAt(reply, K)
    BY ONLY <1>2, FoldsOfThose
  <1> HIDE DEF subs
  <1>4. \A i \in 1..Len(subs) : subs[i].fold \notin Folds(known)
    BY <1>2 DEF Kept
  <1>5. ASSUME NEW i \in 1..Len(subs), NEW j \in 1..Len(subs), subs[i].fold = subs[j].fold PROVE i = j
    <2>1. Nth(K, i) \in K /\ Nth(K, j) \in K /\ subs[i] = reply[Nth(K, i)] /\ subs[j] = reply[Nth(K, j)]
      BY <1>2
    <2>2. Nth(K, i) = Nth(K, j)
      BY <1>5, <2>1 DEF Kept
    <2>3. \A k, l \in 1..Cardinality(K) : Nth(K, k) = Nth(K, l) => k = l
      BY ONLY <1>2, NthApart
    <2> QED
      BY <1>2, <2>2, <2>3
  <1> QED
    BY <1>2, <1>3, <1>4, <1>5 DEF Kept, subs

\* What the page makes of the variants.
LEMMA PageKnows ==
    ASSUME NEW S, NEW q \in S, NEW form, NEW subs \in Seq(S),
           form = Normalised(q), form \in Seq(S), Len(form) \in 0..1,
           \A i \in 1..Len(subs) : subs[i].fold \notin Folds(<<q>> \o form)
    PROVE  AddedVariants((<<q>> \o form) \o subs) = [form |-> form, planned |-> subs]
  <1> DEFINE v == (<<q>> \o form) \o subs
  <1>0. Cut(v, q, form, subs)
    BY ONLY q \in S, subs \in Seq(S), form \in Seq(S), Len(form) \in 0..1, CutsApart
  <1> HIDE DEF v
  <1>1. Head(v) = q /\ Tail(v) = form \o subs
    BY <1>0 DEF Cut
  <1>2. CASE form = <<>>
    <2>1. Tail(v) = subs
      BY <1>1, <1>2
    <2> QED
      BY <1>1, <1>2, <2>1 DEF AddedVariants, v
  <1>3. CASE form # <<>>
    <2>1. form = <<Rewritten(q)>>
      BY <1>3 DEF Normalised
    <2> DEFINE r == form[1]
               added == Tail(v)
    <2>2. r \in S /\ form = <<r>>
      BY <2>1
    <2>3. r.fold \in Folds(<<q>> \o form)
      <3>1. (<<q>> \o <<r>>)[2] = r /\ 2 \in DOMAIN (<<q>> \o <<r>>)
        BY <2>2
      <3> QED
        BY <2>2, <3>1 DEF Folds
    <2> HIDE DEF r
    <2>4. Len(subs) \in Nat /\ Len(<<r>> \o subs) = Len(subs) + 1 /\ (<<r>> \o subs)[1] = r
          /\ DOMAIN (<<r>> \o subs) = 1..(Len(subs) + 1)
          /\ \A i \in 2..(Len(subs) + 1) : (<<r>> \o subs)[i] = subs[i - 1]
      BY <2>2
    <2>5. added = <<r>> \o subs
      BY <1>1, <2>2
    <2> HIDE DEF added
    <2>6. Contains(added, r)
      BY <2>4, <2>5 DEF Contains
    <2>7. \A i \in 2..(Len(subs) + 1) : added[i] # r
      <3> SUFFICES ASSUME NEW i \in 2..(Len(subs) + 1), added[i] = r PROVE FALSE
        OBVIOUS
      <3>1. i - 1 \in 1..Len(subs) /\ added[i] = subs[i - 1]
        BY <2>4, <2>5
      <3>2. subs[i - 1].fold \notin Folds(<<q>> \o form)
        BY <3>1
      <3> QED
        BY <2>3, <3>1, <3>2
    <2>8. {i \in DOMAIN added : added[i] # r} = 2..(Len(subs) + 1)
      BY <2>4, <2>5, <2>7
    <2>9. Those(added, 2..(Len(subs) + 1)) = subs
      BY <2>2, <2>5, ThoseAfterFirst
    <2>10. AddedVariants(v) = [form |-> form, planned |-> Those(added, {i \in DOMAIN added : added[i] # r})]
      BY <1>1, <1>3, <2>6 DEF AddedVariants, added, r
    <2> QED
      BY <2>8, <2>9, <2>10 DEF v
  <1> QED
    BY <1>2, <1>3

AllDiffer(v, known, subs) ==
    Cardinality(Folds(v)) = Len(v) /\ Folds(v) = Folds(known) \cup Folds(subs)

\* The variants of one question, none twice.
LEMMA VariantsDiffer ==
    ASSUME NEW S, NEW q \in S, NEW form, NEW subs \in Seq(S),
           form = Normalised(q), form \in Seq(S), Len(form) \in 0..1,
           \A i \in 1..Len(subs) : subs[i].fold \notin Folds(<<q>> \o form),
           \A i, j \in 1..Len(subs) : subs[i].fold = subs[j].fold => i = j
    PROVE  AllDiffer((<<q>> \o form) \o subs, <<q>> \o form, subs)
  <1> DEFINE v == (<<q>> \o form) \o subs
             known == <<q>> \o form
             k == 1 + Len(form)
  <1>a. Cut(v, q, form, subs)
    BY ONLY q \in S, subs \in Seq(S), form \in Seq(S), Len(form) \in 0..1, CutsApart
  <1>1. Len(subs) \in Nat /\ DOMAIN subs = 1..Len(subs)
    BY ONLY subs \in Seq(S)
  <1>2. DOMAIN known = 1..k /\ known[1] = q /\ (Len(form) = 1 => known[2] = form[1]) /\ k \in 1..2
    <2>1. <<q>> \in Seq(S) /\ Len(<<q>>) = 1
      BY ONLY q \in S
    <2>2. known \in Seq(S) /\ Len(known) = k
      BY ONLY <2>1, q \in S, form \in Seq(S)
    <2>3. known[1] = q
      BY ONLY q \in S, form \in Seq(S)
    <2>4. Len(form) = 1 => known[2] = form[1]
      BY ONLY q \in S, form \in Seq(S)
    <2>7. \A l \in 0..1 : 1 + l \in 1..2
      OBVIOUS
    <2>5. k \in 1..2
      BY ONLY <2>7, Len(form) \in 0..1
    <2> HIDE DEF known, k
    <2>6. DOMAIN known = 1..k
      BY <2>2
    <2> QED
      BY <2>6, <2>3, <2>4, <2>5
  <1> HIDE DEF v, known
  <1>0. /\ DOMAIN v = 1..Len(v) /\ Len(v) = 1 + Len(form) + Len(subs) /\ Len(v) \in Nat
        /\ v[1] = q
        /\ Len(form) = 1 => v[2] = form[1]
        /\ \A i \in 1..Len(subs) : v[1 + Len(form) + i] = subs[i]
    BY <1>a DEF Cut
  <1>3. \A i \in 1..k : v[i] = known[i]
    BY <1>0, <1>2
  <1>4. \A i, j \in 1..k : v[i].fold = v[j].fold => i = j
    <2>1. Len(form) = 1 => v[1].fold # v[2].fold
      BY <1>0 DEF Normalised
    <2> QED
      BY <1>2, <2>1
  <1>5. \A i \in 1..k : v[i].fold \in Folds(known)
    BY <1>2, <1>3 DEF Folds
  <1>6. \A i \in (k + 1)..Len(v) : i - k \in 1..Len(subs) /\ v[i] = subs[i - k]
    <2> SUFFICES ASSUME NEW i \in (k + 1)..Len(v) PROVE i - k \in 1..Len(subs) /\ v[i] = subs[i - k]
      OBVIOUS
    <2>1. i - k \in 1..Len(subs) /\ 1 + Len(form) + (i - k) = i
      BY <1>0, <1>1, <1>2
    <2> QED
      BY <1>0, <2>1
  <1>7. \A i \in (k + 1)..Len(v) : v[i].fold \notin Folds(known)
    BY <1>6 DEF known
  <1> HIDE DEF k
  <1>8. \A i, j \in 1..Len(v) : v[i].fold = v[j].fold => i = j
    <2> SUFFICES ASSUME NEW i \in 1..Len(v), NEW j \in 1..Len(v), v[i].fold = v[j].fold PROVE i = j
      OBVIOUS
    <2>1. \A l \in 1..Len(v) : l \in 1..k \/ l \in (k + 1)..Len(v)
      BY <1>0, <1>2
    <2>2. CASE i \in 1..k /\ j \in 1..k
      BY <1>4, <2>2
    <2>3. CASE i \in (k + 1)..Len(v) /\ j \in (k + 1)..Len(v)
      <3>1. i - k \in 1..Len(subs) /\ v[i] = subs[i - k] /\ j - k \in 1..Len(subs) /\ v[j] = subs[j - k]
        BY <1>6, <2>3
      <3>2. i - k = j - k
        BY <3>1
      <3> QED
        BY <1>2, <3>2
    <2> QED
      BY <1>5, <1>7, <2>1, <2>2, <2>3
  <1>9. Cardinality(Folds(v)) = Len(v)
    BY ONLY <1>0, <1>8, FoldsCount
  <1>10. Folds(v) \subseteq Folds(known) \cup Folds(subs)
    <2> SUFFICES ASSUME NEW i \in 1..Len(v) PROVE v[i].fold \in Folds(known) \cup Folds(subs)
      BY <1>0 DEF Folds
    <2>1. CASE i \in 1..k
      BY <1>5, <2>1
    <2>2. CASE i \in (k + 1)..Len(v)
      BY <1>1, <1>6, <2>2 DEF Folds
    <2> QED
      BY <1>0, <1>2, <2>1, <2>2
  <1>11. Folds(known) \cup Folds(subs) \subseteq Folds(v)
    <2>1. \A i \in 1..k : i \in DOMAIN v
      BY <1>0, <1>1, <1>2 DEF k
    <2>2. Folds(known) \subseteq Folds(v)
      BY <1>2, <1>3, <2>1 DEF Folds
    <2>3. \A i \in 1..Len(subs) : v[k + i] = subs[i] /\ k + i \in DOMAIN v
      BY <1>0, <1>1, <1>2 DEF k
    <2>4. Folds(subs) \subseteq Folds(v)
      BY <1>1, <2>3 DEF Folds
    <2> QED
      BY <2>2, <2>4
  <1> QED
    BY <1>9, <1>10, <1>11 DEF v, known, AllDiffer

\* A translation's answer is sound.
LEMMA TranslationIsSound ==
    ASSUME job \in Jobs, job.kind = "translate",
           result = [kind |-> "variants", variants |-> Translate(job.question, job.reply, job.cap)]
    PROVE  VariantsAreSound
  <1> DEFINE q == job.question
             reply == job.reply
             form == Normalised(q)
             known == <<q>> \o form
             S == {q, Rewritten(q)} \cup ToSet(reply)
             v == result.variants
  <1>1. IsList(reply) /\ job.cap \in Nat
    BY JobsAssumption
  <1>2. v = Translate(q, reply, job.cap)
    OBVIOUS
  <1>3. PICK K : /\ Kept(K, Len(reply), reply, known, job.cap)
                 /\ Translate(q, reply, job.cap) = known \o Those(reply, K)
    <2> HIDE DEF q, reply
    <2> QED
      BY ONLY <1>1, TranslateIs
  <1> DEFINE subs == Those(reply, K)
  <1>4. form \in Seq(S) /\ Len(form) \in 0..1 /\ q \in S
    <2>1. form = <<>> \/ form = <<Rewritten(q)>>
      BY DEF Normalised
    <2>2. Rewritten(q) \in S
      OBVIOUS
    <2> HIDE DEF form, S
    <2>3. <<>> \in Seq(S) /\ Len(<<>>) \in 0..1 /\ <<Rewritten(q)>> \in Seq(S) /\ Len(<<Rewritten(q)>>) \in 0..1
      BY <2>2
    <2>4. form \in Seq(S) /\ Len(form) \in 0..1
      BY <2>1, <2>3
    <2> QED
      BY <2>4 DEF S
  <1> HIDE DEF known
  <1>5. /\ subs \in Seq(ToSet(reply)) /\ Len(subs) = Cardinality(K) /\ Len(subs) <= job.cap
        /\ \A i \in 1..Len(subs) : subs[i].fold \notin Folds(known)
        /\ \A i, j \in 1..Len(subs) : subs[i].fold = subs[j].fold => i = j
        /\ Folds(subs) = FoldsAt(reply, K)
    <2> HIDE DEF q, reply
    <2> QED
      BY ONLY <1>1, <1>3, KeptApart
  <1>6. subs \in Seq(S)
    <2> DEFINE R == ToSet(reply)
    <2>1. R \subseteq S /\ subs \in Seq(R)
      BY <1>5
    <2> HIDE DEF R, S, subs
    <2> QED
      BY <2>1
  <1>7. v = (<<q>> \o form) \o subs
    BY <1>2, <1>3 DEF known
  <1> HIDE DEF q, reply, form, S, subs
  <1>8. Cut((<<q>> \o form) \o subs, q, form, subs)
    BY ONLY <1>4, <1>6, CutsApart
  <1>9. AllDiffer((<<q>> \o form) \o subs, <<q>> \o form, subs)
    <2>1. form = Normalised(q)
      BY DEF form
    <2>2. \A i \in 1..Len(subs) : subs[i].fold \notin Folds(<<q>> \o form)
      BY <1>5 DEF known
    <2>3. \A i, j \in 1..Len(subs) : subs[i].fold = subs[j].fold => i = j
      BY <1>5
    <2> QED
      BY ONLY <1>4, <1>6, <2>1, <2>2, <2>3, VariantsDiffer
  <1>10. AddedVariants((<<q>> \o form) \o subs) = [form |-> form, planned |-> subs]
    <2>1. form = Normalised(q)
      BY DEF form
    <2>2. \A i \in 1..Len(subs) : subs[i].fold \notin Folds(<<q>> \o form)
      BY <1>5 DEF known
    <2> QED
      BY ONLY <1>4, <1>6, <2>1, <2>2, PageKnows
  <1>11. K \in SUBSET DOMAIN reply
    BY <1>1, <1>3 DEF Kept, IsList
  <1>12. Len(subs) < job.cap =>
            \A i \in DOMAIN reply : reply[i] # Noise => reply[i].fold \in Folds(known) \cup Folds(subs)
    BY <1>1, <1>3, <1>5 DEF Kept, IsList
  <1> DEFINE planned == SubSeq(v, 2 + Len(form), Len(v))
  <1> HIDE DEF v
  <1>13. planned = subs /\ v[1] = q
    BY <1>7, <1>8 DEF Cut
  <1>14. Cardinality(Folds(v)) = Len(v) /\ Folds(v) = Folds(known) \cup Folds(subs)
    BY <1>7, <1>9 DEF known, AllDiffer
  <1>15. AddedVariants(v) = [form |-> form, planned |-> planned]
    BY <1>7, <1>10, <1>13
  <1> HIDE DEF planned
  <1>16. /\ v[1] = q
         /\ Cardinality(Folds(v)) = Len(v)
         /\ Len(planned) <= job.cap
         /\ \E kept \in SUBSET DOMAIN reply : planned = Those(reply, kept)
         /\ Len(planned) < job.cap => \A i \in DOMAIN reply : reply[i] # Noise => reply[i].fold \in Folds(v)
         /\ AddedVariants(v) = [form |-> form, planned |-> planned]
    BY <1>5, <1>11, <1>12, <1>13, <1>14, <1>15 DEF subs
  <1> QED
    BY <1>16 DEF VariantsAreSound, v, q, reply, form, planned

-------------------------------------------------------------------------------
(* What is known of an answer.                                             *)

ResultOK ==
    /\ job \in Jobs
    /\ result.kind = "variants" =>
          /\ job.kind = "translate"
          /\ result = [kind |-> "variants", variants |-> Translate(job.question, job.reply, job.cap)]
    /\ result.kind = "screenings" =>
          /\ job.kind = "screen"
          /\ result.screenings =
                [i \in DOMAIN job.asked |-> Screen(job.asked[i].question, job.asked[i].reply).screening]
    /\ result.kind = "shown" =>
          /\ job.kind = "show"
          /\ result = Merged([kind |-> "shown"], Show(job.answer, job.ranks, job.guardWorks))
    /\ result.kind = "suite" =>
          /\ job.kind = "suite"
          /\ LET run == RunSuite(job.corpus, job.gateOnly, job.guardWorks) IN
             result = [kind |-> "suite", passed |-> SuitePassed(run),
                       contribution |-> MarginalContribution(run), planted |-> PlantedOutcome(run)]

\* The kind a computation gives its answer.
LEMMA MergedKind ==
    ASSUME NEW k, NEW rest
    PROVE  Merged([kind |-> k], rest).kind = k
  BY DEF Merged

\* Before a computation there is no answer to know anything of.
LEMMA ResultStarts == Init => ResultOK
  BY DEF Init, Pending, ResultOK

\* One computation leaves the others' answers as they are.
LEMMA OneComputes ==
    ASSUME ResultOK, NEW kind, NEW answer, Compute(kind, answer),
           answer.kind \notin {"variants", "screenings", "shown", "suite"}
    PROVE  ResultOK'
  BY DEF ResultOK, Compute

\* A step leaves the answer known: it is what the job's function makes of it.
LEMMA ResultStep == ResultOK /\ [Next]_vars => ResultOK'
  <1> SUFFICES ASSUME ResultOK, [Next]_vars PROVE ResultOK'
    OBVIOUS
  <1>1. CASE TranslateQuestion
    BY <1>1 DEF TranslateQuestion, Compute, ResultOK
  <1>2. CASE FuseLists
    BY <1>2, OneComputes DEF FuseLists
  <1>3. CASE CompareArms
    BY <1>3, OneComputes DEF CompareArms
  <1>4. CASE RatePower
    BY <1>4, OneComputes DEF RatePower
  <1>5. CASE ReadLog
    BY <1>5, OneComputes DEF ReadLog
  <1>6. CASE ScreenQuestions
    BY <1>6 DEF ScreenQuestions, Compute, ResultOK
  <1>7. CASE ShowAnswer
    BY <1>7, MergedKind DEF ShowAnswer, Compute, ResultOK
  <1>8. CASE RunTheSuite
    BY <1>8 DEF RunTheSuite, Compute, ResultOK
  <1>9. CASE ExportTranscript
    BY <1>9, OneComputes DEF ExportTranscript
  <1>10. CASE DecideRun
    BY <1>10, OneComputes, MergedKind DEF DecideRun
  <1>11. CASE ReadWindow
    BY <1>11, OneComputes, MergedKind DEF ReadWindow
  <1>12. CASE UNCHANGED vars
    BY <1>12 DEF vars, ResultOK
  <1> QED
    BY <1>1, <1>2, <1>3, <1>4, <1>5, <1>6, <1>7, <1>8, <1>9, <1>10, <1>11, <1>12 DEF Next

\* An answer is always what its job's function makes of the job.
LEMMA ResultAlways == Spec => []ResultOK
  BY ResultStarts, ResultStep, PTL DEF Spec

(* Whatever the planner answers, the variants start with the question,     *)
(* no two of them read the same, no more sub-queries are kept than the     *)
(* turn allows, they are lines of the reply in its order, and a line is    *)
(* lost only to the cap or to one it repeats (query_translation.py).       *)
THEOREM NothingIsAskedTwice == Spec => []VariantsAreSound
  <1>1. ResultOK => VariantsAreSound
    BY TranslationIsSound DEF ResultOK, VariantsAreSound
  <1> QED
    BY <1>1, ResultAlways, PTL

-------------------------------------------------------------------------------
(* The suite (security/report.py).                                         *)

\* The words the suite tells results apart by are not None.
LEMMA LayersAreNamed == None # "denylist" /\ None # "classifier"
  BY NoneIsNoRule

\* What the denylist stops is stopped by the denylist.
LEMMA FoldedIsDenied ==
    ASSUME NEW question, NEW reply, FoldingRequired(question)
    PROVE  /\ Screen(question, reply).screening.blocked
           /\ Screen(question, reply).screening.layer = "denylist"
  <1>1. Denylisted(question, TRUE) # None
    BY DEF FoldingRequired
  <1> QED
    BY <1>1 DEF Screen, Screening

\* Of the gate: each layer stops what the corpus gives it.
LEMMA GateIsEvidence ==
    ASSUME NEW cases, IsList(cases), NEW gate, gate = RunGate(cases),
           \A i \in DOMAIN gate : GatePassed(gate[i])
    PROVE  /\ \A layer \in {"denylist", "classifier"} :
                 {i \in DOMAIN gate : gate[i].screening.blocked /\ gate[i].screening.layer = layer}
                 = {i \in DOMAIN cases : cases[i].expected = layer}
           /\ Cardinality({i \in DOMAIN gate : gate[i].folded})
              <= Cardinality({i \in DOMAIN cases : cases[i].expected = "denylist"})
  <1>1. DOMAIN gate = DOMAIN cases
    BY DEF RunGate
  <1>2. \A i \in DOMAIN cases :
           /\ gate[i].expected = cases[i].expected
           /\ gate[i].screening = Screen(cases[i].question, cases[i].reply).screening
           /\ gate[i].folded = FoldingRequired(cases[i].question)
    BY DEF RunGate
  <1>3. \A i \in DOMAIN cases :
           IF cases[i].expected = None THEN ~gate[i].screening.blocked
           ELSE gate[i].screening.blocked /\ gate[i].screening.layer = cases[i].expected
    BY <1>1, <1>2 DEF GatePassed
  <1>4. ASSUME NEW layer \in {"denylist", "classifier"}
        PROVE  {i \in DOMAIN gate : gate[i].screening.blocked /\ gate[i].screening.layer = layer}
               = {i \in DOMAIN cases : cases[i].expected = layer}
    <2>1. layer # None
      BY LayersAreNamed
    <2>2. \A i \in DOMAIN cases :
             (gate[i].screening.blocked /\ gate[i].screening.layer = layer) <=> cases[i].expected = layer
      BY <1>3, <2>1
    <2> QED
      BY <1>1, <2>2
  <1>5. {i \in DOMAIN gate : gate[i].folded} \subseteq {i \in DOMAIN cases : cases[i].expected = "denylist"}
    <2> SUFFICES ASSUME NEW i \in DOMAIN cases, gate[i].folded PROVE cases[i].expected = "denylist"
      BY <1>1
    <2>1. FoldingRequired(cases[i].question)
      BY <1>2
    <2>2. gate[i].screening.blocked /\ gate[i].screening.layer = "denylist"
      BY <1>2, <2>1, FoldedIsDenied
    <2> QED
      BY <1>3, <2>2
  <1>6. IsFiniteSet(DOMAIN cases)
    <2>1. DOMAIN cases = 1..Len(cases) /\ Len(cases) \in Nat
      BY DEF IsList
    <2> QED
      BY <2>1, FS_Interval
  <1> DEFINE E == {i \in DOMAIN cases : cases[i].expected = "denylist"}
             F == {i \in DOMAIN gate : gate[i].folded}
  <1>7. E \in SUBSET DOMAIN cases
    OBVIOUS
  <1>8. F \in SUBSET E
    BY <1>5
  <1> HIDE DEF E, F
  <1>9. IsFiniteSet(E)
    BY ONLY <1>6, <1>7, FS_Subset
  <1>10. Cardinality(F) <= Cardinality(E)
    BY ONLY <1>8, <1>9, FS_Subset
  <1> QED
    BY <1>4, <1>10 DEF E, F

AFunction(out) == out = [i \in DOMAIN out |-> out[i]]

\* Nothing was measured of an empty corpus.
LEMMA NothingOfNothing ==
    ASSUME NEW seq, NEW out, DOMAIN out = DOMAIN seq, out # <<>>, AFunction(out)
    PROVE  seq # <<>>
  <1> SUFFICES ASSUME seq = <<>> PROVE FALSE
    OBVIOUS
  <1>1. DOMAIN out = {}
    OBVIOUS
  <1>2. out = <<>>
    BY <1>1 DEF AFunction
  <1> QED
    BY <1>2

\* Of the planted passages: all were met and resisted.
LEMMA PlantedIsEvidence ==
    ASSUME NEW turns, IsList(turns), NEW injections, injections = RunIndirect(turns),
           \A i \in DOMAIN injections : InjectionPassed(injections[i])
    PROVE  /\ Cardinality({i \in DOMAIN injections : InjectionPassed(injections[i])}) = Len(turns)
           /\ \A i \in DOMAIN turns : turns[i].found
  <1>1. DOMAIN injections = DOMAIN turns /\ \A i \in DOMAIN turns : injections[i].retrieved = turns[i].found
    BY DEF RunIndirect
  <1>2. DOMAIN turns = 1..Len(turns) /\ Len(turns) \in Nat
    BY DEF IsList
  <1>3. {i \in DOMAIN injections : InjectionPassed(injections[i])} = 1..Len(turns)
    BY <1>1, <1>2
  <1>4. Cardinality(1..Len(turns)) = Len(turns)
    <2>1. \A n \in Nat : Cardinality(1..n) = n
      BY FS_Interval
    <2> QED
      BY <1>2, <2>1
  <1>5. \A i \in DOMAIN turns : turns[i].found
    BY <1>1 DEF InjectionPassed
  <1> QED
    BY <1>3, <1>4, <1>5

\* A suite that passes has every layer's cases behind it.
LEMMA SuiteIsEvidence ==
    ASSUME job \in Jobs, job.kind = "suite", NEW run,
           run = RunSuite(job.corpus, job.gateOnly, job.guardWorks),
           result = [kind |-> "suite", passed |-> SuitePassed(run),
                     contribution |-> MarginalContribution(run), planted |-> PlantedOutcome(run)]
    PROVE  PassingIsEvidence
  <1> SUFFICES ASSUME SuitePassed(run) PROVE PassingIsEvidence
    BY DEF PassingIsEvidence
  <1> DEFINE corpus == job.corpus
             cases == corpus.cases
             answers == corpus.answers
             planted == corpus.planted
             says(layer) == Cardinality({i \in DOMAIN cases : cases[i].expected = layer})
  <1>1. IsList(cases) /\ IsList(answers) /\ IsList(planted)
    BY JobsAssumption
  <1>2. /\ run.gate = RunGate(cases) /\ run.answers = RunOutputValidator(answers, job.guardWorks)
        /\ run.injections = IF job.gateOnly THEN <<>> ELSE RunIndirect(planted)
        /\ run.gateOnly = job.gateOnly
    BY DEF RunSuite
  <1>3. /\ run.gate # <<>> /\ run.answers # <<>>
        /\ (run.gateOnly \/ run.injections # <<>>)
        /\ \A i \in DOMAIN run.gate : GatePassed(run.gate[i])
        /\ \A i \in DOMAIN run.answers : AnswerPassed(run.answers[i])
        /\ \A i \in DOMAIN run.injections : InjectionPassed(run.injections[i])
    BY DEF SuitePassed
  <1> HIDE DEF cases, answers, planted
  <1>4. /\ \A layer \in {"denylist", "classifier"} :
              {i \in DOMAIN run.gate : run.gate[i].screening.blocked /\ run.gate[i].screening.layer = layer}
              = {i \in DOMAIN cases : cases[i].expected = layer}
        /\ Cardinality({i \in DOMAIN run.gate : run.gate[i].folded}) <= says("denylist")
    BY ONLY <1>1, <1>2, <1>3, GateIsEvidence
  <1>5. result.contribution = MarginalContribution(run) /\ result.planted = PlantedOutcome(run)
    OBVIOUS
  <1>6. /\ result.contribution.denylist = says("denylist")
        /\ result.contribution.classifier = says("classifier")
        /\ result.contribution.normalisation <= says("denylist")
    BY <1>4, <1>5 DEF MarginalContribution
  <1>7. /\ DOMAIN run.answers = DOMAIN answers
        /\ \A i \in DOMAIN answers : run.answers[i].refused = answers[i].advice
    BY <1>2, <1>3 DEF RunOutputValidator, AnswerPassed
  <1>8. result.contribution.validator = Cardinality({i \in DOMAIN answers : answers[i].advice})
    <2>1. {i \in DOMAIN run.answers : run.answers[i].refused} = {i \in DOMAIN answers : answers[i].advice}
      BY <1>7
    <2> QED
      BY <1>5, <2>1 DEF MarginalContribution
  <1>9. cases # <<>>
    <2>1. DOMAIN run.gate = DOMAIN cases /\ AFunction(run.gate)
      BY <1>2 DEF RunGate, AFunction
    <2> QED
      BY ONLY <1>3, <2>1, NothingOfNothing
  <1>10. answers # <<>>
    <2>1. DOMAIN run.answers = DOMAIN answers /\ AFunction(run.answers)
      BY <1>2 DEF RunOutputValidator, AFunction
    <2> QED
      BY ONLY <1>3, <2>1, NothingOfNothing
  <1>11. CASE job.gateOnly
    <2>1. result.planted = "not run"
      BY <1>2, <1>5, <1>11 DEF PlantedOutcome
    <2> QED
      BY <1>6, <1>8, <1>9, <1>10, <1>11, <2>1 DEF PassingIsEvidence, cases, answers, planted
  <1>12. CASE ~job.gateOnly
    <2>1. run.injections = RunIndirect(planted) /\ run.injections # <<>>
      BY <1>2, <1>3, <1>12
    <2>2. /\ Cardinality({i \in DOMAIN run.injections : InjectionPassed(run.injections[i])}) = Len(planted)
          /\ \A i \in DOMAIN planted : planted[i].found
      BY ONLY <1>1, <1>3, <2>1, PlantedIsEvidence
    <2>3. result.planted = Len(planted)
      BY <1>5, <2>1, <2>2 DEF PlantedOutcome
    <2> QED
      BY <1>6, <1>8, <1>9, <1>10, <1>12, <2>2, <2>3 DEF PassingIsEvidence, cases, answers, planted
  <1> QED
    BY <1>11, <1>12

(* A suite that passes had each layer stop exactly the cases the corpus    *)
(* gives it, had cases and answers to judge, and found every planted       *)
(* passage in what the model was given (security/report.py:93-164).        *)
THEOREM PassingTellsOfEveryLayer == Spec => []PassingIsEvidence
  <1>1. ResultOK => PassingIsEvidence
    BY SuiteIsEvidence DEF ResultOK, PassingIsEvidence
  <1> QED
    BY <1>1, ResultAlways, PTL

-------------------------------------------------------------------------------
(* An answer and its clauses (security/advice.py, markers.py).             *)

\* b and c are what stands before and after the place `at` of a.
Halved(a, at, b, c) ==
    /\ Len(a) \in Nat /\ DOMAIN a = 1..Len(a) /\ at \in 1..Len(a)
    /\ DOMAIN b = 1..(at - 1) /\ \A i \in 1..(at - 1) : b[i] = a[i]
    /\ DOMAIN c = 1..(Len(a) - at) /\ \A i \in 1..(Len(a) - at) : c[i] = a[at + i]
    /\ \A d \in 1..(at - 1) : \A e \in 0..(at - 1) : SubSeq(b, d, e) = SubSeq(a, d, e)
    /\ \A d \in 1..(Len(a) - at) : \A e \in 0..(Len(a) - at) :
          SubSeq(c, d, e) = SubSeq(a, at + d, at + e)

\* A list cut at a place falls into what stands before and after it.
LEMMA HalvesAre ==
    ASSUME NEW a, IsList(a), NEW at \in DOMAIN a
    PROVE  Halved(a, at, SubSeq(a, 1, at - 1), SubSeq(a, at + 1, Len(a)))
  <1> DEFINE S == ToSet(a)
             b == SubSeq(a, 1, at - 1)
             c == SubSeq(a, at + 1, Len(a))
             n == Len(a)
  <1>1. a \in Seq(S)
    BY DEF IsList
  <1> HIDE DEF S
  <1>2. n \in Nat /\ DOMAIN a = 1..n /\ at \in 1..n
    BY <1>1
  <1>3. b \in Seq(S) /\ Len(b) = at - 1 /\ \A i \in 1..(at - 1) : b[i] = a[i]
    BY <1>1, <1>2
  <1>4. c \in Seq(S) /\ Len(c) = n - at /\ \A i \in 1..(n - at) : c[i] = a[(at + 1) + i - 1]
    BY <1>1, <1>2
  <1> HIDE DEF b, c, n
  <1>5. DOMAIN b = 1..(at - 1) /\ DOMAIN c = 1..(n - at)
    BY <1>3, <1>4
  <1>6. \A i \in 1..(n - at) : (at + 1) + i - 1 = at + i
    BY <1>2
  <1>7. \A i \in 1..(n - at) : c[i] = a[at + i]
    BY <1>4, <1>6
  <1>8. ASSUME NEW d \in 1..(at - 1), NEW e \in 0..(at - 1)
        PROVE  SubSeq(b, d, e) = SubSeq(a, d, e)
    <2>1. SubSeq(b, d, e) = [k \in 1..(1 + e - d) |-> b[d + k - 1]]
      BY <1>2, <1>3, <1>5
    <2>2. SubSeq(a, d, e) = [k \in 1..(1 + e - d) |-> a[d + k - 1]]
      BY <1>1, <1>2
    <2>3. \A k \in 1..(1 + e - d) : d + k - 1 \in 1..(at - 1)
      BY <1>2
    <2>4. \A k \in 1..(1 + e - d) : b[d + k - 1] = a[d + k - 1]
      BY <1>3, <2>3
    <2> QED
      BY <2>1, <2>2, <2>4
  <1>9. ASSUME NEW d \in 1..(n - at), NEW e \in 0..(n - at)
        PROVE  SubSeq(c, d, e) = SubSeq(a, at + d, at + e)
    <2>1. SubSeq(c, d, e) = [k \in 1..(1 + e - d) |-> c[d + k - 1]]
      BY <1>2, <1>4, <1>5
    <2>2. SubSeq(a, at + d, at + e) = [k \in 1..(1 + e - d) |-> a[at + (d + k - 1)]]
      <3>1. SubSeq(a, at + d, at + e) = [k \in 1..(1 + (at + e) - (at + d)) |-> a[(at + d) + k - 1]]
        BY <1>1, <1>2
      <3>2. 1 + (at + e) - (at + d) = 1 + e - d
        BY <1>2
      <3>3. \A k \in 1..(1 + e - d) : (at + d) + k - 1 = at + (d + k - 1)
        BY <1>2
      <3> QED
        BY <3>1, <3>2, <3>3
    <2>3. \A k \in 1..(1 + e - d) : d + k - 1 \in 1..(n - at)
      BY <1>2
    <2>4. \A k \in 1..(1 + e - d) : c[d + k - 1] = a[at + (d + k - 1)]
      BY <1>7, <2>3
    <2> QED
      BY <2>1, <2>2, <2>4
  <1>10. Halved(a, at, b, c)
    BY <1>2, <1>3, <1>5, <1>7, <1>8, <1>9 DEF Halved, n
  <1> QED
    BY <1>10 DEF b, c, n

\* How far a stretch of an answer reaches.
Reach(said) == FoldLeft(LAMBDA sum, s : sum + s.chars, 0, said)

\* What is denied before the break is denied by what stands before it.
LEMMA DeniedBefore ==
    ASSUME NEW a, NEW at, NEW b, NEW c, Halved(a, at, b, c), NEW i \in 1..(at - 1)
    PROVE  Denied(a, i) <=> Denied(b, i)
  <1>1. at \in Nat /\ i \in Nat
    BY DEF Halved
  <1>2. \A d \in 1..(i - 1) : d \in 1..(at - 1) /\ i - 1 \in 0..(at - 1) /\ \A k \in d..(i - 1) : k \in 1..(at - 1)
    BY <1>1
  <1>3. \A d \in 1..(i - 1) :
           /\ a[d] = b[d]
           /\ \A k \in d..(i - 1) : a[k] = b[k]
           /\ Reach(SubSeq(a, d, i - 1)) = Reach(SubSeq(b, d, i - 1))
    BY <1>2 DEF Halved
  <1>4. \A d \in 1..(i - 1) :
           (/\ a[d].kind = "denial"
            /\ \A k \in d..(i - 1) : a[k].kind # "break"
            /\ Reach(SubSeq(a, d, i - 1)) <= NEGATION_WINDOW_CHARS)
           <=>
           (/\ b[d].kind = "denial"
            /\ \A k \in d..(i - 1) : b[k].kind # "break"
            /\ Reach(SubSeq(b, d, i - 1)) <= NEGATION_WINDOW_CHARS)
    BY <1>3
  <1> QED
    BY <1>4 DEF Denied, Reach

\* What is denied after the break is denied by what stands after it.
LEMMA DeniedAfter ==
    ASSUME NEW a, NEW at, NEW b, NEW c, Halved(a, at, b, c), a[at].kind = "break",
           NEW i \in 1..(Len(a) - at)
    PROVE  Denied(a, at + i) <=> Denied(c, i)
  <1>1. at \in Nat /\ i \in Nat /\ Len(a) \in Nat /\ at \in 1..Len(a)
    BY DEF Halved
  <1> DEFINE Denies(s, d, j) ==
               /\ s[d].kind = "denial"
               /\ \A k \in d..(j - 1) : s[k].kind # "break"
               /\ Reach(SubSeq(s, d, j - 1)) <= NEGATION_WINDOW_CHARS
  <1>2. ASSUME NEW d \in 1..(i - 1) PROVE Denies(a, at + d, at + i) <=> Denies(c, d, i)
    <2>1. d \in 1..(Len(a) - at) /\ i - 1 \in 0..(Len(a) - at) /\ (at + i) - 1 = at + (i - 1)
      BY <1>1
    <2>2. a[at + d] = c[d] /\ SubSeq(a, at + d, (at + i) - 1) = SubSeq(c, d, i - 1)
      BY <2>1 DEF Halved
    <2>3. (\A k \in (at + d)..((at + i) - 1) : a[k].kind # "break") <=> \A k \in d..(i - 1) : c[k].kind # "break"
      <3>1. \A k \in d..(i - 1) : k \in 1..(Len(a) - at) /\ at + k \in (at + d)..((at + i) - 1)
        BY <1>1
      <3>2. \A k \in (at + d)..((at + i) - 1) : k - at \in d..(i - 1) /\ at + (k - at) = k
        BY <1>1
      <3>3. \A k \in d..(i - 1) : a[at + k] = c[k]
        BY <3>1 DEF Halved
      <3>4. ASSUME \A k \in (at + d)..((at + i) - 1) : a[k].kind # "break", NEW k \in d..(i - 1)
            PROVE  c[k].kind # "break"
        BY <3>1, <3>3, <3>4
      <3>5. ASSUME \A k \in d..(i - 1) : c[k].kind # "break", NEW k \in (at + d)..((at + i) - 1)
            PROVE  a[k].kind # "break"
        <4>1. a[at + (k - at)] = c[k - at] /\ c[k - at].kind # "break"
          BY <3>2, <3>3, <3>5
        <4> QED
          BY <3>2, <4>1
      <3> QED
        BY <3>4, <3>5
    <2> QED
      BY <2>2, <2>3
  <1>3. ASSUME NEW e \in 1..((at + i) - 1), Denies(a, e, at + i) PROVE e > at /\ e - at \in 1..(i - 1) /\ at + (e - at) = e
    <2>1. ~(at \in e..((at + i) - 1))
      BY <1>3
    <2> QED
      BY <1>1, <2>1
  <1>4. \A d \in 1..(i - 1) : at + d \in 1..((at + i) - 1)
    BY <1>1
  <1>5. Denied(a, at + i) <=> \E e \in 1..((at + i) - 1) : Denies(a, e, at + i)
    BY DEF Denied, Reach
  <1>6. Denied(c, i) <=> \E d \in 1..(i - 1) : Denies(c, d, i)
    BY DEF Denied, Reach
  <1> HIDE DEF Denies
  <1>7. ASSUME Denied(a, at + i) PROVE Denied(c, i)
    <2>1. PICK e \in 1..((at + i) - 1) : Denies(a, e, at + i)
      BY <1>5, <1>7
    <2>2. e - at \in 1..(i - 1) /\ at + (e - at) = e
      BY <1>3, <2>1
    <2>3. Denies(c, e - at, i)
      BY <1>2, <2>1, <2>2
    <2> QED
      BY <1>6, <2>2, <2>3
  <1>8. ASSUME Denied(c, i) PROVE Denied(a, at + i)
    BY <1>2, <1>4, <1>5, <1>6, <1>8
  <1> QED
    BY <1>7, <1>8

\* Some occurrence trips the rule.
TripsRule(answer, rule) ==
    \E i \in DOMAIN answer :
       /\ answer[i].kind = "advice" /\ answer[i].value = rule.id
       /\ ~(rule.negatable /\ Denied(answer, i))

\* A rule is tripped in one half or in the other.
LEMMA HalvesTrip ==
    ASSUME NEW a, NEW at, NEW b, NEW c, Halved(a, at, b, c), a[at].kind = "break", NEW rule
    PROVE  TripsRule(a, rule) <=> TripsRule(b, rule) \/ TripsRule(c, rule)
  <1> DEFINE Here(s, i) == /\ s[i].kind = "advice" /\ s[i].value = rule.id
                           /\ ~(rule.negatable /\ Denied(s, i))
  <1>1. /\ Len(a) \in Nat /\ DOMAIN a = 1..Len(a) /\ at \in 1..Len(a)
        /\ DOMAIN b = 1..(at - 1) /\ DOMAIN c = 1..(Len(a) - at)
    BY DEF Halved
  <1>2. ASSUME NEW i \in 1..(at - 1) PROVE Here(a, i) <=> Here(b, i)
    <2>1. a[i] = b[i]
      BY DEF Halved
    <2> QED
      BY <2>1, DeniedBefore
  <1>3. ASSUME NEW i \in 1..(Len(a) - at) PROVE Here(a, at + i) <=> Here(c, i)
    <2>1. a[at + i] = c[i]
      BY DEF Halved
    <2> QED
      BY <2>1, DeniedAfter
  <1>4. ~Here(a, at)
    OBVIOUS
  <1>5. \A s : TripsRule(s, rule) <=> \E i \in DOMAIN s : Here(s, i)
    BY DEF TripsRule
  <1> HIDE DEF Here
  <1>6. \A i \in 1..Len(a) : i \in 1..(at - 1) \/ i = at \/ (i - at \in 1..(Len(a) - at) /\ at + (i - at) = i)
    BY <1>1
  <1>7. ASSUME NEW i \in DOMAIN a, Here(a, i) PROVE TripsRule(b, rule) \/ TripsRule(c, rule)
    <2>1. CASE i \in 1..(at - 1)
      BY <1>1, <1>2, <1>5, <1>7, <2>1
    <2>2. CASE i - at \in 1..(Len(a) - at) /\ at + (i - at) = i
      <3>1. Here(c, i - at)
        BY <1>3, <1>7, <2>2
      <3> QED
        BY <1>1, <1>5, <2>2, <3>1
    <2> QED
      BY <1>1, <1>4, <1>6, <1>7, <2>1, <2>2
  <1>8. ASSUME NEW i \in DOMAIN b, Here(b, i) PROVE TripsRule(a, rule)
    BY <1>1, <1>2, <1>5, <1>8
  <1>9. ASSUME NEW i \in DOMAIN c, Here(c, i) PROVE TripsRule(a, rule)
    <2>1. at + i \in 1..Len(a)
      BY <1>1
    <2> QED
      BY <1>1, <1>3, <1>5, <1>9, <2>1
  <1> QED
    BY <1>5, <1>7, <1>8, <1>9

\* The rules an answer trips, without their order.
LEMMA HitsAre ==
    ASSUME NEW answer
    PROVE  ToSet(AdviceHits(answer)) = {ADVICE_RULES[r] : r \in {q \in 1..6 : TripsRule(answer, ADVICE_RULES[q])}}
  <1> DEFINE R == {q \in 1..6 : TripsRule(answer, ADVICE_RULES[q])}
  <1>1. DOMAIN ADVICE_RULES = 1..6
    BY DEF ADVICE_RULES
  <1>2. AdviceHits(answer) = Those(ADVICE_RULES, R)
    BY <1>1 DEF AdviceHits, TripsRule
  <1>3. R \in SUBSET Nat
    OBVIOUS
  <1>4. IsFiniteSet(1..6) /\ R \in SUBSET (1..6)
    <2>1. \A n \in Nat : IsFiniteSet(1..n)
      BY FS_Interval
    <2> QED
      BY <2>1
  <1> HIDE DEF R
  <1>5. IsFiniteSet(R)
    BY ONLY <1>4, FS_Subset
  <1>6. ToSet(Those(ADVICE_RULES, R)) = {ADVICE_RULES[r] : r \in R}
    BY ONLY <1>3, <1>5, ThoseHold
  <1> QED
    BY <1>2, <1>6 DEF R

\* The image of a finite set of places.
LEMMA ReadFinite ==
    ASSUME NEW K, IsFiniteSet(K), NEW answer
    PROVE  IsFiniteSet({answer[i].value : i \in K})
  <1> DEFINE R == {answer[i].value : i \in K}
             f == [i \in K |-> answer[i].value]
  <1>1. f \in Surjection(K, R)
    BY DEF Surjection
  <1> HIDE DEF f, R
  <1>2. IsFiniteSet(R)
    BY ONLY <1>1, IsFiniteSet(K), FS_Surjection
  <1> QED
    BY <1>2 DEF R

\* The numbers read off an answer's brackets of one kind.
Values(answer, kind) == {answer[i].value : i \in Brackets(answer, kind)}

Resolving(answer, ranks) == {i \in Brackets(answer, "number") : answer[i].value \in ranks}

\* What can be read: as many places as the answer has, and numbers in brackets.
Readable(answer) ==
    /\ IsFiniteSet(DOMAIN answer)
    /\ Values(answer, "number") \in SUBSET Nat

\* An answer holds finitely many brackets of each kind.
LEMMA BracketsFinite ==
    ASSUME NEW answer, IsFiniteSet(DOMAIN answer), NEW kind, NEW ranks
    PROVE  /\ IsFiniteSet(Brackets(answer, kind))
           /\ IsFiniteSet(Values(answer, kind))
           /\ IsFiniteSet(Resolving(answer, ranks))
  <1>1. Brackets(answer, kind) \in SUBSET DOMAIN answer
    BY DEF Brackets
  <1>2. IsFiniteSet(Brackets(answer, kind))
    BY ONLY <1>1, IsFiniteSet(DOMAIN answer), FS_Subset
  <1>3. IsFiniteSet(Values(answer, kind))
    <2> DEFINE K == Brackets(answer, kind)
    <2> HIDE DEF K
    <2>1. IsFiniteSet({answer[i].value : i \in K})
      BY <1>2, ReadFinite DEF K
    <2> QED
      BY <2>1 DEF K, Values
  <1>4. Resolving(answer, ranks) \in SUBSET DOMAIN answer
    BY DEF Resolving, Brackets
  <1>5. IsFiniteSet(Resolving(answer, ranks))
    BY ONLY <1>4, IsFiniteSet(DOMAIN answer), FS_Subset
  <1> QED
    BY <1>2, <1>3, <1>5

\* What the report says of an answer, without an order.
LEMMA ReportIs ==
    ASSUME NEW answer, Readable(answer), NEW ranks
    PROVE  /\ Markers(answer, ranks).resolved = Cardinality(Resolving(answer, ranks))
           /\ ToSet(Markers(answer, ranks).unresolved) = Values(answer, "number") \ ranks
           /\ Clean(Markers(answer, ranks)) <=>
                 Values(answer, "number") \ ranks = {} /\ Values(answer, "label") = {}
  <1> DEFINE U == Values(answer, "number") \ ranks
             L == Values(answer, "label")
             m == Markers(answer, ranks)
  <1>1. IsFiniteSet(DOMAIN answer) /\ Values(answer, "number") \in SUBSET Nat
    BY DEF Readable
  <1>2. IsFiniteSet(Values(answer, "number")) /\ IsFiniteSet(L)
    BY ONLY <1>1, BracketsFinite
  <1>3. U \in SUBSET Values(answer, "number") /\ U \in SUBSET Nat
    BY <1>1
  <1>4. m.resolved = Cardinality(Resolving(answer, ranks)) /\ m.unresolved = Ascending(U) /\ m.non_numeric = Cardinality(L)
    BY DEF Markers, Resolving, Values
  <1> HIDE DEF U, L, m
  <1>5. IsFiniteSet(U)
    BY ONLY <1>2, <1>3, FS_Subset
  <1>6. Cardinality(U) \in Nat /\ Len(Ascending(U)) = Cardinality(U) /\ ToSet(Ascending(U)) = U
    BY ONLY <1>3, <1>5, ThoseHold
  <1>7. (Cardinality(U) = 0 <=> U = {}) /\ (Cardinality(L) = 0 <=> L = {})
    BY <1>2, <1>5, FS_EmptySet
  <1>8. Ascending(U) = <<>> <=> U = {}
    <2>1. ASSUME Ascending(U) = <<>> PROVE U = {}
      <3>1. ToSet(<<>>) = {}
        BY DEF ToSet
      <3> QED
        BY <1>6, <2>1, <3>1
    <2>2. ASSUME U = {} PROVE Ascending(U) = <<>>
      <3>1. Cardinality(U) = 0
        BY <1>7, <2>2
      <3> QED
        BY <3>1 DEF Ascending
    <2> QED
      BY <2>1, <2>2
  <1>9. Clean(m) <=> U = {} /\ L = {}
    BY <1>4, <1>7, <1>8 DEF Clean
  <1> QED
    BY <1>4, <1>6, <1>9 DEF U, L, m

\* The values of the whole are those of the halves.
LEMMA HalvesRead ==
    ASSUME NEW a, NEW at, NEW b, NEW c, Halved(a, at, b, c), a[at].kind = "break",
           NEW kind, kind # "break"
    PROVE  Values(a, kind) = Values(b, kind) \cup Values(c, kind)
  <1>1. /\ Len(a) \in Nat /\ DOMAIN a = 1..Len(a) /\ at \in 1..Len(a)
        /\ DOMAIN b = 1..(at - 1) /\ DOMAIN c = 1..(Len(a) - at)
        /\ \A i \in 1..(at - 1) : b[i] = a[i]
        /\ \A i \in 1..(Len(a) - at) : c[i] = a[at + i]
    BY DEF Halved
  <1>2. \A i \in 1..Len(a) : i \in 1..(at - 1) \/ i = at \/ (i - at \in 1..(Len(a) - at) /\ at + (i - at) = i)
    BY <1>1
  <1>3. ASSUME NEW i \in Brackets(a, kind) PROVE a[i].value \in Values(b, kind) \cup Values(c, kind)
    <2>1. i \in 1..Len(a) /\ a[i].kind = kind /\ i # at
      BY <1>1 DEF Brackets
    <2>2. CASE i \in 1..(at - 1)
      <3>1. i \in Brackets(b, kind) /\ b[i].value = a[i].value
        BY <1>1, <2>1, <2>2 DEF Brackets
      <3> QED
        BY <3>1 DEF Values
    <2>3. CASE i - at \in 1..(Len(a) - at) /\ at + (i - at) = i
      <3>1. i - at \in Brackets(c, kind) /\ c[i - at].value = a[i].value
        BY <1>1, <2>1, <2>3 DEF Brackets
      <3> QED
        BY <3>1 DEF Values
    <2> QED
      BY <1>2, <2>1, <2>2, <2>3
  <1>4. ASSUME NEW i \in Brackets(b, kind) PROVE b[i].value \in Values(a, kind)
    <2>1. i \in 1..(at - 1) /\ b[i].kind = kind /\ b[i] = a[i] /\ i \in 1..Len(a)
      BY <1>1 DEF Brackets
    <2>2. i \in Brackets(a, kind)
      BY <1>1, <2>1 DEF Brackets
    <2> QED
      BY <2>1, <2>2 DEF Values
  <1>5. ASSUME NEW i \in Brackets(c, kind) PROVE c[i].value \in Values(a, kind)
    <2>1. i \in 1..(Len(a) - at) /\ c[i].kind = kind /\ c[i] = a[at + i] /\ at + i \in 1..Len(a)
      BY <1>1 DEF Brackets
    <2>2. at + i \in Brackets(a, kind)
      BY <1>1, <2>1 DEF Brackets
    <2> QED
      BY <2>1, <2>2 DEF Values
  <1> QED
    BY <1>3, <1>4, <1>5 DEF Values

\* What resolves adds up.
LEMMA HalvesResolve ==
    ASSUME NEW a, NEW at, NEW b, NEW c, Halved(a, at, b, c), a[at].kind = "break", NEW ranks
    PROVE  Cardinality(Resolving(a, ranks)) = Cardinality(Resolving(b, ranks)) + Cardinality(Resolving(c, ranks))
  <1> DEFINE B == Resolving(b, ranks)
             C == Resolving(c, ranks)
             D == {at + i : i \in C}
             f == [i \in C |-> at + i]
  <1>1. /\ Len(a) \in Nat /\ DOMAIN a = 1..Len(a) /\ at \in 1..Len(a)
        /\ DOMAIN b = 1..(at - 1) /\ DOMAIN c = 1..(Len(a) - at)
        /\ \A i \in 1..(at - 1) : b[i] = a[i]
        /\ \A i \in 1..(Len(a) - at) : c[i] = a[at + i]
    BY DEF Halved
  <1>2. B \in SUBSET (1..(at - 1)) /\ C \in SUBSET (1..(Len(a) - at))
    BY <1>1 DEF Resolving, Brackets
  <1>3. IsFiniteSet(B) /\ IsFiniteSet(C)
    <2>1. \A n \in Nat : IsFiniteSet(1..n)
      BY FS_Interval
    <2>2. IsFiniteSet(1..(at - 1)) /\ IsFiniteSet(1..(Len(a) - at))
      BY <1>1, <2>1
    <2> HIDE DEF B, C
    <2> QED
      BY ONLY <1>2, <2>2, FS_Subset
  <1>4. Resolving(a, ranks) = B \cup D
    <2>1. \A i \in 1..Len(a) : i \in 1..(at - 1) \/ i = at \/ (i - at \in 1..(Len(a) - at) /\ at + (i - at) = i)
      BY <1>1
    <2>2. ASSUME NEW i \in Resolving(a, ranks) PROVE i \in B \cup D
      <3>1. i \in 1..Len(a) /\ a[i].kind = "number" /\ a[i].value \in ranks /\ i # at
        BY <1>1 DEF Resolving, Brackets
      <3>2. CASE i \in 1..(at - 1)
        BY <1>1, <3>1, <3>2 DEF Resolving, Brackets
      <3>3. CASE i - at \in 1..(Len(a) - at) /\ at + (i - at) = i
        <4>1. i - at \in C
          BY <1>1, <3>1, <3>3 DEF Resolving, Brackets
        <4> QED
          BY <3>3, <4>1
      <3> QED
        BY <2>1, <3>1, <3>2, <3>3
    <2>3. ASSUME NEW i \in B PROVE i \in Resolving(a, ranks)
      <3>1. i \in 1..(at - 1) /\ b[i] = a[i] /\ i \in 1..Len(a)
        BY <1>1, <1>2
      <3> QED
        BY <1>1, <3>1 DEF Resolving, Brackets
    <2>4. ASSUME NEW i \in C PROVE at + i \in Resolving(a, ranks)
      <3>1. i \in 1..(Len(a) - at) /\ c[i] = a[at + i] /\ at + i \in 1..Len(a)
        BY <1>1, <1>2
      <3> QED
        BY <1>1, <3>1 DEF Resolving, Brackets
    <2> HIDE DEF B, C
    <2> QED
      BY <2>2, <2>3, <2>4
  <1> HIDE DEF B, C
  <1>5. ExistsBijection(C, D)
    <2>1. \A i, j \in C : at + i = at + j => i = j
      BY <1>1, <1>2
    <2>3. f \in [C -> D]
      OBVIOUS
    <2>4. \A t \in D : \E i \in C : f[i] = t
      OBVIOUS
    <2>5. \A i, j \in C : f[i] = f[j] => i = j
      BY <2>1
    <2> HIDE DEF f, D
    <2>2. f \in Bijection(C, D)
      BY <2>3, <2>4, <2>5 DEF Bijection, Injection, Surjection, IsInjective
    <2> QED
      BY <2>2 DEF ExistsBijection
  <1>6. B \cap D = {}
    BY <1>1, <1>2
  <1> HIDE DEF D
  <1>7. IsFiniteSet(D) /\ Cardinality(D) = Cardinality(C)
    BY ONLY <1>3, <1>5, FS_Bijection
  <1>8. Cardinality(B \cup D) = Cardinality(B) + Cardinality(D) - Cardinality(B \cap D)
    BY ONLY <1>3, <1>7, FS_Union
  <1>9. Cardinality({}) = 0
    BY FS_EmptySet
  <1>10. Cardinality(B) \in Nat /\ Cardinality(D) \in Nat
    BY <1>3, <1>7, FS_CardinalityType
  <1> QED
    BY <1>4, <1>6, <1>7, <1>8, <1>9, <1>10 DEF B, C

\* What the page is shown is read place by place, and so are its halves.
LEMMA HalvesReadable ==
    ASSUME NEW a, Readable(a), NEW at, NEW b, NEW c, Halved(a, at, b, c), a[at].kind = "break"
    PROVE  Readable(b) /\ Readable(c)
  <1>1. DOMAIN b = 1..(at - 1) /\ DOMAIN c = 1..(Len(a) - at) /\ Len(a) \in Nat /\ at \in 1..Len(a)
    BY DEF Halved
  <1>2. IsFiniteSet(DOMAIN b) /\ IsFiniteSet(DOMAIN c)
    <2>1. \A n \in Nat : IsFiniteSet(1..n)
      BY FS_Interval
    <2> QED
      BY <1>1, <2>1
  <1>3. "number" # "break"
    OBVIOUS
  <1>4. Values(a, "number") = Values(b, "number") \cup Values(c, "number")
    BY ONLY Halved(a, at, b, c), a[at].kind = "break", <1>3, HalvesRead
  <1> QED
    BY <1>2, <1>4 DEF Readable

\* What the page does with an answer and with either side of a break.
LEMMA HalvesAnswer ==
    ASSUME NEW a, Readable(a), NEW at, NEW b, NEW c, Halved(a, at, b, c), a[at].kind = "break", NEW ranks
    PROVE  /\ ToSet(AdviceHits(a)) = ToSet(AdviceHits(b)) \cup ToSet(AdviceHits(c))
           /\ Markers(a, ranks).resolved = Markers(b, ranks).resolved + Markers(c, ranks).resolved
           /\ ToSet(Markers(a, ranks).unresolved)
              = ToSet(Markers(b, ranks).unresolved) \cup ToSet(Markers(c, ranks).unresolved)
           /\ Clean(Markers(a, ranks)) <=> Clean(Markers(b, ranks)) /\ Clean(Markers(c, ranks))
  <1>1. Readable(b) /\ Readable(c)
    BY ONLY Readable(a), Halved(a, at, b, c), a[at].kind = "break", HalvesReadable
  <1>2. "number" # "break" /\ "label" # "break"
    OBVIOUS
  <1>3. /\ Values(a, "number") = Values(b, "number") \cup Values(c, "number")
        /\ Values(a, "label") = Values(b, "label") \cup Values(c, "label")
    BY ONLY Halved(a, at, b, c), a[at].kind = "break", <1>2, HalvesRead
  <1>4. Cardinality(Resolving(a, ranks)) = Cardinality(Resolving(b, ranks)) + Cardinality(Resolving(c, ranks))
    BY ONLY Halved(a, at, b, c), a[at].kind = "break", HalvesResolve
  <1>5. \A rule : TripsRule(a, rule) <=> TripsRule(b, rule) \/ TripsRule(c, rule)
    BY ONLY Halved(a, at, b, c), a[at].kind = "break", HalvesTrip
  <1>6. ToSet(AdviceHits(a)) = ToSet(AdviceHits(b)) \cup ToSet(AdviceHits(c))
    BY <1>5, HitsAre
  <1> DEFINE R(s) == /\ Markers(s, ranks).resolved = Cardinality(Resolving(s, ranks))
                     /\ ToSet(Markers(s, ranks).unresolved) = Values(s, "number") \ ranks
                     /\ Clean(Markers(s, ranks)) <=>
                           Values(s, "number") \ ranks = {} /\ Values(s, "label") = {}
  <1>7. R(a) /\ R(b) /\ R(c)
    BY <1>1, ReportIs
  <1>8. Markers(a, ranks).resolved = Markers(b, ranks).resolved + Markers(c, ranks).resolved
    BY <1>4, <1>7
  <1>9. ToSet(Markers(a, ranks).unresolved)
        = ToSet(Markers(b, ranks).unresolved) \cup ToSet(Markers(c, ranks).unresolved)
    BY <1>3, <1>7
  <1>10. Clean(Markers(a, ranks)) <=> Clean(Markers(b, ranks)) /\ Clean(Markers(c, ranks))
    BY <1>3, <1>7
  <1> QED
    BY <1>6, <1>8, <1>9, <1>10

\* A refused answer leaves one line, the validator's.
LEMMA RefusedIsSilent ==
    ASSUME NEW answer, NEW ranks, NEW works, Show(answer, ranks, works).verdict.refused
    PROVE  \A i \in DOMAIN Show(answer, ranks, works).log :
              Show(answer, ranks, works).log[i].name # "citation_markers"
  <1> DEFINE shown == Show(answer, ranks, works)
  <1>1. shown.verdict = ValidateAnswer(answer, works)
    BY DEF Show
  <1>2. shown.log = shown.verdict.log
    BY <1>1 DEF Show
  <1>3. works /\ AdviceHits(answer) # <<>>
    <2> DEFINE v == ValidateAnswer(answer, works)
    <2>1. v.refused
      BY <1>1
    <2>2. ~works => v.refused = FALSE
      BY DEF ValidateAnswer
    <2>3. works => v.refused = (AdviceHits(answer) # <<>>)
      BY DEF ValidateAnswer
    <2> HIDE DEF v
    <2> QED
      BY <2>1, <2>2, <2>3
  <1> DEFINE line == Event("output_validator", None, 1, [refused |-> TRUE])
  <1>4. shown.verdict.log = <<line>>
    BY <1>1, <1>3 DEF ValidateAnswer
  <1>5. line.name # "citation_markers"
    BY DEF Event
  <1> HIDE DEF shown, line
  <1>7. shown.log = <<line>>
    BY <1>2, <1>4
  <1>6. \A i \in DOMAIN shown.log : shown.log[i].name # "citation_markers"
    BY <1>5, <1>7
  <1> QED
    BY <1>6 DEF shown

\* What Show makes of a two-clause answer is what it makes of each clause.
LEMMA ClausesAnswer ==
    ASSUME job \in Jobs, job.kind = "show",
           result = Merged([kind |-> "shown"], Show(job.answer, job.ranks, job.guardWorks))
    PROVE  ClausesAnswerForThemselves
  <1> DEFINE a == job.answer
             ranks == job.ranks
             shown == Show(a, ranks, job.guardWorks)
  <1>1. IsList(a) /\ \A i \in Brackets(a, "number") : a[i].value \in Nat
    BY JobsAssumption
  <1>2. Readable(a)
    <2>1. DOMAIN a = 1..Len(a) /\ Len(a) \in Nat
      BY <1>1 DEF IsList
    <2>2. \A n \in Nat : IsFiniteSet(1..n)
      BY FS_Interval
    <2> QED
      BY <1>1, <2>1, <2>2 DEF Readable, Values
  <1>3. result.verdict = shown.verdict /\ result.log = shown.log
    <2>1. DOMAIN shown = {"verdict", "log"}
      BY DEF Show
    <2> HIDE DEF shown
    <2> QED
      BY <2>1 DEF Merged, shown
  <1>4. result.verdict.refused => \A i \in DOMAIN result.log : result.log[i].name # "citation_markers"
    <2> HIDE DEF a, ranks
    <2> QED
      BY <1>3, RefusedIsSilent
  <1> HIDE DEF a, ranks, shown
  <1>5. ASSUME NEW at \in DOMAIN a, a[at] = Break
        PROVE  LET b == SubSeq(a, 1, at - 1)
                   c == SubSeq(a, at + 1, Len(a))
               IN
               /\ ToSet(AdviceHits(a)) = ToSet(AdviceHits(b)) \cup ToSet(AdviceHits(c))
               /\ Markers(a, ranks).resolved = Markers(b, ranks).resolved + Markers(c, ranks).resolved
               /\ ToSet(Markers(a, ranks).unresolved)
                  = UNION {ToSet(h.unresolved) : h \in {Markers(b, ranks), Markers(c, ranks)}}
               /\ Clean(Markers(a, ranks)) <=> \A h \in {Markers(b, ranks), Markers(c, ranks)} : Clean(h)
    <2> DEFINE b == SubSeq(a, 1, at - 1)
               c == SubSeq(a, at + 1, Len(a))
    <2>1. Halved(a, at, b, c)
      BY <1>1, HalvesAre
    <2>2. a[at].kind = "break"
      BY <1>5 DEF Break, Said
    <2> HIDE DEF b, c
    <2>3. /\ ToSet(AdviceHits(a)) = ToSet(AdviceHits(b)) \cup ToSet(AdviceHits(c))
          /\ Markers(a, ranks).resolved = Markers(b, ranks).resolved + Markers(c, ranks).resolved
          /\ ToSet(Markers(a, ranks).unresolved)
             = ToSet(Markers(b, ranks).unresolved) \cup ToSet(Markers(c, ranks).unresolved)
          /\ Clean(Markers(a, ranks)) <=> Clean(Markers(b, ranks)) /\ Clean(Markers(c, ranks))
      BY ONLY <1>2, <2>1, <2>2, HalvesAnswer
    <2>4. UNION {ToSet(h.unresolved) : h \in {Markers(b, ranks), Markers(c, ranks)}}
          = ToSet(Markers(b, ranks).unresolved) \cup ToSet(Markers(c, ranks).unresolved)
      OBVIOUS
    <2> QED
      BY <2>3, <2>4 DEF b, c
  <1> QED
    BY <1>4, <1>5 DEF ClausesAnswerForThemselves, a, ranks

(* Cut at a break between clauses, an answer trips the advice rules its    *)
(* two halves trip, and its citations are those of its halves: no denial   *)
(* in one clause excuses advice in another, and an answer that is refused  *)
(* counts no citations (security/advice.py:235-275, markers.py:136-167).   *)
THEOREM ClausesStandAlone == Spec => []ClausesAnswerForThemselves
  <1>1. ResultOK => ClausesAnswerForThemselves
    BY ClausesAnswer DEF ResultOK, ClausesAnswerForThemselves
  <1> QED
    BY <1>1, ResultAlways, PTL

-------------------------------------------------------------------------------
(* The width of a text, and the rules' payloads (security/denylist.py).    *)

\* The width of a text so far.
SumsUp(f, text, squeezed) ==
    /\ f \in [0..Len(text) -> Nat]
    /\ f[0] = 0
    /\ \A i \in 1..Len(text) : f[i] = f[i - 1] + Width(text[i], squeezed)
    /\ FoldLeft(LAMBDA sum, w : sum + Width(w, squeezed), 0, text) = f[Len(text)]

\* A word takes up room, and no more of it squeezed together than spaced.
LEMMA WidthIsCount ==
    ASSUME NEW w \in Disguised
    PROVE  /\ \A squeezed : Width(w, squeezed) \in Nat
           /\ Width(w, TRUE) = w.before + w.chars + w.after /\ Width(w, TRUE) <= Width(w, FALSE)
  <1> DEFINE letters == w.before + w.chars + w.after
  <1>1. w.chars \in Nat \ {0} /\ w.before \in Nat /\ w.after \in Nat
    BY DEF Disguised
  <1>2. letters \in Nat /\ letters # 0
    <2>1. \A p, r \in Nat, q \in Nat \ {0} : p + q + r \in Nat /\ p + q + r # 0
      OBVIOUS
    <2> QED
      BY ONLY <1>1, <2>1
  <1>3. \A squeezed : Width(w, squeezed) =
           IF "spaced" \in w.disguise /\ ~squeezed THEN 2 * letters - 1 ELSE letters
    BY DEF Width
  <1> HIDE DEF letters
  <1>4. 2 * letters - 1 \in Nat /\ letters \in Nat /\ letters <= 2 * letters - 1
    BY <1>2
  <1>5. \A squeezed : Width(w, squeezed) \in Nat
    BY <1>3, <1>4
  <1>6. Width(w, TRUE) = letters
    BY <1>3
  <1>7. Width(w, FALSE) = 2 * letters - 1 \/ Width(w, FALSE) = letters
    BY <1>3
  <1>8. Width(w, TRUE) <= Width(w, FALSE)
    <2>1. letters <= letters
      BY <1>4
    <2>2. CASE Width(w, FALSE) = letters
      BY ONLY <1>6, <2>1, <2>2
    <2>3. CASE Width(w, FALSE) = 2 * letters - 1
      BY ONLY <1>4, <1>6, <2>3
    <2> QED
      BY <1>7, <2>2, <2>3
  <1> QED
    BY <1>5, <1>6, <1>8 DEF letters

\* How wide a text is, summed up word by word.
LEMMA WidthFold ==
    ASSUME NEW text \in Seq(Disguised), NEW squeezed
    PROVE  \E f : SumsUp(f, text, squeezed)
  <1> DEFINE n == Len(text)
             g == [p \in (1..n) \X Nat |-> p[2] + Width(text[p[1]], squeezed)]
             iterated(it) == it = [s \in SUBSET (DOMAIN text) |->
                 IF s = {} THEN 0
                 ELSE it[s \ {Max(s)}] + Width(text[Max(s)], squeezed)]
             it == CHOOSE h : iterated(h)
  <1>1. n \in Nat /\ DOMAIN text = 1..n /\ \A i \in 1..n : text[i] \in Disguised
    OBVIOUS
  <1>2. g \in [(1..n) \X Nat -> Nat] /\ 0 \in Nat
    <2>1. ASSUME NEW i \in 1..n, NEW sum \in Nat PROVE sum + Width(text[i], squeezed) \in Nat
      <3>1. Width(text[i], squeezed) \in Nat
        BY <1>1, WidthIsCount
      <3> QED
        BY <3>1
    <2> QED
      BY <2>1
  <1> HIDE DEF n
  <1>3. PICK c : Chain(c, n, Nat, 0, g)
    BY ONLY <1>1, <1>2, ChainExists
  <1>4. iterated(c)
    <2> DEFINE h == c
    <2>1. ASSUME NEW s \in SUBSET (1..n), s # {}
          PROVE  g[<<Max(s), h[s \ {Max(s)}]>>] = h[s \ {Max(s)}] + Width(text[Max(s)], squeezed)
      <3>1. Max(s) \in 1..n /\ h[s \ {Max(s)}] \in Nat
        BY <1>1, <1>3, <2>1, MaxIs DEF Chain
      <3> QED
        BY <3>1
    <2> HIDE DEF g
    <2> QED
      BY <1>1, <1>3, <2>1 DEF Chain
  <1>6. iterated(it)
    BY <1>4
  <1>7. it = c
    <2> DEFINE E == {s \in SUBSET (1..n) : it[s] = c[s]}
    <2>1. {} \in E
      BY <1>1, <1>4, <1>6
    <2>2. ASSUME NEW T \in SUBSET (1..n), T # {}, \A x \in T : T \ {x} \in E PROVE T \in E
      <3>1. Max(T) \in T
        BY <1>1, <2>2, MaxIs
      <3>2. it[T \ {Max(T)}] = c[T \ {Max(T)}]
        BY <2>2, <3>1
      <3> HIDE DEF it
      <3>3. /\ it[T] = it[T \ {Max(T)}] + Width(text[Max(T)], squeezed)
            /\ c[T] = c[T \ {Max(T)}] + Width(text[Max(T)], squeezed)
        BY <1>1, <1>4, <1>6, <2>2
      <3> QED
        BY <3>2, <3>3
    <2>3. IsFiniteSet(1..n)
      BY <1>1, FS_Interval
    <2> HIDE DEF E, iterated
    <2>4. \A T \in SUBSET (1..n) : T \in E
      BY ONLY <2>1, <2>2, <2>3, Shrinking
    <2>5. \A T \in SUBSET (1..n) : it[T] = c[T]
      BY <2>4 DEF E
    <2>6. /\ c = [s \in SUBSET (1..n) |-> c[s]] /\ it = [s \in SUBSET (1..n) |-> it[s]]
      <3>1. it = [s \in SUBSET (1..n) |-> it[s]]
        <4> HIDE DEF it
        <4> QED
          BY <1>1, <1>6 DEF iterated
      <3> QED
        BY <1>3, <3>1 DEF Chain
    <2> HIDE DEF it
    <2> QED
      BY <2>5, <2>6
  <1>8. FoldLeft(LAMBDA sum, w : sum + Width(w, squeezed), 0, text) = it[1..n]
    BY <1>1 DEF FoldLeft, MapThenFoldSet
  <1> HIDE DEF it, iterated, g
  <1> DEFINE f == Climb(c, n)
  <1>9. Climbs(f, n, Nat, 0, g) /\ c[1..n] = f[n]
    <2>1. n \in Nat
      BY <1>1
    <2> QED
      BY ONLY <2>1, <1>3, ChainFolds
  <1> HIDE DEF f
  <1>10. \A i \in 1..n : f[i] = f[i - 1] + Width(text[i], squeezed)
    <2> SUFFICES ASSUME NEW i \in 1..n PROVE f[i] = f[i - 1] + Width(text[i], squeezed)
      OBVIOUS
    <2>1. i - 1 \in 0..n
      BY <1>1
    <2>2. f[i - 1] \in Nat
      BY <1>9, <2>1 DEF Climbs
    <2> QED
      BY <1>9, <2>2 DEF g, Climbs
  <1> QED
    BY <1>7, <1>8, <1>9, <1>10 DEF n, Climbs, SumsUp

\* Squeezed together a text is no longer.
LEMMA SqueezedIsNarrower ==
    ASSUME NEW text \in Seq(Disguised)
    PROVE  /\ FoldLeft(LAMBDA sum, w : sum + Width(w, TRUE), 0, text) \in Nat
           /\ FoldLeft(LAMBDA sum, w : sum + Width(w, FALSE), 0, text) \in Nat
           /\ FoldLeft(LAMBDA sum, w : sum + Width(w, TRUE), 0, text)
              <= FoldLeft(LAMBDA sum, w : sum + Width(w, FALSE), 0, text)
  <1> DEFINE n == Len(text)
  <1>0. n \in Nat /\ \A i \in 1..n : text[i] \in Disguised
    OBVIOUS
  <1>1. PICK f : SumsUp(f, text, TRUE)
    BY ONLY text \in Seq(Disguised), WidthFold
  <1>2. PICK h : SumsUp(h, text, FALSE)
    BY ONLY text \in Seq(Disguised), WidthFold
  <1> HIDE DEF n
  <1>3. /\ f \in [0..n -> Nat] /\ f[0] = 0 /\ \A i \in 1..n : f[i] = f[i - 1] + Width(text[i], TRUE)
        /\ h \in [0..n -> Nat] /\ h[0] = 0 /\ \A i \in 1..n : h[i] = h[i - 1] + Width(text[i], FALSE)
    BY <1>1, <1>2 DEF SumsUp, n
  <1> DEFINE G == {m \in Nat : m <= n => f[m] <= h[m]}
  <1>4. 0 \in G
    BY <1>3
  <1>5. ASSUME NEW m \in G PROVE m + 1 \in G
    <2> SUFFICES ASSUME m + 1 <= n PROVE f[m + 1] <= h[m + 1]
      OBVIOUS
    <2>1. m \in 0..n /\ m + 1 \in 1..n /\ (m + 1) - 1 = m
      BY <1>0
    <2>2. f[m] <= h[m] /\ f[m] \in Nat /\ h[m] \in Nat
      BY <1>3, <2>1
    <2>3. f[m + 1] = f[m] + Width(text[m + 1], TRUE) /\ h[m + 1] = h[m] + Width(text[m + 1], FALSE)
      BY <1>3, <2>1
    <2>4. /\ Width(text[m + 1], TRUE) \in Nat /\ Width(text[m + 1], FALSE) \in Nat
          /\ Width(text[m + 1], TRUE) <= Width(text[m + 1], FALSE)
      BY <1>0, <2>1, WidthIsCount
    <2>5. \A p, q, r, s \in Nat : p <= q /\ r <= s => p + r <= q + s
      OBVIOUS
    <2> HIDE DEF G
    <2> QED
      BY ONLY <2>2, <2>3, <2>4, <2>5
  <1>6. G \in SUBSET Nat
    OBVIOUS
  <1>7. G = Nat
    <2> HIDE DEF G
    <2> QED
      BY ONLY <1>4, <1>5, <1>6, CountingUp
  <1>8. f[n] <= h[n] /\ f[n] \in Nat /\ h[n] \in Nat
    <2>1. n \in 0..n /\ n <= n
      BY <1>0
    <2>2. n \in G
      BY <1>0, <1>7
    <2>3. f[n] <= h[n]
      BY <2>1, <2>2
    <2> HIDE DEF G
    <2> QED
      BY <1>3, <2>1, <2>3
  <1> QED
    BY <1>1, <1>2, <1>8 DEF SumsUp, n

\* A payload's words come one after another, each with its distance.
IsPayload(payload) ==
    /\ \E k \in Nat : DOMAIN payload = 1..k
    /\ \A i \in DOMAIN payload : payload[i].within \in Nat

\* A payload of one word whose gap is a number.
LEMMA PayloadOfOne ==
    ASSUME NEW a, a.within \in Nat
    PROVE  IsPayload(<<a>>)
  <1>1. DOMAIN <<a>> = 1..1 /\ <<a>>[1] = a
    OBVIOUS
  <1> QED
    BY <1>1 DEF IsPayload

\* The same of two words.
LEMMA PayloadOfTwo ==
    ASSUME NEW a, a.within \in Nat, NEW b, b.within \in Nat
    PROVE  IsPayload(<<a, b>>)
  <1>1. DOMAIN <<a, b>> = 1..2 /\ <<a, b>>[1] = a /\ <<a, b>>[2] = b
    OBVIOUS
  <1> QED
    BY <1>1 DEF IsPayload

\* The same of three words.
LEMMA PayloadOfThree ==
    ASSUME NEW a, a.within \in Nat, NEW b, b.within \in Nat, NEW c, c.within \in Nat
    PROVE  IsPayload(<<a, b, c>>)
  <1>1. DOMAIN <<a, b, c>> = 1..3 /\ <<a, b, c>>[1] = a /\ <<a, b, c>>[2] = b /\ <<a, b, c>>[3] = c
    OBVIOUS
  <1> QED
    BY <1>1 DEF IsPayload

\* The same of four words.
LEMMA PayloadOfFour ==
    ASSUME NEW a, a.within \in Nat, NEW b, b.within \in Nat, NEW c, c.within \in Nat, NEW d, d.within \in Nat
    PROVE  IsPayload(<<a, b, c, d>>)
  <1>1. DOMAIN <<a, b, c, d>> = 1..4 /\ <<a, b, c, d>>[1] = a /\ <<a, b, c, d>>[2] = b
        /\ <<a, b, c, d>>[3] = c /\ <<a, b, c, d>>[4] = d
    OBVIOUS
  <1> QED
    BY <1>1 DEF IsPayload

\* The gaps the rules allow are numbers.
LEMMA WithinIs ==
    /\ \A words : Gap(words).within \in Nat /\ Tight(words).within \in Nat
    /\ \A words : [within |-> 10, words |-> words].within \in Nat
  BY DEF Gap, Tight, MAX_GAP_CHARS

\* Every payload of every rule of the denylist is one.
LEMMA RulesArePayloads ==
    \A r \in DOMAIN RULES : \A payload \in RULES[r].alternatives : IsPayload(payload)
  <1> DEFINE ok(rule) == \A payload \in rule.alternatives : IsPayload(payload)
  <1>1. \A id : ok(RawRule(id))
    BY DEF RawRule
  <1>2. \A id, alternatives : (\A payload \in alternatives : IsPayload(payload)) => ok(Rule(id, alternatives))
    BY DEF Rule
  <1>3. ok(RULES[1])
    <2> DEFINE one == <<Gap({"ignore"}), Gap(Scope), Gap({"instruction", "rule", "prompt"})>>
    <2>1. IsPayload(one)
      BY WithinIs, PayloadOfThree
    <2>2. RULES[1].alternatives = {one}
      BY DEF RULES, Rule
    <2> HIDE DEF one
    <2> QED
      BY <2>1, <2>2
  <1>4. ok(RULES[2])
    <2> DEFINE one == <<Gap({"repeat"}), Gap(Aside), Gap({"prompt", "instruction", "message"})>>
               two == <<Gap({"repeat"}), Gap({"original", "first", "previous"}), Gap({"prompt", "instruction"})>>
    <2>1. IsPayload(one) /\ IsPayload(two)
      BY WithinIs, PayloadOfThree
    <2>2. RULES[2].alternatives = {one, two}
      BY DEF RULES, Rule
    <2> HIDE DEF one, two
    <2> QED
      BY <2>1, <2>2
  <1>5. ok(RULES[3])
    <2> DEFINE p1 == <<Tight({"you"}), Tight({"are"}), Tight({"now"})>>
               p2 == <<Tight({"from"}), Tight({"now"}), Tight({"on"}), Tight({"you"})>>
               p3 == <<Tight({"pretend"}), Tight({"to", "you"})>>
               p4 == <<Tight({"role"}), Tight({"play"}), Tight({"as"})>>
               p5 == <<Tight({"act"}), Tight({"as"}), Tight({"if"})>>
               p6 == <<Tight({"new"}), Tight({"persona"})>>
               p7 == <<Tight({"stop"}), Tight({"being"}), [within |-> 10, words |-> {"assistant"}]>>
    <2>1. IsPayload(p1) /\ IsPayload(p4) /\ IsPayload(p5) /\ IsPayload(p7)
      BY WithinIs, PayloadOfThree
    <2>2. IsPayload(p3) /\ IsPayload(p6)
      BY WithinIs, PayloadOfTwo
    <2>3. IsPayload(p2)
      BY WithinIs, PayloadOfFour
    <2>4. RULES[3].alternatives = {p1, p2, p3, p4, p5, p6, p7}
      BY DEF RULES, Rule
    <2> HIDE DEF p1, p2, p3, p4, p5, p6, p7
    <2> QED
      BY <2>1, <2>2, <2>3, <2>4
  <1>6. ok(RULES[4])
    <2> DEFINE one == <<Gap(Suspending), Gap({"guardrail"})>>
               two == <<Gap(Suspending), Gap({"your"}), Gap({"guardrail", "filter"})>>
    <2>1. IsPayload(one) /\ IsPayload(two)
      BY WithinIs, PayloadOfTwo, PayloadOfThree
    <2>2. RULES[4].alternatives = {one, two}
      BY DEF RULES, Rule
    <2> HIDE DEF one, two
    <2> QED
      BY <2>1, <2>2
  <1>7. ok(RULES[5])
    <2> DEFINE one == <<Tight({"developer", "unfiltered"}), Tight({"mode"})>>
               two == <<Tight({"jailbreak"})>>
               three == <<Tight({"do"}), Tight({"anything"}), Tight({"now"})>>
    <2>1. IsPayload(one) /\ IsPayload(two) /\ IsPayload(three)
      BY WithinIs, PayloadOfOne, PayloadOfTwo, PayloadOfThree
    <2>2. RULES[5].alternatives = {one, two, three}
      BY DEF RULES, Rule
    <2> HIDE DEF one, two, three
    <2> QED
      BY <2>1, <2>2
  <1>8. ok(RULES[6]) /\ ok(RULES[7])
    <2>1. RULES[6] = RawRule("delimiter-forgery") /\ RULES[7] = RawRule("role-spoof")
      BY DEF RULES
    <2> QED
      BY <1>1, <2>1
  <1>9. DOMAIN RULES = {1, 2, 3, 4, 5, 6, 7}
    BY DEF RULES
  <1> HIDE DEF ok
  <1>10. \A r \in DOMAIN RULES : ok(RULES[r])
    BY <1>3, <1>4, <1>5, <1>6, <1>7, <1>8, <1>9
  <1> QED
    BY <1>10 DEF ok

-------------------------------------------------------------------------------
(* The two forms of a question.                                            *)

Form(folded, squeezed) == [folded |-> folded, squeezed |-> squeezed]

\* A stretch between two words, squeezed together or not.
LEMMA BetweenNarrows ==
    ASSUME NEW words \in Seq(Disguised), NEW i \in DOMAIN words, NEW j \in DOMAIN words, i < j
    PROVE  /\ Between(words, TRUE, i, j) \in Nat /\ Between(words, FALSE, i, j) \in Nat
           /\ Between(words, TRUE, i, j) <= Between(words, FALSE, i, j)
  <1> DEFINE text == SubSeq(words, i + 1, j - 1)
             narrow == FoldLeft(LAMBDA sum, w : sum + Width(w, TRUE), 0, text)
             wide == FoldLeft(LAMBDA sum, w : sum + Width(w, FALSE), 0, text)
             ends == words[i].after + words[j].before
  <1>0. words[i] \in Disguised /\ words[j] \in Disguised
    OBVIOUS
  <1>a. words[i].after \in Nat /\ words[j].before \in Nat
    BY <1>0 DEF Disguised
  <1>b. ends \in Nat
    BY ONLY <1>a
  <1>1. i \in Nat /\ j \in Nat /\ j - i \in Nat /\ ends \in Nat
    BY <1>b
  <1>2. text \in Seq(Disguised)
    OBVIOUS
  <1>3. Between(words, TRUE, i, j) = ends + narrow + 0 /\ Between(words, FALSE, i, j) = ends + wide + (j - i)
    BY DEF Between
  <1> HIDE DEF text
  <1>4. narrow \in Nat /\ wide \in Nat /\ narrow <= wide
    BY <1>2, SqueezedIsNarrower
  <1> DEFINE b == Between(words, TRUE, i, j)
             c == Between(words, FALSE, i, j)
  <1>5. b = ends + narrow + 0 /\ c = ends + wide + (j - i)
    BY <1>3
  <1> HIDE DEF ends, narrow, wide, b, c
  <1>6. b \in Nat /\ c \in Nat /\ b <= c
    BY <1>1, <1>4, <1>5
  <1> QED
    BY <1>6 DEF b, c

\* What the words spell as typed, they spell squeezed together.
LEMMA SpellsSqueezed ==
    ASSUME NEW words \in Seq(Disguised), NEW payload, IsPayload(payload),
           Spells(words, payload, Form(TRUE, FALSE))
    PROVE  Spells(words, payload, Form(TRUE, TRUE))
  <1>0. \A f, s : Form(f, s).folded = f /\ Form(f, s).squeezed = s
    BY DEF Form
  <1>1. PICK place \in [DOMAIN payload -> DOMAIN words] :
           \A i \in DOMAIN payload :
              /\ words[place[i]].word \in payload[i].words
              /\ i > 1 => /\ place[i - 1] < place[i]
                          /\ Between(words, Form(TRUE, FALSE).squeezed, place[i - 1], place[i])
                                <= payload[i].within
    BY DEF Spells
  <1>2. \A w : Legible(w, Form(TRUE, TRUE))
    BY <1>0 DEF Legible
  <1>3. \A i \in DOMAIN payload : i > 1 => i - 1 \in DOMAIN payload
    BY DEF IsPayload
  <1>4. ASSUME NEW i \in DOMAIN payload, i > 1
        PROVE  Between(words, TRUE, place[i - 1], place[i]) <= payload[i].within
    <2>1. place[i - 1] \in DOMAIN words /\ place[i] \in DOMAIN words /\ place[i - 1] < place[i]
          /\ Between(words, FALSE, place[i - 1], place[i]) <= payload[i].within
      BY <1>0, <1>1, <1>3, <1>4
    <2>2. /\ Between(words, TRUE, place[i - 1], place[i]) \in Nat
          /\ Between(words, FALSE, place[i - 1], place[i]) \in Nat
          /\ Between(words, TRUE, place[i - 1], place[i]) <= Between(words, FALSE, place[i - 1], place[i])
      BY <2>1, BetweenNarrows
    <2>3. payload[i].within \in Nat
      BY DEF IsPayload
    <2>4. \A p, q, r \in Nat : p <= q /\ q <= r => p <= r
      OBVIOUS
    <2> QED
      BY ONLY <2>1, <2>2, <2>3, <2>4
  <1>5. \A i : Anchored(words, i, Form(TRUE, TRUE).squeezed)
    BY <1>0 DEF Anchored
  <1> QED
    BY <1>0, <1>1, <1>2, <1>4, <1>5 DEF Spells

\* The words without their disguises.
Plain(words) == [i \in DOMAIN words |-> [words[i] EXCEPT !.disguise = {}]]

\* Without their disguise the words are words still, and the same ones.
LEMMA PlainWords ==
    ASSUME NEW words \in Seq(Disguised)
    PROVE  /\ Plain(words) \in Seq(Disguised) /\ DOMAIN Plain(words) = DOMAIN words
           /\ \A i \in DOMAIN words : /\ Plain(words)[i].word = words[i].word
                                      /\ Plain(words)[i].chars = words[i].chars
                                      /\ Plain(words)[i].before = words[i].before
                                      /\ Plain(words)[i].after = words[i].after
                                      /\ Plain(words)[i].disguise = {}
  <1>1. \A i \in DOMAIN words : words[i] \in Disguised
    OBVIOUS
  <1>2. \A i \in DOMAIN words : [words[i] EXCEPT !.disguise = {}] \in Disguised
    BY <1>1 DEF Disguised
  <1>3. \A i \in DOMAIN words : /\ [words[i] EXCEPT !.disguise = {}].word = words[i].word
                                /\ [words[i] EXCEPT !.disguise = {}].chars = words[i].chars
                                /\ [words[i] EXCEPT !.disguise = {}].before = words[i].before
                                /\ [words[i] EXCEPT !.disguise = {}].after = words[i].after
                                /\ [words[i] EXCEPT !.disguise = {}].disguise = {}
    BY <1>1 DEF Disguised
  <1>4. DOMAIN words = 1..Len(words) /\ Len(words) \in Nat
    OBVIOUS
  <1>5. Plain(words) \in [1..Len(words) -> Disguised]
    BY <1>2, <1>4 DEF Plain
  <1>6. Plain(words) \in Seq(Disguised)
    BY <1>4, <1>5
  <1> QED
    BY <1>3, <1>6 DEF Plain

\* Squeezed together, a stretch is as long in plain words as in disguise.
LEMMA PlainIsAsLong ==
    ASSUME NEW words \in Seq(Disguised), NEW i \in DOMAIN words, NEW j \in DOMAIN words, i < j
    PROVE  Between(Plain(words), TRUE, i, j) = Between(words, TRUE, i, j)
  <1> DEFINE plain == Plain(words)
             text == SubSeq(words, i + 1, j - 1)
             said == SubSeq(plain, i + 1, j - 1)
  <1>1. /\ plain \in Seq(Disguised) /\ DOMAIN plain = DOMAIN words
        /\ \A k \in DOMAIN words : /\ plain[k].chars = words[k].chars
                                   /\ plain[k].before = words[k].before /\ plain[k].after = words[k].after
    BY PlainWords
  <1> HIDE DEF plain
  <1>2. DOMAIN words = 1..Len(words) /\ Len(words) \in Nat /\ Len(plain) = Len(words)
    <2>1. DOMAIN words = 1..Len(words) /\ Len(words) \in Nat
      OBVIOUS
    <2>2. DOMAIN plain = 1..Len(plain) /\ Len(plain) \in Nat
      BY <1>1
    <2>3. \A m, n \in Nat : 1..m = 1..n => m = n
      <3>1. \A n \in Nat : Cardinality(1..n) = n
        BY FS_Interval
      <3> QED
        BY <3>1
    <2> QED
      BY <1>1, <2>1, <2>2, <2>3
  <1>3. /\ text \in Seq(Disguised) /\ said \in Seq(Disguised) /\ Len(text) \in Nat
        /\ Len(text) = Len(said)
        /\ \A k \in 1..Len(text) : text[k] = words[i + k] /\ said[k] = plain[i + k] /\ i + k \in DOMAIN words
    <2>1. text \in Seq(Disguised) /\ Len(text) = (j - 1) - i
          /\ \A k \in 1..((j - 1) - i) : text[k] = words[(i + 1) + k - 1]
      BY <1>2
    <2>2. said \in Seq(Disguised) /\ Len(said) = (j - 1) - i
          /\ \A k \in 1..((j - 1) - i) : said[k] = plain[(i + 1) + k - 1]
      BY <1>1, <1>2, SMTT(30)
    <2>3. \A k \in 1..((j - 1) - i) : (i + 1) + k - 1 = i + k /\ i + k \in DOMAIN words
      BY <1>2
    <2>4. (j - 1) - i \in Nat
      BY <1>2
    <2> HIDE DEF text, said
    <2> QED
      BY <2>1, <2>2, <2>3, <2>4
  <1> HIDE DEF text, said
  <1>4. \A k \in 1..Len(text) : Width(text[k], TRUE) = Width(said[k], TRUE)
    BY <1>1, <1>3 DEF Width
  <1>5. PICK f : SumsUp(f, text, TRUE)
    BY ONLY <1>3, WidthFold
  <1>6. PICK h : SumsUp(h, said, TRUE)
    BY ONLY <1>3, WidthFold
  <1> DEFINE n == Len(text)
  <1>7. /\ f[0] = 0 /\ \A k \in 1..n : f[k] = f[k - 1] + Width(text[k], TRUE)
        /\ h[0] = 0 /\ \A k \in 1..n : h[k] = h[k - 1] + Width(said[k], TRUE)
    BY <1>3, <1>5, <1>6 DEF SumsUp
  <1> DEFINE G == {m \in Nat : m <= n => f[m] = h[m]}
  <1>8. 0 \in G
    BY <1>7
  <1>9. ASSUME NEW m \in G PROVE m + 1 \in G
    <2> SUFFICES ASSUME m + 1 <= n PROVE f[m + 1] = h[m + 1]
      OBVIOUS
    <2>1. m <= n /\ m + 1 \in 1..n /\ (m + 1) - 1 = m
      BY <1>3
    <2>2. f[m] = h[m]
      BY <2>1
    <2>3. f[m + 1] = f[m] + Width(text[m + 1], TRUE) /\ h[m + 1] = h[m] + Width(said[m + 1], TRUE)
      BY <1>7, <2>1
    <2>4. Width(text[m + 1], TRUE) = Width(said[m + 1], TRUE)
      BY <1>4, <2>1
    <2> HIDE DEF G
    <2> QED
      BY ONLY <2>2, <2>3, <2>4
  <1>10. G \in SUBSET Nat
    OBVIOUS
  <1>11. G = Nat
    <2> HIDE DEF G
    <2> QED
      BY ONLY <1>8, <1>9, <1>10, CountingUp
  <1>12. f[n] = h[n]
    <2>1. n \in G /\ n <= n
      BY <1>3, <1>11
    <2> QED
      BY <2>1
  <1>13. FoldLeft(LAMBDA sum, w : sum + Width(w, TRUE), 0, text)
         = FoldLeft(LAMBDA sum, w : sum + Width(w, TRUE), 0, said)
    BY <1>3, <1>5, <1>6, <1>12 DEF SumsUp
  <1>14. plain[i].after = words[i].after /\ plain[j].before = words[j].before
    BY <1>1
  <1> QED
    BY <1>13, <1>14 DEF Between, text, said, plain

\* Folded and squeezed together, a disguise is not seen.
LEMMA SqueezedIsPlain ==
    ASSUME NEW words \in Seq(Disguised), NEW payload, IsPayload(payload)
    PROVE  Spells(words, payload, Form(TRUE, TRUE)) <=> Spells(Plain(words), payload, Form(TRUE, TRUE))
  <1> DEFINE Here(ws, place) ==
               \A i \in DOMAIN payload :
                  /\ ws[place[i]].word \in payload[i].words
                  /\ i > 1 => /\ place[i - 1] < place[i]
                              /\ Between(ws, TRUE, place[i - 1], place[i]) <= payload[i].within
  <1>1. /\ Form(TRUE, TRUE).squeezed = TRUE /\ \A w : Legible(w, Form(TRUE, TRUE))
        /\ \A ws, i : Anchored(ws, i, Form(TRUE, TRUE).squeezed)
    BY DEF Form, Legible, Anchored
  <1>2. \A ws : Spells(ws, payload, Form(TRUE, TRUE)) <=> \E place \in [DOMAIN payload -> DOMAIN ws] : Here(ws, place)
    BY <1>1 DEF Spells
  <1>3. DOMAIN Plain(words) = DOMAIN words /\ \A i \in DOMAIN words : Plain(words)[i].word = words[i].word
    BY PlainWords
  <1>4. ASSUME NEW place \in [DOMAIN payload -> DOMAIN words] PROVE Here(words, place) <=> Here(Plain(words), place)
    <2>1. \A i \in DOMAIN payload : i > 1 => i - 1 \in DOMAIN payload
      BY DEF IsPayload
    <2>2. ASSUME NEW i \in DOMAIN payload, i > 1, place[i - 1] < place[i]
          PROVE  Between(words, TRUE, place[i - 1], place[i]) = Between(Plain(words), TRUE, place[i - 1], place[i])
      <3>1. place[i - 1] \in DOMAIN words /\ place[i] \in DOMAIN words
        BY <2>1, <2>2
      <3> QED
        BY <2>2, <3>1, PlainIsAsLong
    <2>3. \A i \in DOMAIN payload : Plain(words)[place[i]].word = words[place[i]].word
      BY <1>3
    <2> QED
      BY <2>2, <2>3
  <1> HIDE DEF Here
  <1> QED
    BY <1>2, <1>3, <1>4

\* The first of some rules is one of them and comes before the others.
LEMMA FirstRule ==
    ASSUME NEW rules \in SUBSET DOMAIN RULES, rules # {}
    PROVE  Min(rules) \in rules /\ \A r \in rules : Min(rules) <= r
  <1>1. DOMAIN RULES = 1..7
    BY DEF RULES
  <1>2. \A r \in rules : r = 1 \/ r = 2 \/ r = 3 \/ r = 4 \/ r = 5 \/ r = 6 \/ r = 7
    BY <1>1
  <1>3. \E first \in rules : \A r \in rules : first <= r
    BY ONLY <1>2, rules # {}
  <1> QED
    BY <1>3 DEF Min

\* The rules on structure stand last, so they give way to those on wording.
LEMMA WordingComesFirst ==
    ASSUME NEW some \in SUBSET DOMAIN RULES, some # {}, \A r \in some : ~RULES[r].raw,
           NEW more \in SUBSET DOMAIN RULES, some \subseteq more,
           \A r \in more \ some : RULES[r].raw
    PROVE  Min(some) = Min(more)
  <1>1. DOMAIN RULES = 1..7 /\ \A r \in 1..7 : RULES[r].raw <=> r \in {6, 7}
    BY DEF RULES, Rule, RawRule
  <1>2. Min(some) \in some /\ \A r \in some : Min(some) <= r
    BY FirstRule
  <1>3. Min(more) \in more /\ \A r \in more : Min(more) <= r
    BY FirstRule
  <1>4. Min(some) \in 1..5 /\ Min(some) \in more
    BY <1>1, <1>2
  <1>5. Min(more) \in 1..7 /\ Min(more) <= Min(some)
    BY <1>1, <1>3, <1>4
  <1>6. Min(more) \in some
    BY <1>1, <1>3, <1>4, <1>5
  <1> QED
    BY <1>2, <1>4, <1>5, <1>6

\* A structure is the rule it is about and whether it is disguised.
LEMMA StructureIs ==
    ASSUME NEW s \in [rule : STRING, disguised : BOOLEAN]
    PROVE  /\ [s EXCEPT !.disguised = FALSE] = Structure(s.rule, FALSE)
           /\ \A a : s = Structure(a, FALSE) <=> s.rule = a /\ ~s.disguised
  <1>1. PICK rule \in STRING, d \in BOOLEAN : s = [rule |-> rule, disguised |-> d]
    OBVIOUS
  <1>2. s.rule = rule /\ s.disguised = d
    BY <1>1
  <1>3. [s EXCEPT !.disguised = FALSE] = [rule |-> rule, disguised |-> FALSE]
    <2> DEFINE t == [s EXCEPT !.disguised = FALSE]
    <2>1. t \in [rule : STRING, disguised : BOOLEAN] /\ t.rule = s.rule /\ t.disguised = FALSE
      OBVIOUS
    <2> HIDE DEF t
    <2>2. PICK x \in STRING, y \in BOOLEAN : t = [rule |-> x, disguised |-> y]
      BY <2>1
    <2>3. x = rule /\ y = FALSE
      BY <1>2, <2>1, <2>2
    <2> QED
      BY <2>2, <2>3 DEF t
  <1>4. \A a : [rule |-> rule, disguised |-> d] = [rule |-> a, disguised |-> FALSE] <=> rule = a /\ d = FALSE
    <2> TAKE a
    <2>1. ASSUME [rule |-> rule, disguised |-> d] = [rule |-> a, disguised |-> FALSE]
          PROVE  rule = a /\ d = FALSE
      BY <2>1
    <2> QED
      BY <2>1
  <1> QED
    BY <1>1, <1>2, <1>3, <1>4 DEF Structure

\* What the rules on wording come to is the same in plain words, and only a
\* disguised structure can escape its own rule.
LEMMA DisguiseIsSeenThrough ==
    ASSUME NEW question, IsQuestion(question)
    PROVE  LET rule == Denylisted(question, TRUE)
               plain == Denylisted(Undisguised(question), TRUE)
           IN  \/ rule = plain
               \/ rule = None /\ question.structure.disguised /\ plain = question.structure.rule
  <1> DEFINE words == question.words
             plain == Undisguised(question)
             tripped(q) == {i \in DOMAIN RULES : Trips(q, RULES[i], TRUE)}
  <1>1. words \in Seq(Disguised) /\ question.structure \in [rule : STRING, disguised : BOOLEAN]
    BY DEF IsQuestion
  <1>2. plain.words = Plain(words) /\ plain.structure = Structure(question.structure.rule, FALSE)
    <2>1. [question.structure EXCEPT !.disguised = FALSE] = Structure(question.structure.rule, FALSE)
      BY <1>1, StructureIs
    <2>2. plain.words = Plain(words) /\ plain.structure = [question.structure EXCEPT !.disguised = FALSE]
      BY DEF Undisguised, Plain, IsQuestion
    <2> QED
      BY <2>1, <2>2
  <1>3. Plain(words) \in Seq(Disguised)
    BY <1>1, PlainWords
  <1> HIDE DEF words, plain
  <1>4. ASSUME NEW ws \in Seq(Disguised), NEW payload, IsPayload(payload)
        PROVE  (\E form \in MatchingForms(TRUE) : Spells(ws, payload, form))
               <=> Spells(ws, payload, Form(TRUE, TRUE))
    <2>1. MatchingForms(TRUE) = {Form(TRUE, TRUE), Form(TRUE, FALSE)}
      BY DEF MatchingForms, Form
    <2>2. Spells(ws, payload, Form(TRUE, FALSE)) => Spells(ws, payload, Form(TRUE, TRUE))
      BY <1>4, SpellsSqueezed
    <2> QED
      BY <2>1, <2>2
  <1>5. ASSUME NEW r \in DOMAIN RULES, ~RULES[r].raw
        PROVE  Trips(question, RULES[r], TRUE) <=> Trips(plain, RULES[r], TRUE)
    <2>1. ASSUME NEW payload \in RULES[r].alternatives
          PROVE  (\E form \in MatchingForms(TRUE) : Spells(words, payload, form))
                 <=> \E form \in MatchingForms(TRUE) : Spells(plain.words, payload, form)
      <3>1. IsPayload(payload)
        BY RulesArePayloads
      <3>2. Spells(words, payload, Form(TRUE, TRUE)) <=> Spells(Plain(words), payload, Form(TRUE, TRUE))
        BY ONLY <1>1, <3>1, SqueezedIsPlain
      <3> QED
        BY <1>1, <1>2, <1>3, <1>4, <3>1, <3>2
    <2> QED
      BY <1>5, <2>1 DEF Trips, words
  <1>6. ASSUME NEW r \in DOMAIN RULES, RULES[r].raw
        PROVE  /\ Trips(plain, RULES[r], TRUE) <=> question.structure.rule = RULES[r].id
               /\ Trips(question, RULES[r], TRUE)
                     <=> question.structure.rule = RULES[r].id /\ ~question.structure.disguised
    <2>1. \A a, b : Structure(a, FALSE) = Structure(b, FALSE) <=> a = b
      BY DEF Structure
    <2>2. \A a : question.structure = Structure(a, FALSE)
                    <=> question.structure.rule = a /\ ~question.structure.disguised
      BY <1>1, StructureIs
    <2> QED
      BY <1>2, <1>6, <2>1, <2>2 DEF Trips
  <1>7. CASE ~question.structure.disguised
    <2>1. tripped(question) = tripped(plain)
      BY <1>5, <1>6, <1>7
    <2>2. Denylisted(question, TRUE) = Denylisted(plain, TRUE)
      BY <2>1 DEF Denylisted
    <2> QED
      BY <2>2 DEF plain
  <1>8. CASE question.structure.disguised
    <2>1. tripped(question) \subseteq tripped(plain)
      BY <1>5, <1>6
    <2>2. \A r \in tripped(question) : ~RULES[r].raw
      BY <1>6, <1>8
    <2>3. \A r \in tripped(plain) \ tripped(question) : RULES[r].raw /\ RULES[r].id = question.structure.rule
      BY <1>5, <1>6
    <2>4. CASE tripped(question) = {} /\ tripped(plain) = {}
      <3>1. Denylisted(question, TRUE) = None /\ Denylisted(plain, TRUE) = None
        BY <2>4 DEF Denylisted
      <3> QED
        BY <3>1 DEF plain
    <2>5. CASE tripped(question) = {} /\ tripped(plain) # {}
      <3>1. Min(tripped(plain)) \in tripped(plain)
        BY <2>5, FirstRule
      <3>2. Denylisted(question, TRUE) = None /\ Denylisted(plain, TRUE) = RULES[Min(tripped(plain))].id
        BY <2>5 DEF Denylisted
      <3> HIDE DEF tripped
      <3>3. Denylisted(plain, TRUE) = question.structure.rule
        BY <2>3, <2>5, <3>1, <3>2
      <3> QED
        BY <1>8, <3>2, <3>3 DEF plain
    <2>6. CASE tripped(question) # {}
      <3>1. tripped(plain) \in SUBSET DOMAIN RULES /\ tripped(question) \in SUBSET DOMAIN RULES
        OBVIOUS
      <3>2. tripped(plain) # {}
        BY <2>1, <2>6
      <3>3. /\ Denylisted(question, TRUE) = RULES[Min(tripped(question))].id
            /\ Denylisted(plain, TRUE) = RULES[Min(tripped(plain))].id
        BY <2>6, <3>2 DEF Denylisted
      <3> HIDE DEF tripped
      <3>4. Min(tripped(question)) = Min(tripped(plain))
        BY <2>1, <2>2, <2>3, <2>6, <3>1, WordingComesFirst
      <3> QED
        BY <3>3, <3>4 DEF plain
    <2> QED
      BY <2>4, <2>5, <2>6
  <1> QED
    BY <1>7, <1>8

\* Where no word was folded, folding changes no verdict.
LEMMA FoldingIsCredited ==
    ASSUME NEW question, \A j \in DOMAIN question.words : "folded" \notin question.words[j].disguise
    PROVE  ~FoldingRequired(question)
  <1> DEFINE words == question.words
  <1>1. ASSUME NEW squeezed \in BOOLEAN, NEW payload
        PROVE  Spells(words, payload, Form(FALSE, squeezed)) <=> Spells(words, payload, Form(TRUE, squeezed))
    <2>1. /\ Form(FALSE, squeezed).squeezed = squeezed /\ Form(TRUE, squeezed).squeezed = squeezed
          /\ Form(FALSE, squeezed).folded = FALSE /\ Form(TRUE, squeezed).folded = TRUE
      BY DEF Form
    <2>2. \A j \in DOMAIN words : Legible(words[j], Form(FALSE, squeezed)) <=> Legible(words[j], Form(TRUE, squeezed))
      BY <2>1 DEF Legible
    <2> HIDE DEF words
    <2> QED
      BY <2>1, <2>2 DEF Spells
  <1>2. \A folded \in BOOLEAN : MatchingForms(folded) = {Form(folded, s) : s \in BOOLEAN}
    BY DEF MatchingForms, Form
  <1>3. \A rule : Trips(question, rule, FALSE) <=> Trips(question, rule, TRUE)
    <2> HIDE DEF words
    <2>1. ASSUME NEW rule PROVE Trips(question, rule, FALSE) <=> Trips(question, rule, TRUE)
      <3>1. \A payload : (\E form \in MatchingForms(FALSE) : Spells(words, payload, form))
                         <=> \E form \in MatchingForms(TRUE) : Spells(words, payload, form)
        BY <1>1, <1>2
      <3> QED
        BY <3>1 DEF Trips, words
    <2> QED
      BY <2>1
  <1>4. Denylisted(question, FALSE) = Denylisted(question, TRUE)
    <2>1. {i \in DOMAIN RULES : Trips(question, RULES[i], FALSE)} = {i \in DOMAIN RULES : Trips(question, RULES[i], TRUE)}
      BY <1>3
    <2> QED
      BY <2>1 DEF Denylisted
  <1> QED
    BY <1>4 DEF FoldingRequired

\* The classifier blocks only on a reply whose first word says so.
LEMMA OnlyYesBlocks ==
    ASSUME NEW reply, Classify(reply).verdict = "injection"
    PROVE  Head(SelectSeq(reply, LAMBDA w : w # "bullet")) = "YES"
  <1> DEFINE said == SelectSeq(reply, LAMBDA w : w # "bullet")
  <1>1. ReplyVerdict(reply) = "injection"
    BY DEF Classify
  <1>2. said # <<>> /\ said[1] = "YES"
    BY <1>1 DEF ReplyVerdict
  <1> HIDE DEF said
  <1>3. Head(said) = "YES"
    BY <1>2
  <1> QED
    BY <1>3 DEF said

\* What one screening decides.
LEMMA ScreeningIs ==
    ASSUME NEW question, NEW reply
    PROVE  LET s == Screen(question, reply).screening IN
           /\ s.rule = Denylisted(question, TRUE)
           /\ s.rule # None <=> ~s.classifier_ran
           /\ s.blocked /\ s.classifier_ran => Classify(reply).verdict = "injection"
  <1> DEFINE s == Screen(question, reply).screening
             rule == Denylisted(question, TRUE)
  <1>1. CASE rule # None
    <2>1. s = Screening(TRUE, "denylist", rule, FALSE, None)
      BY <1>1 DEF Screen
    <2> HIDE DEF s
    <2>2. s.rule = rule /\ s.classifier_ran = FALSE
      BY <2>1 DEF Screening
    <2> QED
      BY <1>1, <2>2 DEF s
  <1>2. CASE rule = None
    <2> DEFINE blocked == Classify(reply).verdict = "injection"
    <2>1. s = Screening(blocked, IF blocked THEN "classifier" ELSE None, None, TRUE, Classify(reply).verdict)
      BY <1>2 DEF Screen
    <2> HIDE DEF s, blocked
    <2>2. s.rule = None /\ s.classifier_ran = TRUE /\ s.blocked = blocked
      BY <2>1 DEF Screening
    <2> QED
      BY <1>2, <2>2 DEF s, blocked
  <1> QED
    BY <1>1, <1>2

\* What Screen makes of each question is what the property asks of it.
LEMMA GateSees ==
    ASSUME job \in Jobs, job.kind = "screen",
           result.screenings =
              [i \in DOMAIN job.asked |-> Screen(job.asked[i].question, job.asked[i].reply).screening]
    PROVE  GateSeesThroughDisguise
  <1>1. \A i \in DOMAIN job.asked : IsQuestion(job.asked[i].question)
    BY JobsAssumption
  <1>2. ASSUME NEW i \in DOMAIN job.asked
        PROVE  LET q == job.asked[i].question
                   s == result.screenings[i]
               IN
               /\ \/ s.rule = Denylisted(Undisguised(q), TRUE)
                  \/ s.rule = None /\ q.structure.disguised
                        /\ Denylisted(Undisguised(q), TRUE) = q.structure.rule
               /\ FoldingRequired(q) => \E j \in DOMAIN q.words : "folded" \in q.words[j].disguise
               /\ s.rule # None <=> ~s.classifier_ran
               /\ s.blocked /\ s.classifier_ran =>
                     Head(SelectSeq(job.asked[i].reply, LAMBDA w : w # "bullet")) = "YES"
    <2> DEFINE q == job.asked[i].question
               reply == job.asked[i].reply
               s == result.screenings[i]
    <2>1. s = Screen(q, reply).screening
      OBVIOUS
    <2>2. IsQuestion(q)
      BY <1>1
    <2> HIDE DEF q, reply, s
    <2>3. /\ s.rule = Denylisted(q, TRUE)
          /\ s.rule # None <=> ~s.classifier_ran
          /\ s.blocked /\ s.classifier_ran => Classify(reply).verdict = "injection"
      BY <2>1, ScreeningIs
    <2>4. \/ s.rule = Denylisted(Undisguised(q), TRUE)
          \/ s.rule = None /\ q.structure.disguised
                /\ Denylisted(Undisguised(q), TRUE) = q.structure.rule
      BY <2>2, <2>3, DisguiseIsSeenThrough
    <2>5. FoldingRequired(q) => \E j \in DOMAIN q.words : "folded" \in q.words[j].disguise
      BY FoldingIsCredited
    <2>6. s.blocked /\ s.classifier_ran => Head(SelectSeq(reply, LAMBDA w : w # "bullet")) = "YES"
      BY <2>3, OnlyYesBlocks
    <2> QED
      BY <2>3, <2>4, <2>5, <2>6 DEF q, reply, s
  <1> QED
    BY <1>2 DEF GateSeesThroughDisguise

(* However its words are spelled and carried, and wherever a payload       *)
(* stands, a question trips the rule it trips in plain words; only a       *)
(* disguised tag or role line escapes the rule about it, and goes on to    *)
(* the classifier.  Folding is credited only where a word was folded, and  *)
(* the classifier is asked exactly where no rule was tripped and blocks    *)
(* only on a reply that says YES (security/denylist.py, input_gate.py).    *)
THEOREM DisguiseHidesNoWording == Spec => []GateSeesThroughDisguise
  <1>1. ResultOK => GateSeesThroughDisguise
    BY GateSees DEF ResultOK, GateSeesThroughDisguise
  <1> QED
    BY <1>1, ResultAlways, PTL
===============================================================================
