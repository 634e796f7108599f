-------------------------- MODULE Conversation_proofs --------------------------
(***************************************************************************)
(* Proofs about one reader's conversation, for any limits, any number of   *)
(* calls a step and of chunks a search, and any thread to go on with.      *)
(***************************************************************************)
EXTENDS Conversation, FiniteSetTheorems, SequenceTheorems, WellFoundedInduction, TLAPS

(* How many numbers message i of ms takes.                                 *)
Width(ms, i) == IF IsSearch(ms[i]) THEN Len(ms[i].kept) ELSE 0

(* Every chunk of the thread under the number the register owes it.        *)
Owing(ms) ==
    UNION {{<<Owed(ms, i)[j], <<ms[i].call.id, j>>>> : j \in DOMAIN ms[i].kept} :
           i \in {n \in DOMAIN ms : IsSearch(ms[n])}}

Once(s) == \A i, k \in 1..Len(s) : s[i] = s[k] => i = k

InOrder(ms) == \A i \in DOMAIN ms : IsSearch(ms[i]) => ms[i].kept = Owed(ms, i)

TypeOK ==
    /\ IsThread(messages)
    /\ phase \in {"page", "register", "model", "tools", "answered"}
    /\ steps \in Nat /\ steps <= MaxAgentSteps
    /\ reported \in Seq(Call) /\ Once(reported)
    /\ asked \in Nat
    /\ torn \in BOOLEAN

(* Between the register's step and the next tools the thread is in order,  *)
(* and the tools that run next are those of its last message.              *)
PhaseOK ==
    /\ phase \in {"model", "tools", "answered"} => InOrder(messages)
    /\ phase = "answered" => Contexts(messages) \subseteq read
    /\ phase = "tools" => messages # <<>> /\ messages[Len(messages)].kind = "ai"

(* What the model read is what the thread's register owes, to this day.    *)
ReadOK == read \subseteq Owing(messages)

NumbersInv == TypeOK /\ PhaseOK /\ ReadOK /\ PanelAgrees

(* The calls of thread ms, those of its last turn and its open ones.       *)
CallsAt(ms) ==
    UNION {{ms[i].calls[j] : j \in DOMAIN ms[i].calls} :
           i \in {n \in DOMAIN ms : ms[n].kind = "ai"}}
TurnCallsAt(ms) ==
    {c \in CallsAt(ms) : \A q \in {i \in DOMAIN ms : ms[i].kind = "human"} : c.id[1] > q}
OpenAt(ms) == CallsAt(ms) \ {ms[i].call : i \in {n \in DOMAIN ms : ms[n].kind = "tool"}}
RoundsAt(ms) == {c.id[1] : c \in TurnCallsAt(ms)}

(* The progress note has listed this turn's calls.                         *)
NoteOK ==
    phase # "page" => {reported[i] : i \in DOMAIN reported} = TurnCallsAt(messages)

(* A turn's super-steps follow from its rounds and from who moves next.    *)
StepsOK ==
    /\ phase = "register" => steps = 3 * Rounds
    /\ phase = "model" => steps = 3 * Rounds + 1
    /\ phase = "tools" => steps = 3 * Rounds - 1
    /\ phase = "answered" => steps = 3 * Rounds + 2

LastCalls ==
    IF phase = "tools"
    THEN {messages[Len(messages)].calls[j] : j \in DOMAIN messages[Len(messages)].calls}
    ELSE {}

(* The limit never falls on the tools' step: the code's 24 is such a one.  *)
WholeRounds == MaxAgentSteps % 3 # 2

OpenOK == ~torn /\ WholeRounds => OpenCalls \subseteq LastCalls

ConversationInv == NumbersInv /\ NoteOK /\ StepsOK /\ OpenOK

-------------------------------------------------------------------------------
(* Counting, and functions defined by it.                                  *)

\* A set of numbers with 0 in it and every number's successor is Nat.
LEMMA CountingUp ==
    ASSUME NEW S \in SUBSET Nat, 0 \in S, \A n \in S : n + 1 \in S
    PROVE  S = Nat
  <1> DEFINE T == Nat \ S
             R == {ss \in Nat \X Nat : ss[1] < ss[2]}
  <1>1. SUFFICES ASSUME T # {} PROVE FALSE
    OBVIOUS
  <1>2. IsWellFoundedOn(R, Nat)
    BY NatLessThanWellFounded DEF OpToRel
  <1>3. PICK n \in T : \A m \in T : ~(<<m, n>> \in R)
    <2>1. T \subseteq Nat /\ T # {}
      BY <1>1
    <2> HIDE DEF R, T
    <2>2. QED
      BY <1>2, <2>1, WFMin
  <1>4. n \in Nat /\ n # 0
    BY <1>3
  <1>5. n - 1 \in Nat /\ n - 1 \notin T
    <2>1. <<n - 1, n>> \in R
      BY <1>4
    <2>2. QED
      BY <1>3, <1>4, <2>1
  <1>6. n - 1 \in S /\ (n - 1) + 1 = n
    BY <1>4, <1>5
  <1>7. QED
    BY <1>3, <1>6

\* A function on 0..n given by its first value and its steps exists.
Stepped(f, V, first, n, g) ==
    /\ f \in [0..n -> V]
    /\ f[0] = first
    /\ \A i \in 1..n : f[i] = g[<<i, f[i - 1]>>]

LEMMA SteppedFunction ==
    ASSUME NEW V, NEW first \in V, NEW n \in Nat, NEW g \in [(1..n) \X V -> V]
    PROVE  \E f : Stepped(f, V, first, n, g)
  <1> DEFINE Upto(m) ==
                 \E f \in [0..m -> V] : f[0] = first /\ \A i \in 1..m : f[i] = g[<<i, f[i - 1]>>]
             S == {m \in Nat : m <= n => Upto(m)}
  <1>1. Upto(0)
    <2>1. PICK f \in [0..0 -> V] : f[0] = first
      <3>1. [i \in 0..0 |-> first] \in [0..0 -> V] /\ [i \in 0..0 |-> first][0] = first
        OBVIOUS
      <3>2. QED
        BY <3>1
    <2>2. \A i \in 1..0 : f[i] = g[<<i, f[i - 1]>>]
      OBVIOUS
    <2>3. QED
      BY <2>1, <2>2
  <1>2. ASSUME NEW m \in Nat, m + 1 <= n, Upto(m) PROVE Upto(m + 1)
    <2>1. PICK f \in [0..m -> V] : f[0] = first /\ \A i \in 1..m : f[i] = g[<<i, f[i - 1]>>]
      BY <1>2
    <2> DEFINE h == [i \in 0..(m + 1) |-> IF i = m + 1 THEN g[<<m + 1, f[m]>>] ELSE f[i]]
    <2>2. g[<<m + 1, f[m]>>] \in V
      BY <1>2, <2>1
    <2>3. h \in [0..(m + 1) -> V]
      BY <2>1, <2>2
    <2>4. h[0] = first
      BY <2>1
    <2>5. ASSUME NEW i \in 1..(m + 1) PROVE h[i] = g[<<i, h[i - 1]>>]
      <3>1. CASE i = m + 1
        <4>1. m \in 0..(m + 1) /\ m # m + 1 /\ i \in 0..(m + 1) /\ i - 1 = m
          BY <3>1
        <4>2. h[m] = f[m] /\ h[i] = g[<<m + 1, f[m]>>]
          BY <3>1, <4>1
        <4> HIDE DEF h
        <4>3. QED
          BY <3>1, <4>1, <4>2
      <3>2. CASE i # m + 1
        <4>1. i \in 1..m /\ i - 1 \in 0..m /\ i - 1 # m + 1 /\ i - 1 \in 0..(m + 1)
          BY <3>2
        <4>2. QED
          BY <2>1, <3>2, <4>1
      <3>3. QED
        BY <3>1, <3>2
    <2>6. QED
      BY <2>3, <2>4, <2>5
  <1> HIDE DEF Upto
  <1>3. \A m \in S : m + 1 \in S
    <2>1. ASSUME NEW m \in S PROVE m + 1 \in S
      <3>1. m \in Nat /\ m + 1 \in Nat
        OBVIOUS
      <3>2. m + 1 <= n => Upto(m)
        BY <3>1
      <3>3. QED
        BY <1>2, <3>1, <3>2
    <2>2. QED
      BY <2>1
  <1>4. S = Nat
    <2>1. 0 \in S /\ S \in SUBSET Nat
      BY <1>1
    <2> HIDE DEF S
    <2>2. QED
      BY <1>3, <2>1, CountingUp
  <1>5. Upto(n)
    BY <1>4
  <1>6. QED
    BY <1>5 DEF Upto, Stepped

LEMMA Listed ==
    ASSUME NEW S, NEW n \in Nat, NEW f \in [1..n -> S]
    PROVE  f \in Seq(S) /\ Len(f) = n /\ DOMAIN f = 1..n
  OBVIOUS

-------------------------------------------------------------------------------
(* The numbers the register owes.                                          *)

LEMMA WidthIsANumber ==
    ASSUME NEW ms \in Seq(Message), NEW i \in 1..Len(ms)
    PROVE  Width(ms, i) \in Nat
  BY DEF Width, IsSearch, Message, Human

LEMMA NextNumberIs ==
    ASSUME NEW ms \in Seq(Message)
    PROVE  /\ NextNumber(ms) \in [0..Len(ms) -> Nat]
           /\ NextNumber(ms)[0] = 1
           /\ \A i \in 1..Len(ms) : NextNumber(ms)[i] = NextNumber(ms)[i - 1] + Width(ms, i)
  <1> DEFINE n == Len(ms)
             Fits(f) == f = [i \in 0..n |-> IF i = 0 THEN 1 ELSE f[i - 1] + Width(ms, i)]
             g == [p \in (1..n) \X Nat |-> p[2] + Width(ms, p[1])]
             next == NextNumber(ms)
  <1>1. n \in Nat
    OBVIOUS
  <1>2. g \in [(1..n) \X Nat -> Nat]
    BY WidthIsANumber
  <1>3. PICK f \in [0..n -> Nat] : f[0] = 1 /\ \A i \in 1..n : f[i] = g[<<i, f[i - 1]>>]
    <2>1. 1 \in Nat
      OBVIOUS
    <2> HIDE DEF g, n
    <2>2. \E f : Stepped(f, Nat, 1, n, g)
      BY <1>1, <1>2, <2>1, SteppedFunction
    <2>3. QED
      BY <2>2 DEF Stepped
  <1>4. \A i \in 1..n : f[i] = f[i - 1] + Width(ms, i)
    <2>1. ASSUME NEW i \in 1..n PROVE f[i] = f[i - 1] + Width(ms, i)
      <3>1. i - 1 \in 0..n /\ f[i - 1] \in Nat
        BY <1>1
      <3>2. QED
        BY <1>3, <3>1
    <2>2. QED
      BY <2>1
  <1>5. Fits(f)
    BY <1>1, <1>3, <1>4
  <1>6. next = CHOOSE h : Fits(h)
    BY DEF NextNumber, Width
  <1>7. Fits(next)
    BY <1>5, <1>6
  <1> HIDE DEF next
  <1>8. /\ next[0] = 1
        /\ \A i \in 1..n : next[i] = next[i - 1] + Width(ms, i)
    BY <1>1, <1>7
  <1> DEFINE S == {m \in Nat : m <= n => next[m] \in Nat}
  <1>9. S = Nat
    <2>1. 0 \in S /\ S \in SUBSET Nat
      BY <1>8
    <2>2. ASSUME NEW m \in S PROVE m + 1 \in S
      <3>1. SUFFICES ASSUME m + 1 <= n PROVE next[m + 1] \in Nat
        OBVIOUS
      <3>2. m + 1 \in 1..n /\ next[m] \in Nat /\ (m + 1) - 1 = m
        BY <1>1, <3>1
      <3>3. QED
        BY <1>8, <3>2, WidthIsANumber
    <2> HIDE DEF S
    <2>3. QED
      BY <2>1, <2>2, CountingUp
  <1>10. next \in [0..n -> Nat]
    <2>1. \A m \in 0..n : next[m] \in Nat
      BY <1>1, <1>9
    <2>2. QED
      BY <1>7, <2>1
  <1>11. QED
    BY <1>8, <1>10 DEF next

\* Messages that take as many numbers are owed the same ones.
LEMMA NumbersOfPrefix ==
    ASSUME NEW ms \in Seq(Message), NEW ns \in Seq(Message), NEW n \in Nat,
           n <= Len(ms), n <= Len(ns), \A i \in 1..n : Width(ms, i) = Width(ns, i)
    PROVE  \A i \in 0..n : NextNumber(ms)[i] = NextNumber(ns)[i]
  <1> DEFINE S == {m \in Nat : m <= n => NextNumber(ms)[m] = NextNumber(ns)[m]}
  <1>1. 0 \in S /\ S \in SUBSET Nat
    BY NextNumberIs
  <1>2. ASSUME NEW m \in S PROVE m + 1 \in S
    <2>1. SUFFICES ASSUME m + 1 <= n PROVE NextNumber(ms)[m + 1] = NextNumber(ns)[m + 1]
      OBVIOUS
    <2>2. /\ m + 1 \in 1..n /\ m + 1 \in 1..Len(ms) /\ m + 1 \in 1..Len(ns)
          /\ (m + 1) - 1 = m /\ NextNumber(ms)[m] = NextNumber(ns)[m]
      BY <2>1
    <2>3. QED
      BY <2>2, NextNumberIs
  <1>3. S = Nat
    <2> HIDE DEF S
    <2>1. QED
      BY <1>1, <1>2, CountingUp
  <1>4. QED
    BY <1>3

LEMMA NumbersGrow ==
    ASSUME NEW ms \in Seq(Message)
    PROVE  \A i, k \in 0..Len(ms) : i <= k => NextNumber(ms)[i] <= NextNumber(ms)[k]
  <1> DEFINE n == Len(ms)
             next == NextNumber(ms)
             S == {k \in Nat : k <= n => \A i \in 0..n : i <= k => next[i] <= next[k]}
  <1>1. /\ n \in Nat /\ next \in [0..n -> Nat]
        /\ \A i \in 1..n : next[i] = next[i - 1] + Width(ms, i) /\ Width(ms, i) \in Nat
    BY NextNumberIs, WidthIsANumber
  <1> HIDE DEF n, next
  <1>2. 0 \in S /\ S \in SUBSET Nat
    BY <1>1
  <1>3. ASSUME NEW k \in S PROVE k + 1 \in S
    <2>1. SUFFICES ASSUME k + 1 <= n, NEW i \in 0..n, i <= k + 1 PROVE next[i] <= next[k + 1]
      OBVIOUS
    <2>2. /\ k + 1 \in 1..n /\ k \in 0..n /\ k + 1 \in 0..n /\ (k + 1) - 1 = k
          /\ next[k] \in Nat /\ next[k + 1] \in Nat /\ next[i] \in Nat
      BY <1>1, <2>1
    <2>3. next[k] <= next[k + 1]
      BY <1>1, <2>2
    <2>4. i <= k => next[i] <= next[k]
      BY <2>2
    <2>5. QED
      BY <2>1, <2>2, <2>3, <2>4
  <1>4. S = Nat
    <2> HIDE DEF S
    <2>1. QED
      BY <1>2, <1>3, CountingUp
  <1>5. ASSUME NEW k \in 0..n PROVE \A i \in 0..n : i <= k => next[i] <= next[k]
    <2>1. k \in Nat /\ k <= n
      BY <1>1
    <2>2. k \in S
      BY <1>4, <2>1
    <2>3. QED
      BY <2>1, <2>2
  <1>6. QED
    BY <1>5 DEF n, next

\* No number is owed twice.
LEMMA OwedOnce ==
    ASSUME NEW ms \in Seq(Message), NEW i \in 1..Len(ms), NEW k \in 1..Len(ms),
           NEW j \in 1..Width(ms, i), NEW l \in 1..Width(ms, k),
           NextNumber(ms)[i - 1] + j - 1 = NextNumber(ms)[k - 1] + l - 1
    PROVE  i = k /\ j = l
  <1> DEFINE next == NextNumber(ms)
             n == Len(ms)
  <1>1. /\ next \in [0..n -> Nat] /\ n \in Nat
        /\ \A m \in 1..n : next[m] = next[m - 1] + Width(ms, m) /\ Width(ms, m) \in Nat
        /\ \A a, b \in 0..n : a <= b => next[a] <= next[b]
    BY NextNumberIs, WidthIsANumber, NumbersGrow
  <1>2. i \in 1..n /\ k \in 1..n /\ next[i - 1] + j - 1 = next[k - 1] + l - 1
    OBVIOUS
  <1> HIDE DEF n, next
  <1>3. ASSUME NEW a \in 1..n, NEW b \in 1..n, a < b, NEW x \in 1..Width(ms, a),
               NEW y \in 1..Width(ms, b), next[a - 1] + x - 1 = next[b - 1] + y - 1
        PROVE  FALSE
    <2>1. a \in 0..n /\ b - 1 \in 0..n /\ a - 1 \in 0..n /\ a <= b - 1
      BY <1>1, <1>3
    <2>2. next[a] = next[a - 1] + Width(ms, a) /\ next[a] <= next[b - 1]
      BY <1>1, <2>1
    <2>3. /\ next[a - 1] \in Nat /\ next[a] \in Nat /\ next[b - 1] \in Nat
          /\ Width(ms, a) \in Nat /\ Width(ms, b) \in Nat
      BY <1>1, <2>1
    <2>4. /\ x \in Int /\ y \in Int /\ x <= Width(ms, a) /\ 1 <= y
          /\ next[a - 1] + x - 1 = next[b - 1] + y - 1
      BY <1>3, <2>3
    <2>5. next[a - 1] + Width(ms, a) <= next[b - 1]
      BY <2>2
    <2>6. \A p, q, w \in Nat : \A u, v \in Int :
              ~(u <= w /\ 1 <= v /\ p + u - 1 = q + v - 1 /\ p + w <= q)
      OBVIOUS
    <2>7. QED
      BY <2>3, <2>4, <2>5, <2>6
  <1>4. i = k
    <2>1. ~(i < k) /\ ~(k < i)
      BY <1>2, <1>3
    <2>2. i \in Nat /\ k \in Nat
      BY <1>1
    <2>3. QED
      BY <2>1, <2>2
  <1>5. next[i - 1] \in Nat /\ Width(ms, i) \in Nat
    BY <1>1, <1>2
  <1>6. QED
    BY <1>2, <1>4, <1>5

-------------------------------------------------------------------------------
(* The thread, message by message.                                         *)

\* `Contexts` and `Owing`, a chunk at a time.
KeptAt(ms, x) ==
    \E i \in 1..Len(ms) :
       /\ IsSearch(ms[i])
       /\ \E j \in 1..Width(ms, i) : x = <<ms[i].kept[j], <<ms[i].call.id, j>>>>

OwedAt(ms, x) ==
    \E i \in 1..Len(ms) :
       /\ IsSearch(ms[i])
       /\ \E j \in 1..Width(ms, i) :
             x = <<NextNumber(ms)[i - 1] + j - 1, <<ms[i].call.id, j>>>>

LEMMA Rows ==
    ASSUME NEW ms \in Seq(Message)
    PROVE  /\ \A i \in 1..Len(ms) : IsSearch(ms[i]) =>
                  /\ DOMAIN ms[i].kept = 1..Width(ms, i) /\ Width(ms, i) = Len(ms[i].kept)
                  /\ ms[i].kept \in Seq(Nat) /\ ms[i].cited \in Seq(Nat) /\ ms[i].call \in Call
           /\ \A i \in 1..Len(ms) : IsSearch(ms[i]) =>
                  Owed(ms, i) = [j \in 1..Width(ms, i) |-> NextNumber(ms)[i - 1] + j - 1]
           /\ \A x : x \in Contexts(ms) <=> KeptAt(ms, x)
           /\ \A x : x \in Owing(ms) <=> OwedAt(ms, x)
  <1>1. DOMAIN ms = 1..Len(ms)
    OBVIOUS
  <1>2. ASSUME NEW i \in 1..Len(ms), IsSearch(ms[i])
        PROVE  /\ DOMAIN ms[i].kept = 1..Width(ms, i) /\ Width(ms, i) = Len(ms[i].kept)
               /\ ms[i].kept \in Seq(Nat) /\ ms[i].cited \in Seq(Nat) /\ ms[i].call \in Call
    <2>1. ms[i] \in Message /\ ms[i].kind = "tool"
      BY <1>2 DEF IsSearch
    <2>2. ms[i].kept \in Seq(Nat) /\ ms[i].cited \in Seq(Nat) /\ ms[i].call \in Call
      BY <2>1 DEF Message, Human
    <2>3. QED
      BY <1>2, <2>2 DEF Width
  <1>3. ASSUME NEW i \in 1..Len(ms), IsSearch(ms[i])
        PROVE  Owed(ms, i) = [j \in 1..Width(ms, i) |-> NextNumber(ms)[i - 1] + j - 1]
    BY <1>2, <1>3 DEF Owed
  <1>4. ASSUME NEW x
        PROVE  x \in Contexts(ms) <=> KeptAt(ms, x)
    <2>1. x \in Contexts(ms) <=>
            \E i \in {n \in DOMAIN ms : IsSearch(ms[n])} :
               \E j \in DOMAIN ms[i].kept : x = <<ms[i].kept[j], <<ms[i].call.id, j>>>>
      BY DEF Contexts
    <2>2. QED
      BY <1>1, <1>2, <2>1 DEF KeptAt
  <1>5. ASSUME NEW x
        PROVE  x \in Owing(ms) <=> OwedAt(ms, x)
    <2>1. x \in Owing(ms) <=>
            \E i \in 1..Len(ms) : /\ IsSearch(ms[i])
                /\ \E j \in 1..Width(ms, i) : x = <<Owed(ms, i)[j], <<ms[i].call.id, j>>>>
      <3>1. x \in Owing(ms) <=>
              \E i \in {n \in DOMAIN ms : IsSearch(ms[n])} :
                 \E j \in DOMAIN ms[i].kept : x = <<Owed(ms, i)[j], <<ms[i].call.id, j>>>>
        BY DEF Owing
      <3>2. QED
        BY <1>1, <1>2, <3>1
    <2>2. \A i \in 1..Len(ms) : IsSearch(ms[i]) =>
            \A j \in 1..Width(ms, i) : Owed(ms, i)[j] = NextNumber(ms)[i - 1] + j - 1
      BY <1>3
    <2>3. QED
      BY <2>1, <2>2 DEF OwedAt
  <1>6. QED
    BY <1>2, <1>3, <1>4, <1>5

\* One pass of the register: the same thread, in order.
LEMMA RenumberedIs ==
    ASSUME NEW ms, IsThread(ms), NEW rs, rs = Renumbered(ms)
    PROVE  /\ IsThread(rs) /\ Len(rs) = Len(ms)
           /\ \A i \in 1..Len(ms) :
                 /\ rs[i].kind = ms[i].kind
                 /\ ms[i].kind # "tool" => rs[i] = ms[i]
                 /\ ms[i].kind = "tool" => rs[i].call = ms[i].call
                 /\ IsSearch(rs[i]) <=> IsSearch(ms[i])
                 /\ IsSearch(ms[i]) => rs[i].kept = Owed(ms, i)
           /\ InOrder(rs) /\ Owing(rs) = Owing(ms)
  <1> DEFINE n == Len(ms)
  <1>1. ms \in Seq(Message) /\ n \in Nat /\ DOMAIN ms = 1..n /\ \A i \in 1..n : ms[i] \in Message
    BY DEF IsThread
  <1>2. NextNumber(ms) \in [0..n -> Nat]
    BY <1>1, NextNumberIs
  <1>3. ASSUME NEW i \in 1..n, IsSearch(ms[i])
        PROVE  /\ Owed(ms, i) = [j \in 1..Width(ms, i) |-> NextNumber(ms)[i - 1] + j - 1]
               /\ Owed(ms, i) \in Seq(Nat) /\ Len(Owed(ms, i)) = Width(ms, i)
               /\ ms[i].call \in Call /\ Len(ms[i].kept) = Width(ms, i)
    <2>1. /\ Owed(ms, i) = [j \in 1..Width(ms, i) |-> NextNumber(ms)[i - 1] + j - 1]
          /\ ms[i].call \in Call /\ Len(ms[i].kept) = Width(ms, i)
      BY <1>1, <1>3, Rows
    <2>2. Width(ms, i) \in Nat /\ NextNumber(ms)[i - 1] \in Nat
      BY <1>1, <1>2, WidthIsANumber
    <2>3. \A j \in 1..Width(ms, i) : NextNumber(ms)[i - 1] + j - 1 \in Nat
      BY <2>2
    <2>4. Owed(ms, i) \in [1..Width(ms, i) -> Nat]
      BY <2>1, <2>3
    <2>5. Owed(ms, i) \in Seq(Nat) /\ Len(Owed(ms, i)) = Width(ms, i)
      BY <2>2, <2>4, Listed
    <2>6. QED
      BY <2>1, <2>5
  <1>4. /\ DOMAIN rs = 1..n
        /\ \A i \in 1..n : rs[i] = IF IsSearch(ms[i]) /\ ms[i].kept # Owed(ms, i)
                                   THEN Reply(ms[i].call, Owed(ms, i)) ELSE ms[i]
    BY <1>1 DEF Renumbered
  <1>5. ASSUME NEW i \in 1..n
        PROVE  /\ rs[i] \in Message /\ rs[i].kind = ms[i].kind
               /\ ms[i].kind # "tool" => rs[i] = ms[i]
               /\ ms[i].kind = "tool" => rs[i].call = ms[i].call
               /\ IsSearch(rs[i]) <=> IsSearch(ms[i])
               /\ IsSearch(ms[i]) => rs[i].kept = Owed(ms, i)
               /\ ms[i].kind = "tool" => rs[i].cited = rs[i].kept
    <2>1. CASE IsSearch(ms[i]) /\ ms[i].kept # Owed(ms, i)
      <3>1. rs[i] = [kind |-> "tool", call |-> ms[i].call, cited |-> Owed(ms, i), kept |-> Owed(ms, i)]
        BY <1>4, <2>1 DEF Reply
      <3>2. rs[i] \in Message
        BY <1>3, <2>1, <3>1 DEF Message
      <3>3. ms[i].kind = "tool" /\ ms[i].call.tool = "search_filings"
        BY <2>1 DEF IsSearch
      <3>4. QED
        BY <3>1, <3>2, <3>3 DEF IsSearch
    <2>2. CASE ~(IsSearch(ms[i]) /\ ms[i].kept # Owed(ms, i))
      <3>1. rs[i] = ms[i]
        BY <1>4, <2>2
      <3>2. ms[i].kind = "tool" => ms[i].cited = ms[i].kept
        BY <1>1 DEF IsThread
      <3>3. QED
        BY <1>1, <2>2, <3>1, <3>2
    <2>3. QED
      BY <2>1, <2>2
  <1>6. rs \in Seq(Message) /\ Len(rs) = n
    <2>1. rs \in [1..n -> Message]
      BY <1>4, <1>5 DEF Renumbered
    <2>2. QED
      BY <1>1, <2>1
  <1>7. IsThread(rs)
    <2>1. ASSUME NEW i \in 1..n
          PROVE  /\ rs[i].kind = "ai" => \A j \in DOMAIN rs[i].calls : rs[i].calls[j].id = <<i, j>>
                 /\ rs[i].kind = "tool" => rs[i].call.id[1] < i /\ rs[i].cited = rs[i].kept
      BY <1>1, <1>5 DEF IsThread
    <2>2. ASSUME NEW i \in 1..n, NEW k \in 1..n, rs[i].kind = "tool", rs[k].kind = "tool",
                 rs[i].call.id = rs[k].call.id
          PROVE  i = k
      BY <1>1, <1>5, <2>2 DEF IsThread
    <2>3. QED
      BY <1>4, <1>6, <2>1, <2>2 DEF IsThread
  <1>8. \A i \in 1..n : Width(rs, i) = Width(ms, i)
    BY <1>3, <1>5 DEF Width
  <1>9. \A i \in 0..n : NextNumber(rs)[i] = NextNumber(ms)[i]
    BY <1>1, <1>6, <1>8, NumbersOfPrefix
  <1>10. \A i \in 1..n : IsSearch(ms[i]) => Owed(rs, i) = Owed(ms, i)
    <2>1. ASSUME NEW i \in 1..n, IsSearch(ms[i]) PROVE Owed(rs, i) = Owed(ms, i)
      <3>1. Owed(rs, i) = [j \in 1..Width(rs, i) |-> NextNumber(rs)[i - 1] + j - 1]
        BY <1>5, <1>6, <2>1, Rows
      <3>2. NextNumber(rs)[i - 1] = NextNumber(ms)[i - 1]
        BY <1>1, <1>9
      <3>3. QED
        BY <1>3, <1>8, <2>1, <3>1, <3>2
    <2>2. QED
      BY <2>1
  <1>11. InOrder(rs)
    BY <1>4, <1>5, <1>10 DEF InOrder
  <1>12. Owing(rs) = Owing(ms)
    <2>1. \A i \in 1..n : IsSearch(ms[i]) => rs[i].call.id = ms[i].call.id
      BY <1>5 DEF IsSearch
    <2>2. \A i \in 1..n : NextNumber(rs)[i - 1] = NextNumber(ms)[i - 1]
      BY <1>1, <1>9
    <2>3. ASSUME NEW i \in 1..n, IsSearch(ms[i]), NEW x
          PROVE  (\E j \in 1..Width(rs, i) :
                     x = <<NextNumber(rs)[i - 1] + j - 1, <<rs[i].call.id, j>>>>) <=>
                 (\E j \in 1..Width(ms, i) :
                     x = <<NextNumber(ms)[i - 1] + j - 1, <<ms[i].call.id, j>>>>)
      <3>1. /\ Width(rs, i) = Width(ms, i) /\ rs[i].call.id = ms[i].call.id
            /\ NextNumber(rs)[i - 1] = NextNumber(ms)[i - 1]
        BY <1>8, <2>1, <2>2, <2>3
      <3>2. QED
        BY <3>1
    <2>a. \A i \in 1..n : IsSearch(rs[i]) <=> IsSearch(ms[i])
      BY <1>5
    <2>b. \A x : OwedAt(rs, x) <=> OwedAt(ms, x)
      BY <1>6, <2>3, <2>a DEF OwedAt
    <2>4. \A x : x \in Owing(rs) <=> x \in Owing(ms)
      BY <1>1, <1>6, <2>b, Rows
    <2>5. QED
      <3>1. rs \in Seq(Message) /\ ms \in Seq(Message)
        BY <1>1, <1>6
      <3>2. QED
        BY <2>4
  <1>13. QED
    BY <1>5, <1>6, <1>7, <1>11, <1>12

\* A thread that has grown keeps its rows under their numbers.
LEMMA Grown ==
    ASSUME NEW ms \in Seq(Message), NEW ns \in Seq(Message), Len(ms) <= Len(ns),
           \A i \in 1..Len(ms) : ns[i] = ms[i]
    PROVE  /\ Owing(ms) \subseteq Owing(ns) /\ Contexts(ms) \subseteq Contexts(ns)
           /\ (\A i \in (Len(ms) + 1)..Len(ns) : ~IsSearch(ns[i])) =>
                 Contexts(ns) = Contexts(ms) /\ (InOrder(ms) => InOrder(ns))
  <1> DEFINE n == Len(ms)
  <1>1. n \in Nat /\ Len(ns) \in Nat /\ \A i \in 1..n : i \in 1..Len(ns)
    OBVIOUS
  <1>2. \A i \in 1..n : Width(ns, i) = Width(ms, i)
    BY DEF Width
  <1>3. \A i \in 1..n : NextNumber(ns)[i - 1] = NextNumber(ms)[i - 1]
    BY <1>1, <1>2, NumbersOfPrefix
  <1>4. ASSUME NEW x \in Owing(ms) PROVE x \in Owing(ns)
    <2>1. PICK i \in 1..n : /\ IsSearch(ms[i])
                            /\ \E j \in 1..Width(ms, i) :
                                  x = <<NextNumber(ms)[i - 1] + j - 1, <<ms[i].call.id, j>>>>
      BY Rows DEF KeptAt, OwedAt
    <2>2. /\ i \in 1..Len(ns) /\ IsSearch(ns[i])
          /\ \E j \in 1..Width(ns, i) :
                x = <<NextNumber(ns)[i - 1] + j - 1, <<ns[i].call.id, j>>>>
      BY <1>1, <1>2, <1>3, <2>1
    <2>3. QED
      BY <2>2, Rows DEF KeptAt, OwedAt
  <1>5. ASSUME NEW x \in Contexts(ms) PROVE x \in Contexts(ns)
    <2>1. PICK i \in 1..n : /\ IsSearch(ms[i])
                            /\ \E j \in 1..Width(ms, i) : x = <<ms[i].kept[j], <<ms[i].call.id, j>>>>
      BY Rows DEF KeptAt, OwedAt
    <2>2. /\ i \in 1..Len(ns) /\ IsSearch(ns[i])
          /\ \E j \in 1..Width(ns, i) : x = <<ns[i].kept[j], <<ns[i].call.id, j>>>>
      BY <1>1, <1>2, <2>1
    <2>3. QED
      BY <2>2, Rows DEF KeptAt, OwedAt
  <1>6. ASSUME \A i \in (n + 1)..Len(ns) : ~IsSearch(ns[i])
        PROVE  Contexts(ns) = Contexts(ms) /\ (InOrder(ms) => InOrder(ns))
    <2>1. ASSUME NEW i \in 1..Len(ns), IsSearch(ns[i])
          PROVE  i \in 1..n /\ ns[i] = ms[i] /\ IsSearch(ms[i])
      BY <1>1, <1>6, <2>1
    <2>2. ASSUME NEW x \in Contexts(ns) PROVE x \in Contexts(ms)
      <3>1. PICK i \in 1..Len(ns) :
                /\ IsSearch(ns[i])
                /\ \E j \in 1..Width(ns, i) : x = <<ns[i].kept[j], <<ns[i].call.id, j>>>>
        BY Rows DEF KeptAt, OwedAt
      <3>2. /\ i \in 1..n /\ IsSearch(ms[i])
            /\ \E j \in 1..Width(ms, i) : x = <<ms[i].kept[j], <<ms[i].call.id, j>>>>
        BY <1>2, <2>1, <3>1
      <3>3. QED
        BY <3>2, Rows DEF KeptAt
    <2>3. ASSUME InOrder(ms), NEW i \in 1..Len(ns), IsSearch(ns[i])
          PROVE  ns[i].kept = Owed(ns, i)
      <3>1. i \in 1..n /\ ns[i] = ms[i] /\ IsSearch(ms[i])
        BY <2>1, <2>3
      <3>2. ms[i].kept = Owed(ms, i)
        BY <2>3, <3>1 DEF InOrder
      <3>3. Owed(ms, i) = [j \in 1..Width(ms, i) |-> NextNumber(ms)[i - 1] + j - 1]
        BY <3>1, Rows
      <3>4. Owed(ns, i) = [j \in 1..Width(ns, i) |-> NextNumber(ns)[i - 1] + j - 1]
        BY <2>3, Rows
      <3>5. QED
        BY <1>2, <1>3, <3>1, <3>2, <3>3, <3>4
    <2>4. DOMAIN ns = 1..Len(ns)
      OBVIOUS
    <2>5. QED
      BY <1>5, <2>2, <2>3, <2>4 DEF InOrder
  <1>7. QED
    BY <1>4, <1>5, <1>6

-------------------------------------------------------------------------------
(* What the steps append.                                                  *)

\* A question, or calls known by the place they are asked at.
Follows(m, ms) ==
    /\ m \in Message /\ m.kind # "tool"
    /\ m.kind = "ai" => \A j \in DOMAIN m.calls : m.calls[j].id = <<Len(ms) + 1, j>>

OneMore(ns, ms, m) ==
    /\ Len(ns) = Len(ms) + 1 /\ ns[Len(ms) + 1] = m
    /\ \A i \in 1..Len(ms) : ns[i] = ms[i]
    /\ \A i \in (Len(ms) + 1)..Len(ns) : ~IsSearch(ns[i])

LEMMA Appended ==
    ASSUME NEW ms, IsThread(ms), NEW m, Follows(m, ms)
    PROVE  IsThread(Append(ms, m)) /\ OneMore(Append(ms, m), ms, m)
  <1> DEFINE ns == Append(ms, m)
  <1>1. /\ ms \in Seq(Message) /\ Len(ms) \in Nat /\ DOMAIN ms = 1..Len(ms)
        /\ m \in Message /\ m.kind # "tool"
        /\ m.kind = "ai" => \A j \in DOMAIN m.calls : m.calls[j].id = <<Len(ms) + 1, j>>
    BY DEF IsThread, Follows
  <1>2. /\ ns \in Seq(Message) /\ Len(ns) = Len(ms) + 1 /\ ns[Len(ms) + 1] = m
        /\ DOMAIN ns = 1..(Len(ms) + 1) /\ \A i \in 1..Len(ms) : ns[i] = ms[i]
    BY <1>1
  <1> HIDE DEF ns
  <1>3. \A i \in 1..(Len(ms) + 1) : i \in 1..Len(ms) \/ i = Len(ms) + 1
    BY <1>1
  <1>4. IsThread(ns)
    BY <1>1, <1>2, <1>3 DEF IsThread
  <1>5. \A i \in (Len(ms) + 1)..Len(ns) : i = Len(ms) + 1
    BY <1>1, <1>2
  <1>6. QED
    BY <1>1, <1>2, <1>4, <1>5 DEF IsSearch, OneMore, ns

\* The step's calls are those of the last message; they reply in some order.
AnswersTo(calls, order, found) ==
    [i \in DOMAIN calls |-> Reply(calls[order[i]], [j \in 1..found[order[i]] |-> j])]

Shuffles(calls, order, found) ==
    /\ order \in [DOMAIN calls -> DOMAIN calls] /\ found \in [DOMAIN calls -> Nat]
    /\ \A i, j \in DOMAIN calls : order[i] = order[j] => i = j

Answered(ns, ms, calls, order) ==
    /\ Len(ns) = Len(ms) + Len(calls) /\ calls \in Seq(Call)
    /\ \A i \in 1..Len(ms) : ns[i] = ms[i]
    /\ \A i \in 1..Len(calls) :
          ns[Len(ms) + i].kind = "tool" /\ ns[Len(ms) + i].call = calls[order[i]]

LEMMA AppendedReplies ==
    ASSUME NEW ms, IsThread(ms), ms # <<>>, ms[Len(ms)].kind = "ai",
           NEW order, NEW found, Shuffles(ms[Len(ms)].calls, order, found)
    PROVE  /\ IsThread(ms \o AnswersTo(ms[Len(ms)].calls, order, found))
           /\ Answered(ms \o AnswersTo(ms[Len(ms)].calls, order, found), ms,
                       ms[Len(ms)].calls, order)
  <1> PICK calls : calls = ms[Len(ms)].calls
    OBVIOUS
  <1> PICK ns : ns = ms \o AnswersTo(calls, order, found)
    OBVIOUS
  <1>0. /\ order \in [DOMAIN calls -> DOMAIN calls] /\ found \in [DOMAIN calls -> Nat]
        /\ \A i, j \in DOMAIN calls : order[i] = order[j] => i = j
    BY DEF Shuffles
  <1> DEFINE n == Len(ms)
             c == Len(calls)
             added == [i \in DOMAIN calls |->
                          Reply(calls[order[i]], [j \in 1..found[order[i]] |-> j])]
  <1>1. ms \in Seq(Message) /\ n \in Nat /\ DOMAIN ms = 1..n /\ n \in 1..n /\ ms[n] \in Message
    BY DEF IsThread
  <1>a. /\ \A i \in 1..n :
              /\ ms[i].kind = "ai" => \A j \in DOMAIN ms[i].calls : ms[i].calls[j].id = <<i, j>>
              /\ ms[i].kind = "tool" => ms[i].call.id[1] < i /\ ms[i].cited = ms[i].kept
        /\ \A i, k \in 1..n : (/\ ms[i].kind = "tool" /\ ms[k].kind = "tool"
                              /\ ms[i].call.id = ms[k].call.id) => i = k
    BY <1>1 DEF IsThread
  <1>2. calls \in Seq(Call) /\ c \in Nat /\ DOMAIN calls = 1..c
    BY <1>1 DEF Message, Human
  <1>3. \A j \in 1..c : calls[j].id = <<n, j>> /\ calls[j] \in Call
    BY <1>1, <1>2 DEF IsThread
  <1>4. ASSUME NEW i \in 1..c
        PROVE  /\ added[i] \in Message /\ added[i].kind = "tool"
               /\ added[i].call = calls[order[i]] /\ added[i].cited = added[i].kept
    <2>1. order[i] \in 1..c /\ found[order[i]] \in Nat
      BY <1>0, <1>2
    <2>2. PICK ns1 \in Seq(Nat) : ns1 = [j \in 1..found[order[i]] |-> j]
      <3>1. [j \in 1..found[order[i]] |-> j] \in [1..found[order[i]] -> Nat]
        BY <2>1
      <3>2. [j \in 1..found[order[i]] |-> j] \in Seq(Nat)
        BY <2>1, <3>1, Listed
      <3>3. QED
        BY <3>2
    <2>3. added[i] = [kind |-> "tool", call |-> calls[order[i]], cited |-> ns1, kept |-> ns1]
      BY <1>2, <2>2 DEF Reply
    <2>4. QED
      BY <1>3, <2>1, <2>3 DEF Message
  <1>5. added \in Seq(Message) /\ Len(added) = c
    <2>1. added \in [1..c -> Message]
      <3>1. DOMAIN added = 1..c /\ added = [i \in DOMAIN added |-> added[i]]
        BY <1>2
      <3>2. \A i \in 1..c : added[i] \in Message
        BY <1>4
      <3> HIDE DEF added
      <3>3. QED
        BY <3>1, <3>2
    <2> HIDE DEF added
    <2>2. QED
      BY <1>2, <2>1, Listed
  <1> HIDE DEF added
  <1>6. /\ ns \in Seq(Message) /\ Len(ns) = n + c
        /\ \A i \in 1..n : ns[i] = ms[i]
        /\ \A i \in 1..c : ns[n + i] = added[i]
    <2>1. ns = ms \o added
      BY DEF added, AnswersTo
    <2>2. /\ ms \o added \in Seq(Message) /\ Len(ms \o added) = n + c
          /\ \A i \in 1..(n + c) :
                (ms \o added)[i] = IF i <= n THEN ms[i] ELSE added[i - n]
      <3>1. ms \in Seq(Message) /\ added \in Seq(Message)
        BY <1>1, <1>5
      <3>2. /\ ms \o added \in Seq(Message) /\ Len(ms \o added) = Len(ms) + Len(added)
            /\ \A i \in 1..(Len(ms) + Len(added)) :
                  (ms \o added)[i] = IF i <= Len(ms) THEN ms[i] ELSE added[i - Len(ms)]
        BY ONLY <3>1, ConcatProperties
      <3>3. QED
        BY <1>5, <3>2
    <2>3. \A i \in 1..n : i \in 1..(n + c) /\ i <= n
      BY <1>1, <1>2
    <2>4. \A i \in 1..c : n + i \in 1..(n + c) /\ ~(n + i <= n) /\ (n + i) - n = i
      BY <1>1, <1>2
    <2>5. QED
      BY <2>1, <2>2, <2>3, <2>4
  <1>7. \A i \in 1..(n + c) : i \in 1..n \/ \E k \in 1..c : i = n + k
    <2>1. ASSUME NEW i \in 1..(n + c), i \notin 1..n PROVE i - n \in 1..c /\ i = n + (i - n)
      BY <1>1, <1>2, <2>1
    <2>2. QED
      BY <2>1
  <1>8. IsThread(ns)
    <2>1. DOMAIN ns = 1..(n + c)
      BY <1>6
    <2>2. ASSUME NEW k \in 1..c
          PROVE  /\ ns[n + k].kind = "tool" /\ ns[n + k].call.id = <<n, order[k]>>
                 /\ ns[n + k].call.id[1] = n /\ ns[n + k].call.id[2] = order[k]
                 /\ ns[n + k].cited = ns[n + k].kept /\ order[k] \in 1..c
      <3>1. order[k] \in 1..c /\ calls[order[k]].id = <<n, order[k]>>
        BY <1>0, <1>2, <1>3
      <3>2. ns[n + k] = added[k]
        BY <1>6
      <3>3. added[k].kind = "tool" /\ added[k].call = calls[order[k]] /\ added[k].cited = added[k].kept
        BY <1>4
      <3>4. ns[n + k].call.id = <<n, order[k]>>
        BY <3>1, <3>2, <3>3
      <3>5. ns[n + k].call.id[1] = n /\ ns[n + k].call.id[2] = order[k]
        <4>1. \A v, x, y : v = <<x, y>> => v[1] = x /\ v[2] = y
          OBVIOUS
        <4>2. QED
          BY ONLY <3>4, <4>1, Zenon
      <3>6. QED
        BY <3>1, <3>2, <3>3, <3>4, <3>5
    <2>3. ASSUME NEW i \in 1..n, ms[i].kind = "tool" PROVE ms[i].call.id[1] # n
      <3>1. ms[i].call.id[1] < i /\ ms[i].call \in Call
        <4>1. ms[i].call.id[1] < i
          BY <1>1, <2>3 DEF IsThread
        <4>2. ms[i] \in Message
          BY <1>1
        <4>3. ms[i].call \in Call
          BY <2>3, <4>2 DEF Message, Human
        <4>4. QED
          BY <4>1, <4>3
      <3>2. ms[i].call.id[1] \in Nat
        BY <3>1 DEF Call
      <3>3. QED
        BY <1>1, <3>1, <3>2
    <2>4. ASSUME NEW i \in 1..(n + c)
          PROVE  /\ ns[i].kind = "ai" => \A j \in DOMAIN ns[i].calls : ns[i].calls[j].id = <<i, j>>
                 /\ ns[i].kind = "tool" => ns[i].call.id[1] < i /\ ns[i].cited = ns[i].kept
      <3>1. CASE i \in 1..n
        <4>1. ns[i] = ms[i]
          BY <1>6, <3>1
        <4>2. QED
          BY <1>a, <3>1, <4>1
      <3>2. ASSUME NEW k \in 1..c, i = n + k
            PROVE  ns[i].kind = "tool" /\ ns[i].call.id[1] < i /\ ns[i].cited = ns[i].kept
        <4>1. ns[i].kind = "tool" /\ ns[i].call.id[1] = n /\ ns[i].cited = ns[i].kept
          BY <2>2, <3>2
        <4>2. n < i
          BY <1>1, <1>2, <3>2
        <4>3. QED
          BY <4>1, <4>2
      <3>3. QED
        <4>1. CASE i \notin 1..n
          <5>1. PICK k \in 1..c : i = n + k
            BY <1>7, <4>1
          <5>2. ns[i].kind = "tool" /\ ns[i].call.id[1] < i /\ ns[i].cited = ns[i].kept
            BY <3>2, <5>1
          <5>3. QED
            BY <5>2
        <4>2. QED
          BY <3>1, <4>1
    <2>5. ASSUME NEW i \in 1..(n + c), NEW k \in 1..(n + c), ns[i].kind = "tool",
                 ns[k].kind = "tool", ns[i].call.id = ns[k].call.id
          PROVE  i = k
      <3>1. CASE i \in 1..n /\ k \in 1..n
        <4>1. ns[i] = ms[i] /\ ns[k] = ms[k]
          BY <1>6, <3>1
        <4>2. QED
          BY <1>a, <2>5, <3>1, <4>1
      <3>2. ASSUME NEW a \in 1..n, NEW b \in 1..c, ns[a].kind = "tool"
            PROVE  ns[a].call.id # ns[n + b].call.id
        <4>1. ns[a] = ms[a]
          BY <1>6
        <4>2. ns[a].call.id[1] # n
          BY <2>3, <3>2, <4>1
        <4>3. ns[n + b].call.id[1] = n
          BY <2>2, Zenon
        <4>4. QED
          BY <4>2, <4>3
      <3>3. ASSUME NEW a \in 1..c, NEW b \in 1..c, ns[n + a].call.id = ns[n + b].call.id
            PROVE  a = b
        <4>1. ns[n + a].call.id[2] = order[a] /\ ns[n + b].call.id[2] = order[b]
          BY <2>2, Zenon
        <4>2. order[a] = order[b]
          BY <3>3, <4>1
        <4>3. QED
          BY <1>0, <1>2, <4>2
      <3>4. CASE i \in 1..n /\ k \notin 1..n
        <4>1. PICK b \in 1..c : k = n + b
          BY <1>7, <3>4
        <4>2. ns[i].call.id # ns[n + b].call.id
          BY <2>5, <3>2, <3>4
        <4>3. QED
          BY <2>5, <4>1, <4>2
      <3>5. CASE i \notin 1..n /\ k \in 1..n
        <4>1. PICK b \in 1..c : i = n + b
          BY <1>7, <3>5
        <4>2. ns[k].call.id # ns[n + b].call.id
          BY <2>5, <3>2, <3>5
        <4>3. QED
          BY <2>5, <4>1, <4>2
      <3>6. CASE i \notin 1..n /\ k \notin 1..n
        <4>1. PICK a \in 1..c : i = n + a
          BY <1>7, <3>6
        <4>2. PICK b \in 1..c : k = n + b
          BY <1>7, <3>6
        <4>3. a = b
          BY <2>5, <3>3, <4>1, <4>2
        <4>4. QED
          BY <4>1, <4>2, <4>3
      <3>7. QED
        BY <3>1, <3>4, <3>5, <3>6
    <2>6. ns \in Seq(Message)
      BY <1>6
    <2>7. \A i \in DOMAIN ns :
             /\ ns[i].kind = "ai" => \A j \in DOMAIN ns[i].calls : ns[i].calls[j].id = <<i, j>>
             /\ ns[i].kind = "tool" => ns[i].call.id[1] < i /\ ns[i].cited = ns[i].kept
      BY <2>1, <2>4, Zenon
    <2>8. \A i, k \in DOMAIN ns :
             (/\ ns[i].kind = "tool" /\ ns[k].kind = "tool"
              /\ ns[i].call.id = ns[k].call.id) => i = k
      <3>1. SUFFICES ASSUME NEW i \in DOMAIN ns, NEW k \in DOMAIN ns, ns[i].kind = "tool",
                            ns[k].kind = "tool", ns[i].call.id = ns[k].call.id
                     PROVE  i = k
        OBVIOUS
      <3>2. i \in 1..(n + c) /\ k \in 1..(n + c)
        BY <2>1
      <3>3. QED
        BY <2>5, <3>1, <3>2, Zenon
    <2>9. QED
      BY ONLY <2>6, <2>7, <2>8, Zenon DEF IsThread
  <1>9. Answered(ns, ms, calls, order)
    BY <1>2, <1>4, <1>6 DEF Answered
  <1>10. QED
    BY <1>8, <1>9


LEMMA InOrderRows ==
    ASSUME NEW ms \in Seq(Message), InOrder(ms)
    PROVE  Contexts(ms) = Owing(ms)
  <1>1. ASSUME NEW i \in 1..Len(ms), IsSearch(ms[i]), NEW j \in 1..Width(ms, i)
        PROVE  ms[i].kept[j] = NextNumber(ms)[i - 1] + j - 1
    <2>1. Owed(ms, i) = [l \in 1..Width(ms, i) |-> NextNumber(ms)[i - 1] + l - 1]
      BY <1>1, Rows
    <2>2. ms[i].kept = Owed(ms, i)
      BY <1>1 DEF InOrder
    <2>3. QED
      BY <1>1, <2>1, <2>2
  <1>2. ASSUME NEW x PROVE KeptAt(ms, x) <=> OwedAt(ms, x)
    BY <1>1 DEF KeptAt, OwedAt
  <1>3. \A x : x \in Contexts(ms) <=> x \in Owing(ms)
    BY <1>2, Rows
  <1>4. QED
    BY <1>3

\* What the model reads is what the page would render.
LEMMA ReadRows ==
    ASSUME IsThread(messages), Reads
    PROVE  read' = read \cup Contexts(messages)
  <1>1. /\ messages \in Seq(Message)
        /\ \A i \in DOMAIN messages : IsSearch(messages[i]) => messages[i].cited = messages[i].kept
    BY DEF IsThread, IsSearch
  <1>2. \A x : x \in Contexts(messages) <=>
            \E i \in {n \in DOMAIN messages : IsSearch(messages[n])} :
               \E j \in DOMAIN messages[i].kept :
                  x = <<messages[i].kept[j], <<messages[i].call.id, j>>>>
    BY DEF Contexts
  <1>3. \A x : x \in read' <=>
            \/ x \in read
            \/ \E i \in {n \in DOMAIN messages : IsSearch(messages[n])} :
                  \E j \in DOMAIN messages[i].cited :
                     x = <<messages[i].cited[j], <<messages[i].call.id, j>>>>
    BY DEF Reads
  <1>4. \A x : x \in read' <=> x \in read \/ x \in Contexts(messages)
    BY <1>1, <1>2, <1>3
  <1>5. QED
    BY <1>4

\* A set of places in a sequence has a last one, unless it is empty.
LEMMA LastOf ==
    ASSUME NEW n \in Nat, NEW P \in SUBSET (1..n), P # {}
    PROVE  \E i \in P : \A j \in P : j <= i
  <1> DEFINE S == {m \in Nat : (\E i \in P : i <= m) =>
                     \E i \in P : i <= m /\ \A j \in P : j <= m => j <= i}
  <1>1. 0 \in S /\ S \in SUBSET Nat
    OBVIOUS
  <1>2. ASSUME NEW m \in S PROVE m + 1 \in S
    <2>1. CASE m + 1 \in P
      <3>1. \A j \in P : j <= m + 1 => j <= m + 1
        OBVIOUS
      <3>2. QED
        BY <2>1, <3>1
    <2>2. CASE m + 1 \notin P
      <3>1. \A j \in P : j <= m + 1 <=> j <= m
        BY <2>2
      <3>2. QED
        BY <3>1
    <2>3. QED
      BY <2>1, <2>2
  <1>3. n \in S
    <2> HIDE DEF S
    <2>1. S = Nat
      BY <1>1, <1>2, CountingUp
    <2>2. QED
      BY <2>1
  <1>4. \A j \in P : j \in Nat /\ j <= n
    OBVIOUS
  <1>5. PICK i \in P : \A j \in P : j <= n => j <= i
    BY <1>3, <1>4
  <1>6. QED
    BY <1>4, <1>5

LEMMA ThisTurnIs ==
    ASSUME NEW ms \in Seq(Message)
    PROVE  \/ ThisTurn(ms) = ms /\ \A i \in 1..Len(ms) : ms[i].kind # "human"
           \/ \E last \in 1..Len(ms) :
                 /\ ThisTurn(ms) = SubSeq(ms, last, Len(ms))
                 /\ ms[last].kind = "human"
                 /\ \A i \in 1..Len(ms) : ms[i].kind = "human" => i <= last
  <1> DEFINE Q == {i \in DOMAIN ms : ms[i].kind = "human"}
             top == CHOOSE i \in Q : \A j \in Q : j <= i
  <1>1. Len(ms) \in Nat /\ DOMAIN ms = 1..Len(ms)
    OBVIOUS
  <1>2. CASE Q = {}
    BY <1>1, <1>2 DEF ThisTurn
  <1>3. CASE Q # {}
    <2>1. \E i \in Q : \A j \in Q : j <= i
      <3>1. Q \in SUBSET (1..Len(ms))
        BY <1>1
      <3> HIDE DEF Q
      <3>2. QED
        BY <1>1, <1>3, <3>1, LastOf
    <2>2. top \in Q /\ \A j \in Q : j <= top
      <3> HIDE DEF Q
      <3>1. QED
        BY <2>1
    <2>3. ThisTurn(ms) = SubSeq(ms, top, Len(ms))
      BY <1>3 DEF ThisTurn
    <2> HIDE DEF top
    <2>4. QED
      BY <1>1, <2>2, <2>3
  <1>4. QED
    BY <1>2, <1>3

\* The sources of this turn's answer are rows of the thread.
LEMMA TurnRows ==
    ASSUME NEW ms \in Seq(Message)
    PROVE  Contexts(ThisTurn(ms)) \subseteq Contexts(ms)
  <1>1. ASSUME NEW last \in 1..Len(ms), ThisTurn(ms) = SubSeq(ms, last, Len(ms))
        PROVE  Contexts(ThisTurn(ms)) \subseteq Contexts(ms)
    <2>1. PICK ts : ts = SubSeq(ms, last, Len(ms))
      OBVIOUS
    <2>2. /\ ts \in Seq(Message) /\ Len(ts) = Len(ms) - last + 1
          /\ \A i \in 1..Len(ts) : ts[i] = ms[last + i - 1]
      <3>1. Len(ms) \in Nat /\ last \in Nat /\ last <= Len(ms) /\ 1 <= last
        OBVIOUS
      <3>2. QED
        BY <2>1, <3>1
    <2>3. \A i \in 1..Len(ts) : last + i - 1 \in 1..Len(ms) /\ Width(ts, i) = Width(ms, last + i - 1)
      BY <2>2 DEF Width
    <2>4. ASSUME NEW x, KeptAt(ts, x) PROVE KeptAt(ms, x)
      <3>1. PICK i \in 1..Len(ts) :
                /\ IsSearch(ts[i])
                /\ \E j \in 1..Width(ts, i) : x = <<ts[i].kept[j], <<ts[i].call.id, j>>>>
        BY <2>4 DEF KeptAt
      <3>2. PICK k \in 1..Len(ms) : ts[i] = ms[k] /\ Width(ts, i) = Width(ms, k)
        BY <2>2, <2>3
      <3>3. QED
        BY <3>1, <3>2 DEF KeptAt
    <2>5. QED
      BY <1>1, <2>1, <2>2, <2>4, Rows
  <1>2. QED
    BY <1>1, ThisTurnIs


-------------------------------------------------------------------------------
(* The progress note.                                                      *)

Lists(s, c) == \E k \in 1..Len(s) : s[k] = c

CallsOf(ms, i) == IF ms[i].kind = "ai" THEN ms[i].calls ELSE <<>>

\* c is asked by one of the messages from a to b.
AskedIn(ms, a, b, c) == \E i \in a..b : Lists(CallsOf(ms, i), c)

LEMMA CallsOfIs ==
    ASSUME NEW ms \in Seq(Message), NEW i \in 1..Len(ms)
    PROVE  CallsOf(ms, i) \in Seq(Call)
  <1>1. ms[i] \in Message
    OBVIOUS
  <1>2. <<>> \in Seq(Call)
    OBVIOUS
  <1>3. ms[i].kind = "ai" => ms[i].calls \in Seq(Call)
    BY <1>1 DEF Message, Human
  <1>4. QED
    BY <1>2, <1>3 DEF CallsOf

LEMMA ListsConcat ==
    ASSUME NEW V, NEW s \in Seq(V), NEW t \in Seq(V)
    PROVE  s \o t \in Seq(V) /\ \A c : Lists(s \o t, c) <=> Lists(s, c) \/ Lists(t, c)
  <1>1. /\ s \o t \in Seq(V) /\ Len(s \o t) = Len(s) + Len(t)
        /\ \A i \in 1..(Len(s) + Len(t)) :
              (s \o t)[i] = IF i <= Len(s) THEN s[i] ELSE t[i - Len(s)]
    BY ConcatProperties
  <1>2. Len(s) \in Nat /\ Len(t) \in Nat
    OBVIOUS
  <1>3. PICK r : r = s \o t
    OBVIOUS
  <1>4. ASSUME NEW c, Lists(r, c) PROVE Lists(s, c) \/ Lists(t, c)
    <2>1. PICK k \in 1..(Len(s) + Len(t)) : r[k] = c
      BY <1>1, <1>3, <1>4 DEF Lists
    <2>2. CASE k <= Len(s)
      <3>1. k \in 1..Len(s) /\ s[k] = c
        BY <1>1, <1>2, <1>3, <2>1, <2>2
      <3>2. QED
        BY <3>1 DEF Lists
    <2>3. CASE ~(k <= Len(s))
      <3>1. k - Len(s) \in 1..Len(t) /\ t[k - Len(s)] = c
        BY <1>1, <1>2, <1>3, <2>1, <2>3
      <3>2. QED
        BY <3>1 DEF Lists
    <2>4. QED
      BY <2>2, <2>3
  <1>5. ASSUME NEW c, Lists(s, c) PROVE Lists(r, c)
    <2>1. PICK k \in 1..Len(s) : s[k] = c
      BY <1>5 DEF Lists
    <2>2. k \in 1..(Len(s) + Len(t)) /\ k <= Len(s)
      BY <1>2
    <2>3. r[k] = c
      BY <1>1, <1>3, <2>1, <2>2
    <2>4. QED
      BY <1>1, <1>3, <2>2, <2>3 DEF Lists
  <1>6. ASSUME NEW c, Lists(t, c) PROVE Lists(r, c)
    <2>1. PICK k \in 1..Len(t) : t[k] = c
      BY <1>6 DEF Lists
    <2>2. Len(s) + k \in 1..(Len(s) + Len(t)) /\ ~(Len(s) + k <= Len(s)) /\ (Len(s) + k) - Len(s) = k
      BY <1>2
    <2>3. r[Len(s) + k] = c
      BY <1>1, <1>3, <2>1, <2>2
    <2>4. QED
      BY <1>1, <1>3, <2>2, <2>3 DEF Lists
  <1>7. QED
    BY <1>1, <1>3, <1>4, <1>5, <1>6

LEMMA ListsAppend ==
    ASSUME NEW V, NEW s \in Seq(V), NEW v \in V
    PROVE  /\ Append(s, v) \in Seq(V)
           /\ \A c : Lists(Append(s, v), c) <=> Lists(s, c) \/ c = v
           /\ Once(s) /\ ~Lists(s, v) => Once(Append(s, v))
  <1>1. PICK r : r = Append(s, v)
    OBVIOUS
  <1>2. /\ Len(s) \in Nat /\ r \in Seq(V) /\ Len(r) = Len(s) + 1
        /\ r[Len(s) + 1] = v /\ \A i \in 1..Len(s) : r[i] = s[i]
    BY <1>1
  <1>3. \A i \in 1..(Len(s) + 1) : i \in 1..Len(s) \/ i = Len(s) + 1
    BY <1>2
  <1>4. \A i \in 1..Len(s) : i \in 1..(Len(s) + 1)
    BY <1>2
  <1>5. Len(s) + 1 \in 1..(Len(s) + 1)
    BY <1>2
  <1>6. \A c : Lists(r, c) <=> Lists(s, c) \/ c = v
    BY <1>2, <1>3, <1>4, <1>5 DEF Lists
  <1>7. Once(s) /\ ~Lists(s, v) => Once(r)
    BY <1>2, <1>3, <1>4 DEF Lists, Once
  <1>8. QED
    BY <1>1, <1>2, <1>6, <1>7

LEMMA CallsInIs ==
    ASSUME NEW ms \in Seq(Message)
    PROVE  /\ CallsIn(ms) \in Seq(Call)
           /\ \A c : Lists(CallsIn(ms), c) <=> AskedIn(ms, 1, Len(ms), c)
  <1> DEFINE n == Len(ms)
             V == Seq(Call)
             Fits(f) == f = [i \in 0..n |-> IF i = 0 THEN <<>> ELSE f[i - 1] \o CallsOf(ms, i)]
             g == [p \in (1..n) \X V |-> p[2] \o CallsOf(ms, p[1])]
             all == CHOOSE h : Fits(h)
  <1>1. n \in Nat /\ <<>> \in V /\ \A i \in 1..n : CallsOf(ms, i) \in V
    BY CallsOfIs
  <1>2. g \in [(1..n) \X V -> V]
    <2>1. \A s, t \in V : s \o t \in V
      BY ListsConcat
    <2> HIDE DEF V
    <2>2. QED
      BY <1>1, <2>1
  <1>3. PICK f \in [0..n -> V] : f[0] = <<>> /\ \A i \in 1..n : f[i] = g[<<i, f[i - 1]>>]
    <2> HIDE DEF g, n, V
    <2>1. \E f : Stepped(f, V, <<>>, n, g)
      BY <1>1, <1>2, SteppedFunction
    <2>2. QED
      BY <2>1 DEF Stepped
  <1>4. \A i \in 1..n : f[i] = f[i - 1] \o CallsOf(ms, i)
    <2>1. ASSUME NEW i \in 1..n PROVE f[i] = f[i - 1] \o CallsOf(ms, i)
      <3> HIDE DEF V, n
      <3>1. i - 1 \in 0..n
        BY <1>1
      <3>2. f[i - 1] \in V
        BY <1>3, <3>1
      <3>3. f[i] = g[<<i, f[i - 1]>>]
        BY <1>3
      <3>4. QED
        BY <3>2, <3>3
    <2>2. QED
      BY <2>1
  <1>5. Fits(f)
    <2> HIDE DEF V
    <2>1. QED
      BY <1>1, <1>3, <1>4
  <1>6. CallsIn(ms) = all[n]
    BY DEF CallsIn, CallsOf
  <1>7. Fits(all)
    <2> HIDE DEF Fits
    <2>1. QED
      BY <1>5
  <1> HIDE DEF all, V
  <1>8. /\ all[0] = <<>>
        /\ \A i \in 1..n : all[i] = all[i - 1] \o CallsOf(ms, i)
    <2> HIDE DEF n
    <2>1. \A i \in 1..n : i \in 0..n /\ i # 0
      BY <1>1
    <2>2. 0 \in 0..n
      BY <1>1
    <2>3. \A i \in 0..n : all[i] = IF i = 0 THEN <<>> ELSE all[i - 1] \o CallsOf(ms, i)
      BY <1>7, Zenon
    <2>4. QED
      BY <2>1, <2>2, <2>3, Zenon
  <1> DEFINE S == {m \in Nat : m <= n =>
                     all[m] \in V /\ \A c : Lists(all[m], c) <=> AskedIn(ms, 1, m, c)}
  <1>9. 0 \in S /\ S \in SUBSET Nat
    <2>1. \A c : ~Lists(<<>>, c) /\ ~AskedIn(ms, 1, 0, c)
      BY DEF Lists, AskedIn
    <2>2. QED
      BY <1>1, <1>8, <2>1
  <1>10. ASSUME NEW m \in S PROVE m + 1 \in S
    <2>1. SUFFICES ASSUME m + 1 <= n
                   PROVE  /\ all[m + 1] \in V
                          /\ \A c : Lists(all[m + 1], c) <=> AskedIn(ms, 1, m + 1, c)
      OBVIOUS
    <2>2. /\ m + 1 \in 1..n /\ (m + 1) - 1 = m /\ all[m] \in V
          /\ \A c : Lists(all[m], c) <=> AskedIn(ms, 1, m, c)
      BY <1>1, <2>1
    <2>3. all[m + 1] = all[m] \o CallsOf(ms, m + 1) /\ CallsOf(ms, m + 1) \in V
      BY <1>1, <1>8, <2>2
    <2>4. /\ all[m + 1] \in V
          /\ \A c : Lists(all[m + 1], c) <=> Lists(all[m], c) \/ Lists(CallsOf(ms, m + 1), c)
      BY <2>2, <2>3, ListsConcat DEF V
    <2>5. \A c : AskedIn(ms, 1, m + 1, c) <=> AskedIn(ms, 1, m, c) \/ Lists(CallsOf(ms, m + 1), c)
      <3>1. \A i : i \in 1..(m + 1) <=> i \in 1..m \/ i = m + 1
        BY <2>2
      <3>2. QED
        BY <3>1 DEF AskedIn
    <2>6. QED
      BY <2>2, <2>4, <2>5
  <1>11. n \in S
    <2> HIDE DEF S
    <2>1. S = Nat
      BY <1>9, <1>10, CountingUp
    <2>2. QED
      BY <1>1, <2>1
  <1>12. QED
    BY <1>1, <1>6, <1>11 DEF V

LEMMA AddingIs ==
    ASSUME NEW s \in Seq(Call), Once(s), NEW c \in Call
    PROVE  /\ Adding(s, c) \in Seq(Call) /\ Once(Adding(s, c))
           /\ \A d : Lists(Adding(s, c), d) <=> Lists(s, d) \/ d = c
  <1>1. DOMAIN s = 1..Len(s)
    OBVIOUS
  <1>2. CASE Lists(s, c)
    <2>1. Adding(s, c) = s
      BY <1>1, <1>2 DEF Adding, Lists
    <2>2. QED
      BY <1>2, <2>1
  <1>3. CASE ~Lists(s, c)
    <2>1. Adding(s, c) = Append(s, c)
      BY <1>1, <1>3 DEF Adding, Lists
    <2>2. QED
      BY <1>3, <2>1, ListsAppend
  <1>4. QED
    BY <1>2, <1>3

LEMMA ReportedIs ==
    ASSUME NEW ms, ThisTurn(ms) \in Seq(Message), NEW already \in Seq(Call), Once(already)
    PROVE  /\ Reported(ms, already) \in Seq(Call) /\ Once(Reported(ms, already))
           /\ \A c : Lists(Reported(ms, already), c) <=>
                        Lists(already, c) \/ Lists(CallsIn(ThisTurn(ms)), c)
  <1> DEFINE calls == CallsIn(ThisTurn(ms))
             n == Len(calls)
             V == {s \in Seq(Call) : Once(s)}
             Fits(f) == f = [i \in 0..n |-> IF i = 0 THEN already ELSE Adding(f[i - 1], calls[i])]
             g == [p \in (1..n) \X V |-> Adding(p[2], calls[p[1]])]
             all == CHOOSE h : Fits(h)
  <1>1. n \in Nat /\ already \in V /\ \A i \in 1..n : calls[i] \in Call
    <2>1. calls \in Seq(Call)
      BY CallsInIs
    <2> HIDE DEF calls
    <2>2. QED
      BY <2>1
  <1>2. g \in [(1..n) \X V -> V]
    <2>1. \A s \in V, c \in Call : Adding(s, c) \in V
      BY AddingIs
    <2> HIDE DEF V, n, calls
    <2>2. QED
      BY <1>1, <2>1
  <1>3. PICK f \in [0..n -> V] : f[0] = already /\ \A i \in 1..n : f[i] = g[<<i, f[i - 1]>>]
    <2> HIDE DEF g, n, V
    <2>1. \E f : Stepped(f, V, already, n, g)
      BY <1>1, <1>2, SteppedFunction
    <2>2. QED
      BY <2>1 DEF Stepped
  <1>4. \A i \in 1..n : f[i] = Adding(f[i - 1], calls[i])
    <2>1. ASSUME NEW i \in 1..n PROVE f[i] = Adding(f[i - 1], calls[i])
      <3> HIDE DEF V, n, calls
      <3>1. i - 1 \in 0..n
        BY <1>1
      <3>2. f[i - 1] \in V
        BY <1>3, <3>1
      <3>3. f[i] = g[<<i, f[i - 1]>>]
        BY <1>3
      <3>4. QED
        BY <3>2, <3>3
    <2>2. QED
      BY <2>1
  <1>5. Fits(f)
    <2> HIDE DEF V, n, calls
    <2>1. QED
      BY <1>1, <1>3, <1>4
  <1>6. Reported(ms, already) = all[n]
    <2>1. calls \in Seq(Call)
      BY CallsInIs
    <2>2. QED
      BY <2>1 DEF Reported, Told
  <1>7. Fits(all)
    <2> HIDE DEF Fits
    <2>1. QED
      BY <1>5
  <1> HIDE DEF all, V, calls
  <1>8. /\ all[0] = already
        /\ \A i \in 1..n : all[i] = Adding(all[i - 1], calls[i])
    <2> HIDE DEF n
    <2>1. \A i \in 1..n : i \in 0..n /\ i # 0
      BY <1>1
    <2>2. 0 \in 0..n
      BY <1>1
    <2>3. \A i \in 0..n : all[i] = IF i = 0 THEN already ELSE Adding(all[i - 1], calls[i])
      BY <1>7, Zenon
    <2>4. QED
      BY <2>1, <2>2, <2>3, Zenon
  <1> HIDE DEF n
  <1> DEFINE Holds(m) == /\ all[m] \in V
                         /\ \A c : Lists(all[m], c) <=>
                                Lists(already, c) \/ \E k \in 1..m : calls[k] = c
             S == {m \in Nat : m <= n => Holds(m)}
  <1>9. 0 \in S /\ S \in SUBSET Nat
    BY <1>1, <1>8
  <1>10. ASSUME NEW m \in S PROVE m + 1 \in S
    <2>1. SUFFICES ASSUME m + 1 <= n PROVE Holds(m + 1)
      OBVIOUS
    <2>2. m + 1 \in 1..n /\ (m + 1) - 1 = m /\ Holds(m)
      BY <1>1, <2>1
    <2>3. all[m + 1] = Adding(all[m], calls[m + 1]) /\ calls[m + 1] \in Call
      BY <1>1, <1>8, <2>2
    <2>4. all[m] \in Seq(Call) /\ Once(all[m])
      BY <2>2 DEF V
    <2>5. /\ all[m + 1] \in Seq(Call) /\ Once(all[m + 1])
          /\ \A c : Lists(all[m + 1], c) <=> Lists(all[m], c) \/ c = calls[m + 1]
      BY <2>3, <2>4, AddingIs
    <2>6. \A k : k \in 1..(m + 1) <=> k \in 1..m \/ k = m + 1
      BY <2>2
    <2>7. all[m + 1] \in V
      BY <2>5 DEF V
    <2>8. QED
      BY <2>2, <2>5, <2>6, <2>7
  <1>11. Holds(n)
    <2> HIDE DEF Holds
    <2>1. S = Nat
      <3> HIDE DEF S
      <3>1. QED
        BY <1>9, <1>10, CountingUp
    <2>2. QED
      BY <1>1, <2>1
  <1>12. all[n] \in Seq(Call) /\ Once(all[n])
    BY <1>11 DEF V
  <1>13. \A c : Lists(calls, c) <=> \E k \in 1..n : calls[k] = c
    BY DEF Lists, n
  <1>14. QED
    BY <1>6, <1>11, <1>12, <1>13 DEF calls

\* The calls of the turn ms is in.
TurnAsks(ms, c) ==
    \E i \in 1..Len(ms) : /\ Lists(CallsOf(ms, i), c)
                          /\ \A q \in 1..Len(ms) : ms[q].kind = "human" => i > q

LEMMA TurnAsksIs ==
    ASSUME NEW ms \in Seq(Message)
    PROVE  /\ ThisTurn(ms) \in Seq(Message)
           /\ \A c : Lists(CallsIn(ThisTurn(ms)), c) <=> TurnAsks(ms, c)
  <1>1. CASE ThisTurn(ms) = ms /\ \A i \in 1..Len(ms) : ms[i].kind # "human"
    BY <1>1, CallsInIs DEF TurnAsks, AskedIn
  <1>2. ASSUME NEW last \in 1..Len(ms), ThisTurn(ms) = SubSeq(ms, last, Len(ms)),
               ms[last].kind = "human",
               \A i \in 1..Len(ms) : ms[i].kind = "human" => i <= last
        PROVE  /\ ThisTurn(ms) \in Seq(Message)
               /\ \A c : Lists(CallsIn(ThisTurn(ms)), c) <=> TurnAsks(ms, c)
    <2>1. PICK ts : ts = SubSeq(ms, last, Len(ms))
      OBVIOUS
    <2>2. Len(ms) \in Nat /\ last \in Nat /\ last <= Len(ms) /\ 1 <= last
      OBVIOUS
    <2>3. /\ ts \in Seq(Message) /\ Len(ts) = Len(ms) - last + 1
          /\ \A i \in 1..Len(ts) : ts[i] = ms[last + i - 1]
      BY <2>1, <2>2
    <2>4. ASSUME NEW c, AskedIn(ts, 1, Len(ts), c) PROVE TurnAsks(ms, c)
      <3>1. PICK i \in 1..Len(ts) : Lists(CallsOf(ts, i), c)
        BY <2>4 DEF AskedIn
      <3>2. ts[i].kind = "ai"
        <4>1. ~Lists(<<>>, c)
          BY DEF Lists
        <4>2. QED
          BY <3>1, <4>1 DEF CallsOf
      <3>3. PICK k \in 1..Len(ms) : k = last + i - 1 /\ ts[i] = ms[k]
        BY <2>2, <2>3
      <3>4. k # last
        BY <1>2, <3>2, <3>3
      <3>5. k > last
        BY <2>2, <2>3, <3>3, <3>4
      <3>6. \A q \in 1..Len(ms) : ms[q].kind = "human" => k > q
        <4>1. ASSUME NEW q \in 1..Len(ms), ms[q].kind = "human" PROVE k > q
          <5>1. q <= last
            BY <1>2, <4>1
          <5>2. QED
            BY <2>2, <3>5, <5>1
        <4>2. QED
          BY <4>1
      <3>7. Lists(CallsOf(ms, k), c)
        BY <3>1, <3>3 DEF CallsOf
      <3>8. QED
        BY <3>6, <3>7 DEF TurnAsks
    <2>5. ASSUME NEW c, TurnAsks(ms, c) PROVE AskedIn(ts, 1, Len(ts), c)
      <3>1. PICK k \in 1..Len(ms) : Lists(CallsOf(ms, k), c) /\ k > last
        BY <1>2, <2>5 DEF TurnAsks
      <3>2. PICK i \in 1..Len(ts) : k = last + i - 1
        <4>1. k - last + 1 \in 1..Len(ts) /\ k = last + (k - last + 1) - 1
          BY <2>2, <2>3, <3>1
        <4>2. QED
          BY <4>1
      <3>3. ts[i] = ms[k]
        BY <2>3, <3>2
      <3>4. Lists(CallsOf(ts, i), c)
        BY <3>1, <3>3 DEF CallsOf
      <3>5. QED
        BY <3>4 DEF AskedIn
    <2>6. QED
      BY <1>2, <2>1, <2>3, <2>4, <2>5, CallsInIs
  <1>3. QED
    BY <1>1, <1>2, ThisTurnIs


-------------------------------------------------------------------------------
(* The numbers hold, step by step.                                         *)

LEMMA NumbersInit == Init => NumbersInv
  <1>1. Once(<<>>) /\ <<>> \in Seq(Call)
    BY DEF Once
  <1>2. QED
    BY <1>1, HistoriesAreThreads, LimitsArePositive
       DEF Init, NumbersInv, TypeOK, PhaseOK, ReadOK, PanelAgrees

\* A step that leaves the thread, the panel and the readings alone.
LEMMA NumbersKept ==
    ASSUME NumbersInv, UNCHANGED <<messages, panel, read, reported>>,
           phase' = phase \/ phase' = "page", steps' = steps,
           asked' \in Nat, torn' \in BOOLEAN
    PROVE  NumbersInv'
  BY DEF NumbersInv, TypeOK, PhaseOK, ReadOK, PanelAgrees

\* What every state the page sees adds to the note.
LEMMA NoteTyped ==
    ASSUME NEW ms, IsThread(ms), NEW s \in Seq(Call), Once(s)
    PROVE  Reported(ms, s) \in Seq(Call) /\ Once(Reported(ms, s))
  <1>1. ThisTurn(ms) \in Seq(Message)
    BY TurnAsksIs DEF IsThread
  <1>2. QED
    BY <1>1, ReportedIs

LEMMA NumbersAsk ==
    ASSUME NumbersInv, Ask
    PROVE  NumbersInv'
  <1>1. IsThread(messages) /\ messages \in Seq(Message) /\ phase = "page"
    BY DEF NumbersInv, TypeOK, IsThread, Ask
  <1>2. Follows(Human, messages)
    BY DEF Follows, Message, Human
  <1>3. messages' = Append(messages, Human)
    BY DEF Ask
  <1>4. /\ IsThread(messages') /\ Len(messages') = Len(messages) + 1
        /\ \A i \in 1..Len(messages) : messages'[i] = messages[i]
        /\ \A i \in (Len(messages) + 1)..Len(messages') : ~IsSearch(messages'[i])
    BY <1>1, <1>2, <1>3, Appended DEF OneMore
  <1>5. messages' \in Seq(Message) /\ Len(messages) <= Len(messages')
    BY <1>1, <1>4 DEF IsThread
  <1>6. /\ Owing(messages) \subseteq Owing(messages')
        /\ Contexts(messages) \subseteq Contexts(messages')
    BY <1>1, <1>4, <1>5, Grown
  <1>7. TypeOK'
    <2>1. Once(<<>>) /\ <<>> \in Seq(Call)
      BY DEF Once
    <2>2. QED
      BY <1>4, <2>1, LimitsArePositive DEF NumbersInv, TypeOK, Ask
  <1>8. PhaseOK'
    BY DEF PhaseOK, Ask
  <1>9. ReadOK' /\ PanelAgrees'
    BY <1>6 DEF NumbersInv, ReadOK, PanelAgrees, Ask
  <1>10. QED
    BY <1>7, <1>8, <1>9 DEF NumbersInv

LEMMA NumbersStartOver ==
    ASSUME NumbersInv, StartOver
    PROVE  NumbersInv'
  <1>1. IsThread(<<>>)
    BY DEF IsThread
  <1>2. Once(<<>>) /\ <<>> \in Seq(Call)
    BY DEF Once
  <1>3. /\ messages' = <<>> /\ read' = {} /\ panel' = {} /\ torn' = FALSE
        /\ steps' = 0 /\ reported' = <<>> /\ phase' = "page" /\ asked' = asked /\ asked \in Nat
    BY DEF NumbersInv, TypeOK, StartOver
  <1>4. TypeOK'
    <2>1. IsThread(messages') /\ reported' \in Seq(Call) /\ Once(reported')
      BY <1>1, <1>2, <1>3
    <2>2. steps' \in Nat /\ steps' <= MaxAgentSteps
      BY <1>3, LimitsArePositive
    <2>3. torn' \in BOOLEAN
      BY <1>3, Zenon
    <2>4. phase' \in {"page", "register", "model", "tools", "answered"}
      BY <1>3
    <2>5. QED
      BY <1>3, <2>1, <2>2, <2>3, <2>4, Zenon DEF TypeOK
  <1>5. PhaseOK' /\ ReadOK' /\ PanelAgrees'
    BY <1>3 DEF PhaseOK, ReadOK, PanelAgrees
  <1>6. QED
    BY <1>4, <1>5 DEF NumbersInv

LEMMA NumbersRegister ==
    ASSUME NumbersInv, Register
    PROVE  NumbersInv'
  <1>1. IsThread(messages) /\ messages' = Renumbered(messages)
    BY DEF NumbersInv, TypeOK, Register
  <1>2. IsThread(messages') /\ InOrder(messages') /\ Owing(messages') = Owing(messages)
    BY <1>1, RenumberedIs
  <1>3. Contexts(messages') = Owing(messages')
    BY <1>2, InOrderRows DEF IsThread
  <1>4. TypeOK'
    <2>1. /\ reported \in Seq(Call) /\ Once(reported) /\ reported' = Reported(messages', reported)
          /\ phase' = "model" /\ steps' = steps + 1 /\ ~(steps >= MaxAgentSteps)
          /\ UNCHANGED <<asked, torn>>
      BY DEF NumbersInv, TypeOK, Register, Runs, OutOfSteps
    <2>2. reported' \in Seq(Call) /\ Once(reported')
      BY <1>2, <2>1, NoteTyped
    <2>3. QED
      BY <1>2, <2>1, <2>2, LimitsArePositive DEF NumbersInv, TypeOK
  <1>5. PhaseOK'
    BY <1>2 DEF PhaseOK, Register
  <1>6. ReadOK' /\ PanelAgrees'
    BY <1>2, <1>3 DEF NumbersInv, ReadOK, PanelAgrees, Register
  <1>7. QED
    BY <1>4, <1>5, <1>6 DEF NumbersInv

\* The model's step, whether it asks for tools or answers.
LEMMA NumbersModel ==
    ASSUME NumbersInv, Runs("model"), Reads, NEW calls \in Seq(Call),
           \A j \in DOMAIN calls : calls[j].id = <<Len(messages) + 1, j>>,
           messages' = Append(messages, AI(calls)), phase' \in {"tools", "answered"},
           reported' = Reported(messages', reported), UNCHANGED <<asked, panel, torn>>
    PROVE  NumbersInv'
  <1>1. IsThread(messages) /\ messages \in Seq(Message) /\ phase = "model" /\ InOrder(messages)
    BY DEF NumbersInv, TypeOK, IsThread, Runs, PhaseOK
  <1>2. /\ AI(calls) \in Message /\ AI(calls).kind = "ai"
        /\ AI(calls).kind # "tool" /\ AI(calls).calls = calls
    BY DEF Message, AI
  <1>a. Follows(AI(calls), messages)
    BY <1>2 DEF Follows
  <1>3. /\ IsThread(messages') /\ Len(messages') = Len(messages) + 1
        /\ messages'[Len(messages) + 1] = AI(calls)
        /\ \A i \in 1..Len(messages) : messages'[i] = messages[i]
        /\ \A i \in (Len(messages) + 1)..Len(messages') : ~IsSearch(messages'[i])
    BY <1>1, <1>a, Appended DEF OneMore
  <1>4. messages' \in Seq(Message) /\ Len(messages) <= Len(messages') /\ Len(messages) \in Nat
    BY <1>1, <1>3 DEF IsThread
  <1>5. /\ Owing(messages) \subseteq Owing(messages')
        /\ Contexts(messages') = Contexts(messages) /\ InOrder(messages')
    BY <1>1, <1>3, <1>4, Grown
  <1>6. read' = read \cup Contexts(messages) /\ Contexts(messages) = Owing(messages)
    BY <1>1, ReadRows, InOrderRows
  <1>7. TypeOK'
    <2>1. /\ reported \in Seq(Call) /\ Once(reported)
          /\ steps' = steps + 1 /\ ~(steps >= MaxAgentSteps)
      BY DEF NumbersInv, TypeOK, Runs, OutOfSteps
    <2>2. reported' \in Seq(Call) /\ Once(reported')
      BY <1>3, <2>1, NoteTyped
    <2>3. QED
      BY <1>3, <2>1, <2>2, LimitsArePositive DEF NumbersInv, TypeOK
  <1>8. PhaseOK'
    <2>1. messages' # <<>>
      BY <1>4, <1>3
    <2>2. messages'[Len(messages')].kind = "ai"
      BY <1>2, <1>3
    <2>3. QED
      BY <1>5, <1>6, <2>1, <2>2 DEF PhaseOK
  <1>9. ReadOK' /\ PanelAgrees'
    BY <1>5, <1>6 DEF NumbersInv, ReadOK, PanelAgrees
  <1>10. QED
    BY <1>7, <1>8, <1>9 DEF NumbersInv


LEMMA ToolsAnswer ==
    ASSUME NumbersInv, Tools
    PROVE  /\ IsThread(messages) /\ IsThread(messages')
           /\ \E order, found : Answered(messages', messages, messages[Len(messages)].calls, order)
                             /\ Shuffles(messages[Len(messages)].calls, order, found)
  <1>1. /\ IsThread(messages) /\ phase = "tools" /\ messages # <<>>
        /\ messages[Len(messages)].kind = "ai"
    BY DEF NumbersInv, TypeOK, PhaseOK, Tools, Runs
  <1> DEFINE calls == messages[Len(messages)].calls
             N == DOMAIN calls
  <1>2. PICK order \in [N -> N], found \in [N -> Found \cup {0}] :
            /\ \A i, j \in N : order[i] = order[j] => i = j
            /\ messages' = messages \o AnswersTo(calls, order, found)
    <2>1. \E order \in {p \in [N -> N] : \A i, j \in N : p[i] = p[j] => i = j},
             found \in [N -> Found \cup {0}] :
             messages' = messages \o
                 [i \in N |-> Reply(calls[order[i]], [j \in 1..found[order[i]] |-> j])]
      BY DEF Tools
    <2> HIDE DEF calls
    <2>2. QED
      BY <2>1 DEF AnswersTo
  <1>3. Shuffles(calls, order, found)
    <2>1. Found \cup {0} \subseteq Nat
      BY FoundIsSizes
    <2>2. found \in [N -> Nat]
      <3> HIDE DEF N
      <3>1. QED
        BY <2>1
    <2> HIDE DEF calls
    <2>3. QED
      BY <1>2, <2>2 DEF Shuffles
  <1>4. IsThread(messages') /\ Answered(messages', messages, calls, order)
    BY <1>1, <1>2, <1>3, AppendedReplies
  <1>5. QED
    BY <1>1, <1>3, <1>4

LEMMA NumbersTools ==
    ASSUME NumbersInv, Tools
    PROVE  NumbersInv'
  <1>1. IsThread(messages) /\ IsThread(messages')
    BY ToolsAnswer
  <1>2. Len(messages) <= Len(messages') /\ \A i \in 1..Len(messages) : messages'[i] = messages[i]
    <2>1. PICK calls, order : Answered(messages', messages, calls, order)
      BY ToolsAnswer
    <2>2. Len(calls) \in Nat /\ Len(messages) \in Nat
      BY <1>1, <2>1 DEF Answered, IsThread
    <2>3. QED
      BY <2>1, <2>2 DEF Answered
  <1>3. /\ Owing(messages) \subseteq Owing(messages')
        /\ Contexts(messages) \subseteq Contexts(messages')
    BY <1>1, <1>2, Grown DEF IsThread
  <1>4. TypeOK'
    <2>1. /\ reported \in Seq(Call) /\ Once(reported) /\ reported' = Reported(messages', reported)
          /\ phase' = "register" /\ steps' = steps + 1 /\ ~(steps >= MaxAgentSteps)
          /\ UNCHANGED <<asked, torn>>
      BY DEF NumbersInv, TypeOK, Tools, Runs, OutOfSteps
    <2>2. reported' \in Seq(Call) /\ Once(reported')
      BY <1>1, <2>1, NoteTyped
    <2>3. QED
      BY <1>1, <2>1, <2>2, LimitsArePositive DEF NumbersInv, TypeOK
  <1>5. PhaseOK'
    BY DEF PhaseOK, Tools
  <1>6. ReadOK' /\ PanelAgrees'
    BY <1>3 DEF NumbersInv, ReadOK, PanelAgrees, Tools
  <1>7. QED
    BY <1>4, <1>5, <1>6 DEF NumbersInv

LEMMA NumbersShow ==
    ASSUME NumbersInv, Show
    PROVE  NumbersInv'
  <1>1. Contexts(ThisTurn(messages)) \subseteq Contexts(messages)
    BY TurnRows DEF NumbersInv, TypeOK, IsThread
  <1>2. Contexts(messages) \subseteq read
    BY DEF NumbersInv, PhaseOK, Show
  <1>3. QED
    BY <1>1, <1>2 DEF NumbersInv, TypeOK, PhaseOK, ReadOK, PanelAgrees, Show

\* What the model asks for, each call known by its place.
LEMMA AskedCalls ==
    ASSUME NumbersInv, CallTools
    PROVE  \E calls \in Seq(Call) :
              /\ \A j \in DOMAIN calls : calls[j].id = <<Len(messages) + 1, j>>
              /\ calls # <<>> /\ messages' = Append(messages, AI(calls))
  <1>1. PICK n \in 1..MaxCalls, tool \in [1..MaxCalls -> Tool] :
            messages' = Append(messages,
                AI([j \in 1..n |-> [id |-> <<Len(messages) + 1, j>>, tool |-> tool[j]]]))
    BY DEF CallTools
  <1> DEFINE calls == [j \in 1..n |-> [id |-> <<Len(messages) + 1, j>>, tool |-> tool[j]]]
  <1>2. n \in Nat /\ n # 0 /\ Len(messages) \in Nat /\ \A j \in 1..n : tool[j] \in Tool
    BY LimitsArePositive DEF NumbersInv, TypeOK, IsThread
  <1>3. \A j \in 1..n : [id |-> <<Len(messages) + 1, j>>, tool |-> tool[j]] \in Call
    BY <1>2 DEF Call
  <1>4. calls \in [1..n -> Call]
    BY <1>3
  <1>5. \A j \in 1..n : calls[j].id = <<Len(messages) + 1, j>>
    OBVIOUS
  <1>6. messages' = Append(messages, AI(calls))
    BY <1>1
  <1> HIDE DEF calls
  <1>7. calls \in Seq(Call) /\ Len(calls) = n /\ DOMAIN calls = 1..n
    BY <1>2, <1>4, Listed
  <1>8. calls # <<>>
    BY <1>2, <1>7
  <1>9. QED
    BY <1>5, <1>6, <1>7, <1>8

LEMMA NumbersStep == NumbersInv /\ [Next]_vars => NumbersInv'
  <1> SUFFICES ASSUME NumbersInv, [Next]_vars PROVE NumbersInv'
    OBVIOUS
  <1>0. asked \in Nat /\ torn \in BOOLEAN /\ asked + 1 \in Nat
    BY DEF NumbersInv, TypeOK
  <1>1. CASE AskBlocked
    BY <1>0, <1>1, NumbersKept DEF AskBlocked
  <1>2. CASE Ask
    BY <1>2, NumbersAsk
  <1>3. CASE StartOver
    BY <1>3, NumbersStartOver
  <1>4. CASE Interrupt
    <2>1. torn' \in BOOLEAN
      BY <1>4 DEF Interrupt
    <2>2. QED
      BY <1>0, <1>4, <2>1, NumbersKept DEF Interrupt
  <1>5. CASE Register
    BY <1>5, NumbersRegister
  <1>6. CASE CallTools
    <2>1. PICK calls \in Seq(Call) :
              /\ \A j \in DOMAIN calls : calls[j].id = <<Len(messages) + 1, j>>
              /\ messages' = Append(messages, AI(calls))
      BY <1>6, AskedCalls
    <2>2. /\ Runs("model") /\ Reads /\ phase' \in {"tools", "answered"}
          /\ reported' = Reported(messages', reported) /\ UNCHANGED <<asked, panel, torn>>
      BY <1>6 DEF CallTools
    <2>3. QED
      BY <2>1, <2>2, NumbersModel
  <1>7. CASE Answer
    <2>1. /\ <<>> \in Seq(Call)
          /\ \A j \in DOMAIN <<>> : <<>>[j].id = <<Len(messages) + 1, j>>
      OBVIOUS
    <2>2. /\ Runs("model") /\ Reads /\ phase' \in {"tools", "answered"}
          /\ messages' = Append(messages, AI(<<>>))
          /\ reported' = Reported(messages', reported) /\ UNCHANGED <<asked, panel, torn>>
      BY <1>7 DEF Answer
    <2>3. QED
      BY <2>1, <2>2, NumbersModel
  <1>8. CASE Tools
    BY <1>8, NumbersTools
  <1>9. CASE GiveUp
    BY <1>0, <1>9, NumbersKept DEF GiveUp
  <1>10. CASE ModelRaises
    BY <1>0, <1>10, NumbersKept DEF ModelRaises
  <1>11. CASE SearchRaises
    <2>1. torn' \in BOOLEAN
      BY <1>11, Zenon DEF SearchRaises
    <2>2. QED
      BY <1>0, <1>11, <2>1, NumbersKept DEF SearchRaises
  <1>12. CASE Refuse
    BY <1>0, <1>12, NumbersKept DEF Refuse
  <1>13. CASE Show
    BY <1>13, NumbersShow
  <1>14. CASE UNCHANGED vars
    BY <1>0, <1>14, NumbersKept DEF vars
  <1>15. QED
    BY <1>1, <1>2, <1>3, <1>4, <1>5, <1>6, <1>7, <1>8, <1>9, <1>10, <1>11, <1>12, <1>13, <1>14
       DEF Next, Loop, Page

LEMMA NumbersAlways == Spec => []NumbersInv
  <1>1. QED
    BY NumbersInit, NumbersStep, PTL DEF Spec

(* For any thread the session found, whatever searches ran together and    *)
(* however turns ended: a source the reader was shown keeps its number.    *)
THEOREM SourcesKeepTheirNumbers == Spec => []PanelAgrees
  <1>1. NumbersInv => PanelAgrees
    BY DEF NumbersInv
  <1>2. QED
    BY <1>1, NumbersAlways, PTL


-------------------------------------------------------------------------------
(* The register is a sequence, and its numbers name one chunk each.        *)

\* No two rows the thread owes share a number or a chunk.
LEMMA OwingIsOneToOne ==
    ASSUME NEW ms, IsThread(ms), NEW r \in Owing(ms), NEW s \in Owing(ms)
    PROVE  r[1] = s[1] <=> r[2] = s[2]
  <1>1. ms \in Seq(Message) /\ OwedAt(ms, r) /\ OwedAt(ms, s)
    BY Rows DEF IsThread
  <1>a. PICK i \in 1..Len(ms) :
            /\ IsSearch(ms[i])
            /\ \E j \in 1..Width(ms, i) :
                  r = <<NextNumber(ms)[i - 1] + j - 1, <<ms[i].call.id, j>>>>
    BY <1>1 DEF OwedAt
  <1>2. PICK j \in 1..Width(ms, i) : r = <<NextNumber(ms)[i - 1] + j - 1, <<ms[i].call.id, j>>>>
    BY <1>a
  <1>b. PICK k \in 1..Len(ms) :
            /\ IsSearch(ms[k])
            /\ \E l \in 1..Width(ms, k) :
                  s = <<NextNumber(ms)[k - 1] + l - 1, <<ms[k].call.id, l>>>>
    BY <1>1 DEF OwedAt
  <1>3. PICK l \in 1..Width(ms, k) : s = <<NextNumber(ms)[k - 1] + l - 1, <<ms[k].call.id, l>>>>
    BY <1>b
  <1>4. r[1] = NextNumber(ms)[i - 1] + j - 1 /\ r[2] = <<ms[i].call.id, j>>
    BY <1>2
  <1>5. s[1] = NextNumber(ms)[k - 1] + l - 1 /\ s[2] = <<ms[k].call.id, l>>
    BY <1>3
  <1>6. ASSUME r[1] = s[1] PROVE r[2] = s[2]
    <2>1. i = k /\ j = l
      BY <1>1, <1>4, <1>5, <1>6, OwedOnce
    <2>2. QED
      BY <1>4, <1>5, <2>1
  <1>7. ASSUME r[2] = s[2] PROVE r[1] = s[1]
    <2>1. ms[i].call.id = ms[k].call.id /\ j = l
      BY <1>4, <1>5, <1>7
    <2>2. i \in DOMAIN ms /\ k \in DOMAIN ms /\ ms[i].kind = "tool" /\ ms[k].kind = "tool"
      BY <1>1, <1>a, <1>b DEF IsSearch
    <2>3. i = k
      BY <2>1, <2>2 DEF IsThread
    <2>4. QED
      BY <1>4, <1>5, <2>1, <2>3
  <1>8. QED
    BY <1>6, <1>7

Chunks(ms) ==
    UNION {{<<i, j>> : j \in DOMAIN ms[i].kept} : i \in {n \in DOMAIN ms : IsSearch(ms[n])}}

UpTo(ms, m) == {p \in Chunks(ms) : p[1] <= m}

LEMMA ChunksAre ==
    ASSUME NEW ms \in Seq(Message)
    PROVE  \A p : p \in Chunks(ms) <=>
              \E i \in 1..Len(ms) : \E j \in 1..Width(ms, i) : p = <<i, j>>
  <1>1. ASSUME NEW p
        PROVE  p \in Chunks(ms) <=>
                  \E i \in {n \in DOMAIN ms : IsSearch(ms[n])} :
                     \E j \in DOMAIN ms[i].kept : p = <<i, j>>
    BY DEF Chunks
  <1>2. DOMAIN ms = 1..Len(ms)
    OBVIOUS
  <1>3. \A i \in 1..Len(ms) : /\ IsSearch(ms[i]) => DOMAIN ms[i].kept = 1..Width(ms, i)
                              /\ ~IsSearch(ms[i]) => Width(ms, i) = 0
    BY Rows DEF Width
  <1>4. \A j : j \notin 1..0
    OBVIOUS
  <1>5. QED
    BY <1>1, <1>2, <1>3, <1>4

\* The first w chunks of message i.
First(i, w) == {<<i, j>> : j \in 1..w}

LEMMA FirstAre ==
    ASSUME NEW i \in Nat, NEW w \in Nat
    PROVE  IsFiniteSet(First(i, w)) /\ Cardinality(First(i, w)) = w
  <1> DEFINE f == [j \in 1..w |-> <<i, j>>]
  <1>1. f \in Bijection(1..w, First(i, w))
    <2>1. f \in [1..w -> First(i, w)]
      BY DEF First
    <2>2. \A j, k \in 1..w : f[j] = f[k] => j = k
      OBVIOUS
    <2>3. \A p \in First(i, w) : \E j \in 1..w : f[j] = p
      BY DEF First
    <2> HIDE DEF f
    <2>4. f \in Injection(1..w, First(i, w))
      BY <2>1, <2>2 DEF Injection, IsInjective
    <2>5. f \in Surjection(1..w, First(i, w))
      BY <2>1, <2>3 DEF Surjection
    <2>6. QED
      BY <2>4, <2>5 DEF Bijection
  <1>2. IsFiniteSet(1..w) /\ Cardinality(1..w) = w
    BY FS_Interval
  <1> HIDE DEF f
  <1>3. ExistsBijection(1..w, First(i, w))
    BY <1>1 DEF ExistsBijection
  <1>4. QED
    BY <1>2, <1>3, FS_Bijection

LEMMA DisjointUnion ==
    ASSUME NEW A, IsFiniteSet(A), NEW B, IsFiniteSet(B), A \cap B = {}
    PROVE  /\ IsFiniteSet(A \cup B)
           /\ Cardinality(A \cup B) = Cardinality(A) + Cardinality(B)
           /\ Cardinality(A) \in Nat /\ Cardinality(B) \in Nat
  <1>1. /\ IsFiniteSet(A \cup B)
        /\ Cardinality(A \cup B) = Cardinality(A) + Cardinality(B) - Cardinality(A \cap B)
    BY FS_Union
  <1>2. Cardinality({}) = 0 /\ Cardinality(A) \in Nat /\ Cardinality(B) \in Nat
    BY FS_EmptySet, FS_CardinalityType
  <1>3. Cardinality(A \cap B) = 0
    BY <1>2
  <1>4. QED
    BY <1>1, <1>2, <1>3

\* As many numbers as chunks have been given out by the end of message m.
LEMMA NumbersCount ==
    ASSUME NEW ms \in Seq(Message)
    PROVE  \A m \in 0..Len(ms) :
              /\ IsFiniteSet(UpTo(ms, m))
              /\ NextNumber(ms)[m] = 1 + Cardinality(UpTo(ms, m))
  <1> DEFINE n == Len(ms)
             Holds(m) == /\ IsFiniteSet(UpTo(ms, m))
                         /\ NextNumber(ms)[m] = 1 + Cardinality(UpTo(ms, m))
             S == {m \in Nat : m <= n => Holds(m)}
  <1>1. n \in Nat
    OBVIOUS
  <1>2. \A p \in Chunks(ms) : p[1] \in 1..n /\ p[2] \in 1..Width(ms, p[1]) /\ p = <<p[1], p[2]>>
    BY ChunksAre
  <1>3. Holds(0)
    <2>1. UpTo(ms, 0) = {}
      BY <1>1, <1>2 DEF UpTo
    <2>2. QED
      BY <2>1, FS_EmptySet, NextNumberIs
  <1>4. 0 \in S /\ S \in SUBSET Nat
    BY <1>3
  <1>5. ASSUME NEW m \in S PROVE m + 1 \in S
    <2>1. SUFFICES ASSUME m + 1 <= n PROVE Holds(m + 1)
      OBVIOUS
    <2>2. m + 1 \in 1..n /\ (m + 1) - 1 = m /\ m \in Nat
      BY <1>1, <2>1
    <2>3. Holds(m)
      BY <1>1, <2>1, <2>2
    <2>4. Width(ms, m + 1) \in Nat
      BY <2>2, WidthIsANumber
    <2>5. UpTo(ms, m + 1) = UpTo(ms, m) \cup First(m + 1, Width(ms, m + 1))
      <3>1. ASSUME NEW p \in UpTo(ms, m + 1), p \notin UpTo(ms, m)
            PROVE  p \in First(m + 1, Width(ms, m + 1))
        <4>1. p \in Chunks(ms) /\ p[1] <= m + 1 /\ ~(p[1] <= m)
          BY <3>1 DEF UpTo
        <4>2. p[1] = m + 1
          BY <1>2, <2>2, <4>1
        <4>3. p[2] \in 1..Width(ms, m + 1) /\ p = <<m + 1, p[2]>>
          BY <1>2, <4>1, <4>2
        <4>4. QED
          BY <4>3 DEF First
      <3>2. ASSUME NEW p \in First(m + 1, Width(ms, m + 1)) PROVE p \in UpTo(ms, m + 1)
        <4>1. PICK j \in 1..Width(ms, m + 1) : p = <<m + 1, j>>
          BY DEF First
        <4>2. p \in Chunks(ms)
          BY <2>2, <4>1, ChunksAre
        <4>3. QED
          BY <2>2, <4>1, <4>2 DEF UpTo
      <3>3. ASSUME NEW p \in UpTo(ms, m) PROVE p \in UpTo(ms, m + 1)
        <4>1. p \in Chunks(ms) /\ p[1] <= m
          BY DEF UpTo
        <4>2. p[1] <= m + 1
          BY <1>2, <2>2, <4>1
        <4>3. QED
          BY <4>1, <4>2 DEF UpTo
      <3>4. QED
        BY <3>1, <3>2, <3>3
    <2>6. UpTo(ms, m) \cap First(m + 1, Width(ms, m + 1)) = {}
      <3>1. ASSUME NEW p \in UpTo(ms, m), p \in First(m + 1, Width(ms, m + 1)) PROVE FALSE
        <4>1. p[1] <= m /\ p[1] = m + 1
          BY <3>1 DEF UpTo, First
        <4>2. QED
          BY <2>2, <4>1
      <3>2. QED
        BY <3>1
    <2>7. /\ IsFiniteSet(First(m + 1, Width(ms, m + 1)))
          /\ Cardinality(First(m + 1, Width(ms, m + 1))) = Width(ms, m + 1)
      BY <2>2, <2>4, FirstAre
    <2>8. /\ IsFiniteSet(UpTo(ms, m + 1))
          /\ Cardinality(UpTo(ms, m + 1)) = Cardinality(UpTo(ms, m)) + Width(ms, m + 1)
      <3>1. PICK A : A = UpTo(ms, m)
        OBVIOUS
      <3>2. PICK B : B = First(m + 1, Width(ms, m + 1))
        OBVIOUS
      <3>3. IsFiniteSet(A) /\ IsFiniteSet(B) /\ A \cap B = {}
        BY <2>3, <2>6, <2>7, <3>1, <3>2
      <3>4. /\ IsFiniteSet(A \cup B)
            /\ Cardinality(A \cup B) = Cardinality(A) + Cardinality(B)
        BY ONLY <3>3, DisjointUnion
      <3>5. QED
        BY <2>5, <2>7, <3>1, <3>2, <3>4
    <2>9. NextNumber(ms)[m + 1] = NextNumber(ms)[m] + Width(ms, m + 1)
      BY <2>2, NextNumberIs
    <2>10. Cardinality(UpTo(ms, m)) \in Nat
      BY <2>3, FS_CardinalityType
    <2>11. QED
      BY <2>3, <2>4, <2>8, <2>9, <2>10
  <1>6. ASSUME NEW m \in 0..n PROVE Holds(m)
    <2>1. m \in Nat /\ m <= n
      BY <1>1
    <2>2. S = Nat
      <3> HIDE DEF S
      <3>1. QED
        BY <1>4, <1>5, CountingUp
    <2>3. QED
      BY <2>1, <2>2
  <1>7. QED
    BY <1>6


\* The chunks retrieved before chunk j of message i.
Before(ms, i, j) == {p \in Chunks(ms) : p[1] < i \/ (p[1] = i /\ p[2] < j)}

LEMMA PlaceIs ==
    ASSUME NEW ms \in Seq(Message), NEW i \in 1..Len(ms), NEW j \in 1..Width(ms, i)
    PROVE  1 + Cardinality(Before(ms, i, j)) = NextNumber(ms)[i - 1] + j - 1
  <1>1. i - 1 \in 0..Len(ms) /\ i \in Nat /\ j - 1 \in Nat /\ Width(ms, i) \in Nat
    BY WidthIsANumber
  <1>2. \A p \in Chunks(ms) : p[1] \in 1..Len(ms) /\ p[2] \in 1..Width(ms, p[1]) /\ p = <<p[1], p[2]>>
    BY ChunksAre
  <1>3. Before(ms, i, j) = UpTo(ms, i - 1) \cup First(i, j - 1)
    <2>1. ASSUME NEW p \in Before(ms, i, j), p \notin UpTo(ms, i - 1)
          PROVE  p \in First(i, j - 1)
      <3>1. p \in Chunks(ms) /\ (p[1] < i \/ (p[1] = i /\ p[2] < j)) /\ ~(p[1] <= i - 1)
        BY <2>1 DEF Before, UpTo
      <3>2. p[1] = i /\ p[2] < j
        BY <1>1, <1>2, <3>1
      <3>3. p[2] \in 1..(j - 1) /\ p = <<i, p[2]>>
        BY <1>1, <1>2, <3>1, <3>2
      <3>4. QED
        BY <3>3 DEF First
    <2>2. ASSUME NEW p \in First(i, j - 1) PROVE p \in Before(ms, i, j)
      <3>1. PICK k \in 1..(j - 1) : p = <<i, k>>
        BY DEF First
      <3>2. k \in 1..Width(ms, i) /\ k < j
        BY <1>1
      <3>3. p \in Chunks(ms)
        BY <3>1, <3>2, ChunksAre
      <3>4. QED
        BY <3>1, <3>2, <3>3 DEF Before
    <2>3. ASSUME NEW p \in UpTo(ms, i - 1) PROVE p \in Before(ms, i, j)
      <3>1. p \in Chunks(ms) /\ p[1] <= i - 1
        BY DEF UpTo
      <3>2. p[1] < i
        BY <1>1, <1>2, <3>1
      <3>3. QED
        BY <3>1, <3>2 DEF Before
    <2>4. QED
      BY <2>1, <2>2, <2>3
  <1>4. UpTo(ms, i - 1) \cap First(i, j - 1) = {}
    <2>1. ASSUME NEW p \in UpTo(ms, i - 1), p \in First(i, j - 1) PROVE FALSE
      <3>1. p[1] <= i - 1 /\ p[1] = i
        BY <2>1 DEF UpTo, First
      <3>2. QED
        BY <1>1, <3>1
    <2>2. QED
      BY <2>1
  <1>5. /\ IsFiniteSet(UpTo(ms, i - 1))
        /\ NextNumber(ms)[i - 1] = 1 + Cardinality(UpTo(ms, i - 1))
    BY <1>1, NumbersCount
  <1>6. IsFiniteSet(First(i, j - 1)) /\ Cardinality(First(i, j - 1)) = j - 1
    BY <1>1, FirstAre
  <1>7. /\ Cardinality(Before(ms, i, j)) = Cardinality(UpTo(ms, i - 1)) + (j - 1)
        /\ Cardinality(UpTo(ms, i - 1)) \in Nat
    BY <1>3, <1>4, <1>5, <1>6, DisjointUnion
  <1>8. QED
    BY <1>1, <1>5, <1>7

LEMMA RegisterIsOrdered == NumbersInv => RegisterIsASequence
  <1> SUFFICES ASSUME NumbersInv, phase = "model", NEW i \in Searches
               PROVE  /\ messages[i].cited = messages[i].kept
                      /\ \A j \in DOMAIN messages[i].kept :
                            messages[i].kept[j] = 1 + Cardinality(Before(messages, i, j))
    BY DEF RegisterIsASequence, Chunks, Before, Searches
  <1>1. /\ IsThread(messages) /\ messages \in Seq(Message) /\ InOrder(messages)
        /\ i \in DOMAIN messages /\ i \in 1..Len(messages) /\ IsSearch(messages[i])
    BY DEF NumbersInv, TypeOK, PhaseOK, IsThread, Searches
  <1>2. messages[i].cited = messages[i].kept
    BY <1>1 DEF IsThread, IsSearch
  <1>3. ASSUME NEW j \in DOMAIN messages[i].kept
        PROVE  messages[i].kept[j] = 1 + Cardinality(Before(messages, i, j))
    <2>1. /\ j \in 1..Width(messages, i)
          /\ Owed(messages, i) = [l \in 1..Width(messages, i) |-> NextNumber(messages)[i - 1] + l - 1]
      BY <1>1, <1>3, Rows
    <2>2. messages[i].kept[j] = NextNumber(messages)[i - 1] + j - 1
      BY <1>1, <2>1 DEF InOrder
    <2>3. QED
      BY <1>1, <2>1, <2>2, PlaceIs
  <1>4. QED
    BY <1>2, <1>3

(* For any thread and any interleaving of the turns' ends: what the model  *)
(* reads is numbered in one sequence, and a number it read names one chunk *)
(* for the whole conversation.                                             *)
THEOREM NumbersNameOneChunk == Spec => []NumbersAreForGood
  <1>1. NumbersInv => OneChunkPerNumber
    BY OwingIsOneToOne DEF NumbersInv, TypeOK, ReadOK, OneChunkPerNumber
  <1>2. NumbersInv => NumbersAreForGood
    BY <1>1, RegisterIsOrdered DEF NumbersAreForGood
  <1>3. QED
    BY <1>2, NumbersAlways, PTL


-------------------------------------------------------------------------------
(* The turn's calls, and the note of them.                                 *)

LEMMA StateSets ==
    /\ Calls = CallsAt(messages) /\ OpenCalls = OpenAt(messages)
    /\ Rounds = Cardinality(RoundsAt(messages))
    /\ {c \in Calls : \A q \in Questions : c.id[1] > q} = TurnCallsAt(messages)
  BY DEF Calls, CallsAt, OpenCalls, OpenAt, Replies, Rounds, RoundsAt, TurnCallsAt, Questions

LEMMA NextStateSets ==
    /\ OpenCalls' = OpenAt(messages')
    /\ Rounds' = Cardinality(RoundsAt(messages'))
  BY DEF Calls, CallsAt, OpenCalls, OpenAt, Replies, Rounds, RoundsAt, TurnCallsAt, Questions

AfterQuestions(ms, i) == \A q \in 1..Len(ms) : ms[q].kind = "human" => i > q

LEMMA CallsAre ==
    ASSUME NEW ms, IsThread(ms)
    PROVE  /\ \A i \in 1..Len(ms) : \A c : Lists(CallsOf(ms, i), c) => c.id[1] = i
           /\ \A c : c \in CallsAt(ms) <=> \E i \in 1..Len(ms) : Lists(CallsOf(ms, i), c)
           /\ \A c : c \in TurnCallsAt(ms) <=> TurnAsks(ms, c)
  <1>1. ms \in Seq(Message) /\ Len(ms) \in Nat /\ DOMAIN ms = 1..Len(ms)
    BY DEF IsThread
  <1>2. ASSUME NEW i \in 1..Len(ms), NEW c
        PROVE  Lists(CallsOf(ms, i), c) <=>
                  ms[i].kind = "ai" /\ \E j \in DOMAIN ms[i].calls : c = ms[i].calls[j]
    <2>1. CASE ms[i].kind = "ai"
      <3>1. CallsOf(ms, i) = ms[i].calls /\ ms[i].calls \in Seq(Call)
        BY <1>1, <2>1, CallsOfIs DEF CallsOf
      <3>2. DOMAIN ms[i].calls = 1..Len(ms[i].calls)
        BY <3>1
      <3>3. QED
        BY <2>1, <3>1, <3>2 DEF Lists
    <2>2. CASE ms[i].kind # "ai"
      <3>1. CallsOf(ms, i) = <<>>
        BY <2>2 DEF CallsOf
      <3>2. ~Lists(<<>>, c)
        BY DEF Lists
      <3>3. QED
        BY <2>2, <3>1, <3>2
    <2>3. QED
      BY <2>1, <2>2
  <1>3. ASSUME NEW i \in 1..Len(ms), NEW c, Lists(CallsOf(ms, i), c) PROVE c.id[1] = i
    <2>1. PICK j \in DOMAIN ms[i].calls : ms[i].kind = "ai" /\ c = ms[i].calls[j]
      BY <1>2, <1>3
    <2>2. c.id = <<i, j>>
      BY <1>1, <2>1 DEF IsThread
    <2>3. \A v, x, y : v = <<x, y>> => v[1] = x
      OBVIOUS
    <2>4. QED
      BY ONLY <2>2, <2>3, Zenon
  <1>4. ASSUME NEW c
        PROVE  c \in CallsAt(ms) <=> \E i \in 1..Len(ms) : Lists(CallsOf(ms, i), c)
    <2>1. c \in CallsAt(ms) <=>
             \E i \in {n \in DOMAIN ms : ms[n].kind = "ai"} :
                \E j \in DOMAIN ms[i].calls : c = ms[i].calls[j]
      BY DEF CallsAt
    <2>2. QED
      BY <1>1, <1>2, <2>1
  <1>5. ASSUME NEW c PROVE c \in TurnCallsAt(ms) <=> TurnAsks(ms, c)
    <2>1. c \in TurnCallsAt(ms) <=>
             /\ \E i \in 1..Len(ms) : Lists(CallsOf(ms, i), c)
             /\ \A q \in 1..Len(ms) : ms[q].kind = "human" => c.id[1] > q
      BY <1>1, <1>4 DEF TurnCallsAt
    <2>2. QED
      BY <1>3, <2>1 DEF TurnAsks
  <1>6. QED
    BY <1>3, <1>4, <1>5

LEMMA RoundsAre ==
    ASSUME NEW ms, IsThread(ms)
    PROVE  /\ \A i : i \in RoundsAt(ms) <=>
                 /\ i \in 1..Len(ms) /\ CallsOf(ms, i) # <<>> /\ AfterQuestions(ms, i)
           /\ IsFiniteSet(RoundsAt(ms)) /\ Cardinality(RoundsAt(ms)) \in Nat
  <1>1. ms \in Seq(Message) /\ Len(ms) \in Nat
    BY DEF IsThread
  <1>2. ASSUME NEW i \in RoundsAt(ms)
        PROVE  i \in 1..Len(ms) /\ CallsOf(ms, i) # <<>> /\ AfterQuestions(ms, i)
    <2>1. PICK c \in TurnCallsAt(ms) : i = c.id[1]
      BY DEF RoundsAt
    <2>2. PICK k \in 1..Len(ms) : Lists(CallsOf(ms, k), c) /\ AfterQuestions(ms, k)
      BY <2>1, CallsAre DEF TurnAsks, AfterQuestions
    <2>3. k = i
      BY <2>1, <2>2, CallsAre
    <2>4. ~Lists(<<>>, c)
      BY DEF Lists
    <2>5. QED
      BY <2>2, <2>3, <2>4
  <1>3. ASSUME NEW i \in 1..Len(ms), CallsOf(ms, i) # <<>>, AfterQuestions(ms, i)
        PROVE  i \in RoundsAt(ms)
    <2>1. CallsOf(ms, i) \in Seq(Call)
      BY <1>1, CallsOfIs
    <2>2. Lists(CallsOf(ms, i), CallsOf(ms, i)[1])
      <3>1. 1 \in 1..Len(CallsOf(ms, i))
        BY <1>3, <2>1
      <3>2. QED
        BY <3>1 DEF Lists
    <2>3. PICK c : Lists(CallsOf(ms, i), c)
      BY <2>2
    <2>4. c \in TurnCallsAt(ms) /\ c.id[1] = i
      BY <1>3, <2>3, CallsAre DEF TurnAsks, AfterQuestions
    <2>5. QED
      BY <2>4 DEF RoundsAt
  <1>4. IsFiniteSet(RoundsAt(ms)) /\ Cardinality(RoundsAt(ms)) \in Nat
    <2>1. IsFiniteSet(1..Len(ms))
      BY <1>1, FS_Interval
    <2>2. RoundsAt(ms) \subseteq 1..Len(ms)
      BY <1>2
    <2>3. QED
      BY <2>1, <2>2, FS_Subset, FS_CardinalityType
  <1>5. QED
    BY <1>2, <1>3, <1>4

\* A thread that goes on without a new question.
GoesOn(ms, ns) ==
    /\ Len(ms) <= Len(ns)
    /\ \A i \in 1..Len(ms) : ns[i].kind = ms[i].kind /\ CallsOf(ns, i) = CallsOf(ms, i)
    /\ \A i \in (Len(ms) + 1)..Len(ns) : ns[i].kind # "human"

LEMMA TurnGoesOn ==
    ASSUME NEW ms, IsThread(ms), NEW ns, IsThread(ns), GoesOn(ms, ns)
    PROVE  /\ \A c : TurnAsks(ms, c) => TurnAsks(ns, c)
           /\ \A i \in 1..Len(ms) : AfterQuestions(ns, i) <=> AfterQuestions(ms, i)
           /\ \A i \in (Len(ms) + 1)..Len(ns) : AfterQuestions(ns, i)
  <1>1. /\ Len(ms) \in Nat /\ Len(ns) \in Nat /\ Len(ms) <= Len(ns)
        /\ \A i \in 1..Len(ms) : i \in 1..Len(ns)
        /\ \A i \in 1..Len(ns) : i \in 1..Len(ms) \/ i \in (Len(ms) + 1)..Len(ns)
        /\ \A i \in 1..Len(ms) : ns[i].kind = ms[i].kind /\ CallsOf(ns, i) = CallsOf(ms, i)
        /\ \A i \in (Len(ms) + 1)..Len(ns) : ns[i].kind # "human"
    BY DEF IsThread, GoesOn
  <1>2. \A i \in 1..Len(ms) : AfterQuestions(ns, i) <=> AfterQuestions(ms, i)
    BY <1>1 DEF AfterQuestions
  <1>3. \A i \in (Len(ms) + 1)..Len(ns) : AfterQuestions(ns, i)
    <2>1. ASSUME NEW i \in (Len(ms) + 1)..Len(ns), NEW q \in 1..Len(ns), ns[q].kind = "human"
          PROVE  i > q
      <3>1. q \in 1..Len(ms)
        BY <1>1, <2>1
      <3>2. QED
        BY <1>1, <3>1
    <2>2. QED
      BY <2>1 DEF AfterQuestions
  <1>4. ASSUME NEW c, TurnAsks(ms, c) PROVE TurnAsks(ns, c)
    <2>1. PICK i \in 1..Len(ms) : Lists(CallsOf(ms, i), c) /\ AfterQuestions(ms, i)
      BY <1>4 DEF TurnAsks, AfterQuestions
    <2>2. i \in 1..Len(ns) /\ Lists(CallsOf(ns, i), c) /\ AfterQuestions(ns, i)
      BY <1>1, <1>2, <2>1
    <2>3. QED
      BY <2>2 DEF TurnAsks, AfterQuestions
  <1>5. QED
    BY <1>2, <1>3, <1>4

\* The rounds of a thread that goes on: one more for a message that calls.
LEMMA RoundsGoOn ==
    ASSUME NEW ms, IsThread(ms), NEW ns, IsThread(ns), GoesOn(ms, ns)
    PROVE  /\ (\A i \in (Len(ms) + 1)..Len(ns) : CallsOf(ns, i) = <<>>) =>
                 RoundsAt(ns) = RoundsAt(ms)
           /\ Len(ns) = Len(ms) + 1 /\ CallsOf(ns, Len(ms) + 1) # <<>> =>
                 Cardinality(RoundsAt(ns)) = Cardinality(RoundsAt(ms)) + 1
  <1>1. /\ Len(ms) \in Nat /\ Len(ns) \in Nat /\ Len(ms) <= Len(ns)
        /\ \A i \in 1..Len(ms) : i \in 1..Len(ns)
        /\ \A i \in 1..Len(ns) : i \in 1..Len(ms) \/ i \in (Len(ms) + 1)..Len(ns)
        /\ \A i \in 1..Len(ms) : CallsOf(ns, i) = CallsOf(ms, i)
    BY DEF IsThread, GoesOn
  <1>2. \A i \in 1..Len(ms) : i \in RoundsAt(ns) <=> i \in RoundsAt(ms)
    BY <1>1, RoundsAre, TurnGoesOn
  <1>3. \A i \in RoundsAt(ms) : i \in 1..Len(ms)
    BY RoundsAre
  <1>4. \A i \in RoundsAt(ns) : i \in 1..Len(ns) /\ CallsOf(ns, i) # <<>>
    BY RoundsAre
  <1>5. ASSUME \A i \in (Len(ms) + 1)..Len(ns) : CallsOf(ns, i) = <<>>
        PROVE  RoundsAt(ns) = RoundsAt(ms)
    <2>1. \A i : i \in RoundsAt(ns) <=> i \in RoundsAt(ms)
      BY <1>1, <1>2, <1>3, <1>4, <1>5
    <2>2. QED
      BY <2>1
  <1>6. ASSUME Len(ns) = Len(ms) + 1, CallsOf(ns, Len(ms) + 1) # <<>>
        PROVE  Cardinality(RoundsAt(ns)) = Cardinality(RoundsAt(ms)) + 1
    <2>1. PICK last : last = Len(ms) + 1
      OBVIOUS
    <2>2. last \in 1..Len(ns) /\ last \in (Len(ms) + 1)..Len(ns) /\ last \notin 1..Len(ms)
      BY <1>1, <1>6, <2>1
    <2>3. last \in RoundsAt(ns) /\ last \notin RoundsAt(ms)
      BY <1>3, <1>6, <2>1, <2>2, RoundsAre, TurnGoesOn
    <2>4. \A i \in 1..Len(ns) : i \in 1..Len(ms) \/ i = last
      BY <1>1, <1>6, <2>1
    <2>5. RoundsAt(ns) = RoundsAt(ms) \cup {last}
      BY <1>2, <1>3, <1>4, <2>3, <2>4
    <2>6. QED
      BY <2>3, <2>5, RoundsAre, FS_AddElement
  <1>7. QED
    BY <1>5, <1>6


\* The note of a thread: its turn's calls.
Fits(s, ms) == \A c : Lists(s, c) <=> TurnAsks(ms, c)

LEMMA FitsIs ==
    ASSUME NEW ms, IsThread(ms), NEW s \in Seq(Call)
    PROVE  Fits(s, ms) <=> {s[i] : i \in DOMAIN s} = TurnCallsAt(ms)
  <1>1. DOMAIN s = 1..Len(s)
    OBVIOUS
  <1>2. \A c : c \in {s[i] : i \in DOMAIN s} <=> Lists(s, c)
    BY <1>1 DEF Lists
  <1>3. \A c : c \in TurnCallsAt(ms) <=> TurnAsks(ms, c)
    BY CallsAre
  <1>4. QED
    BY <1>2, <1>3 DEF Fits

LEMMA NoteGoesOn ==
    ASSUME NEW ms, IsThread(ms), NEW ns, IsThread(ns), GoesOn(ms, ns),
           NEW s \in Seq(Call), Once(s), Fits(s, ms)
    PROVE  Fits(Reported(ns, s), ns)
  <1>1. /\ ThisTurn(ns) \in Seq(Message)
        /\ \A c : Lists(CallsIn(ThisTurn(ns)), c) <=> TurnAsks(ns, c)
    BY TurnAsksIs DEF IsThread
  <1>2. \A c : Lists(Reported(ns, s), c) <=> Lists(s, c) \/ Lists(CallsIn(ThisTurn(ns)), c)
    BY <1>1, ReportedIs
  <1>3. \A c : TurnAsks(ms, c) => TurnAsks(ns, c)
    BY TurnGoesOn
  <1>4. QED
    BY <1>1, <1>2, <1>3 DEF Fits

\* A question opens a turn without calls.
LEMMA QuestionOpens ==
    ASSUME NEW ms, IsThread(ms)
    PROVE  /\ \A c : ~TurnAsks(Append(ms, Human), c)
           /\ OpenAt(Append(ms, Human)) = OpenAt(ms)
           /\ RoundsAt(Append(ms, Human)) = {}
  <1> PICK ns : ns = Append(ms, Human)
    OBVIOUS
  <1>1. Follows(Human, ms)
    BY DEF Follows, Message, Human
  <1>2. IsThread(ns) /\ OneMore(ns, ms, Human)
    BY <1>1, Appended
  <1>3. /\ ms \in Seq(Message) /\ Len(ms) \in Nat /\ Len(ns) = Len(ms) + 1
        /\ DOMAIN ms = 1..Len(ms) /\ DOMAIN ns = 1..(Len(ms) + 1)
        /\ ns[Len(ms) + 1] = Human /\ \A i \in 1..Len(ms) : ns[i] = ms[i]
    BY <1>2 DEF IsThread, OneMore
  <1>4. Human.kind = "human"
    BY DEF Human
  <1>5. \A i \in 1..Len(ns) : ~AfterQuestions(ns, i)
    <2>1. ASSUME NEW i \in 1..Len(ns), AfterQuestions(ns, i) PROVE FALSE
      <3>1. Len(ms) + 1 \in 1..Len(ns) /\ ns[Len(ms) + 1].kind = "human"
        BY <1>3, <1>4
      <3>2. i > Len(ms) + 1
        BY <2>1, <3>1 DEF AfterQuestions
      <3>3. QED
        BY <1>3, <3>2
    <2>2. QED
      BY <2>1
  <1>6. \A c : ~TurnAsks(ns, c)
    BY <1>5 DEF TurnAsks, AfterQuestions
  <1>7. RoundsAt(ns) = {}
    BY <1>2, <1>5, RoundsAre
  <1>8. OpenAt(ns) = OpenAt(ms)
    <2>1. {n \in DOMAIN ns : ns[n].kind = "tool"} = {n \in DOMAIN ms : ms[n].kind = "tool"}
      BY <1>3, <1>4
    <2>2. {n \in DOMAIN ns : ns[n].kind = "ai"} = {n \in DOMAIN ms : ms[n].kind = "ai"}
      BY <1>3, <1>4
    <2>3. \A i \in DOMAIN ms : ns[i] = ms[i]
      BY <1>3
    <2>4. CallsAt(ns) = CallsAt(ms)
      BY <2>2, <2>3 DEF CallsAt
    <2>5. {ns[i].call : i \in {n \in DOMAIN ns : ns[n].kind = "tool"}} =
          {ms[i].call : i \in {n \in DOMAIN ms : ms[n].kind = "tool"}}
      BY <2>1, <2>3
    <2>6. QED
      BY <2>4, <2>5 DEF OpenAt
  <1>9. QED
    BY <1>6, <1>7, <1>8

Closed(ms, c) == \E i \in 1..Len(ms) : ms[i].kind = "tool" /\ ms[i].call = c

LEMMA OpenAre ==
    ASSUME NEW ms, IsThread(ms)
    PROVE  \A c : c \in OpenAt(ms) <=>
              /\ \E i \in 1..Len(ms) : Lists(CallsOf(ms, i), c)
              /\ ~Closed(ms, c)
  <1>1. ms \in Seq(Message) /\ DOMAIN ms = 1..Len(ms)
    BY DEF IsThread
  <1>2. \A c : c \in {ms[i].call : i \in {n \in DOMAIN ms : ms[n].kind = "tool"}} <=> Closed(ms, c)
    BY <1>1 DEF Closed
  <1>3. \A c : c \in CallsAt(ms) <=> \E i \in 1..Len(ms) : Lists(CallsOf(ms, i), c)
    BY CallsAre
  <1>4. QED
    BY <1>2, <1>3 DEF OpenAt

LEMMA RegisterTurn ==
    ASSUME NEW ms, IsThread(ms)
    PROVE  /\ IsThread(Renumbered(ms)) /\ GoesOn(ms, Renumbered(ms))
           /\ OpenAt(Renumbered(ms)) = OpenAt(ms)
           /\ RoundsAt(Renumbered(ms)) = RoundsAt(ms)
  <1> PICK rs : rs = Renumbered(ms)
    OBVIOUS
  <1>1. /\ IsThread(rs) /\ Len(rs) = Len(ms) /\ Len(ms) \in Nat
        /\ \A i \in 1..Len(ms) : /\ rs[i].kind = ms[i].kind
                                 /\ ms[i].kind # "tool" => rs[i] = ms[i]
                                 /\ ms[i].kind = "tool" => rs[i].call = ms[i].call
    BY RenumberedIs DEF IsThread
  <1>2. \A i \in 1..Len(ms) : CallsOf(rs, i) = CallsOf(ms, i)
    BY <1>1 DEF CallsOf
  <1>3. GoesOn(ms, rs)
    BY <1>1, <1>2 DEF GoesOn
  <1>4. \A i : i \notin (Len(ms) + 1)..Len(rs)
    BY <1>1
  <1>5. RoundsAt(rs) = RoundsAt(ms)
    BY <1>1, <1>3, <1>4, RoundsGoOn
  <1>6. \A c : Closed(rs, c) <=> Closed(ms, c)
    BY <1>1 DEF Closed
  <1>7. \A c : c \in OpenAt(rs) <=> c \in OpenAt(ms)
    BY <1>1, <1>2, <1>6, OpenAre
  <1>8. OpenAt(rs) = OpenAt(ms)
    BY <1>7
  <1>9. QED
    BY <1>1, <1>3, <1>5, <1>8

\* The model's message: its calls are open, and a round more if any.
LEMMA ModelTurn ==
    ASSUME NEW ms, IsThread(ms), NEW calls \in Seq(Call), Follows(AI(calls), ms)
    PROVE  /\ IsThread(Append(ms, AI(calls))) /\ GoesOn(ms, Append(ms, AI(calls)))
           /\ OpenAt(Append(ms, AI(calls))) \subseteq
                 OpenAt(ms) \cup {calls[j] : j \in DOMAIN calls}
           /\ Cardinality(RoundsAt(Append(ms, AI(calls)))) =
                 Cardinality(RoundsAt(ms)) + (IF calls = <<>> THEN 0 ELSE 1)
  <1> PICK ns : ns = Append(ms, AI(calls))
    OBVIOUS
  <1>1. IsThread(ns) /\ OneMore(ns, ms, AI(calls))
    BY Appended
  <1>2. /\ ms \in Seq(Message) /\ Len(ms) \in Nat /\ Len(ns) = Len(ms) + 1
        /\ ns[Len(ms) + 1] = AI(calls) /\ \A i \in 1..Len(ms) : ns[i] = ms[i]
    BY <1>1 DEF IsThread, OneMore
  <1>3. AI(calls).kind = "ai" /\ AI(calls).calls = calls
    BY DEF AI
  <1>4. /\ CallsOf(ns, Len(ms) + 1) = calls
        /\ \A i \in 1..Len(ms) : CallsOf(ns, i) = CallsOf(ms, i)
    BY <1>2, <1>3 DEF CallsOf
  <1>5. \A i \in (Len(ms) + 1)..Len(ns) : i = Len(ms) + 1
    BY <1>2
  <1>6. GoesOn(ms, ns)
    BY <1>2, <1>3, <1>4, <1>5 DEF GoesOn
  <1>7. Cardinality(RoundsAt(ns)) = Cardinality(RoundsAt(ms)) + (IF calls = <<>> THEN 0 ELSE 1)
    <2>1. CASE calls = <<>>
      <3>1. \A i \in (Len(ms) + 1)..Len(ns) : CallsOf(ns, i) = <<>>
        BY <1>4, <1>5, <2>1
      <3>2. RoundsAt(ns) = RoundsAt(ms)
        BY <1>1, <1>6, <3>1, RoundsGoOn
      <3>3. Cardinality(RoundsAt(ms)) \in Nat
        BY RoundsAre
      <3>4. QED
        BY <2>1, <3>2, <3>3
    <2>2. CASE calls # <<>>
      BY <1>1, <1>2, <1>4, <1>6, <2>2, RoundsGoOn
    <2>3. QED
      BY <2>1, <2>2
  <1>8. ASSUME NEW c \in OpenAt(ns), c \notin OpenAt(ms) PROVE c \in {calls[j] : j \in DOMAIN calls}
    <2>1. PICK i \in 1..Len(ns) : Lists(CallsOf(ns, i), c)
      BY <1>1, OpenAre
    <2>2. ~Closed(ns, c)
      BY <1>1, OpenAre
    <2>3. ~Closed(ms, c)
      <3>1. \A k \in 1..Len(ms) : k \in 1..Len(ns) /\ ns[k] = ms[k]
        BY <1>2
      <3>2. QED
        BY <2>2, <3>1 DEF Closed
    <2>4. i \notin 1..Len(ms)
      BY <1>4, <1>8, <2>1, <2>3, OpenAre
    <2>5. i = Len(ms) + 1
      BY <1>2, <2>4
    <2>6. Lists(calls, c)
      BY <1>4, <2>1, <2>5
    <2>7. QED
      BY <2>6 DEF Lists
  <1>9. QED
    BY <1>1, <1>6, <1>7, <1>8

\* The tools' replies close the calls of the message they answer.
LEMMA ToolsTurn ==
    ASSUME NEW ms, IsThread(ms), NEW ns, IsThread(ns), NEW calls, NEW order, NEW found,
           Answered(ns, ms, calls, order), Shuffles(calls, order, found)
    PROVE  /\ GoesOn(ms, ns) /\ RoundsAt(ns) = RoundsAt(ms)
           /\ OpenAt(ns) \subseteq OpenAt(ms) \ {calls[j] : j \in DOMAIN calls}
  <1>1. /\ Len(ms) \in Nat /\ Len(ns) = Len(ms) + Len(calls) /\ calls \in Seq(Call)
        /\ \A i \in 1..Len(ms) : ns[i] = ms[i]
        /\ \A i \in 1..Len(calls) :
              ns[Len(ms) + i].kind = "tool" /\ ns[Len(ms) + i].call = calls[order[i]]
    BY DEF Answered, IsThread
  <1>2. Len(calls) \in Nat /\ DOMAIN calls = 1..Len(calls)
    BY <1>1
  <1>3. /\ order \in [1..Len(calls) -> 1..Len(calls)]
        /\ \A i, j \in 1..Len(calls) : order[i] = order[j] => i = j
    BY <1>2 DEF Shuffles
  <1>4. ASSUME NEW j \in 1..Len(calls) PROVE \E i \in 1..Len(calls) : order[i] = j
    <2>1. order \in Injection(1..Len(calls), 1..Len(calls))
      BY <1>3 DEF Injection, IsInjective
    <2>2. IsFiniteSet(1..Len(calls))
      BY <1>2, FS_Interval
    <2>3. order \in Surjection(1..Len(calls), 1..Len(calls))
      BY <2>1, <2>2, FS_Injection
    <2>4. QED
      BY <2>3 DEF Surjection
  <1>5. \A i \in (Len(ms) + 1)..Len(ns) : ns[i].kind = "tool"
    <2>1. ASSUME NEW i \in (Len(ms) + 1)..Len(ns) PROVE ns[i].kind = "tool"
      <3>1. PICK k \in 1..Len(calls) : i = Len(ms) + k
        <4>1. i - Len(ms) \in 1..Len(calls) /\ i = Len(ms) + (i - Len(ms))
          BY <1>1, <1>2
        <4>2. QED
          BY <4>1
      <3>2. QED
        BY <1>1, <3>1
    <2>2. QED
      BY <2>1
  <1>6. \A i \in 1..Len(ms) : CallsOf(ns, i) = CallsOf(ms, i) /\ i \in 1..Len(ns)
    BY <1>1, <1>2 DEF CallsOf
  <1>7. \A i \in (Len(ms) + 1)..Len(ns) : CallsOf(ns, i) = <<>>
    BY <1>5 DEF CallsOf
  <1>8. GoesOn(ms, ns)
    BY <1>1, <1>2, <1>5, <1>6 DEF GoesOn
  <1>9. RoundsAt(ns) = RoundsAt(ms)
    BY <1>7, <1>8, RoundsGoOn
  <1>10. ASSUME NEW c \in OpenAt(ns) PROVE c \in OpenAt(ms) /\ c \notin {calls[j] : j \in DOMAIN calls}
    <2>1. PICK i \in 1..Len(ns) : Lists(CallsOf(ns, i), c)
      BY OpenAre
    <2>2. ~Closed(ns, c)
      BY OpenAre
    <2>3. i \in 1..Len(ms)
      <3>1. ~Lists(<<>>, c)
        BY DEF Lists
      <3>2. i \notin (Len(ms) + 1)..Len(ns)
        BY <1>7, <2>1, <3>1
      <3>3. QED
        BY <1>1, <3>2
    <2>4. ~Closed(ms, c)
      BY <1>1, <1>6, <2>2 DEF Closed
    <2>5. c \in OpenAt(ms)
      BY <1>6, <2>1, <2>3, <2>4, OpenAre
    <2>6. ASSUME NEW j \in DOMAIN calls, c = calls[j] PROVE FALSE
      <3>1. PICK k \in 1..Len(calls) : order[k] = j
        BY <1>2, <1>4
      <3>2. ns[Len(ms) + k].kind = "tool" /\ ns[Len(ms) + k].call = c
        BY <1>1, <2>6, <3>1
      <3>3. Len(ms) + k \in 1..Len(ns)
        BY <1>1, <1>2
      <3>4. QED
        BY <2>2, <3>2, <3>3 DEF Closed
    <2>7. QED
      BY <2>5, <2>6
  <1>11. QED
    BY <1>8, <1>9, <1>10


-------------------------------------------------------------------------------
(* The note, the super-steps and the open calls, step by step.             *)

LEMMA LoopInit == Init => NoteOK /\ StepsOK /\ OpenOK
  <1> SUFFICES ASSUME Init PROVE NoteOK /\ StepsOK /\ OpenOK
    OBVIOUS
  <1>1. phase = "page" /\ torn = (OpenCalls # {})
    BY DEF Init
  <1>2. QED
    BY <1>1 DEF NoteOK, StepsOK, OpenOK

LEMMA LoopKept ==
    ASSUME NoteOK, StepsOK, OpenOK, UNCHANGED <<messages, phase, steps, reported, torn>>
    PROVE  NoteOK' /\ StepsOK' /\ OpenOK'
  <1>1. NoteOK'
    BY DEF NoteOK
  <1>2. StepsOK'
    BY StateSets, NextStateSets DEF StepsOK
  <1>3. LastCalls' = LastCalls /\ OpenCalls' = OpenCalls
    BY StateSets, NextStateSets DEF LastCalls
  <1>4. OpenOK'
    BY <1>3 DEF OpenOK
  <1>5. QED
    BY <1>1, <1>2, <1>4

\* A turn that ends before its tools ran is torn.
LEMMA LoopEnds ==
    ASSUME OpenOK, messages' = messages, phase' = "page",
           ~torn' => ~torn /\ (phase = "tools" => ~WholeRounds)
    PROVE  NoteOK' /\ StepsOK' /\ OpenOK'
  <1>1. NoteOK' /\ StepsOK'
    BY DEF NoteOK, StepsOK
  <1>2. OpenCalls' = OpenCalls
    BY StateSets, NextStateSets
  <1>3. ASSUME ~torn', WholeRounds PROVE OpenCalls' \subseteq LastCalls'
    <2>1. OpenCalls \subseteq LastCalls /\ LastCalls = {}
      BY <1>3 DEF OpenOK, LastCalls
    <2>2. QED
      BY <1>2, <2>1
  <1>4. QED
    BY <1>1, <1>3 DEF OpenOK

LEMMA LoopAsk ==
    ASSUME NumbersInv, OpenOK, Ask
    PROVE  NoteOK' /\ StepsOK' /\ OpenOK'
  <1>1. /\ IsThread(messages) /\ messages' = Append(messages, Human) /\ phase = "page"
        /\ phase' = "register" /\ steps' = 0 /\ reported' = <<>> /\ torn' = torn
    BY DEF NumbersInv, TypeOK, Ask
  <1>2. IsThread(messages')
    BY NumbersAsk DEF NumbersInv, TypeOK
  <1>3. /\ \A c : ~TurnAsks(messages', c)
        /\ OpenAt(messages') = OpenAt(messages) /\ RoundsAt(messages') = {}
    BY <1>1, QuestionOpens
  <1>4. NoteOK'
    <2>1. Fits(<<>>, messages')
      BY <1>3 DEF Fits, Lists
    <2>2. <<>> \in Seq(Call)
      OBVIOUS
    <2>3. {<<>>[i] : i \in DOMAIN <<>>} = TurnCallsAt(messages')
      BY <1>2, <2>1, <2>2, FitsIs
    <2>4. QED
      BY <1>1, <2>3 DEF NoteOK
  <1>5. StepsOK'
    BY <1>1, <1>3, NextStateSets, FS_EmptySet DEF StepsOK
  <1>6. OpenOK'
    <2>1. OpenCalls' = OpenCalls
      BY <1>3, StateSets, NextStateSets
    <2>2. ~torn /\ WholeRounds => OpenCalls = {}
      BY <1>1 DEF OpenOK, LastCalls
    <2>3. QED
      BY <1>1, <2>1, <2>2 DEF OpenOK
  <1>7. QED
    BY <1>4, <1>5, <1>6

LEMMA LoopStartOver ==
    ASSUME StartOver
    PROVE  NoteOK' /\ StepsOK' /\ OpenOK'
  <1>1. messages' = <<>> /\ phase' = "page"
    BY DEF StartOver
  <1>2. OpenAt(<<>>) = {}
    BY DEF OpenAt, CallsAt
  <1>3. OpenCalls' = {}
    BY <1>1, <1>2, NextStateSets
  <1>4. QED
    BY <1>1, <1>3 DEF NoteOK, StepsOK, OpenOK

\* The note follows the thread through every super-step.
LEMMA LoopNote ==
    ASSUME NumbersInv, NoteOK, phase # "page", IsThread(messages'), GoesOn(messages, messages'),
           reported' = Reported(messages', reported)
    PROVE  NoteOK'
  <1>1. /\ IsThread(messages) /\ reported \in Seq(Call) /\ Once(reported)
        /\ {reported[i] : i \in DOMAIN reported} = TurnCallsAt(messages)
    BY DEF NumbersInv, TypeOK, NoteOK
  <1>2. Fits(reported, messages)
    BY <1>1, FitsIs
  <1>3. Fits(reported', messages')
    BY <1>1, <1>2, NoteGoesOn
  <1>4. reported' \in Seq(Call)
    BY <1>1, NoteTyped
  <1>5. {reported'[i] : i \in DOMAIN reported'} = TurnCallsAt(messages')
    BY <1>3, <1>4, FitsIs
  <1>6. QED
    BY <1>5 DEF NoteOK

LEMMA LoopRegister ==
    ASSUME NumbersInv, NoteOK, StepsOK, OpenOK, Register
    PROVE  NoteOK' /\ StepsOK' /\ OpenOK'
  <1>1. /\ IsThread(messages) /\ messages' = Renumbered(messages) /\ phase = "register"
        /\ phase' = "model" /\ steps' = steps + 1 /\ torn' = torn
        /\ reported' = Reported(messages', reported)
    BY DEF NumbersInv, TypeOK, Register, Runs
  <1>2. /\ IsThread(messages') /\ GoesOn(messages, messages')
        /\ OpenAt(messages') = OpenAt(messages) /\ RoundsAt(messages') = RoundsAt(messages)
    BY <1>1, RegisterTurn
  <1>3. NoteOK'
    BY <1>1, <1>2, LoopNote
  <1>4. StepsOK'
    BY <1>1, <1>2, StateSets, NextStateSets DEF StepsOK
  <1>5. OpenOK'
    <2>1. OpenCalls' = OpenCalls
      BY <1>2, StateSets, NextStateSets
    <2>2. ~torn /\ WholeRounds => OpenCalls = {}
      BY <1>1 DEF OpenOK, LastCalls
    <2>3. QED
      BY <1>1, <2>1, <2>2 DEF OpenOK
  <1>6. QED
    BY <1>3, <1>4, <1>5

LEMMA LoopModel ==
    ASSUME NumbersInv, NoteOK, StepsOK, OpenOK, Runs("model"), NEW calls \in Seq(Call),
           Follows(AI(calls), messages), messages' = Append(messages, AI(calls)),
           phase' = IF calls = <<>> THEN "answered" ELSE "tools",
           reported' = Reported(messages', reported), torn' = torn
    PROVE  NoteOK' /\ StepsOK' /\ OpenOK'
  <1>1. IsThread(messages) /\ phase = "model" /\ steps' = steps + 1
    BY DEF NumbersInv, TypeOK, Runs
  <1>2. /\ IsThread(messages') /\ GoesOn(messages, messages')
        /\ OpenAt(messages') \subseteq OpenAt(messages) \cup {calls[j] : j \in DOMAIN calls}
        /\ Cardinality(RoundsAt(messages')) =
              Cardinality(RoundsAt(messages)) + (IF calls = <<>> THEN 0 ELSE 1)
    BY <1>1, ModelTurn
  <1>3. NoteOK'
    BY <1>1, <1>2, LoopNote
  <1>4. StepsOK'
    <2>1. steps = 3 * Rounds + 1 /\ Rounds \in Nat
      BY <1>1, StateSets, RoundsAre DEF StepsOK
    <2>2. Rounds' = Rounds + (IF calls = <<>> THEN 0 ELSE 1)
      BY <1>2, StateSets, NextStateSets
    <2>3. CASE calls = <<>>
      <3>1. phase' = "answered" /\ Rounds' = Rounds
        BY <2>1, <2>2, <2>3
      <3>2. steps' = 3 * Rounds' + 2
        BY <1>1, <2>1, <3>1
      <3>3. QED
        BY <3>1, <3>2 DEF StepsOK
    <2>4. CASE calls # <<>>
      <3>1. phase' = "tools" /\ Rounds' = Rounds + 1
        BY <2>1, <2>2, <2>4
      <3>2. steps' = 3 * Rounds' - 1
        BY <1>1, <2>1, <3>1
      <3>3. QED
        BY <3>1, <3>2 DEF StepsOK
    <2>5. QED
      BY <2>3, <2>4
  <1>5. OpenOK'
    <2>1. SUFFICES ASSUME ~torn', WholeRounds PROVE OpenCalls' \subseteq LastCalls'
      BY DEF OpenOK
    <2>2. OpenAt(messages) = {}
      BY <1>1, <2>1, StateSets DEF OpenOK, LastCalls
    <2>3. OpenCalls' \subseteq {calls[j] : j \in DOMAIN calls}
      BY <1>2, <2>2, NextStateSets
    <2>4. CASE calls = <<>>
      <3>1. {calls[j] : j \in DOMAIN calls} = {}
        BY <2>4
      <3>2. QED
        BY <2>3, <3>1
    <2>5. CASE calls # <<>>
      <3>1. messages'[Len(messages')] = AI(calls)
        BY <1>1 DEF IsThread
      <3>2. AI(calls).calls = calls
        BY DEF AI
      <3>3. LastCalls' = {calls[j] : j \in DOMAIN calls}
        BY <2>5, <3>1, <3>2 DEF LastCalls
      <3>4. QED
        BY <2>3, <3>3
    <2>6. QED
      BY <2>4, <2>5
  <1>6. QED
    BY <1>3, <1>4, <1>5

LEMMA LoopTools ==
    ASSUME NumbersInv, NoteOK, StepsOK, OpenOK, Tools
    PROVE  NoteOK' /\ StepsOK' /\ OpenOK'
  <1>1. /\ phase = "tools" /\ phase' = "register" /\ steps' = steps + 1 /\ torn' = torn
        /\ reported' = Reported(messages', reported)
    BY DEF Tools, Runs
  <1>2. PICK calls : calls = messages[Len(messages)].calls
    OBVIOUS
  <1>3. /\ IsThread(messages) /\ IsThread(messages')
        /\ \E order, found : Answered(messages', messages, calls, order)
                          /\ Shuffles(calls, order, found)
    BY <1>2, ToolsAnswer
  <1>4. /\ GoesOn(messages, messages') /\ RoundsAt(messages') = RoundsAt(messages)
        /\ OpenAt(messages') \subseteq OpenAt(messages) \ {calls[j] : j \in DOMAIN calls}
    BY <1>3, ToolsTurn
  <1>5. NoteOK'
    BY <1>1, <1>3, <1>4, LoopNote
  <1>6. StepsOK'
    <2>1. steps = 3 * Rounds - 1 /\ Rounds \in Nat /\ Rounds' = Rounds
      BY <1>1, <1>3, <1>4, StateSets, NextStateSets, RoundsAre DEF StepsOK
    <2>2. steps' = 3 * Rounds'
      BY <1>1, <2>1
    <2>3. QED
      BY <1>1, <2>2 DEF StepsOK
  <1>7. OpenOK'
    <2>1. SUFFICES ASSUME ~torn', WholeRounds PROVE OpenCalls' \subseteq LastCalls'
      BY DEF OpenOK
    <2>2. OpenAt(messages) \subseteq {calls[j] : j \in DOMAIN calls}
      BY <1>1, <1>2, <2>1, StateSets DEF OpenOK, LastCalls
    <2>3. OpenCalls' = {}
      BY <1>4, <2>2, NextStateSets
    <2>4. QED
      BY <2>3
  <1>8. QED
    BY <1>5, <1>6, <1>7


LEMMA LoopStep ==
    ASSUME ConversationInv, [Next]_vars
    PROVE  NoteOK' /\ StepsOK' /\ OpenOK'
  <1>1. NumbersInv /\ NoteOK /\ StepsOK /\ OpenOK
    BY DEF ConversationInv
  <1>2. CASE AskBlocked
    BY <1>1, <1>2, LoopKept DEF AskBlocked
  <1>3. CASE Ask
    BY <1>1, <1>3, LoopAsk
  <1>4. CASE StartOver
    BY <1>4, LoopStartOver
  <1>5. CASE Interrupt
    <2>1. ~torn' => ~torn /\ phase # "tools"
      BY <1>5 DEF Interrupt
    <2>2. QED
      BY <1>1, <1>5, <2>1, LoopEnds DEF Interrupt
  <1>6. CASE Register
    BY <1>1, <1>6, LoopRegister
  <1>7. CASE CallTools
    <2>1. PICK calls \in Seq(Call) :
              /\ \A j \in DOMAIN calls : calls[j].id = <<Len(messages) + 1, j>>
              /\ calls # <<>> /\ messages' = Append(messages, AI(calls))
      BY <1>1, <1>7, AskedCalls
    <2>2. Follows(AI(calls), messages)
      BY <2>1 DEF Follows, Message, AI
    <2>3. /\ Runs("model") /\ phase' = IF calls = <<>> THEN "answered" ELSE "tools"
          /\ reported' = Reported(messages', reported) /\ torn' = torn
      BY <1>7, <2>1 DEF CallTools
    <2>4. QED
      BY <1>1, <2>1, <2>2, <2>3, LoopModel
  <1>8. CASE Answer
    <2>1. PICK calls : calls = <<>>
      OBVIOUS
    <2>2. calls \in Seq(Call) /\ Follows(AI(calls), messages)
      BY <2>1 DEF Follows, Message, AI
    <2>3. /\ Runs("model") /\ phase' = IF calls = <<>> THEN "answered" ELSE "tools"
          /\ messages' = Append(messages, AI(calls))
          /\ reported' = Reported(messages', reported) /\ torn' = torn
      BY <1>8, <2>1 DEF Answer
    <2>4. QED
      BY <1>1, <2>2, <2>3, LoopModel
  <1>9. CASE Tools
    BY <1>1, <1>9, LoopTools
  <1>10. CASE GiveUp
    <2>1. phase = "tools" => ~WholeRounds
      <3>1. SUFFICES ASSUME phase = "tools" PROVE MaxAgentSteps % 3 = 2
        BY DEF WholeRounds
      <3>2. steps \in Nat /\ steps <= MaxAgentSteps /\ steps >= MaxAgentSteps
        BY <1>1, <1>10 DEF NumbersInv, TypeOK, GiveUp, OutOfSteps
      <3>3. steps = 3 * Rounds - 1 /\ Rounds \in Nat
        BY <1>1, <3>1, StateSets, RoundsAre DEF StepsOK, NumbersInv, TypeOK
      <3>4. MaxAgentSteps = steps /\ MaxAgentSteps \in Nat
        BY <3>2, LimitsArePositive
      <3>5. \A m, r \in Nat : m = 3 * r - 1 => m % 3 = 2
        OBVIOUS
      <3>6. QED
        BY <3>3, <3>4, <3>5
    <2>2. messages' = messages /\ phase' = "page" /\ torn' = torn
      BY <1>10 DEF GiveUp
    <2>3. QED
      BY <1>1, <2>1, <2>2, LoopEnds
  <1>11. CASE ModelRaises
    <2>1. messages' = messages /\ phase' = "page" /\ torn' = torn /\ phase = "model"
      BY <1>11 DEF ModelRaises
    <2>2. QED
      BY <1>1, <2>1, LoopEnds
  <1>12. CASE SearchRaises
    <2>1. messages' = messages /\ phase' = "page" /\ torn'
      BY <1>12 DEF SearchRaises
    <2>2. QED
      BY <1>1, <2>1, LoopEnds
  <1>13. CASE Refuse
    <2>1. messages' = messages /\ phase' = "page" /\ torn' = torn /\ phase = "answered"
      BY <1>13 DEF Refuse
    <2>2. QED
      BY <1>1, <2>1, LoopEnds
  <1>14. CASE Show
    <2>1. messages' = messages /\ phase' = "page" /\ torn' = torn /\ phase = "answered"
      BY <1>14 DEF Show
    <2>2. QED
      BY <1>1, <2>1, LoopEnds
  <1>15. CASE UNCHANGED vars
    BY <1>1, <1>15, LoopKept DEF vars
  <1>16. QED
    BY <1>2, <1>3, <1>4, <1>5, <1>6, <1>7, <1>8, <1>9, <1>10, <1>11, <1>12, <1>13, <1>14, <1>15
       DEF Next, Loop, Page

LEMMA ConversationAlways == Spec => []ConversationInv
  <1>1. Init => ConversationInv
    BY NumbersInit, LoopInit DEF ConversationInv
  <1>2. ConversationInv /\ [Next]_vars => ConversationInv'
    BY NumbersStep, LoopStep DEF ConversationInv
  <1>3. QED
    BY <1>1, <1>2, PTL DEF Spec

(* Whatever earlier turns left in the thread, when a turn's tools are about *)
(* to run the progress note has listed this turn's calls, once each.        *)
THEOREM NoteListsTheTurn == Spec => []ReportedBeforeRun
  <1>1. ConversationInv => ReportedBeforeRun
    <2> SUFFICES ASSUME ConversationInv, phase = "tools"
                 PROVE  /\ {reported[i] : i \in DOMAIN reported} = TurnCallsAt(messages)
                        /\ Len(reported) = Cardinality(TurnCallsAt(messages))
      BY StateSets DEF ReportedBeforeRun
    <2>1. /\ {reported[i] : i \in DOMAIN reported} = TurnCallsAt(messages)
          /\ reported \in Seq(Call) /\ Once(reported)
      BY DEF ConversationInv, NoteOK, NumbersInv, TypeOK
    <2>2. Len(reported) \in Nat /\ DOMAIN reported = 1..Len(reported)
      BY <2>1
    <2>3. PICK n \in Nat : n = Len(reported)
      BY <2>2
    <2>4. PICK T : T = {reported[i] : i \in 1..n}
      OBVIOUS
    <2>5. reported \in Bijection(1..n, T)
      <3>1. reported \in [1..n -> T]
        <4>1. reported = [i \in 1..n |-> reported[i]]
          BY <2>1, <2>2, <2>3
        <4>2. \A i \in 1..n : reported[i] \in T
          BY <2>4
        <4>3. QED
          BY <4>1, <4>2
      <3>2. \A i, k \in 1..n : reported[i] = reported[k] => i = k
        BY <2>1, <2>3 DEF Once
      <3>3. \A c \in T : \E i \in 1..n : reported[i] = c
        BY <2>4
      <3>4. reported \in Injection(1..n, T)
        BY <3>1, <3>2 DEF Injection, IsInjective
      <3>5. reported \in Surjection(1..n, T)
        BY <3>1, <3>3 DEF Surjection
      <3>6. QED
        BY <3>4, <3>5 DEF Bijection
    <2>6. Cardinality(T) = n
      <3>1. IsFiniteSet(1..n) /\ Cardinality(1..n) = n
        BY FS_Interval
      <3>2. ExistsBijection(1..n, T)
        BY <2>5 DEF ExistsBijection
      <3>3. QED
        BY <3>1, <3>2, FS_Bijection
    <2>7. QED
      BY <2>1, <2>2, <2>3, <2>4, <2>6
  <1>2. QED
    BY <1>1, ConversationAlways, PTL

(* Under a step limit that is not two more than a multiple of three, as the *)
(* configured 24: a call left without a reply is a torn turn's, and a turn  *)
(* given up has spent all its rounds but the last.                          *)
THEOREM TheLimitCutsNoRound == WholeRounds => (Spec => LimitFallsBetweenRounds)
  <1> SUFFICES ASSUME WholeRounds PROVE Spec => LimitFallsBetweenRounds
    OBVIOUS
  <1>1. ConversationInv => OpenCallsAreTorn
    BY DEF ConversationInv, OpenOK, LastCalls, OpenCallsAreTorn
  <1>2. ASSUME ConversationInv, GiveUp PROVE Rounds > (MaxAgentSteps - 3) \div 3
    <2>1. /\ NumbersInv /\ StepsOK /\ phase # "page"
          /\ phase \in {"page", "register", "model", "tools", "answered"}
      BY <1>2 DEF ConversationInv, NumbersInv, TypeOK, GiveUp
    <2>2. steps = MaxAgentSteps /\ MaxAgentSteps \in Nat
      BY <1>2, LimitsArePositive DEF ConversationInv, NumbersInv, TypeOK, GiveUp, OutOfSteps
    <2>3. Rounds \in Nat
      BY <2>1, StateSets, RoundsAre DEF NumbersInv, TypeOK
    <2>4. \/ steps = 3 * Rounds \/ steps = 3 * Rounds + 1
          \/ steps = 3 * Rounds - 1 \/ steps = 3 * Rounds + 2
      BY <2>1 DEF StepsOK
    <2>5. \A m, r \in Nat :
             (m = 3 * r \/ m = 3 * r + 1 \/ m = 3 * r - 1 \/ m = 3 * r + 2) =>
                r > (m - 3) \div 3
      OBVIOUS
    <2>6. QED
      BY <2>2, <2>3, <2>4, <2>5
  <1>3. ConversationInv /\ ConversationInv' /\ [Next]_vars
           => [OpenCallsAreTorn' /\ SevenRoundsFit]_vars
    <2>1. ConversationInv' => OpenCallsAreTorn'
      BY DEF ConversationInv, OpenOK, LastCalls, OpenCallsAreTorn
    <2>2. QED
      BY <1>2, <2>1 DEF SevenRoundsFit
  <1>4. QED
    BY <1>3, ConversationAlways, PTL DEF Spec, LimitFallsBetweenRounds
===============================================================================
