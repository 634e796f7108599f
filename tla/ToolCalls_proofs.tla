---------------------------- MODULE ToolCalls_proofs ----------------------------
(***************************************************************************)
(* Proofs about what the tool calls of one super-step share: the process   *)
(* singletons (`BuildOnce`), for any callers, sites, arguments, memo sizes *)
(* and clears, and the cached figures (`FinanceTools`), for any Universe   *)
(* and TTL; and then about the calls themselves (`ToolCalls`).             *)
(***************************************************************************)
EXTENDS ToolCalls, SequenceTheorems, WellFoundedInduction, TLAPS

(* Whoever is inside a constructor asked for it, and its argument is not   *)
(* in the memo.                                                            *)
BuildersAsked ==
    \A s \in Site : \A c \in builders[s] :
        /\ request[c] # None
        /\ request[c].site = s
        /\ ~Holds(s, request[c].arg)

(* An object that is not in the memo was never made, or paid for by        *)
(* something the memo let go.                                              *)
MadeInv ==
    \A s \in Site, a \in Arg :
        made[s][a] <= dropped[s] + (IF Holds(s, a) THEN 1 ELSE 0)

(* The inductive invariant.                                                *)
OnceInv == OnceTypeOK /\ OneConstruction /\ BuildersAsked /\ MadeInv

USE NoneIsNoRequest

(* Moving an entry to the end of a memo keeps it a memo, with the same     *)
(* arguments in it.                                                        *)
LEMMA MovedToEnd ==
    ASSUME NEW m \in Seq(Held), NEW i \in DOMAIN m
    PROVE  /\ Append(RemoveAt(m, i), m[i]) \in Seq(Held)
           /\ \A a \in Arg :
                 (\E j \in DOMAIN m : m[j].arg = a) <=>
                 (\E j \in DOMAIN Append(RemoveAt(m, i), m[i]) :
                      Append(RemoveAt(m, i), m[i])[j].arg = a)
           /\ \A l \in DOMAIN Append(RemoveAt(m, i), m[i]) :
                 \E j \in DOMAIN m : m[j] = Append(RemoveAt(m, i), m[i])[l]
  <1> DEFINE moved == Append(RemoveAt(m, i), m[i])
  <1>1. i \in 1..Len(m) /\ Len(m) \in Nat /\ m[i] \in Held
    OBVIOUS
  <1>2. /\ SubSeq(m, 1, i - 1) \in Seq(Held)
        /\ SubSeq(m, i + 1, Len(m)) \in Seq(Held)
        /\ Len(SubSeq(m, 1, i - 1)) = i - 1
        /\ Len(SubSeq(m, i + 1, Len(m))) = Len(m) - i
        /\ \A j \in 1..(i - 1) : SubSeq(m, 1, i - 1)[j] = m[j]
        /\ \A j \in 1..(Len(m) - i) : SubSeq(m, i + 1, Len(m))[j] = m[j + i]
    BY <1>1
  <1>3. /\ RemoveAt(m, i) \in Seq(Held)
        /\ Len(RemoveAt(m, i)) = Len(m) - 1
        /\ \A j \in 1..(i - 1) : RemoveAt(m, i)[j] = m[j]
        /\ \A j \in i..(Len(m) - 1) : RemoveAt(m, i)[j] = m[j + 1]
    <2> DEFINE p == SubSeq(m, 1, i - 1)
               q == SubSeq(m, i + 1, Len(m))
    <2>1. RemoveAt(m, i) = p \o q
      BY DEF RemoveAt
    <2>2. p \in Seq(Held) /\ q \in Seq(Held) /\ Len(p) = i - 1 /\ Len(q) = Len(m) - i
      BY <1>2
    <2> HIDE DEF p, q
    <2>3. /\ p \o q \in Seq(Held)
          /\ Len(p \o q) = Len(p) + Len(q)
          /\ \A j \in 1..Len(p) : (p \o q)[j] = p[j]
          /\ \A j \in (Len(p) + 1)..(Len(p) + Len(q)) : (p \o q)[j] = q[j - Len(p)]
      <3>1. /\ p \o q \in Seq(Held)
            /\ Len(p \o q) = Len(p) + Len(q)
            /\ \A j \in 1 .. Len(p) + Len(q) : (p \o q)[j] =
                    IF j <= Len(p) THEN p[j] ELSE q[j - Len(p)]
        BY <2>2, ConcatProperties
      <3>2. Len(p) \in Nat /\ Len(q) \in Nat
        BY <2>2
      <3>3. QED
        BY <3>1, <3>2
    <2>4. /\ RemoveAt(m, i) \in Seq(Held)
          /\ Len(RemoveAt(m, i)) = Len(m) - 1
      BY <1>1, <2>1, <2>2, <2>3
    <2>5. \A j \in 1..(i - 1) : RemoveAt(m, i)[j] = m[j]
      BY <1>1, <1>2, <2>1, <2>2, <2>3 DEF p
    <2>6. ASSUME NEW j \in i..(Len(m) - 1) PROVE RemoveAt(m, i)[j] = m[j + 1]
      <3>1. j \in (Len(p) + 1)..(Len(p) + Len(q)) /\ j - Len(p) \in 1..(Len(m) - i)
        BY <1>1, <2>2
      <3>2. RemoveAt(m, i)[j] = q[j - Len(p)]
        BY <2>1, <2>3, <3>1
      <3>3. q[j - Len(p)] = m[(j - Len(p)) + i]
        BY <1>2, <3>1 DEF q
      <3>4. (j - Len(p)) + i = j + 1
        BY <1>1, <2>2
      <3>5. QED
        BY <3>2, <3>3, <3>4
    <2>7. QED
      BY <2>4, <2>5, <2>6
  <1>4. /\ moved \in Seq(Held)
        /\ Len(moved) = Len(m)
        /\ \A j \in 1..(i - 1) : moved[j] = m[j]
        /\ \A j \in i..(Len(m) - 1) : moved[j] = m[j + 1]
        /\ moved[Len(m)] = m[i]
    BY <1>1, <1>3
  <1> HIDE DEF moved
  <1>5. DOMAIN moved = 1..Len(m) /\ DOMAIN m = 1..Len(m)
    BY <1>1, <1>4
  <1>6. ASSUME NEW a \in Arg, NEW j \in DOMAIN m, m[j].arg = a
        PROVE  \E l \in DOMAIN moved : moved[l].arg = a
    <2>1. CASE j < i
      <3>1. j \in DOMAIN moved /\ moved[j] = m[j]
        BY <1>1, <1>4, <1>5, <2>1
      <3>2. QED
        BY <1>6, <3>1
    <2>2. CASE j = i
      <3>1. Len(m) \in DOMAIN moved /\ moved[Len(m)] = m[j]
        BY <1>1, <1>4, <1>5, <2>2
      <3>2. QED
        BY <1>6, <3>1
    <2>3. CASE j > i
      <3>1. j - 1 \in DOMAIN moved /\ j - 1 \in i..(Len(m) - 1) /\ (j - 1) + 1 = j
        BY <1>1, <1>5, <2>3
      <3>2. moved[j - 1] = m[j]
        BY <1>4, <3>1
      <3>3. QED
        BY <1>6, <3>1, <3>2
    <2>4. QED
      BY <1>1, <1>5, <2>1, <2>2, <2>3
  <1>7. ASSUME NEW j \in DOMAIN moved PROVE \E l \in DOMAIN m : m[l] = moved[j]
    <2>1. CASE j < i
      <3>1. j \in DOMAIN m /\ moved[j] = m[j]
        BY <1>1, <1>4, <1>5, <2>1
      <3>2. QED
        BY <3>1
    <2>2. CASE j \in i..(Len(m) - 1)
      <3>1. j + 1 \in DOMAIN m
        BY <1>1, <1>5, <2>2
      <3>2. moved[j] = m[j + 1]
        BY <1>4, <2>2
      <3>3. QED
        BY <3>1, <3>2
    <2>3. CASE j = Len(m)
      <3>1. i \in DOMAIN m /\ moved[j] = m[i]
        BY <1>4, <2>3
      <3>2. QED
        BY <3>1
    <2>4. QED
      BY <1>1, <1>5, <2>1, <2>2, <2>3
  <1>8. QED
    BY <1>4, <1>6, <1>7 DEF moved

(* A new entry at the end: the arguments before and its own, and without   *)
(* the oldest entry nothing more.                                          *)
LEMMA AddedAtEnd ==
    ASSUME NEW m \in Seq(Held), NEW e \in Held
    PROVE  /\ Append(m, e) \in Seq(Held)
           /\ \A a \in Arg :
                 (\E j \in DOMAIN m : m[j].arg = a) =>
                 (\E j \in DOMAIN Append(m, e) : Append(m, e)[j].arg = a)
           /\ \E j \in DOMAIN Append(m, e) : Append(m, e)[j].arg = e.arg
  <1>1. /\ Append(m, e) \in Seq(Held)
        /\ Len(Append(m, e)) = Len(m) + 1
        /\ \A j \in 1..Len(m) : Append(m, e)[j] = m[j]
        /\ Append(m, e)[Len(m) + 1] = e
    OBVIOUS
  <1>2. Len(m) + 1 \in DOMAIN Append(m, e)
    BY <1>1
  <1>3. \A j \in DOMAIN m : j \in DOMAIN Append(m, e) /\ Append(m, e)[j] = m[j]
    BY <1>1
  <1>4. QED
    BY <1>1, <1>2, <1>3

-------------------------------------------------------------------------------

LEMMA OnceStarts == OnceInit => OnceInv
  BY DEF OnceInit, OnceInv, OnceTypeOK, OneConstruction, BuildersAsked, MadeInv, Holds

LEMMA RequestKeepsOnce ==
    ASSUME OnceInv, NEW c \in Caller, NEW s \in Site, NEW a \in Arg, Request(c, s, a)
    PROVE  OnceInv'
  <1>1. OnceTypeOK'
    BY DEF OnceInv, OnceTypeOK, Request
  <1>2. OneConstruction'
    BY DEF OnceInv, OneConstruction, Request
  <1>3. BuildersAsked'
    BY DEF OnceInv, OnceTypeOK, BuildersAsked, Request, Holds
  <1>4. MadeInv'
    BY DEF OnceInv, MadeInv, Request, Holds
  <1>5. QED
    BY <1>1, <1>2, <1>3, <1>4 DEF OnceInv

(* What every step on behalf of a waiting caller may rely on.              *)
LEMMA Asking ==
    ASSUME OnceInv, NEW c \in Caller, request[c] # None
    PROVE  request[c].site \in Site /\ request[c].arg \in Arg
  BY DEF OnceInv, OnceTypeOK

LEMMA HitKeepsOnce ==
    ASSUME OnceInv, NEW c \in Caller, Hit(c)
    PROVE  OnceInv'
  <1>1. PICK s \in Site : s = request[c].site /\ request[c].arg \in Arg
    BY Asking DEF Hit
  <1>2. PICK i \in DOMAIN memo[s] :
            /\ memo[s][i].arg = request[c].arg
            /\ memo' = [memo EXCEPT ![s] = Append(RemoveAt(memo[s], i), memo[s][i])]
            /\ Return(c, memo[s][i].obj)
    BY <1>1 DEF Hit, OnceInv, OnceTypeOK
  <1>3. memo[s] \in Seq(Held) /\ memo[s][i].obj \in Nat
    <2>1. memo[s] \in Seq(Held)
      BY <1>1 DEF OnceInv, OnceTypeOK
    <2>2. memo[s][i] \in Held
      BY <1>2, <2>1
    <2>3. QED
      BY <2>1, <2>2 DEF Held
  <1>4. memo'[s] \in Seq(Held) /\ \A a \in Arg : Holds(s, a) <=> Holds(s, a)'
    <2>1. memo'[s] = Append(RemoveAt(memo[s], i), memo[s][i])
      BY <1>2 DEF OnceInv, OnceTypeOK
    <2>2. /\ Append(RemoveAt(memo[s], i), memo[s][i]) \in Seq(Held)
          /\ \A a \in Arg :
                (\E j \in DOMAIN memo[s] : memo[s][j].arg = a) <=>
                (\E j \in DOMAIN Append(RemoveAt(memo[s], i), memo[s][i]) :
                     Append(RemoveAt(memo[s], i), memo[s][i])[j].arg = a)
      BY <1>2, <1>3, MovedToEnd
    <2>3. QED
      BY <2>1, <2>2 DEF Holds
  <1>5. \A r \in Site, a \in Arg : Holds(r, a) <=> Holds(r, a)'
    <2>1. \A r \in Site : r # s => memo'[r] = memo[r]
      BY <1>2 DEF OnceInv, OnceTypeOK
    <2>2. ASSUME NEW r \in Site, r # s, NEW a \in Arg
          PROVE  Holds(r, a) <=> Holds(r, a)'
      BY <2>1, <2>2 DEF Holds
    <2>3. QED
      BY <1>4, <2>2
  <1>6. OnceTypeOK'
    BY <1>1, <1>2, <1>3, <1>4 DEF OnceInv, OnceTypeOK, Hit, Return
  <1>7. OneConstruction'
    BY DEF OnceInv, OneConstruction, Hit
  <1>8. BuildersAsked'
    <2>1. \A r \in Site : c \notin builders[r]
      BY <1>1 DEF OnceInv, BuildersAsked, Hit, LockIsFree
    <2>2. \A r \in Site : \A d \in builders[r] :
              request'[d] = request[d] /\ request[d].arg \in Arg
      BY <1>2, <2>1 DEF OnceInv, OnceTypeOK, BuildersAsked, Return
    <2>3. QED
      BY <1>5, <2>2 DEF OnceInv, BuildersAsked, Hit
  <1>9. MadeInv'
    BY <1>5 DEF OnceInv, MadeInv, Hit
  <1>10. QED
    BY <1>6, <1>7, <1>8, <1>9 DEF OnceInv

LEMMA MissKeepsOnce ==
    ASSUME OnceInv, NEW c \in Caller, Miss(c)
    PROVE  OnceInv'
  <1>1. request[c].site \in Site /\ request[c].arg \in Arg
    BY Asking DEF Miss
  <1>2. OnceTypeOK'
    BY <1>1 DEF OnceInv, OnceTypeOK, Miss
  <1>3. OneConstruction'
    BY <1>1 DEF OnceInv, OnceTypeOK, OneConstruction, Miss, LockIsFree
  <1>4. BuildersAsked'
    <2> SUFFICES ASSUME NEW r \in Site, NEW d \in builders'[r]
                 PROVE  /\ request'[d] # None
                        /\ request'[d].site = r
                        /\ ~Holds(r, request[d].arg)'
      BY DEF BuildersAsked
    <2>1. request' = request /\ memo' = memo
      BY DEF Miss
    <2>2. d \in builders[r] \/ (d = c /\ r = request[c].site)
      BY <1>1 DEF OnceInv, OnceTypeOK, Miss
    <2>3. request[d] # None /\ request[d].site = r /\ ~Holds(r, request[d].arg)
      BY <2>2 DEF OnceInv, BuildersAsked, Miss
    <2>4. QED
      BY <2>1, <2>3 DEF Holds
  <1>5. MadeInv'
    BY DEF OnceInv, MadeInv, Miss, Holds
  <1>6. QED
    BY <1>2, <1>3, <1>4, <1>5 DEF OnceInv

LEMMA FailedKeepsOnce ==
    ASSUME OnceInv, NEW c \in Caller, Failed(c)
    PROVE  OnceInv'
  <1>1. request[c].site \in Site /\ request[c].arg \in Arg
    BY Asking DEF Failed
  <1>2. OnceTypeOK'
    BY <1>1 DEF OnceInv, OnceTypeOK, Failed, Return
  <1>3. OneConstruction'
    BY <1>1 DEF OnceInv, OnceTypeOK, OneConstruction, Failed
  <1>4. BuildersAsked'
    <2>1. \A r \in Site : \A d \in builders'[r] : d \in builders[r] /\ d # c
      BY <1>1 DEF OnceInv, OnceTypeOK, BuildersAsked, Failed
    <2>2. QED
      BY <1>1, <2>1 DEF OnceInv, OnceTypeOK, BuildersAsked, Failed, Return, Holds
  <1>5. MadeInv'
    BY DEF OnceInv, MadeInv, Failed, Holds
  <1>6. QED
    BY <1>2, <1>3, <1>4, <1>5 DEF OnceInv

LEMMA ClearKeepsOnce ==
    ASSUME OnceInv, NEW s \in Site, Clear(s)
    PROVE  OnceInv'
  <1>1. OnceTypeOK'
    BY DEF OnceInv, OnceTypeOK, Clear
  <1>2. OneConstruction'
    BY DEF OnceInv, OneConstruction, Clear
  <1>3. \A r \in Site, a \in Arg :
            /\ Holds(r, a)' => Holds(r, a)
            /\ r # s => (Holds(r, a)' <=> Holds(r, a))
    BY DEF OnceInv, OnceTypeOK, Clear, Holds
  <1>4. BuildersAsked'
    BY <1>3 DEF OnceInv, OnceTypeOK, BuildersAsked, Clear
  <1>5. MadeInv'
    BY <1>3 DEF OnceInv, OnceTypeOK, MadeInv, Clear
  <1>6. QED
    BY <1>1, <1>2, <1>4, <1>5 DEF OnceInv

LEMMA BuiltKeepsOnce ==
    ASSUME OnceInv, NEW c \in Caller, Built(c)
    PROVE  OnceInv'
  <1>1. PICK s \in Site, a \in Arg :
            s = request[c].site /\ a = request[c].arg /\ c \in builders[s]
    BY Asking DEF Built
  <1> DEFINE m == memo[s]
             e == [arg |-> a, obj |-> made[s][a] + 1]
             full == Len(m) >= MaxSize[s]
  <1>2. m \in Seq(Held) /\ e \in Held /\ made[s][a] \in Nat /\ dropped[s] \in Nat
    <2>1. m \in Seq(Held) /\ dropped[s] \in Nat
      BY DEF OnceInv, OnceTypeOK
    <2>2. made[s][a] \in Nat
      BY DEF OnceInv, OnceTypeOK
    <2>3. e \in Held
      BY <2>2 DEF Held
    <2>4. QED
      BY <2>1, <2>2, <2>3
  <1>3. ~Holds(s, a)
    BY <1>1 DEF OnceInv, BuildersAsked
  <1>4. made' = [made EXCEPT ![s][a] = made[s][a] + 1]
    BY <1>1 DEF Built
  <1>5. dropped' = [dropped EXCEPT ![s] = IF full THEN dropped[s] + 1 ELSE dropped[s]]
    BY <1>1, <1>3 DEF Built
  <1>6. memo' = [memo EXCEPT ![s] = IF full THEN Append(Tail(m), e) ELSE Append(m, e)]
    <2>1. memo' = [memo EXCEPT ![s] = Stored(s, a, made[s][a] + 1)]
      BY <1>1 DEF Built
    <2>2. Stored(s, a, made[s][a] + 1) = IF full THEN Append(Tail(m), e) ELSE Append(m, e)
      BY <1>3 DEF Stored
    <2>3. QED
      BY <2>1, <2>2
  <1>7. builders' = [builders EXCEPT ![s] = builders[s] \ {c}]
    BY <1>1 DEF Built
  <1>8. full => Tail(m) \in Seq(Held)
    <2>1. full => m # <<>>
      BY <1>1, <1>2, MemosHoldSomething
    <2>2. QED
      BY <1>2, <2>1
  <1>9. /\ memo'[s] \in Seq(Held)
        /\ Holds(s, a)'
        /\ ~full => \A b \in Arg : Holds(s, b) => Holds(s, b)'
    <2>1. CASE full
      <3>1. memo'[s] = Append(Tail(m), e)
        BY <1>1, <1>6, <2>1 DEF OnceInv, OnceTypeOK
      <3>2. /\ Append(Tail(m), e) \in Seq(Held)
            /\ \E j \in DOMAIN Append(Tail(m), e) : Append(Tail(m), e)[j].arg = e.arg
        BY <1>2, <1>8, <2>1, AddedAtEnd
      <3>3. QED
        BY <2>1, <3>1, <3>2 DEF Holds
    <2>2. CASE ~full
      <3>1. memo'[s] = Append(m, e)
        BY <1>1, <1>6, <2>2 DEF OnceInv, OnceTypeOK
      <3>2. /\ Append(m, e) \in Seq(Held)
            /\ \A b \in Arg :
                  (\E j \in DOMAIN m : m[j].arg = b) =>
                  (\E j \in DOMAIN Append(m, e) : Append(m, e)[j].arg = b)
            /\ \E j \in DOMAIN Append(m, e) : Append(m, e)[j].arg = e.arg
        BY <1>2, AddedAtEnd
      <3>3. QED
        BY <3>1, <3>2 DEF Holds
    <2>3. QED
      BY <2>1, <2>2
  <1>10. \A r \in Site : r # s => memo'[r] = memo[r] /\ builders'[r] = builders[r]
    BY <1>7, <1>6 DEF OnceInv, OnceTypeOK
  <1>11. builders'[s] = {}
    BY <1>7, <1>1 DEF OnceInv, OnceTypeOK, OneConstruction
  <1>12. OnceTypeOK'
    <2>1. memo' \in [Site -> Seq(Held)]
      BY <1>1, <1>6, <1>9 DEF OnceInv, OnceTypeOK
    <2>2. made' \in [Site -> [Arg -> Nat]]
      BY <1>1, <1>2, <1>4 DEF OnceInv, OnceTypeOK
    <2>3. dropped' \in [Site -> Nat]
      BY <1>1, <1>2, <1>5 DEF OnceInv, OnceTypeOK
    <2>4. builders' \in [Site -> SUBSET Caller] /\ clears' \in [Site -> Nat]
      BY <1>1 DEF Built, OnceInv, OnceTypeOK
    <2>5. /\ request' \in [Caller -> {None} \cup [site : Site, arg : Arg]]
          /\ got' \in [Caller -> Nat]
      BY <1>1, <1>2 DEF Built, Return, OnceInv, OnceTypeOK
    <2>6. QED
      BY <2>1, <2>2, <2>3, <2>4, <2>5 DEF OnceTypeOK
  <1>13. OneConstruction'
    BY <1>10, <1>11 DEF OnceInv, OneConstruction
  <1>14. BuildersAsked'
    <2> SUFFICES ASSUME NEW r \in Site, NEW d \in builders'[r]
                 PROVE  /\ request'[d] # None
                        /\ request'[d].site = r
                        /\ ~Holds(r, request[d].arg)'
      BY DEF BuildersAsked
    <2>1. r # s /\ d \in builders[r] /\ d \in Caller
      BY <1>10, <1>11 DEF OnceInv, OnceTypeOK
    <2>2. request[d].site = r /\ request[d] # None /\ ~Holds(r, request[d].arg)
      BY <2>1 DEF OnceInv, BuildersAsked
    <2>3. d # c
      BY <1>1, <2>1, <2>2
    <2>4. request'[d] = request[d]
      BY <2>1, <2>3 DEF Built, Return, OnceInv, OnceTypeOK
    <2>5. QED
      BY <1>10, <2>1, <2>2, <2>4 DEF Holds
  <1>15. MadeInv'
    <2> SUFFICES ASSUME NEW r \in Site, NEW b \in Arg
                 PROVE  made'[r][b] <= dropped'[r] + (IF Holds(r, b)' THEN 1 ELSE 0)
      BY DEF MadeInv
    <2>0. /\ made[r][b] \in Nat /\ dropped[r] \in Nat
          /\ made[r][b] <= dropped[r] + (IF Holds(r, b) THEN 1 ELSE 0)
      BY DEF OnceInv, OnceTypeOK, MadeInv
    <2>1. CASE r # s
      <3>1. made'[r][b] = made[r][b] /\ dropped'[r] = dropped[r]
        BY <1>4, <1>5, <2>1 DEF OnceInv, OnceTypeOK
      <3>2. Holds(r, b)' <=> Holds(r, b)
        BY <1>10, <2>1 DEF Holds
      <3>3. QED
        BY <2>0, <3>1, <3>2
    <2>2. CASE r = s /\ b = a
      <3>1. made'[r][b] = made[r][b] + 1 /\ dropped'[r] >= dropped[r]
        BY <1>1, <1>2, <1>4, <1>5, <2>2 DEF OnceInv, OnceTypeOK
      <3>2. dropped'[r] \in Nat
        BY <1>12 DEF OnceTypeOK
      <3>3. QED
        BY <1>3, <1>9, <2>0, <2>2, <3>1, <3>2
    <2>3. CASE r = s /\ b # a /\ full
      <3>1. made'[r][b] = made[r][b] /\ dropped'[r] = dropped[r] + 1
        BY <1>1, <1>2, <1>4, <1>5, <2>3 DEF OnceInv, OnceTypeOK
      <3>2. QED
        BY <2>0, <3>1
    <2>4. CASE r = s /\ b # a /\ ~full
      <3>1. made'[r][b] = made[r][b] /\ dropped'[r] = dropped[r]
        BY <1>1, <1>2, <1>4, <1>5, <2>4 DEF OnceInv, OnceTypeOK
      <3>2. Holds(r, b) => Holds(r, b)'
        BY <1>9, <2>4
      <3>3. QED
        BY <2>0, <3>1, <3>2
    <2>5. QED
      BY <2>1, <2>2, <2>3, <2>4
  <1>16. QED
    BY <1>12, <1>13, <1>14, <1>15 DEF OnceInv

LEMMA OnceStep == OnceInv /\ [OnceNext]_onceVars => OnceInv'
  <1> SUFFICES ASSUME OnceInv, [OnceNext]_onceVars PROVE OnceInv'
    OBVIOUS
  <1>1. CASE UNCHANGED onceVars
    BY <1>1 DEF onceVars, OnceInv, OnceTypeOK, OneConstruction, BuildersAsked, MadeInv, Holds
  <1>2. CASE OnceNext
    BY <1>2, RequestKeepsOnce, HitKeepsOnce, MissKeepsOnce, BuiltKeepsOnce,
       FailedKeepsOnce, ClearKeepsOnce
    DEF OnceNext, Proceed
  <1>3. QED
    BY <1>1, <1>2

LEMMA OnceInvariance == OnceSpec => []OnceInv
  <1>1. QED
    BY OnceStarts, OnceStep, PTL DEF OnceSpec

-------------------------------------------------------------------------------

(* Type correctness of every site's memo, lock and callers                 *)
(* (caching.build_once).                                                   *)
THEOREM SitesAreTyped == OnceSpec => []OnceTypeOK
  BY OnceInvariance, PTL DEF OnceInv

(* Two callers are never inside one site's constructor together            *)
(* (caching.build_once).                                                   *)
THEOREM ConstructionIsExclusive == OnceSpec => []OneConstruction
  BY OnceInvariance, PTL DEF OnceInv

LEMMA OnceSuffices == OnceInv => MadeAgainOnlyIfDropped
  <1> SUFFICES ASSUME OnceInv, NEW s \in Site, NEW a \in Arg
               PROVE  made[s][a] <= 1 + dropped[s]
    BY DEF MadeAgainOnlyIfDropped
  <1>1. made[s][a] \in Nat /\ dropped[s] \in Nat
    BY DEF OnceInv, OnceTypeOK
  <1>2. made[s][a] <= dropped[s] + (IF Holds(s, a) THEN 1 ELSE 0)
    BY DEF OnceInv, MadeInv
  <1>3. QED
    BY <1>1, <1>2

(* A second object for an argument is made only when the memo has let one  *)
(* go, by a clear or by running out of room (caching.build_once).          *)
THEOREM MadeOnce == OnceSpec => []MadeAgainOnlyIfDropped
  BY OnceInvariance, OnceSuffices, PTL

-------------------------------------------------------------------------------
(* The singletons under the searches of a super-step.                      *)

\* The handles a store can have had.
Handle == 1..(1 + MaxClears["store"])

StageName == Build \cup {"plan", "lists"}

SearchTypeOK ==
    search \in [Caller -> [todo : Seq(StageName), store : Nat,
                           outcome : {"none", "raised", "found", "empty"}]]

\* The store comes first, so whoever is past it has a handle; and whoever
\* waits for a singleton waits for its stage's, with its stage's argument.
SearchOK(c) ==
    /\ \A i \in DOMAIN search[c].todo : i # 1 => search[c].todo[i] # "store"
    /\ Searching(c) /\ Stage(c) # "store" => search[c].store \in Handle
    /\ request[c] # None =>
          /\ Searching(c)
          /\ Stage(c) \in Build
          /\ request[c] = [site |-> Stage(c), arg |-> ArgumentOf(c)]

\* The store's memo is never full of other things: there are none.
StoreOK ==
    /\ \A i \in DOMAIN memo["store"] :
          /\ memo["store"][i].arg = Settings
          /\ memo["store"][i].obj <= made["store"][Settings]
    /\ dropped["store"] = clears["store"]
    /\ clears["store"] <= MaxClears["store"]

SearchInv == OnceInv /\ SearchTypeOK /\ (\A c \in Caller : SearchOK(c)) /\ StoreOK

LEMMA StoreIsASite ==
    /\ "store" \in Site
    /\ MaxClears["store"] \in Nat
    /\ MaxSize["store"] \in Nat \ {0}
  BY SitesAreBuilt, ClearsAreCounted, MemosHoldSomething DEF Build

\* What is asked for at a stage is something a site can be asked for.
LEMMA ArgumentsFit ==
    ASSUME SearchTypeOK, NEW c \in Caller, SearchOK(c), Searching(c)
    PROVE  ArgumentOf(c) \in Arg
  <1>1. CASE Stage(c) = "index"
    BY <1>1, ArgsCoverHandles DEF SearchOK, ArgumentOf, Handle
  <1>2. CASE Stage(c) # "index"
    BY <1>2, ArgsCoverHandles DEF ArgumentOf
  <1>3. QED
    BY <1>1, <1>2

\* What a finished or an unfinished request of c at the store brings.
LEMMA HandlesAreBounded ==
    ASSUME OnceInv, StoreOK
    PROVE  /\ made["store"][Settings] \in Nat
           /\ made["store"][Settings] <= 1 + MaxClears["store"]
           /\ \A i \in DOMAIN memo["store"] : memo["store"][i].obj \in Handle
  <1>1. /\ made["store"][Settings] \in Nat
        /\ dropped["store"] \in Nat /\ clears["store"] \in Nat
        /\ memo["store"] \in Seq(Held)
    <2>1. made["store"] \in [Arg -> Nat] /\ memo["store"] \in Seq(Held)
      BY StoreIsASite DEF OnceInv, OnceTypeOK
    <2>2. dropped["store"] \in Nat /\ clears["store"] \in Nat
      BY StoreIsASite DEF OnceInv, OnceTypeOK
    <2>3. QED
      BY <2>1, <2>2, ArgsCoverHandles
  <1>2. made["store"][Settings] <= dropped["store"] + (IF Holds("store", Settings) THEN 1 ELSE 0)
    BY StoreIsASite, ArgsCoverHandles DEF OnceInv, MadeInv
  <1>3. made["store"][Settings] <= 1 + MaxClears["store"]
    BY <1>1, <1>2, StoreIsASite DEF StoreOK
  <1>4. ASSUME NEW i \in DOMAIN memo["store"] PROVE memo["store"][i].obj \in Handle
    <2>1. memo["store"][i] \in Held
      BY <1>1
    <2>2. memo["store"][i].obj \in Nat \ {0}
      BY <2>1 DEF Held
    <2>3. memo["store"][i].obj <= made["store"][Settings]
      BY DEF StoreOK
    <2>4. QED
      BY <1>1, <1>3, <2>2, <2>3, StoreIsASite DEF Handle
  <1>5. QED
    BY <1>1, <1>3, <1>4

\* A search's step on the memos is a step of build_once, or none.
LEMMA SearchStepIsOnce ==
    ASSUME SearchTypeOK, NEW c \in Caller, SearchOK(c), SearchStep(c)
    PROVE  [OnceNext]_onceVars
  <1>1. CASE AskFor(c)
    BY <1>1, ArgumentsFit, SitesAreBuilt DEF AskFor, OnceNext
  <1>2. CASE Obtain(c)
    BY <1>2 DEF Obtain, OnceNext
  <1>3. CASE Plan(c) \/ ReadLists(c)
    BY <1>3 DEF Plan, ReadLists
  <1>4. QED
    BY <1>1, <1>2, <1>3 DEF SearchStep

\* A hit brings a caller of the store one of its handles, and moves it only.
LEMMA HitKeepsStore ==
    ASSUME OnceInv, StoreOK, NEW c \in Caller, Hit(c)
    PROVE  /\ StoreOK'
           /\ request[c].site = "store" => got'[c] \in Handle
  <1>1. PICK s \in Site : s = request[c].site
    BY Asking DEF Hit
  <1>2. PICK i \in DOMAIN memo[s] :
            /\ memo' = [memo EXCEPT ![s] = Append(RemoveAt(memo[s], i), memo[s][i])]
            /\ Return(c, memo[s][i].obj)
    BY <1>1 DEF Hit, OnceInv, OnceTypeOK
  <1>3. /\ made' = made /\ dropped' = dropped /\ clears' = clears
        /\ memo[s] \in Seq(Held)
    BY DEF Hit, OnceInv, OnceTypeOK
  <1>4. CASE s # "store"
    <2>1. memo'["store"] = memo["store"]
      BY <1>2, <1>4, StoreIsASite DEF OnceInv, OnceTypeOK
    <2>2. QED
      BY <1>1, <1>3, <1>4, <2>1 DEF StoreOK
  <1>5. CASE s = "store"
    <2>1. memo'["store"] = Append(RemoveAt(memo["store"], i), memo["store"][i])
      BY <1>2, <1>5 DEF OnceInv, OnceTypeOK
    <2>2. \A l \in DOMAIN memo'["store"] :
             \E j \in DOMAIN memo["store"] : memo["store"][j] = memo'["store"][l]
      BY <1>2, <1>3, <1>5, <2>1, MovedToEnd
    <2>3. StoreOK'
      BY <1>3, <2>2 DEF StoreOK
    <2>4. got'[c] = memo["store"][i].obj
      BY <1>2, <1>5 DEF Return, OnceInv, OnceTypeOK
    <2>5. QED
      BY <1>2, <1>5, <2>3, <2>4, HandlesAreBounded
  <1>6. QED
    BY <1>4, <1>5

\* The same of the next state.
LEMMA HandlesAreBoundedNext ==
    ASSUME OnceInv', StoreOK'
    PROVE  made'["store"][Settings] <= 1 + MaxClears["store"]
  <1>1. (OnceInv /\ StoreOK => made["store"][Settings] <= 1 + MaxClears["store"])'
    BY HandlesAreBounded, PTL
  <1>2. QED
    BY <1>1

\* A construction at the store finds its memo empty: there is nothing the
\* new handle could push out.
LEMMA BuiltKeepsStore ==
    ASSUME OnceInv, OnceInv', StoreOK, NEW c \in Caller, Built(c),
           request[c].site = "store" => request[c].arg = Settings
    PROVE  /\ StoreOK'
           /\ request[c].site = "store" => got'[c] \in Handle
  <1>1. PICK s \in Site, a \in Arg :
            s = request[c].site /\ a = request[c].arg /\ c \in builders[s]
    BY Asking DEF Built
  <1>2. ~Holds(s, a)
    BY <1>1 DEF OnceInv, BuildersAsked
  <1>3. CASE s # "store"
    <2>1. /\ memo'["store"] = memo["store"] /\ made'["store"] = made["store"]
          /\ dropped'["store"] = dropped["store"] /\ clears' = clears
      BY <1>1, <1>3, StoreIsASite DEF Built, OnceInv, OnceTypeOK
    <2>2. QED
      BY <1>1, <1>3, <2>1 DEF StoreOK
  <1>4. CASE s = "store"
    <2>1. a = Settings
      BY <1>1, <1>4
    <2>2. PICK m \in Seq(Held) : m = memo["store"]
      BY StoreIsASite DEF OnceInv, OnceTypeOK
    <2>3. memo["store"] = <<>> /\ ~(Len(memo["store"]) >= MaxSize["store"])
      <3>1. \A i \in DOMAIN m : m[i].arg = Settings
        BY <2>2 DEF StoreOK
      <3>2. \A i \in DOMAIN m : m[i].arg # Settings
        BY <1>2, <1>4, <2>1, <2>2 DEF Holds
      <3>3. Len(m) \in Nat /\ DOMAIN m = 1..Len(m)
        OBVIOUS
      <3>4. ~(1 \in DOMAIN m)
        BY <3>1, <3>2
      <3>5. Len(m) = 0
        BY <3>3, <3>4
      <3>6. m = <<>>
        BY <3>5, EmptySeq
      <3>7. QED
        BY <2>2, <3>5, <3>6, StoreIsASite
    <2>4. PICK n \in Nat : n = made["store"][Settings] + 1
      <3>1. made["store"][Settings] \in Nat
        BY HandlesAreBounded
      <3>2. QED
        BY <3>1
    <2>5. /\ made' = [made EXCEPT !["store"][Settings] = n]
          /\ memo' = [memo EXCEPT !["store"] = Stored("store", Settings, n)]
          /\ dropped' = [dropped EXCEPT !["store"] = dropped["store"]]
          /\ clears' = clears
          /\ got' = [got EXCEPT ![c] = n]
      BY <1>1, <1>4, <2>1, <2>3, <2>4 DEF Built, Return
    <2>6. Stored("store", Settings, n) = <<[arg |-> Settings, obj |-> n]>>
      BY <1>2, <1>4, <2>1, <2>3 DEF Stored
    <2>7. /\ made'["store"][Settings] = n
          /\ memo'["store"] = <<[arg |-> Settings, obj |-> n]>>
          /\ dropped'["store"] = dropped["store"]
          /\ got'[c] = n
      <3>1. made'["store"][Settings] = n
        BY <2>5, StoreIsASite, ArgsCoverHandles DEF OnceInv, OnceTypeOK
      <3>2. memo'["store"] = <<[arg |-> Settings, obj |-> n]>>
        BY <2>5, <2>6, StoreIsASite DEF OnceInv, OnceTypeOK
      <3>3. dropped'["store"] = dropped["store"] /\ got'[c] = n
        BY <2>5, StoreIsASite DEF OnceInv, OnceTypeOK
      <3>4. QED
        BY <3>1, <3>2, <3>3
    <2>8. StoreOK'
      <3>1. \A i \in DOMAIN memo'["store"] :
               memo'["store"][i] = [arg |-> Settings, obj |-> n]
        BY <2>7
      <3>2. QED
        BY <2>4, <2>5, <2>7, <3>1 DEF StoreOK
    <2>9. n \in Handle
      <3>1. made'["store"][Settings] <= 1 + MaxClears["store"]
        BY <2>8, HandlesAreBoundedNext
      <3>2. QED
        BY <2>4, <2>7, <3>1, StoreIsASite, HandlesAreBounded DEF Handle
    <2>10. QED
      BY <2>7, <2>8, <2>9
  <1>5. QED
    BY <1>3, <1>4

\* Nothing StoreOK speaks of.
LEMMA StoreUntouched ==
    ASSUME StoreOK, UNCHANGED <<memo, made, dropped, clears>>
    PROVE  StoreOK'
  BY DEF StoreOK

\* A search that begins at the store, and does not come back to it.
FromStore(t) ==
    /\ t \in Seq(StageName)
    /\ Len(t) > 0 /\ t[1] = "store"
    /\ \A i \in DOMAIN t : i # 1 => t[i] # "store"

LEMMA OneStageMore ==
    ASSUME NEW t, FromStore(t), NEW x \in Build \cup {"plan", "lists"}, x # "store"
    PROVE  FromStore(t \o <<x>>)
  <1>1. PICK r : r = t \o <<x>>
    OBVIOUS
  <1>2. t \in Seq(StageName) /\ <<x>> \in Seq(StageName) /\ Len(<<x>>) = 1 /\ <<x>>[1] = x
    BY DEF FromStore, StageName
  <1>3. /\ r \in Seq(StageName) /\ Len(r) = Len(t) + 1
        /\ \A i \in 1..(Len(t) + 1) : r[i] = IF i <= Len(t) THEN t[i] ELSE <<x>>[i - Len(t)]
    BY <1>1, <1>2, ConcatProperties
  <1>4. Len(t) \in Nat /\ DOMAIN t = 1..Len(t) /\ DOMAIN r = 1..(Len(t) + 1)
    BY <1>2, <1>3
  <1>5. r[1] = "store" /\ r[Len(t) + 1] = x
    <2>1. Len(t) > 0 /\ t[1] = "store"
      BY DEF FromStore
    <2>2. 1 \in 1..(Len(t) + 1) /\ Len(t) + 1 \in 1..(Len(t) + 1) /\ ~(Len(t) + 1 <= Len(t))
          /\ (Len(t) + 1) - Len(t) = 1 /\ 1 <= Len(t)
      BY <1>4, <2>1
    <2>3. r[1] = t[1]
      BY <1>3, <2>2
    <2>4. r[Len(t) + 1] = <<x>>[1]
      BY <1>3, <2>2
    <2>5. QED
      BY <1>2, <2>1, <2>3, <2>4
  <1>6. ASSUME NEW i \in DOMAIN r, i # 1 PROVE r[i] # "store"
    <2>1. CASE i \in 1..Len(t)
      BY <1>3, <1>4, <1>6, <2>1 DEF FromStore
    <2>2. CASE i = Len(t) + 1
      BY <1>5, <2>2
    <2>3. QED
      BY <1>4, <2>1, <2>2
  <1>7. QED
    BY <1>1, <1>3, <1>4, <1>5, <1>6 DEF FromStore

LEMMA StagesFromStore ==
    ASSUME NEW cfg \in Configuration
    PROVE  FromStore(Stages(cfg))
  <1> DEFINE s1 == <<"store">>
             s2 == s1 \o (IF cfg.translate THEN <<"planner">> ELSE <<>>)
             s3 == s2 \o (IF cfg.translate /\ cfg.cap THEN <<"plan">> ELSE <<>>)
             s4 == s3 \o (IF cfg.hybrid THEN <<"index">> ELSE <<>>)
  <1>1. FromStore(s1)
    BY DEF FromStore, StageName, Build
  <1>2. \A t : FromStore(t) => t \o <<>> = t
    BY ConcatEmptySeq DEF FromStore
  <1>3. \A t : FromStore(t) => FromStore(t \o <<"planner">>) /\ FromStore(t \o <<"plan">>)
                               /\ FromStore(t \o <<"index">>) /\ FromStore(t \o <<"lists">>)
    BY OneStageMore DEF Build
  <1> HIDE DEF s1
  <1>4. FromStore(s2)
    BY <1>1, <1>2, <1>3, Zenon
  <1> HIDE DEF s2
  <1>5. FromStore(s3)
    BY <1>2, <1>3, <1>4, Zenon
  <1> HIDE DEF s3
  <1>6. FromStore(s4)
    BY <1>2, <1>3, <1>5, Zenon
  <1> HIDE DEF s4
  <1>7. FromStore(s4 \o <<"lists">>)
    BY <1>3, <1>6
  <1>8. Stages(cfg) = s4 \o <<"lists">>
    BY DEF Stages, s1, s2, s3, s4
  <1>9. QED
    BY <1>7, <1>8

LEMMA BeginKeepsSearch ==
    ASSUME SearchInv, NEW c \in Caller, NEW cfg \in Configuration, BeginSearch(c, cfg)
    PROVE  SearchInv'
  <1>1. PICK t : t = Stages(cfg) /\ FromStore(t)
    BY StagesFromStore
  <1>2. PICK idle : /\ idle = [todo |-> t, store |-> 0, outcome |-> "none"]
                    /\ search' = [search EXCEPT ![c] = idle]
    <2>1. [Idle EXCEPT !.todo = t] = [todo |-> t, store |-> 0, outcome |-> "none"]
      BY DEF Idle
    <2>2. search' = [search EXCEPT ![c] = [Idle EXCEPT !.todo = t]]
      BY <1>1 DEF BeginSearch
    <2>3. QED
      BY ONLY <2>1, <2>2
  <1>3. UNCHANGED <<memo, builders, request, got, made, dropped, clears>>
    BY DEF BeginSearch, onceVars
  <1>4. OnceInv' /\ StoreOK'
    BY <1>3, OnceStep, StoreUntouched DEF SearchInv, onceVars
  <1>5. SearchTypeOK'
    BY <1>1, <1>2 DEF SearchInv, SearchTypeOK, FromStore
  <1>6. ASSUME NEW d \in Caller PROVE SearchOK(d)'
    <2>1. CASE d # c
      <3>1. search'[d] = search[d] /\ request'[d] = request[d]
        BY <1>2, <1>3, <2>1 DEF SearchInv, SearchTypeOK
      <3>2. SearchOK(d)
        BY DEF SearchInv
      <3>3. QED
        BY <3>1, <3>2 DEF SearchOK, Searching, Stage, ArgumentOf
    <2>2. CASE d = c
      <3>1. search'[c] = idle /\ request'[c] = request[c]
        BY <1>2, <1>3 DEF SearchInv, SearchTypeOK
      <3>2. request[c] = None
        BY DEF SearchInv, SearchOK, BeginSearch
      <3>3. idle.todo = t /\ Head(t) = "store"
        BY <1>1, <1>2 DEF FromStore
      <3>4. QED
        BY <1>1, <2>2, <3>1, <3>2, <3>3 DEF SearchOK, Searching, Stage, FromStore
    <2>3. QED
      BY <2>1, <2>2
  <1>7. QED
    BY <1>4, <1>5, <1>6 DEF SearchInv

\* What c's search may become: it waits, it has raised or ended, or it has
\* its stage behind it and, after the store, a handle.
LEMMA SearchMoves ==
    ASSUME SearchInv, OnceInv', NEW c \in Caller, SearchStep(c)
    PROVE  /\ StoreOK'
           /\ \A d \in Caller : d # c => request'[d] = request[d]
           /\ \/ /\ search' = search
                 /\ request'[c] = request[c] \/ (Stage(c) \in Build /\ request'[c] =
                        [site |-> Stage(c), arg |-> ArgumentOf(c)])
              \/ /\ request'[c] = None
                 /\ \E n \in {"raised", "found", "empty"} :
                       search' = [search EXCEPT ![c].todo = <<>>, ![c].outcome = n]
              \/ /\ request'[c] = None
                 /\ search[c].store \in Handle
                 /\ search' = [search EXCEPT ![c].todo = Tail(@)]
              \/ /\ request'[c] = None
                 /\ \E n \in Handle :
                       search' = [search EXCEPT ![c].todo = Tail(@), ![c].store = n]
  <1>0. request \in [Caller -> {None} \cup [site : Site, arg : Arg]] /\ got \in [Caller -> Nat]
    BY DEF SearchInv, OnceInv, OnceTypeOK
  <1>1. SearchOK(c) /\ Searching(c)
    BY DEF SearchInv, SearchStep, AskFor, Obtain, Plan, ReadLists
  <1>2. CASE AskFor(c)
    <2>1. /\ UNCHANGED <<memo, made, dropped, clears, search>>
          /\ Stage(c) \in Build
          /\ request' = [request EXCEPT ![c] = [site |-> Stage(c), arg |-> ArgumentOf(c)]]
      BY <1>2 DEF AskFor, Request
    <2>2. StoreOK'
      BY <2>1, StoreUntouched DEF SearchInv
    <2>3. QED
      BY <1>0, <2>1, <2>2
  <1>3. CASE Plan(c) \/ ReadLists(c)
    <2>1. UNCHANGED <<memo, request, made, dropped, clears>>
      BY <1>3 DEF Plan, ReadLists, onceVars
    <2>2. Stage(c) \in {"plan", "lists"}
      BY <1>3 DEF Plan, ReadLists
    <2>3. request[c] = None /\ search[c].store \in Handle
      BY <1>1, <2>2 DEF SearchOK, Build
    <2>4. StoreOK'
      BY <2>1, StoreUntouched DEF SearchInv
    <2>5. QED
      BY <1>3, <2>1, <2>3, <2>4 DEF Plan, ReadLists, Raise, Advance
  <1>4. CASE Obtain(c)
    <2>1. /\ Proceed(c)
          /\ request[c] # None
          /\ Stage(c) \in Build
          /\ request[c] = [site |-> Stage(c), arg |-> ArgumentOf(c)]
      BY <1>1, <1>4 DEF Obtain, Proceed, Hit, Miss, Built, Failed, SearchOK
    <2>2. \/ request'[c] # None /\ UNCHANGED search
          \/ request'[c] = None /\ got'[c] = 0 /\ Raise(c)
          \/ /\ request'[c] = None
             /\ got'[c] # 0
             /\ IF Stage(c) = "store"
                THEN search' = [search EXCEPT ![c].todo = Tail(@), ![c].store = got'[c]]
                ELSE Advance(c)
      BY <1>4 DEF Obtain
    <2>3. request[c].site = "store" => request[c].arg = Settings
      BY <2>1 DEF ArgumentOf
    <2>4. CASE Miss(c)
      <3>1. UNCHANGED <<memo, request, made, dropped, clears>>
        BY <2>4 DEF Miss
      <3>2. StoreOK'
        BY <3>1, StoreUntouched DEF SearchInv
      <3>3. QED
        BY <2>1, <2>2, <3>1, <3>2
    <2>5. CASE Hit(c) \/ Built(c) \/ Failed(c)
      <3>1. request' = [request EXCEPT ![c] = None]
        BY <2>5 DEF Hit, Built, Failed, Return
      <3>2. request'[c] = None /\ \A d \in Caller : d # c => request'[d] = request[d]
        BY <1>0, <3>1
      <3>3. StoreOK' /\ (request[c].site = "store" => got'[c] \in Handle \cup {0})
        <4>1. CASE Hit(c)
          BY <4>1, HitKeepsStore DEF SearchInv
        <4>2. CASE Built(c)
          BY <2>3, <4>2, BuiltKeepsStore DEF SearchInv
        <4>3. CASE Failed(c)
          <5>1. UNCHANGED <<memo, made, dropped, clears>> /\ got' = [got EXCEPT ![c] = 0]
            BY <4>3 DEF Failed, Return
          <5>2. StoreOK'
            BY <5>1, StoreUntouched DEF SearchInv
          <5>3. QED
            BY <1>0, <5>1, <5>2
        <4>4. QED
          BY <2>5, <4>1, <4>2, <4>3
      <3>4. Stage(c) = "store" => got'[c] \in Handle \cup {0}
        BY <2>1, <3>3
      <3>5. Stage(c) # "store" => search[c].store \in Handle
        BY <1>1 DEF SearchOK
      <3>6. CASE Raise(c)
        BY <3>2, <3>3, <3>6 DEF Raise
      <3>7. CASE Stage(c) = "store" /\ got'[c] # 0
                 /\ search' = [search EXCEPT ![c].todo = Tail(@), ![c].store = got'[c]]
        <4>1. got'[c] \in Handle
          BY <3>4, <3>7
        <4>2. QED
          BY <3>2, <3>3, <3>7, <4>1
      <3>8. CASE Stage(c) # "store" /\ Advance(c)
        BY <3>2, <3>3, <3>5, <3>8 DEF Advance
      <3>9. QED
        BY <2>2, <3>2, <3>6, <3>7, <3>8
    <2>6. QED
      BY <2>1, <2>4, <2>5 DEF Proceed
  <1>5. QED
    BY <1>2, <1>3, <1>4 DEF SearchStep

LEMMA StepKeepsSearch ==
    ASSUME SearchInv, NEW c \in Caller, SearchStep(c)
    PROVE  SearchInv'
  <1>1. OnceInv'
    BY SearchStepIsOnce, OnceStep DEF SearchInv
  <1>2. /\ StoreOK'
        /\ \A d \in Caller : d # c => request'[d] = request[d]
    BY <1>1, SearchMoves
  <1>3. PICK t, h : t = search[c].todo /\ h = search[c].store
    OBVIOUS
  <1>4. /\ t \in Seq(StageName) /\ h \in Nat
        /\ \A i \in DOMAIN t : i # 1 => t[i] # "store"
        /\ t # <<>>
        /\ search \in [Caller -> [todo : Seq(StageName), store : Nat,
                                  outcome : {"none", "raised", "found", "empty"}]]
    BY <1>3 DEF SearchInv, SearchTypeOK, SearchOK, SearchStep, AskFor, Obtain, Plan,
                ReadLists, Searching
  <1> PICK r : r = Tail(t)
    OBVIOUS
  <1>5. r = Tail(t) /\ r \in Seq(StageName) /\ \A i \in DOMAIN r : r[i] # "store"
    <2>1. Tail(t) \in Seq(StageName) /\ Len(t) \in Nat \ {0} /\ Len(Tail(t)) = Len(t) - 1
      BY <1>4, EmptySeq, HeadTailProperties
    <2>2. \A i \in 1..(Len(t) - 1) : Tail(t)[i] = t[i + 1]
      BY <1>4, <2>1, HeadTailProperties
    <2>3. \A i \in 1..(Len(t) - 1) : i + 1 \in DOMAIN t /\ i + 1 # 1
      BY <1>4, <2>1
    <2>4. DOMAIN Tail(t) = 1..(Len(t) - 1)
      BY <2>1
    <2>5. QED
      BY <1>4, <2>1, <2>2, <2>3, <2>4
  <1>6. r # <<>> => Head(r) # "store"
    <2>1. r # <<>> => 1 \in DOMAIN r /\ Head(r) = r[1]
      BY <1>5, EmptySeq
    <2>2. QED
      BY <1>5, <2>1
  <1>7. ASSUME NEW d \in Caller, d # c, search'[d] = search[d] PROVE SearchOK(d)'
    <2>1. SearchOK(d) /\ request'[d] = request[d]
      BY <1>2, <1>7 DEF SearchInv
    <2>2. QED
      BY <1>7, <2>1 DEF SearchOK, Searching, Stage, ArgumentOf
  <1>8. CASE search' = search /\ (request'[c] = request[c] \/ (Stage(c) \in Build /\ request'[c] =
                 [site |-> Stage(c), arg |-> ArgumentOf(c)]))
    <2>1. SearchOK(c) /\ Searching(c)
      BY DEF SearchInv, SearchStep, AskFor, Obtain, Plan, ReadLists
    <2>2. SearchOK(c)'
      BY <1>8, <2>1 DEF SearchOK, Searching, Stage, ArgumentOf
    <2>3. QED
      BY <1>1, <1>2, <1>7, <1>8, <2>2 DEF SearchInv, SearchTypeOK
  <1>9. CASE /\ request'[c] = None
             /\ \E n \in {"raised", "found", "empty"} :
                   search' = [search EXCEPT ![c].todo = <<>>, ![c].outcome = n]
    <2>1. PICK n \in {"raised", "found", "empty"} :
              search' = [search EXCEPT ![c].todo = <<>>, ![c].outcome = n]
      BY <1>9
    <2>2. SearchTypeOK' /\ search'[c].todo = <<>>
          /\ \A d \in Caller : d # c => search'[d] = search[d]
      <3>0. <<>> \in Seq(StageName)
        OBVIOUS
      <3>1. PICK z \in Seq(StageName) : z = <<>>
        BY ONLY <3>0, Zenon
      <3>2. search' = [search EXCEPT ![c].todo = z, ![c].outcome = n]
        BY ONLY <2>1, <3>1, Zenon
      <3>3. SearchTypeOK' /\ search'[c].todo = z
            /\ \A d \in Caller : d # c => search'[d] = search[d]
        BY <1>4, <3>2 DEF SearchTypeOK
      <3>4. QED
        BY <3>1, <3>3
    <2>3. SearchOK(c)'
      BY <1>9, <2>2 DEF SearchOK, Searching
    <2>4. QED
      BY <1>1, <1>2, <1>7, <2>2, <2>3 DEF SearchInv
  <1>10. CASE /\ request'[c] = None
              /\ search[c].store \in Handle
              /\ search' = [search EXCEPT ![c].todo = Tail(@)]
    <2>1. search' = [search EXCEPT ![c].todo = r]
      BY <1>3, <1>5, <1>10
    <2>2. SearchTypeOK' /\ search'[c].todo = r /\ search'[c].store \in Handle
          /\ \A d \in Caller : d # c => search'[d] = search[d]
      BY <1>4, <1>5, <1>10, <2>1 DEF SearchTypeOK
    <2>3. SearchOK(c)'
      BY <1>5, <1>6, <1>10, <2>2 DEF SearchOK, Searching, Stage
    <2>4. QED
      BY <1>1, <1>2, <1>7, <2>2, <2>3 DEF SearchInv
  <1>11. CASE /\ request'[c] = None
              /\ \E n \in Handle :
                    search' = [search EXCEPT ![c].todo = Tail(@), ![c].store = n]
    <2>1. PICK n \in Handle : search' = [search EXCEPT ![c].todo = r, ![c].store = n]
      BY <1>3, <1>5, <1>11
    <2>2. n \in Nat
      BY DEF Handle
    <2>3. SearchTypeOK' /\ search'[c].todo = r /\ search'[c].store \in Handle
          /\ \A d \in Caller : d # c => search'[d] = search[d]
      BY <1>4, <1>5, <2>1, <2>2 DEF SearchTypeOK
    <2>4. SearchOK(c)'
      BY <1>5, <1>6, <1>11, <2>3 DEF SearchOK, Searching, Stage
    <2>5. QED
      BY <1>1, <1>2, <1>7, <2>3, <2>4 DEF SearchInv
  <1>12. QED
    BY <1>1, <1>8, <1>9, <1>10, <1>11, SearchMoves

LEMMA ClearKeepsSearch ==
    ASSUME SearchInv, NEW s \in Site, Clear(s), UNCHANGED search
    PROVE  SearchInv'
  <1>1. OnceInv'
    BY OnceStep DEF OnceNext, SearchInv
  <1>2. SearchTypeOK' /\ \A c \in Caller : SearchOK(c)'
    BY DEF SearchInv, SearchTypeOK, SearchOK, Searching, Stage, ArgumentOf, Clear
  <1>3. StoreOK'
    <2>1. CASE s = "store"
      <3>1. /\ memo'["store"] = <<>>
            /\ dropped'["store"] = dropped["store"] + 1
            /\ clears'["store"] = clears["store"] + 1
            /\ clears["store"] < MaxClears["store"]
            /\ clears["store"] \in Nat
        BY <2>1, StoreIsASite DEF Clear, SearchInv, OnceInv, OnceTypeOK
      <3>2. QED
        BY <3>1, StoreIsASite DEF StoreOK, SearchInv
    <2>2. CASE s # "store"
      <3>1. /\ memo'["store"] = memo["store"]
            /\ dropped'["store"] = dropped["store"]
            /\ clears'["store"] = clears["store"]
            /\ made' = made
        BY <2>2, StoreIsASite DEF Clear, SearchInv, OnceInv, OnceTypeOK
      <3>2. QED
        BY <3>1 DEF StoreOK, SearchInv
    <2>3. QED
      BY <2>1, <2>2
  <1>4. QED
    BY <1>1, <1>2, <1>3 DEF SearchInv

LEMMA SearchStarts == SearchInit => SearchInv
  <1> SUFFICES ASSUME SearchInit PROVE SearchInv
    OBVIOUS
  <1>1. OnceInv
    BY OnceStarts DEF SearchInit
  <1>2. SearchTypeOK /\ \A c \in Caller : SearchOK(c)
    BY DEF SearchInit, OnceInit, SearchTypeOK, SearchOK, Searching, Idle
  <1>3. StoreOK
    BY StoreIsASite DEF SearchInit, OnceInit, StoreOK
  <1>4. QED
    BY <1>1, <1>2, <1>3 DEF SearchInv

LEMMA SearchUntouched ==
    ASSUME SearchInv, UNCHANGED searchVars
    PROVE  SearchInv'
  <1>1. OnceInv' /\ StoreOK'
    BY OnceStep, StoreUntouched DEF SearchInv, searchVars, onceVars
  <1>2. SearchTypeOK' /\ \A c \in Caller : SearchOK(c)'
    BY DEF SearchInv, searchVars, onceVars, SearchTypeOK, SearchOK, Searching, Stage, ArgumentOf
  <1>3. QED
    BY <1>1, <1>2 DEF SearchInv

\* Whatever the finance tools do meanwhile.
LEMMA SearchInvariance == Spec => []SearchInv
  <1>1. Init => SearchInv
    BY SearchStarts DEF Init
  <1>2. SearchInv /\ [Next]_vars => SearchInv'
    <2> SUFFICES ASSUME SearchInv, [Next]_vars PROVE SearchInv'
      OBVIOUS
    <2>1. \/ UNCHANGED searchVars
          \/ \E c \in Caller, cfg \in Configuration : BeginSearch(c, cfg)
          \/ \E c \in Caller : SearchStep(c)
          \/ \E s \in Site : Clear(s) /\ UNCHANGED search
      BY DEF Next, vars, CallSearch, CallFinance, Runs, Elsewhere
    <2>2. QED
      BY <2>1, SearchUntouched, BeginKeepsSearch, StepKeepsSearch, ClearKeepsSearch
  <1>3. QED
    BY <1>1, <1>2, PTL DEF Spec

(* Under the searches and the tools of whole super-steps: every object a   *)
(* search asks for is made again only after its memo let it go, whichever  *)
(* stage raised and whatever was cleared (caching.build_once and its       *)
(* callers in retrieval/).                                                 *)
THEOREM SearchesShareWhatIsBuilt == Spec => []MadeAgainOnlyIfDropped
  <1>1. SearchInv => MadeAgainOnlyIfDropped
    BY OnceSuffices DEF SearchInv
  <1>2. QED
    BY <1>1, SearchInvariance, PTL

-------------------------------------------------------------------------------
(* The finance tools over the caches they share.                           *)

FetchKey == {"quote", "news"} \X Ticker
Entry == [taken : Nat, at : Nat]
Fetch == [kind : {"fresh", "stale"}, key : FetchKey, taken : Nat, age : Nat, at : Nat]
Outage == [kind : {"raised"}, key : FetchKey, at : Nat]
ToolCall == [tool : Finance!Tool, ticker : Ticker, todo : Seq(FetchKey),
             took : SUBSET Fetch, missed : SUBSET Ticker, began : Nat]
DataCard == [kind : Finance!Tool, ticker : Ticker, figures : SUBSET Fetch,
             unavailable : SUBSET Ticker, freshness : [stale : BOOLEAN, age : Nat],
             began : Nat, at : Nat]
FailedCard == [kind : {"failed"}, tool : Finance!Tool, why : {"refused", "unavailable"}]

FinanceTypeOK ==
    /\ clock \in Nat
    /\ held \in [FetchKey -> Entry \cup {None}]
    /\ pending \in [Caller -> FetchKey \cup {None}]
    /\ asked \in [Caller -> Nat]
    /\ reply \in [Caller -> Fetch \cup Outage \cup {[kind |-> "none"]}]
    /\ call \in [Caller -> ToolCall \cup {None}]
    /\ card \in [Caller -> DataCard \cup FailedCard \cup {None}]

\* The first n reads.
Behind(all, n) == {all[i] : i \in 1..n}

\* The reads that figures and peers named as unavailable account for.
Accounts(took, missed) == {f.key : f \in took} \cup {Finance!Quote(k) : k \in missed}

\* The call c has j - 1 of its reads behind it, each taken or missed, the
\* first of them taken.
ReadUpTo(c, j) ==
    LET all == Finance!Reads(c.tool, c.ticker) IN
    /\ c.todo = SubSeq(all, j, Len(all))
    /\ Behind(all, j - 1) = Accounts(c.took, c.missed)
    /\ \A f \in c.took : f.key[2] \notin c.missed
    /\ c.took = {} => j = 1

InOrder(c) == \E j \in DOMAIN Finance!Reads(c.tool, c.ticker) : ReadUpTo(c, j)

\* A figure read by now, and inside its window if it is not marked stale.
Read(f) == f.at <= clock /\ f.age <= f.at /\ (f.kind = "fresh" => f.age <= TTL)

CallOK(t) ==
    LET c == call[t] IN
    /\ InOrder(c)
    /\ c.began <= clock
    /\ \A f \in c.took : Read(f) /\ c.began <= f.at

CallsOK == \A t \in Caller : call[t] # None => CallOK(t)

\* An open fetch is the next read of its call.
FetchesOK ==
    \A t \in Caller : pending[t] # None =>
        /\ call[t] # None
        /\ pending[t] = Head(call[t].todo)
        /\ call[t].began <= asked[t] /\ asked[t] <= clock

HeldOK == \A k \in FetchKey : held[k] # None => held[k].at <= clock

\* Every figure a call has in hand or a card shows.
Seen == UNION ({call[t].took : t \in {u \in Caller : call[u] # None}}
               \cup {c.figures : c \in Finance!DataCards})

\* While its window lasts, what a figure was read from is what is held.
WindowHeld(g) ==
    clock - Finance!Since(g) <= TTL =>
        /\ held[g.key] # None
        /\ held[g.key].at = Finance!Since(g)
        /\ held[g.key].taken = g.taken

Agree(f, g) ==
    (/\ f.key = g.key
     /\ g.at < f.at \/ (g.at = f.at /\ f.kind = "fresh")
     /\ f.at - Finance!Since(g) <= TTL)
       => Finance!Since(f) = Finance!Since(g) /\ f.taken = g.taken

SeenOK ==
    /\ \A g \in Seen : Read(g) /\ WindowHeld(g)
    /\ \A f, g \in Seen : Agree(f, g)

FinanceInv ==
    /\ FinanceTypeOK
    /\ CallsOK
    /\ FetchesOK
    /\ HeldOK
    /\ SeenOK
    /\ CardsAreHonest


USE PeersAreOthers, WindowIsACount, NoneIsNoEntry
USE DEF Finance!Tool, Finance!Quote, Finance!News, Finance!Since

\* A call reads its own entry first, its peers' after it, and none twice.
LEMMA ReadsInOrder ==
    ASSUME NEW tool \in Finance!Tool, NEW k \in Ticker
    PROVE  LET all == Finance!Reads(tool, k) IN
           /\ all \in Seq(FetchKey) /\ Len(all) >= 1 /\ all[1][2] = k
           /\ \A i, j \in 1..Len(all) : all[i] = all[j] => i = j
           /\ tool = "calculate_ratios" =>
                 /\ \A i \in 1..Len(all) : all[i] = <<"quote", all[i][2]>> /\ all[i][2] \in Ticker
                 /\ \A i \in 1..Len(all) : all[i][2] \in {k} \cup ToSet(Peers[k])
                 /\ \A q \in {k} \cup ToSet(Peers[k]) : \E i \in 1..Len(all) : all[i][2] = q
           /\ tool # "calculate_ratios" => Len(all) = 1
  <1> DEFINE all == Finance!Reads(tool, k)
  <1>1. CASE tool = "get_stock_data"
    <2>1. all = <<Finance!Quote(k)>>
      BY <1>1 DEF Finance!Reads
    <2>2. QED
      BY <1>1, <2>1 DEF FetchKey
  <1>2. CASE tool = "get_recent_news"
    <2>1. all = <<Finance!News(k)>>
      BY <1>2 DEF Finance!Reads
    <2>2. QED
      BY <1>2, <2>1 DEF FetchKey
  <1>3. CASE tool = "calculate_ratios"
    <2> DEFINE own == <<Finance!Quote(k)>>
               rest == [i \in DOMAIN Peers[k] |-> Finance!Quote(Peers[k][i])]
               n == Len(Peers[k])
    <2>1. /\ Peers[k] \in Seq(Ticker) /\ n \in Nat /\ DOMAIN Peers[k] = 1..n
          /\ \A i \in 1..n : Peers[k][i] \in Ticker /\ Peers[k][i] # k
          /\ \A i, j \in 1..n : Peers[k][i] = Peers[k][j] => i = j
          /\ ToSet(Peers[k]) = {Peers[k][i] : i \in 1..n}
      BY DEF IsInjective, ToSet
    <2>2. all = own \o rest
      BY <1>3 DEF Finance!Reads
    <2>3. own \in Seq(FetchKey) /\ Len(own) = 1 /\ own[1] = <<"quote", k>>
      BY DEF FetchKey
    <2>4. rest \in Seq(FetchKey) /\ Len(rest) = n /\ \A i \in 1..n : rest[i] = <<"quote", Peers[k][i]>>
      <3>1. rest \in [1..n -> FetchKey]
        BY <2>1 DEF FetchKey
      <3>2. QED
        BY <2>1, <3>1
    <2> HIDE DEF own, rest, n
    <2>5. /\ all \in Seq(FetchKey) /\ Len(all) = n + 1 /\ all[1] = <<"quote", k>>
          /\ \A i \in 2..(n + 1) : all[i] = <<"quote", Peers[k][i - 1]>>
      <3>1. /\ own \o rest \in Seq(FetchKey)
            /\ Len(own \o rest) = Len(own) + Len(rest)
            /\ \A i \in 1..(Len(own) + Len(rest)) :
                  (own \o rest)[i] = IF i <= Len(own) THEN own[i] ELSE rest[i - Len(own)]
        BY <2>3, <2>4, ConcatProperties
      <3>2. QED
        BY <2>1, <2>2, <2>3, <2>4, <3>1
    <2> HIDE DEF all
    <2>6. \A i, j \in 1..Len(all) : all[i] = all[j] => i = j
      <3>1. \A i \in 2..(n + 1) : i - 1 \in 1..n
        BY <2>1
      <3>2. QED
        BY <2>1, <2>5, <3>1
    <2>7. \A i \in 1..Len(all) : all[i] = <<"quote", all[i][2]>> /\ all[i][2] \in Ticker
      <3>1. \A i \in 2..(n + 1) : i - 1 \in 1..n
        BY <2>1
      <3>2. QED
        BY <2>1, <2>5, <3>1
    <2>8. /\ \A i \in 1..Len(all) : all[i][2] \in {k} \cup ToSet(Peers[k])
          /\ \A q \in {k} \cup ToSet(Peers[k]) : \E i \in 1..Len(all) : all[i][2] = q
      <3>1. \A i \in 1..Len(all) : all[i][2] = k \/ \E j \in 1..n : all[i][2] = Peers[k][j]
        <4>1. \A i \in 2..(n + 1) : i - 1 \in 1..n
          BY <2>1
        <4>2. QED
          BY <2>1, <2>5, <4>1
      <3>2. \A j \in 1..n : j + 1 \in 1..Len(all) /\ all[j + 1][2] = Peers[k][j]
        BY <2>1, <2>5
      <3>3. 1 \in 1..Len(all) /\ all[1][2] = k
        BY <2>1, <2>5
      <3>4. \A q \in ToSet(Peers[k]) : \E j \in 1..n : q = Peers[k][j]
        BY <2>1
      <3>5. \A j \in 1..n : Peers[k][j] \in ToSet(Peers[k])
        BY <2>1
      <3>6. \A i \in 1..Len(all) : all[i][2] \in {k} \cup ToSet(Peers[k])
        BY <3>1, <3>5
      <3>7. ASSUME NEW q \in {k} \cup ToSet(Peers[k]) PROVE \E i \in 1..Len(all) : all[i][2] = q
        <4>1. CASE q = k
          BY <3>3, <4>1
        <4>2. CASE q \in ToSet(Peers[k])
          <5>1. PICK j \in 1..n : q = Peers[k][j]
            BY <3>4, <4>2
          <5>2. j + 1 \in 1..Len(all) /\ all[j + 1][2] = q
            BY <3>2, <5>1
          <5>3. QED
            BY <5>2
        <4>3. QED
          BY <4>1, <4>2
      <3>8. QED
        BY <3>6, <3>7
    <2>9. Len(all) >= 1 /\ all[1][2] = k
      BY <2>1, <2>5
    <2>10. QED
      BY <1>3, <2>5, <2>6, <2>7, <2>8, <2>9 DEF all
  <1>4. QED
    BY <1>1, <1>2, <1>3


\* A set of numbers up to b has its greatest.
LEMMA GreatestOf ==
    ASSUME NEW S \in SUBSET Nat, S # {}, NEW b \in Nat, \A x \in S : x <= b
    PROVE  Finance!Max(S) \in S /\ \A x \in S : x <= Finance!Max(S)
  <1> DEFINE T == {n \in Nat : \A x \in S : x <= n}
             R == {ss \in Nat \X Nat : ss[1] < ss[2]}
  <1>1. IsWellFoundedOn(R, Nat)
    BY NatLessThanWellFounded DEF OpToRel
  <1>2. PICK n \in T : \A m \in T : ~(<<m, n>> \in R)
    <2>1. b \in T /\ T \subseteq Nat
      OBVIOUS
    <2> HIDE DEF R, T
    <2>2. QED
      BY <1>1, <2>1, WFMin
  <1>3. n \in S
    <2>1. SUFFICES ASSUME n \notin S PROVE FALSE
      OBVIOUS
    <2>2. PICK x \in S : TRUE
      OBVIOUS
    <2>3. x \in Nat /\ n \in Nat /\ x <= n /\ x # n
      BY <2>1
    <2>4. n - 1 \in Nat /\ \A y \in S : y <= n - 1
      BY <2>1, <2>3
    <2>5. n - 1 \in T /\ <<n - 1, n>> \in R
      BY <2>3, <2>4
    <2>6. QED
      BY <1>2, <2>5
  <1>4. \E x \in S : \A y \in S : x >= y
    BY <1>3
  <1>5. QED
    BY <1>4 DEF Finance!Max

LEMMA SeenIs ==
    /\ \A f : f \in Seen <=>
          \/ \E u \in Caller : call[u] # None /\ f \in call[u].took
          \/ \E u \in Caller : card[u] # None /\ card[u].kind # "failed" /\ f \in card[u].figures
    /\ \A f : f \in Seen' <=>
          \/ \E u \in Caller : call'[u] # None /\ f \in call'[u].took
          \/ \E u \in Caller : card'[u] # None /\ card'[u].kind # "failed" /\ f \in card'[u].figures
  BY DEF Seen, Finance!DataCards

LEMMA SeenIsTyped == FinanceTypeOK => Seen \subseteq Fetch
  BY SeenIs DEF FinanceTypeOK, ToolCall, DataCard, FailedCard

\* What the cache answers a fetch agrees with every figure seen before.
LEMMA AnswerAgrees ==
    ASSUME FinanceInv, NEW t \in Caller, call[t] # None,
           \/ Finance!AnswerFromCache(t) \/ Finance!AnswerFromSource(t)
           \/ Finance!AnswerStale(t) \/ Finance!AnswerRaised(t)
    PROVE  /\ UNCHANGED <<clock, asked>> /\ pending' = [pending EXCEPT ![t] = None]
           /\ held' \in [FetchKey -> Entry \cup {None}] /\ HeldOK'
           /\ reply' \in [Caller -> Fetch \cup Outage \cup {[kind |-> "none"]}]
           /\ \A g \in Seen : WindowHeld(g)'
           /\ reply'[t] \in Fetch \cup Outage /\ reply'[t].key = Head(call[t].todo)
           /\ reply'[t].kind # "raised" =>
                 \E r \in Fetch :
                    /\ reply'[t] = r
                    /\ r.at = clock /\ Read(r) /\ WindowHeld(r)'
                    /\ \A g \in Seen : Agree(r, g) /\ Agree(g, r)
  <1> DEFINE k == pending[t]
             e == held[k]
  <1> USE DEF FinanceInv, FinanceTypeOK
  <1>1. pending[t] # None
    BY DEF Finance!AnswerFromCache, Finance!AnswerFromSource, Finance!AnswerStale,
           Finance!AnswerRaised
  <1>2. /\ k \in FetchKey /\ k = Head(call[t].todo) /\ clock \in Nat
        /\ asked[t] \in Nat /\ asked[t] <= clock
        /\ e # None => e \in Entry /\ e.at <= clock
    BY <1>1 DEF FetchesOK, HeldOK
  <1>3. \A g \in Seen : g \in Fetch /\ Read(g) /\ WindowHeld(g)
    BY SeenIsTyped DEF SeenOK
  <1>4. CASE Finance!AnswerFromCache(t) \/ Finance!AnswerStale(t)
    <2> DEFINE kind == IF Finance!IsFresh(e, clock) THEN "fresh" ELSE "stale"
    <2>1. /\ e # None /\ held' = held
          /\ reply' = [reply EXCEPT ![t] = [kind |-> kind, key |-> k, taken |-> e.taken,
                                           age |-> clock - e.at, at |-> clock]]
          /\ UNCHANGED <<clock, asked>> /\ pending' = [pending EXCEPT ![t] = None]
          /\ kind = "fresh" <=> clock - e.at <= TTL
          /\ kind \in {"fresh", "stale"}
      BY <1>1, <1>4 DEF Finance!AnswerFromCache, Finance!AnswerStale, Finance!Answer,
         Finance!FreshReply, Finance!StaleReply, Finance!IsFresh
    <2> HIDE DEF kind
    <2>2. PICK r \in Fetch :
              r = [kind |-> kind, key |-> k, taken |-> e.taken, age |-> clock - e.at, at |-> clock]
      <3>1. [kind |-> kind, key |-> k, taken |-> e.taken, age |-> clock - e.at, at |-> clock]
               \in Fetch
        BY <1>2, <2>1 DEF Fetch, Entry
      <3>2. QED
        BY <3>1
    <2>3. /\ Finance!Since(r) = e.at /\ r.taken = e.taken /\ r.at = clock /\ r.key = k
          /\ (r.kind = "fresh" <=> clock - e.at <= TTL) /\ r.age = clock - e.at
      BY <1>2, <2>1, <2>2 DEF Entry
    <2>4. Read(r)
      BY <1>2, <2>1, <2>3 DEF Read, Entry
    <2>5. WindowHeld(r)'
      BY <2>1, <2>3 DEF WindowHeld
    <2>6. ASSUME NEW g \in Seen PROVE Agree(r, g) /\ Agree(g, r)
      <3>1. /\ g.key = k /\ clock - Finance!Since(g) <= TTL =>
                  Finance!Since(g) = e.at /\ g.taken = e.taken
            /\ g \in Fetch /\ Read(g)
        BY <1>3 DEF WindowHeld
      <3>2. Agree(r, g)
        BY <1>2, <2>1, <2>3, <3>1 DEF Agree, Fetch
      <3>3. g.at = clock /\ g.kind = "fresh" => clock - Finance!Since(g) <= TTL
        BY <1>2, <3>1 DEF Read, Fetch
      <3>4. clock < g.at => FALSE
        BY <1>2, <3>1 DEF Read, Fetch
      <3>5. Agree(g, r)
        BY <1>2, <2>1, <2>3, <3>1, <3>3, <3>4 DEF Agree
      <3>6. QED
        BY <3>2, <3>5
    <2>7. HeldOK' /\ \A g \in Seen : WindowHeld(g)'
      BY <1>3, <2>1 DEF HeldOK, WindowHeld
    <2>8. reply'[t] = r
      BY <2>1, <2>2
    <2>9. reply' \in [Caller -> Fetch \cup Outage \cup {[kind |-> "none"]}]
      BY <2>1, <2>2
    <2>10. QED
      BY <1>2, <2>1, <2>3, <2>4, <2>5, <2>6, <2>7, <2>8, <2>9
  <1>5. CASE Finance!AnswerFromSource(t)
    <2>1. PICK m \in asked[t]..clock :
            /\ held' = [held EXCEPT ![k] = [taken |-> m, at |-> clock]]
            /\ reply' = [reply EXCEPT ![t] = [kind |-> "fresh", key |-> k, taken |-> m,
                                             age |-> clock - clock, at |-> clock]]
            /\ UNCHANGED <<clock, asked>> /\ pending' = [pending EXCEPT ![t] = None]
            /\ e = None \/ ~(clock - e.at <= TTL)
      BY <1>1, <1>5 DEF Finance!AnswerFromSource, Finance!Answer, Finance!FreshReply,
         Finance!IsFresh
    <2>2. PICK r \in Fetch :
              r = [kind |-> "fresh", key |-> k, taken |-> m, age |-> clock - clock, at |-> clock]
      <3>1. [kind |-> "fresh", key |-> k, taken |-> m, age |-> clock - clock, at |-> clock]
               \in Fetch
        BY <1>2, <2>1 DEF Fetch
      <3>2. QED
        BY <3>1
    <2>3. PICK new \in Entry : new = [taken |-> m, at |-> clock]
      BY <1>2, <2>1 DEF Entry
    <2>4. /\ Finance!Since(r) = clock /\ r.at = clock /\ r.key = k /\ r.kind = "fresh"
          /\ r.age = 0 /\ new.at = clock /\ new.taken = r.taken
      BY <1>2, <2>2, <2>3
    <2>5. /\ held' \in [FetchKey -> Entry \cup {None}]
          /\ held'[k] = new /\ \A l \in FetchKey : l # k => held'[l] = held[l]
      BY <1>2, <2>1, <2>3
    <2>6. \A g \in Seen : g.key = k => ~(clock - Finance!Since(g) <= TTL)
      BY <1>3, <2>1 DEF WindowHeld
    <2>7. ASSUME NEW g \in Seen PROVE Agree(r, g) /\ Agree(g, r)
      BY <1>2, <1>3, <2>4, <2>6 DEF Agree, Read, Fetch
    <2>8. \A g \in Seen : WindowHeld(g)'
      BY <1>3, <2>1, <2>5, <2>6 DEF WindowHeld, Fetch
    <2>9. HeldOK'
      BY <1>2, <2>1, <2>4, <2>5 DEF HeldOK
    <2>10. Read(r)
      BY <1>2, <2>4 DEF Read
    <2>11. WindowHeld(r)'
      BY <2>1, <2>4, <2>5 DEF WindowHeld, Entry
    <2>12. reply'[t] = r /\ reply' \in [Caller -> Fetch \cup Outage \cup {[kind |-> "none"]}]
      BY <2>1, <2>2
    <2>13. QED
      BY <1>2, <2>1, <2>4, <2>5, <2>7, <2>8, <2>9, <2>10, <2>11, <2>12
  <1>6. CASE Finance!AnswerRaised(t)
    <2> DEFINE r == [kind |-> "raised", key |-> k, at |-> clock]
    <2>1. /\ held' = held /\ reply' = [reply EXCEPT ![t] = r]
          /\ UNCHANGED <<clock, asked>> /\ pending' = [pending EXCEPT ![t] = None]
      BY <1>1, <1>6 DEF Finance!AnswerRaised, Finance!Answer, Finance!RaisedReply
    <2>2. r \in Outage /\ r.key = k /\ r.kind = "raised"
      BY <1>2 DEF Outage
    <2> HIDE DEF r
    <2>3. HeldOK' /\ \A g \in Seen : WindowHeld(g)'
      BY <1>3, <2>1 DEF HeldOK, WindowHeld
    <2>4. reply'[t] = r
      BY <2>1
    <2>5. QED
      BY <1>2, <2>1, <2>2, <2>3, <2>4
  <1>7. QED
    BY <1>4, <1>5, <1>6


\* What a call has left to read.
LEMMA WhatIsLeft ==
    ASSUME NEW c \in ToolCall, NEW all, all = Finance!Reads(c.tool, c.ticker),
           NEW j \in 1..Len(all), c.todo = SubSeq(all, j, Len(all))
    PROVE  /\ Head(c.todo) = all[j] /\ Len(c.todo) = Len(all) - j + 1
           /\ Tail(c.todo) = SubSeq(all, j + 1, Len(all))
           /\ Head(c.todo) = all[1] <=> j = 1
  <1>1. all \in Seq(FetchKey) /\ Len(all) >= 1 /\ \A i, l \in 1..Len(all) : all[i] = all[l] => i = l
    BY ReadsInOrder DEF ToolCall
  <1>2. Len(all) \in Nat /\ j \in Nat /\ j <= Len(all) /\ 1 <= j
    BY <1>1
  <1>3. Len(SubSeq(all, j, Len(all))) = Len(all) - j + 1
    BY <1>1, <1>2
  <1>4. /\ Head(SubSeq(all, j, Len(all))) = all[j]
        /\ Tail(SubSeq(all, j, Len(all))) = SubSeq(all, j + 1, Len(all))
    <2>1. Len(all) \in j..Len(all)
      BY <1>2
    <2>2. QED
      BY <1>1, <2>1, HeadTailOfSubSeq
  <1>5. all[j] = all[1] <=> j = 1
    BY <1>1, <1>2
  <1>6. QED
    BY <1>3, <1>4, <1>5

\* The figures a call has in hand once r has answered.
Taken(c, r) == IF r.kind = "raised" THEN c.took ELSE c.took \cup {r}

\* Each read is behind a figure or a peer named as unavailable, not both.
LEMMA Accounted ==
    ASSUME NEW c \in ToolCall, NEW all, all = Finance!Reads(c.tool, c.ticker),
           NEW j \in 1..Len(all), ReadUpTo(c, j),
           NEW r \in Fetch \cup Outage, r.key = all[j],
           ~(j = 1 /\ r.kind = "raised"),
           NEW took, took = Taken(c, r)
    PROVE  /\ took \in SUBSET Fetch /\ Finance!Missed(c, r) \in SUBSET Ticker /\ took # {}
           /\ Behind(all, j) = Accounts(took, Finance!Missed(c, r))
           /\ \A f \in took : f.key[2] \notin Finance!Missed(c, r)
  <1>1. /\ all \in Seq(FetchKey) /\ \A i, l \in 1..Len(all) : all[i] = all[l] => i = l
        /\ c.tool = "calculate_ratios" =>
              \A i \in 1..Len(all) : all[i] = <<"quote", all[i][2]>> /\ all[i][2] \in Ticker
        /\ c.tool # "calculate_ratios" => Len(all) = 1
    BY ReadsInOrder DEF ToolCall
  <1>2. /\ {all[i] : i \in 1..(j - 1)} = {f.key : f \in c.took} \cup {<<"quote", k>> : k \in c.missed}
        /\ \A f \in c.took : f.key[2] \notin c.missed
        /\ c.took = {} => j = 1
    BY DEF ReadUpTo, Behind, Accounts
  <1>3. /\ j \in Nat /\ j >= 1 /\ j - 1 \in Nat /\ Len(all) \in Nat /\ j <= Len(all)
        /\ c.took \in SUBSET Fetch /\ c.missed \in SUBSET Ticker
    BY <1>1 DEF ToolCall
  <1>4. {all[i] : i \in 1..j} = {all[i] : i \in 1..(j - 1)} \cup {all[j]}
    <2>1. 1..j = 1..(j - 1) \cup {j}
      BY <1>3
    <2>2. QED
      BY <2>1
  <1>5. all[j] \notin {all[i] : i \in 1..(j - 1)}
    <2>1. \A i \in 1..(j - 1) : i \in 1..Len(all) /\ j \in 1..Len(all) /\ i # j
      BY <1>3
    <2>2. QED
      BY <1>1, <2>1
  <1>6. j = 1 => c.missed = {}
    <2>1. j = 1 => {all[i] : i \in 1..(j - 1)} = {}
      OBVIOUS
    <2>2. QED
      BY <1>2, <2>1
  <1>7. CASE r.kind = "raised"
    <2>1. j # 1 /\ Len(all) # 1 /\ c.tool = "calculate_ratios"
      BY <1>1, <1>3, <1>7
    <2>2. all[j] = <<"quote", r.key[2]>> /\ r.key[2] \in Ticker
      BY <1>1, <2>1
    <2>3. took = c.took /\ Finance!Missed(c, r) = c.missed \cup {r.key[2]}
      BY <1>7 DEF Finance!Missed, Taken
    <2>4. \A f \in c.took : f.key[2] # r.key[2]
      <3>1. ASSUME NEW f \in c.took, f.key[2] = r.key[2] PROVE FALSE
        <4>1. f.key \in {all[i] : i \in 1..(j - 1)}
          BY <1>2
        <4>2. PICK i \in 1..(j - 1) : f.key = all[i]
          BY <4>1
        <4>3. i \in 1..Len(all) /\ f.key = <<"quote", f.key[2]>>
          BY <1>1, <1>3, <2>1, <4>2
        <4>4. QED
          BY <1>5, <2>2, <3>1, <4>1, <4>3
      <3>2. QED
        BY <3>1
    <2>5. {<<"quote", k>> : k \in c.missed \cup {r.key[2]}}
             = {<<"quote", k>> : k \in c.missed} \cup {<<"quote", r.key[2]>>}
      OBVIOUS
    <2>6. {all[i] : i \in 1..j}
             = {f.key : f \in took} \cup {Finance!Quote(k) : k \in Finance!Missed(c, r)}
      BY <1>2, <1>4, <2>2, <2>3, <2>5
    <2>7. QED
      BY <1>2, <1>3, <2>1, <2>2, <2>3, <2>4, <2>6 DEF Behind, Accounts
  <1>8. CASE r.kind # "raised"
    <2>1. r \in Fetch
      BY <1>8 DEF Outage
    <2>2. took = c.took \cup {r} /\ Finance!Missed(c, r) = c.missed
      BY <1>8 DEF Finance!Missed, Taken
    <2>3. r.key[2] \notin c.missed
      <3>1. SUFFICES ASSUME r.key[2] \in c.missed PROVE FALSE
        OBVIOUS
      <3>2. j # 1 /\ Len(all) # 1 /\ c.tool = "calculate_ratios"
        BY <1>1, <1>3, <1>6, <3>1
      <3>3. all[j] = <<"quote", r.key[2]>>
        BY <1>1, <3>2
      <3>4. <<"quote", r.key[2]>> \in {<<"quote", k>> : k \in c.missed}
        BY <3>1
      <3>5. QED
        BY <1>2, <1>5, <3>3, <3>4
    <2>4. {f.key : f \in took} = {f.key : f \in c.took} \cup {all[j]}
      BY <2>2
    <2>5. {all[i] : i \in 1..j}
             = {f.key : f \in took} \cup {Finance!Quote(k) : k \in Finance!Missed(c, r)}
      BY <1>2, <1>4, <2>2, <2>4
    <2>6. QED
      BY <1>2, <1>3, <2>1, <2>2, <2>3, <2>5 DEF Behind, Accounts
  <1>9. QED
    BY <1>7, <1>8


HonestCard(c) ==
    /\ \A f \in c.figures :
          /\ c.freshness.stale \/ f.age <= TTL
          /\ c.at - Finance!Since(f) <= c.freshness.age + (c.at - c.began)
    /\ c.kind = "calculate_ratios" =>
          LET seen == {f.key[2] : f \in c.figures} IN
          /\ seen \cap c.unavailable = {}
          /\ seen \cup c.unavailable = {c.ticker} \cup Finance!ToSet(Peers[c.ticker])

LEMMA HonestIs ==
    /\ CardsAreHonest <=>
          \A u \in Caller : card[u] # None /\ card[u].kind # "failed" => HonestCard(card[u])
    /\ CardsAreHonest' <=>
          \A u \in Caller : card'[u] # None /\ card'[u].kind # "failed" => HonestCard(card'[u])
  <1>1. CardsAreHonest <=> \A c \in Finance!DataCards : HonestCard(c)
    BY DEF CardsAreHonest, Finance!CardsAreHonest, HonestCard
  <1>2. CardsAreHonest' <=> \A c \in Finance!DataCards' : HonestCard(c)
    BY DEF CardsAreHonest, Finance!CardsAreHonest, HonestCard
  <1>3. QED
    BY <1>1, <1>2 DEF Finance!DataCards

\* The card of a call that has read everything.
LEMMA CardOfAll ==
    ASSUME clock \in Nat, NEW c \in ToolCall, c.began <= clock,
           NEW took \in SUBSET Fetch, took # {}, NEW missed \in SUBSET Ticker,
           Behind(Finance!Reads(c.tool, c.ticker), Len(Finance!Reads(c.tool, c.ticker)))
              = Accounts(took, missed),
           \A f \in took : f.key[2] \notin missed /\ Read(f) /\ c.began <= f.at,
           NEW d, d = Finance!DataCard(c, took, missed)
    PROVE  d \in DataCard /\ d.figures = took /\ HonestCard(d)
  <1> DEFINE ages == {f.age : f \in took}
             all == Finance!Reads(c.tool, c.ticker)
             stale == \E f \in took : f.kind = "stale"
             oldest == Finance!Max(ages)
  <1>1. /\ c.tool \in Finance!Tool /\ c.ticker \in Ticker /\ c.began \in Nat
    BY DEF ToolCall
  <1>2. ages \in SUBSET Nat /\ ages # {} /\ \A x \in ages : x <= clock
    BY DEF Fetch, Read
  <1>3. Finance!Max(ages) \in Nat /\ \A x \in ages : x <= Finance!Max(ages)
    <2> HIDE DEF ages
    <2>1. QED
      BY <1>2, GreatestOf
  <1>4. d = [kind |-> c.tool, ticker |-> c.ticker, figures |-> took, unavailable |-> missed,
             freshness |-> [stale |-> stale, age |-> oldest], began |-> c.began, at |-> clock]
    BY DEF Finance!DataCard, Finance!FreshnessOf
  <1>4b. oldest \in Nat /\ (\A f \in took : f.age <= oldest) /\ stale \in BOOLEAN
        /\ \A f \in took : f.kind = "stale" => stale
    BY <1>3
  <1> HIDE DEF stale, oldest, ages
  <1>5. /\ d.kind = c.tool /\ d.ticker = c.ticker /\ d.figures = took /\ d.unavailable = missed
        /\ d.freshness.stale = stale /\ d.freshness.age = oldest
        /\ d.began = c.began /\ d.at = clock
    BY <1>4
  <1>6. d \in DataCard
    BY <1>1, <1>4, <1>4b DEF DataCard
  <1>7. ASSUME NEW f \in took
        PROVE  /\ d.freshness.stale \/ f.age <= TTL
               /\ d.at - Finance!Since(f) <= d.freshness.age + (d.at - d.began)
    <2>1. f.kind = "stale" \/ f.age <= TTL
      BY DEF Read, Fetch
    <2>2. f.age \in Nat /\ f.at \in Nat /\ c.began <= f.at
      BY DEF Fetch
    <2>3. QED
      BY <1>1, <1>5, <1>4b, <2>1, <2>2
  <1>8. d.kind = "calculate_ratios" =>
            LET seen == {f.key[2] : f \in took} IN
            /\ seen \cap missed = {}
            /\ seen \cup missed = {c.ticker} \cup Finance!ToSet(Peers[c.ticker])
    <2> DEFINE seen == {f.key[2] : f \in took}
               shown == {c.ticker} \cup ToSet(Peers[c.ticker])
    <2>1. SUFFICES ASSUME c.tool = "calculate_ratios" PROVE seen \cap missed = {} /\ seen \cup missed = shown
      BY <1>5 DEF Finance!ToSet, ToSet
    <2>2. /\ \A i \in 1..Len(all) : all[i][2] \in shown
          /\ \A q \in shown : \E i \in 1..Len(all) : all[i][2] = q
      BY <1>1, <2>1, ReadsInOrder
    <2> HIDE DEF shown
    <2> DEFINE keys == {all[i] : i \in 1..Len(all)}
    <2>3. \A x \in keys : x[2] \in shown
      BY <2>2
    <2>4. \A q \in shown : \E x \in keys : x[2] = q
      BY <2>2
    <2>5. keys = {f.key : f \in took} \cup {<<"quote", k>> : k \in missed}
      BY DEF Behind, Accounts
    <2> HIDE DEF keys
    <2>6. \A f \in took : f.key[2] \in shown
      BY <2>3, <2>5
    <2>7. ASSUME NEW k \in missed PROVE k \in shown
      <3>1. <<"quote", k>> \in keys /\ <<"quote", k>>[2] = k
        BY <2>5
      <3>2. QED
        BY <2>3, <3>1
    <2>8. ASSUME NEW q \in shown PROVE q \in seen \/ q \in missed
      <3>1. PICK x \in keys : x[2] = q
        BY <2>4
      <3>2. CASE \E f \in took : x = f.key
        BY <3>1, <3>2
      <3>3. ASSUME NEW k \in missed, x = <<"quote", k>> PROVE q \in missed
        BY <3>1, <3>3
      <3>4. QED
        BY <2>5, <3>2, <3>3
    <2>9. seen \cap missed = {}
      OBVIOUS
    <2>10. QED
      BY <2>6, <2>7, <2>8, <2>9
  <1>9. QED
    BY <1>5, <1>6, <1>7, <1>8 DEF HonestCard

-------------------------------------------------------------------------------
(* Every step of a finance call keeps the invariant.                       *)

LEMMA NothingNewSeen ==
    ASSUME SeenOK, UNCHANGED <<clock, held>>, Seen' \subseteq Seen
    PROVE  SeenOK'
  BY DEF SeenOK, Read, WindowHeld, Agree

LEMMA FinanceStarts == Finance!FinanceInit => FinanceInv
  <1> SUFFICES ASSUME Finance!FinanceInit PROVE FinanceInv
    OBVIOUS
  <1> USE DEF Finance!FinanceInit, Finance!Init
  <1>1. FinanceTypeOK
    BY DEF FinanceTypeOK, FetchKey
  <1>2. CallsOK /\ FetchesOK /\ HeldOK
    BY DEF CallsOK, FetchesOK, HeldOK, FetchKey
  <1>3. SeenOK
    <2>1. \A f : f \notin Seen
      BY SeenIs
    <2>2. QED
      BY <2>1 DEF SeenOK
  <1>4. CardsAreHonest
    BY HonestIs
  <1>5. QED
    BY <1>1, <1>2, <1>3, <1>4 DEF FinanceInv

LEMMA RefuseKeeps ==
    ASSUME FinanceInv, NEW t \in Caller, NEW tool \in Finance!Tool, NEW a,
           Finance!Refuse(t, tool, a)
    PROVE  FinanceInv'
  <1>1. PICK f \in FailedCard : f.kind = "failed" /\ card' = [card EXCEPT ![t] = f]
    <2>1. Finance!Failed(tool, "refused") \in FailedCard
      BY DEF Finance!Failed, FailedCard
    <2>2. QED
      BY <2>1 DEF Finance!Refuse, FailedCard
  <1>2. UNCHANGED <<clock, held, pending, asked, reply, call>>
    BY DEF Finance!Refuse, Finance!contractVars
  <1>3. FinanceTypeOK'
    BY <1>1, <1>2 DEF FinanceInv, FinanceTypeOK
  <1>4. CallsOK' /\ FetchesOK' /\ HeldOK'
    BY <1>2 DEF FinanceInv, CallsOK, CallOK, Read, FetchesOK, HeldOK
  <1>5. \A u \in Caller : card'[u] # None /\ card'[u].kind # "failed" => card'[u] = card[u]
    BY <1>1 DEF FinanceInv, FinanceTypeOK
  <1>6. SeenOK'
    <2>1. Seen' \subseteq Seen
      BY <1>2, <1>5, SeenIs
    <2>2. QED
      BY <1>2, <2>1, NothingNewSeen DEF FinanceInv
  <1>7. CardsAreHonest'
    BY <1>5, HonestIs DEF FinanceInv
  <1>8. QED
    BY <1>3, <1>4, <1>6, <1>7 DEF FinanceInv

LEMMA BeginKeeps ==
    ASSUME FinanceInv, NEW t \in Caller, NEW tool \in Finance!Tool, NEW a,
           Finance!Begin(t, tool, a)
    PROVE  FinanceInv'
  <1> DEFINE k == Resolve[a]
             all == Finance!Reads(tool, k)
  <1>1. k \in Ticker /\ clock \in Nat /\ all \in Seq(FetchKey) /\ Len(all) >= 1
    BY ReadsInOrder DEF Finance!Begin, FinanceInv, FinanceTypeOK
  <1>2. PICK c \in ToolCall :
            /\ c = [tool |-> tool, ticker |-> k, todo |-> all, took |-> {}, missed |-> {},
                    began |-> clock]
            /\ call' = [call EXCEPT ![t] = c]
    <2>1. [tool |-> tool, ticker |-> k, todo |-> all, took |-> {}, missed |-> {},
           began |-> clock] \in ToolCall
      BY <1>1 DEF ToolCall
    <2>2. QED
      BY <2>1 DEF Finance!Begin
  <1>3. call[t] = None /\ UNCHANGED <<clock, held, pending, asked, reply, card>>
    BY DEF Finance!Begin, Finance!contractVars
  <1>4. /\ call' \in [Caller -> ToolCall \cup {None}] /\ call'[t] = c
        /\ \A u \in Caller : u # t => call'[u] = call[u]
    BY <1>2 DEF FinanceInv, FinanceTypeOK
  <1>5. FinanceTypeOK'
    BY <1>3, <1>4 DEF FinanceInv, FinanceTypeOK
  <1>6. CallsOK'
    <2>1. /\ c.tool = tool /\ c.ticker = k /\ c.todo = all /\ c.took = {} /\ c.missed = {}
          /\ c.began = clock
      BY <1>2
    <2>2. SubSeq(all, 1, Len(all)) = all /\ 1 \in DOMAIN all
      BY <1>1
    <2>3. ReadUpTo(c, 1)
      BY <2>1, <2>2 DEF ReadUpTo, Behind, Accounts
    <2>4. CallOK(t)'
      <3>1. InOrder(c)
        BY <2>1, <2>2, <2>3 DEF InOrder
      <3>2. QED
        BY <1>1, <1>3, <1>4, <2>1, <3>1 DEF CallOK
    <2>5. ASSUME NEW u \in Caller, u # t, call'[u] # None PROVE CallOK(u)'
      BY <1>3, <1>4, <2>5 DEF FinanceInv, CallsOK, CallOK, Read
    <2>6. QED
      BY <2>4, <2>5 DEF CallsOK
  <1>7. FetchesOK' /\ HeldOK'
    BY <1>3, <1>4 DEF FinanceInv, FetchesOK, HeldOK
  <1>8. SeenOK'
    <2>1. Seen' \subseteq Seen
      BY <1>2, <1>3, <1>4, SeenIs
    <2>2. QED
      BY <1>3, <2>1, NothingNewSeen DEF FinanceInv
  <1>9. CardsAreHonest'
    BY <1>3, HonestIs DEF FinanceInv
  <1>10. QED
    BY <1>5, <1>6, <1>7, <1>8, <1>9 DEF FinanceInv

LEMMA AskNextKeeps ==
    ASSUME FinanceInv, NEW t \in Caller, Finance!AskNext(t)
    PROVE  FinanceInv'
  <1>1. /\ call[t] # None /\ pending' = [pending EXCEPT ![t] = Head(call[t].todo)]
        /\ asked' = [asked EXCEPT ![t] = clock]
        /\ UNCHANGED <<clock, held, reply, call, card>>
    BY DEF Finance!AskNext, Finance!Ask
  <1>2. clock \in Nat /\ call[t] \in ToolCall
    BY <1>1 DEF FinanceInv, FinanceTypeOK
  <1>3. Head(call[t].todo) \in FetchKey /\ call[t].began <= clock
    <2>1. PICK j \in DOMAIN Finance!Reads(call[t].tool, call[t].ticker) : ReadUpTo(call[t], j)
      BY <1>1 DEF FinanceInv, CallsOK, CallOK, InOrder
    <2> DEFINE all == Finance!Reads(call[t].tool, call[t].ticker)
    <2>2. all \in Seq(FetchKey)
      BY <1>2, ReadsInOrder DEF ToolCall
    <2>3. j \in 1..Len(all) /\ call[t].todo = SubSeq(all, j, Len(all)) /\ all[j] \in FetchKey
      BY <2>1, <2>2 DEF ReadUpTo
    <2>4. Head(call[t].todo) = all[j]
      BY <1>2, <2>3, WhatIsLeft
    <2>5. QED
      BY <1>1, <2>3, <2>4 DEF FinanceInv, CallsOK, CallOK
  <1>4. FinanceTypeOK'
    BY <1>1, <1>2, <1>3 DEF FinanceInv, FinanceTypeOK
  <1>5. CallsOK' /\ HeldOK'
    BY <1>1 DEF FinanceInv, CallsOK, CallOK, Read, HeldOK
  <1>6. FetchesOK'
    BY <1>1, <1>2, <1>3 DEF FinanceInv, FinanceTypeOK, FetchesOK
  <1>7. SeenOK'
    <2>1. Seen' \subseteq Seen
      BY <1>1, SeenIs
    <2>2. QED
      BY <1>1, <2>1, NothingNewSeen DEF FinanceInv
  <1>8. CardsAreHonest'
    BY <1>1, HonestIs DEF FinanceInv
  <1>9. QED
    BY <1>4, <1>5, <1>6, <1>7, <1>8 DEF FinanceInv

LEMMA TickKeeps ==
    ASSUME FinanceInv, Finance!Tick
    PROVE  FinanceInv'
  <1>1. clock' = clock + 1 /\ UNCHANGED <<held, pending, asked, reply, call, card>>
    BY DEF Finance!Tick, Finance!Pass
  <1>2. clock \in Nat
    BY DEF FinanceInv, FinanceTypeOK
  <1>3. FinanceTypeOK'
    BY <1>1 DEF FinanceInv, FinanceTypeOK
  <1>4. \A f \in Fetch : Read(f) => Read(f)'
    BY <1>1, <1>2 DEF Read, Fetch
  <1>5. CallsOK'
    <2> SUFFICES ASSUME NEW u \in Caller, call[u] # None PROVE CallOK(u)'
      BY <1>1 DEF CallsOK
    <2>1. call[u] \in ToolCall /\ CallOK(u)
      BY DEF FinanceInv, FinanceTypeOK, CallsOK
    <2>2. call[u].began \in Nat /\ call[u].took \in SUBSET Fetch
      BY <2>1 DEF ToolCall
    <2>3. QED
      BY <1>1, <1>2, <1>4, <2>1, <2>2 DEF CallOK, Read
  <1>6. FetchesOK' /\ HeldOK'
    BY <1>1, <1>2 DEF FinanceInv, FinanceTypeOK, FetchesOK, HeldOK, Entry
  <1>7. SeenOK'
    <2>1. Seen' = Seen /\ Seen \subseteq Fetch
      BY <1>1, SeenIs, SeenIsTyped DEF FinanceInv
    <2>2. \A g \in Seen : WindowHeld(g) => WindowHeld(g)'
      BY <1>1, <1>2, <2>1 DEF WindowHeld, Fetch
    <2>3. QED
      BY <1>4, <2>1, <2>2 DEF FinanceInv, SeenOK, Agree
  <1>8. CardsAreHonest'
    BY <1>1, HonestIs DEF FinanceInv
  <1>9. QED
    BY <1>3, <1>5, <1>6, <1>7, <1>8 DEF FinanceInv

\* The answer to a fetch of a call, and the call going on with it.
LEMMA AnsweredKeeps ==
    ASSUME FinanceInv, NEW t \in Caller, Finance!Answered(t)
    PROVE  FinanceInv'
  <1>1. PICK c \in ToolCall : c = call[t] /\ call[t] # None
    BY DEF Finance!Answered, FinanceInv, FinanceTypeOK
  <1> DEFINE all == Finance!Reads(c.tool, c.ticker)
  <1>2. PICK r \in Fetch \cup Outage : r = reply'[t] /\ r.key = Head(c.todo)
    BY <1>1, AnswerAgrees DEF Finance!Answered
  <1>3. /\ UNCHANGED <<clock, asked>> /\ pending' = [pending EXCEPT ![t] = None]
        /\ held' \in [FetchKey -> Entry \cup {None}] /\ HeldOK'
        /\ reply' \in [Caller -> Fetch \cup Outage \cup {[kind |-> "none"]}]
        /\ \A g \in Seen : WindowHeld(g)'
        /\ r.kind # "raised" =>
              /\ r \in Fetch /\ r.at = clock /\ Read(r) /\ WindowHeld(r)'
              /\ \A g \in Seen : Agree(r, g) /\ Agree(g, r)
    BY <1>1, <1>2, AnswerAgrees DEF Finance!Answered
  <1>4. PICK j \in 1..Len(all) : ReadUpTo(c, j)
    <2>1. all \in Seq(FetchKey)
      BY ReadsInOrder DEF ToolCall
    <2>2. PICK j \in DOMAIN all : ReadUpTo(c, j)
      BY <1>1 DEF FinanceInv, CallsOK, CallOK, InOrder
    <2>3. QED
      BY <2>1, <2>2
  <1>5. /\ Head(c.todo) = all[j] /\ Len(c.todo) = Len(all) - j + 1
        /\ Tail(c.todo) = SubSeq(all, j + 1, Len(all))
        /\ Head(c.todo) = all[1] <=> j = 1
        /\ all \in Seq(FetchKey)
    BY <1>4, WhatIsLeft, ReadsInOrder DEF ReadUpTo, ToolCall
  <1>6. /\ c.began <= clock /\ clock \in Nat /\ c.began \in Nat
        /\ \A f \in c.took : Read(f) /\ c.began <= f.at
    BY <1>1 DEF FinanceInv, FinanceTypeOK, CallsOK, CallOK, ToolCall
  <1>7. \A f \in c.took : f \in Seen
    BY <1>1, SeenIs
  <1> DEFINE took == IF r.kind = "raised" THEN c.took ELSE c.took \cup {r}
             missed == Finance!Missed(c, r)
  <1>8. ~(j = 1 /\ r.kind = "raised") =>
            /\ took \in SUBSET Fetch /\ missed \in SUBSET Ticker /\ took # {}
            /\ Behind(all, j) = Accounts(took, missed)
            /\ \A f \in took : f.key[2] \notin missed
    <2> SUFFICES ASSUME ~(j = 1 /\ r.kind = "raised")
                 PROVE  /\ took \in SUBSET Fetch /\ missed \in SUBSET Ticker /\ took # {}
                        /\ Behind(all, j) = Accounts(took, missed)
                        /\ \A f \in took : f.key[2] \notin missed
      OBVIOUS
    <2>1. r.key = all[j]
      BY <1>2, <1>5
    <2>2. took = Taken(c, r)
      BY DEF Taken
    <2>3. all = Finance!Reads(c.tool, c.ticker) /\ missed = Finance!Missed(c, r)
      OBVIOUS
    <2> HIDE DEF took, all, missed
    <2>4. QED
      BY <1>4, <2>1, <2>2, <2>3, Accounted
  <1>9. \A f \in took : Read(f) /\ c.began <= f.at
    BY <1>3, <1>6
  <1>10. ASSUME \A f \in Seen' : f \in Seen \/ (r.kind # "raised" /\ f = r)
         PROVE  SeenOK'
    <2>1. \A g \in Seen' : Read(g)' /\ WindowHeld(g)'
      BY <1>3, <1>10 DEF FinanceInv, SeenOK, Read
    <2>2. \A f, g \in Seen' : Agree(f, g)
      <3>1. Agree(r, r)
        BY DEF Agree
      <3>2. QED
        BY <1>3, <1>10, <3>1 DEF FinanceInv, SeenOK
    <2>3. QED
      BY <2>1, <2>2 DEF SeenOK, Agree
  <1>11. ASSUME call' \in [Caller -> ToolCall \cup {None}],
                card' \in [Caller -> DataCard \cup FailedCard \cup {None}],
                \A u \in Caller : u # t => call'[u] = call[u],
                call'[t] # None => CallOK(t)',
                \A u \in Caller : card'[u] # None /\ card'[u].kind # "failed" =>
                    card'[u] = card[u] \/ HonestCard(card'[u]),
                \A f \in Seen' : f \in Seen \/ (r.kind # "raised" /\ f = r)
         PROVE  FinanceInv'
    <2>1. FinanceTypeOK'
      BY <1>3, <1>11 DEF FinanceInv, FinanceTypeOK
    <2>2. CallsOK'
      <3>1. ASSUME NEW u \in Caller, u # t, call'[u] # None PROVE CallOK(u)'
        BY <1>3, <1>11, <3>1 DEF FinanceInv, CallsOK, CallOK, Read
      <3>2. QED
        BY <1>11, <3>1 DEF CallsOK
    <2>3. FetchesOK'
      <3>1. pending'[t] = None /\ \A u \in Caller : u # t => pending'[u] = pending[u]
        BY <1>3 DEF FinanceInv, FinanceTypeOK
      <3>2. QED
        BY <1>3, <1>11, <3>1 DEF FinanceInv, FetchesOK
    <2>4. SeenOK'
      BY <1>10, <1>11
    <2>5. CardsAreHonest'
      BY <1>11, HonestIs DEF FinanceInv
    <2>6. QED
      BY <1>3, <2>1, <2>2, <2>3, <2>4, <2>5 DEF FinanceInv
  <1>12. \/ /\ j = 1 /\ r.kind = "raised"
            /\ card' = [card EXCEPT ![t] = Finance!Failed(c.tool, "unavailable")]
            /\ call' = [call EXCEPT ![t] = None]
         \/ /\ ~(j = 1 /\ r.kind = "raised") /\ j = Len(all)
            /\ card' = [card EXCEPT ![t] = Finance!DataCard(c, took, missed)]
            /\ call' = [call EXCEPT ![t] = None]
         \/ /\ ~(j = 1 /\ r.kind = "raised") /\ j < Len(all)
            /\ call' = [call EXCEPT ![t] = [c EXCEPT !.todo = Tail(c.todo), !.took = took,
                                                     !.missed = missed]]
            /\ card' = card
    <2>1. Finance!Take(t, r)
      BY <1>2 DEF Finance!Answered
    <2>2. /\ Len(c.todo) = 1 <=> j = Len(all)
          /\ Len(c.todo) > 1 <=> j < Len(all)
      BY <1>4, <1>5
    <2> HIDE DEF all, missed
    <2>3. QED
      BY <1>1, <1>5, <2>1, <2>2 DEF Finance!Take, all, missed
  <1>13. CASE /\ j = 1 /\ r.kind = "raised"
              /\ card' = [card EXCEPT ![t] = Finance!Failed(c.tool, "unavailable")]
              /\ call' = [call EXCEPT ![t] = None]
    <2>1. PICK d \in FailedCard : d = Finance!Failed(c.tool, "unavailable") /\ d.kind = "failed"
      <3>1. c.tool \in Finance!Tool
        BY DEF ToolCall
      <3>2. Finance!Failed(c.tool, "unavailable") \in FailedCard
        BY <3>1 DEF Finance!Failed, FailedCard
      <3>3. QED
        BY <3>2 DEF FailedCard
    <2>2. /\ card' \in [Caller -> DataCard \cup FailedCard \cup {None}]
          /\ call' \in [Caller -> ToolCall \cup {None}]
          /\ card'[t] = d /\ call'[t] = None
          /\ \A u \in Caller : u # t => card'[u] = card[u] /\ call'[u] = call[u]
      BY <1>13, <2>1 DEF FinanceInv, FinanceTypeOK
    <2>3. \A f \in Seen' : f \in Seen
      BY <2>1, <2>2, SeenIs
    <2>4. \A u \in Caller : card'[u] # None /\ card'[u].kind # "failed" => card'[u] = card[u]
      BY <2>1, <2>2
    <2>5. QED
      BY <1>11, <2>2, <2>3, <2>4
  <1>14. CASE /\ ~(j = 1 /\ r.kind = "raised") /\ j = Len(all)
              /\ card' = [card EXCEPT ![t] = Finance!DataCard(c, took, missed)]
              /\ call' = [call EXCEPT ![t] = None]
    <2>1. PICK d : d = Finance!DataCard(c, took, missed)
      OBVIOUS
    <2>2. d \in DataCard /\ d.figures = took /\ HonestCard(d)
      <3>1. took \in SUBSET Fetch /\ took # {} /\ missed \in SUBSET Ticker
        BY <1>8, <1>14
      <3>2. Behind(all, Len(all)) = Accounts(took, missed)
        BY <1>8, <1>14
      <3>3. \A f \in took : f.key[2] \notin missed /\ Read(f) /\ c.began <= f.at
        BY <1>8, <1>9, <1>14
      <3> HIDE DEF took, missed
      <3>4. QED
        BY <1>6, <2>1, <3>1, <3>2, <3>3, CardOfAll
    <2>3. /\ card' \in [Caller -> DataCard \cup FailedCard \cup {None}]
          /\ call' \in [Caller -> ToolCall \cup {None}]
          /\ card'[t] = d /\ call'[t] = None
          /\ \A u \in Caller : u # t => card'[u] = card[u] /\ call'[u] = call[u]
      BY <1>14, <2>1, <2>2 DEF FinanceInv, FinanceTypeOK
    <2>4. \A f \in Seen' : f \in Seen \/ (r.kind # "raised" /\ f = r)
      <3>1. \A f \in took : f \in Seen \/ (r.kind # "raised" /\ f = r)
        BY <1>7
      <3> HIDE DEF took
      <3>2. QED
        BY <2>2, <2>3, <3>1, SeenIs
    <2>5. \A u \in Caller : card'[u] # None /\ card'[u].kind # "failed" =>
              card'[u] = card[u] \/ HonestCard(card'[u])
      BY <2>2, <2>3
    <2>6. QED
      BY <1>11, <2>3, <2>4, <2>5
  <1>15. CASE /\ ~(j = 1 /\ r.kind = "raised") /\ j < Len(all)
              /\ call' = [call EXCEPT ![t] = [c EXCEPT !.todo = Tail(c.todo), !.took = took,
                                                       !.missed = missed]]
              /\ card' = card
    <2>1. took \in SUBSET Fetch /\ took # {} /\ missed \in SUBSET Ticker
      BY <1>8, <1>15
    <2>2. Behind(all, (j + 1) - 1) = Accounts(took, missed)
      <3>1. (j + 1) - 1 = j
        BY <1>4
      <3>2. QED
        BY <1>8, <1>15, <3>1
    <2>3. Tail(c.todo) \in Seq(FetchKey) /\ j + 1 \in 1..Len(all) /\ DOMAIN all = 1..Len(all)
      <3>1. c.todo \in Seq(FetchKey) /\ Len(all) \in Nat /\ j \in Nat
        BY <1>4, <1>5 DEF ToolCall
      <3>2. Len(c.todo) = Len(all) - j + 1 /\ j <= Len(all) /\ j >= 1
        BY <1>4, <1>5
      <3>3. c.todo # <<>>
        BY <3>1, <3>2
      <3>0. j < Len(all) /\ all \in Seq(FetchKey)
        BY <1>5, <1>15
      <3> HIDE DEF all
      <3>4. Tail(c.todo) \in Seq(FetchKey)
        BY <3>1, <3>3
      <3>5. j + 1 \in 1..Len(all) /\ DOMAIN all = 1..Len(all)
        BY <3>0, <3>1, <3>2
      <3>6. QED
        BY <3>4, <3>5
    <2>4. \A f \in took : f.key[2] \notin missed /\ Read(f) /\ c.began <= f.at
      BY <1>8, <1>9, <1>15
    <2>5. \A f \in took : f \in Seen \/ (r.kind # "raised" /\ f = r)
      BY <1>7
    <2> HIDE DEF took, missed
    <2>6. PICK d \in ToolCall : d = [c EXCEPT !.todo = Tail(c.todo), !.took = took, !.missed = missed]
      <3>1. [c EXCEPT !.todo = Tail(c.todo), !.took = took, !.missed = missed] \in ToolCall
        BY <2>1, <2>3 DEF ToolCall
      <3>2. QED
        BY <3>1
    <2>7. /\ d.tool = c.tool /\ d.ticker = c.ticker /\ d.todo = Tail(c.todo)
          /\ d.took = took /\ d.missed = missed /\ d.began = c.began
      BY <2>6 DEF ToolCall
    <2>8. /\ call' \in [Caller -> ToolCall \cup {None}] /\ call'[t] = d
          /\ \A u \in Caller : u # t => call'[u] = call[u]
      BY <1>15, <2>6 DEF FinanceInv, FinanceTypeOK
    <2>9. InOrder(d)
      <3>1. ReadUpTo(d, j + 1)
        BY <1>5, <2>1, <2>2, <2>4, <2>7 DEF ReadUpTo
      <3>2. QED
        BY <2>3, <2>7, <3>1 DEF InOrder
    <2>10. CallOK(t)'
      BY <1>3, <1>6, <2>4, <2>7, <2>8, <2>9 DEF CallOK, Read
    <2>11. \A f \in Seen' : f \in Seen \/ (r.kind # "raised" /\ f = r)
      BY <1>15, <2>5, <2>7, <2>8, SeenIs
    <2>12. QED
      BY <1>11, <1>15, <2>8, <2>10, <2>11 DEF FinanceInv, FinanceTypeOK
  <1>16. QED
    BY <1>12, <1>13, <1>14, <1>15

\* The invariant survives whatever else the threads do.
LEMMA FinanceStep ==
    ASSUME FinanceInv, [Next]_vars
    PROVE  FinanceInv'
  <1>1. CASE UNCHANGED financeVars
    <2>1. UNCHANGED <<clock, held, pending, asked, reply, call, card>>
      BY <1>1 DEF financeVars
    <2>2. FinanceTypeOK' /\ FetchesOK' /\ HeldOK'
      BY <2>1 DEF FinanceInv, FinanceTypeOK, FetchesOK, HeldOK
    <2>3. CallsOK'
      BY <2>1 DEF FinanceInv, CallsOK, CallOK, Read
    <2>4. SeenOK'
      <3>1. Seen' \subseteq Seen
        BY <2>1, SeenIs
      <3>2. QED
        BY <2>1, <3>1, NothingNewSeen DEF FinanceInv
    <2>5. CardsAreHonest'
      BY <2>1, HonestIs DEF FinanceInv
    <2>6. QED
      BY <2>2, <2>3, <2>4, <2>5 DEF FinanceInv
  <1>2. ASSUME NEW c \in Caller, NEW tool \in Finance!Tool, NEW a \in Argument,
               Finance!Refuse(c, tool, a) \/ Finance!Begin(c, tool, a)
        PROVE  FinanceInv'
    BY <1>2, RefuseKeeps, BeginKeeps
  <1>3. ASSUME NEW c \in Caller, Finance!FinanceStep(c) PROVE FinanceInv'
    BY <1>3, AskNextKeeps, AnsweredKeeps DEF Finance!FinanceStep
  <1>4. CASE Finance!Tick
    BY <1>4, TickKeeps
  <1>5. \/ UNCHANGED financeVars
        \/ \E c \in Caller : \E tool \in Finance!Tool, a \in Argument :
              Finance!Refuse(c, tool, a) \/ Finance!Begin(c, tool, a)
        \/ \E c \in Caller : Finance!FinanceStep(c)
        \/ Finance!Tick
    BY DEF Next, vars, CallSearch, CallFinance, Runs, Elsewhere
  <1>6. QED
    BY <1>1, <1>2, <1>3, <1>4, <1>5

LEMMA FinanceInvariance == Spec => []FinanceInv
  <1>1. Init => FinanceInv
    BY FinanceStarts DEF Init
  <1>2. QED
    BY <1>1, FinanceStep, PTL DEF Spec

-------------------------------------------------------------------------------

(* A card never makes a figure look better than it is, and every peer is   *)
(* behind its figures or named as missing (tools/finance.py, Freshness.of  *)
(* and calculate_ratios).                                                  *)
THEOREM CardsNeverOverstate == Spec => []CardsAreHonest
  BY FinanceInvariance, PTL DEF FinanceInv

(* Two reads of one company inside one TTL window show the same figures,   *)
(* whichever tools asked (finance/quotes.py's and news.py's one cache per  *)
(* process).                                                               *)
THEOREM ReadersShareOneWindow == Spec => []OneFigurePerWindow
  <1>1. FinanceInv => OneFigurePerWindow
    <2> SUFFICES ASSUME FinanceInv, NEW c \in Finance!DataCards, NEW d \in Finance!DataCards,
                        NEW f \in c.figures, NEW g \in d.figures,
                        f.key = g.key,
                        g.at < f.at \/ (g.at = f.at /\ f.kind = "fresh"),
                        f.at - Finance!Since(g) <= TTL
                 PROVE  Finance!Since(f) = Finance!Since(g) /\ f.taken = g.taken
      BY DEF OneFigurePerWindow, Finance!OneFigurePerWindow
    <2>1. f \in Seen /\ g \in Seen
      BY DEF Seen
    <2>2. Agree(f, g)
      BY <2>1 DEF FinanceInv, SeenOK
    <2>3. QED
      BY <2>2 DEF Agree
  <1>2. QED
    BY <1>1, FinanceInvariance, PTL
================================================================================
