-------------------------------- MODULE Fusion --------------------------------
(***************************************************************************)
(* retrieval/hybrid.py's fuse: Reciprocal Rank Fusion over candidate       *)
(* lists, each a ranking of distinct chunks one retriever gave one         *)
(* variant.  Chunks are numbered in the order of their ids.  Scores are    *)
(* exact: every vote 1 / (RRF_K + rank) is counted in units of one over    *)
(* the product of the denominators that occur.                             *)
(***************************************************************************)
EXTENDS Integers, Sequences, FiniteSets, SequencesExt, FiniteSetsExt, Functions

CONSTANTS
    RRF_K,  \* the constant of the formula, 60
    Depth   \* no list is deeper: k

ASSUME FusionConstants == RRF_K \in Nat /\ Depth \in Nat \ {0}

Unit == FoldFunctionOnSet(LAMBDA x, y : x * y, 1, [r \in 1..Depth |-> RRF_K + r], 1..Depth)

(* One list's vote for the chunk it ranks at `rank`.                       *)
Contribution(rank) == Unit \div (RRF_K + rank)

ChunksOf(lists) == UNION {ToSet(lists[i].hits) : i \in DOMAIN lists}

RankIn(list, c) == CHOOSE r \in DOMAIN list.hits : list.hits[r] = c

(* Who surfaced c: one row per list that ranks it, in the lists' order.    *)
Provenance(lists, c) ==
    LET found == SelectSeq(lists, LAMBDA l : c \in ToSet(l.hits)) IN
    [i \in DOMAIN found |->
        [variant |-> found[i].variant, retriever |-> found[i].retriever,
         rank |-> RankIn(found[i], c), vote |-> Contribution(RankIn(found[i], c))]]

Score(lists, c) == FoldLeft(LAMBDA sum, row : sum + row.vote, 0, Provenance(lists, c))

(* Mutant: equal scores keep the order the lists happened to arrive in.    *)
Before_bug(lists, c, d) == Score(lists, c) > Score(lists, d)

(* Best score first, equal scores by chunk id.                             *)
Before(lists, c, d) ==
    \/ Score(lists, c) > Score(lists, d)
    \/ Score(lists, c) = Score(lists, d) /\ c < d

(* The pool in the order the chunks first turned up.                       *)
Pool(lists) ==
    FoldLeft(LAMBDA pool, c : IF Contains(pool, c) THEN pool ELSE Append(pool, c),
             <<>>, FlattenSeq([i \in DOMAIN lists |-> lists[i].hits]))

(* A stable insertion of c into a ranking.                                 *)
Insert(lists, ranking, c) ==
    LET ahead == SelectSeq(ranking, LAMBDA d : ~Before(lists, c, d))
        behind == SelectSeq(ranking, LAMBDA d : Before(lists, c, d))
    IN ahead \o <<c>> \o behind

(* The whole pool is ranked, then cut.                                     *)
Fuse(lists, limit) ==
    LET ranked == FoldLeft(LAMBDA ranking, c : Insert(lists, ranking, c), <<>>, Pool(lists))
    IN SubSeq(ranked, 1, Min({limit, Len(ranked)}))
==============================================================================
