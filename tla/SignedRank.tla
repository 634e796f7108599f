------------------------------ MODULE SignedRank ------------------------------
(***************************************************************************)
(* The paired test of evaluation/metrics.py: an exact two-sided Wilcoxon   *)
(* signed-rank p-value from the convolution of the signed ranks, and what  *)
(* the harness says of its own power.  Differences are integers; a         *)
(* p-value is its numerator over 2^n, n the number of differences that     *)
(* are not zero.                                                           *)
(***************************************************************************)
EXTENDS Integers, Sequences, FiniteSets, SequencesExt, FiniteSetsExt, Functions

CONSTANT AlphaInverse   \* 1 / PAIRED_ALPHA

ASSUME AlphaIsAFraction == AlphaInverse \in Nat \ {0}

Abs(x) == IF x < 0 THEN -x ELSE x

Total(seq) == FoldLeft(LAMBDA x, y : x + y, 0, seq)

NonZero(deltas) == SelectSeq(deltas, LAMBDA d : d # 0)

(* Twice the rank of each magnitude, ties sharing their average rank.      *)
Midranks(deltas) ==
    [i \in DOMAIN deltas |->
        LET below == {j \in DOMAIN deltas : Abs(deltas[j]) < Abs(deltas[i])}
            equal == {j \in DOMAIN deltas : Abs(deltas[j]) = Abs(deltas[i])}
        IN 2 * Cardinality(below) + Cardinality(equal) + 1]

(* How many of the sign assignments reach each sum of positive ranks,      *)
(* one rank after another.                                                 *)
Convolution(ranks) ==
    LET Sums == 0..Total(ranks)
        Signed(counts, rank) ==
            [t \in Sums |-> counts[t] + IF t >= rank THEN counts[t - rank] ELSE 0]
    IN FoldLeft(Signed, [t \in Sums |-> IF t = 0 THEN 1 ELSE 0], ranks)

Observed(ranks, deltas) ==
    Total([i \in DOMAIN ranks |-> IF deltas[i] > 0 THEN ranks[i] ELSE 0])

(* Mutant: the observed sum is left out of its own tail.                   *)
TailCount_bug(counts, from, to) == SumFunctionOnSet(counts, (from + 1)..to)

TailCount(counts, from, to) == SumFunctionOnSet(counts, from..to)

(* The numerator of signed_rank_p over 2^Len(NonZero(deltas)).             *)
SignedRankP(deltas) ==
    LET signed == NonZero(deltas)
        ranks == Midranks(signed)
        counts == Convolution(ranks)
        w == Observed(ranks, signed)
        atOrBelow == TailCount(counts, 0, w)
        atOrAbove == TailCount(counts, w, Total(ranks))
    IN Min({2 ^ Len(signed), 2 * Min({atOrBelow, atOrAbove})})

(* p <= alpha, for a p of n differences with this numerator.               *)
Reaches(numerator, n) == numerator * AlphaInverse <= 2 ^ n

(* Whether n differing questions could reach alpha at all.                 *)
Detectable(n) == n > 0 /\ Reaches(2, n)

(* The verdict on one pairing of two arms.                                 *)
Verdict(deltas) ==
    LET n == Len(NonZero(deltas)) IN
    IF deltas = <<>> THEN "undetermined"
    ELSE IF ~Detectable(n) THEN "undetectable"
    ELSE IF ~Reaches(SignedRankP(deltas), n) THEN "not_detected"
    ELSE IF Total(deltas) > 0 THEN "better" ELSE "worse"

(* How many differences may point the other way, by the harness' account:  *)
(* it flips the smallest of n distinct magnitudes first, and stops at the  *)
(* first count that does not reach alpha.                                  *)
Flipped(n, flips) == [i \in 1..n |-> IF i <= flips THEN -i ELSE i]

ToleratedMinoritySigns(n) ==
    IF ~Reaches(2, n) THEN -1
    ELSE LET fails == {k \in 0..n : ~Reaches(SignedRankP(Flipped(n, k)), n)}
         IN Min(fails) - 1
==============================================================================
