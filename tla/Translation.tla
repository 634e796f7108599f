----------------------------- MODULE Translation -----------------------------
(***************************************************************************)
(* retrieval/query_translation.py: the queries one question is retrieved   *)
(* over.  A text is what the comparisons see of it: its case-folded form   *)
(* and how it is spelled.  A line of the planner's reply is a text, or     *)
(* noise: furniture, a preamble, a refusal.                                *)
(***************************************************************************)
EXTENDS Places, Integers, Sequences, SequencesExt

CONSTANTS
    Fold,       \* the case-folded texts
    Names,      \* the folds in which a Universe company is named
    TickerFold  \* TickerFold[f]: f with every company's name made its ticker

Spelling == {"typed", "other", "ticker"}

Text == [fold : Fold, as : Spelling]

Noise == [fold |-> "noise"]

Folds(texts) == {texts[i].fold : i \in DOMAIN texts}

(* Every declared company name replaced in one pass.                       *)
Rewritten(q) ==
    IF q.fold \in Names THEN [fold |-> TickerFold[q.fold], as |-> "ticker"] ELSE q

(* Mutant: the guard compares spellings, so META differs from Meta.        *)
Normalised_bug(q) == IF Rewritten(q) = q THEN <<>> ELSE <<Rewritten(q)>>

(* The ticker form, unless it equals the question up to case.              *)
Normalised(q) == IF Rewritten(q).fold = q.fold THEN <<>> ELSE <<Rewritten(q)>>

(* At most limit lines of the reply, in its order, none of them noise and  *)
(* none a repeat of what is known or kept already.                         *)
SubQueries(reply, known, limit) ==
    LET Keep(kept, line) ==
            IF /\ Len(kept) < limit
               /\ line # Noise
               /\ line.fold \notin Folds(known) \cup Folds(kept)
            THEN Append(kept, line)
            ELSE kept
    IN FoldLeft(Keep, <<>>, reply)

(* The question itself, its ticker form, then what the planner added: no   *)
(* planner is asked under a cap of zero.                                   *)
Translate(q, reply, cap) ==
    LET known == <<q>> \o Normalised(q) IN
    known \o (IF cap > 0 THEN SubQueries(reply, known, cap) ELSE <<>>)

(* What the page makes of the variants it finds in a checkpoint: the       *)
(* ticker form, recomputed, apart from the planner's lines.                *)
AddedVariants(variants) ==
    LET added == Tail(variants)
        form == Normalised(Head(variants))
    IN IF form # <<>> /\ Contains(added, form[1])
       THEN [form |-> form, planned |-> Those(added, {i \in DOMAIN added : added[i] # form[1]})]
       ELSE [form |-> <<>>, planned |-> added]
==============================================================================
