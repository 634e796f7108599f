------------------------------ MODULE MCEvalRun ------------------------------
(***************************************************************************)
(* Instances of `EvalRun`: a judged arm that replays a plan, and an        *)
(* ablation that does neither.                                             *)
(***************************************************************************)
EXTENDS EvalRun, TLC

CONSTANTS r1, r2, s1, s2

\* Nothing tells one reply from another.
ReplySymmetry == Permutations(Reply)

MCArms == <<"vector+translation", "vector+normalisation">>
MCPlans == {"vector+translation"}
MCJudged == {"vector+translation"}

\* Everything; planning one row; a re-render against either sink;
\* scoring alone, unlogged.
MCInvocation == {
    [stages |-> Stage,       rows |-> Row,  sink |-> s1],
    [stages |-> {"resolve"}, rows |-> {r1}, sink |-> s1],
    [stages |-> {"report"},  rows |-> Row,  sink |-> s1],
    [stages |-> {"report"},  rows |-> Row,  sink |-> s2],
    [stages |-> {"judge"},   rows |-> Row,  sink |-> None]}

\* Everything, then a re-render.
MCWindowInvocation ==
    [stages : {Stage, {"report"}}, rows : {Row}, sink : {s1}]
===============================================================================
