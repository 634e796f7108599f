------------------------------- MODULE MCIngest -------------------------------
(***************************************************************************)
(* `Ingest` with texts of one to three chunks and one the gate refuses.    *)
(***************************************************************************)
EXTENDS Ingest, TLC

CONSTANTS short, middle, long, broken

TextSize == short :> 1 @@ middle :> 2 @@ long :> 3 @@ broken :> 1

CompanySymmetry == Permutations(Ticker)
===============================================================================
