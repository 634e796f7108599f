---------------------------- MODULE MCTimedCache ----------------------------
(***************************************************************************)
(* Model checking of `TimedCache` on small sets of threads and keys.       *)
(***************************************************************************)
EXTENDS TimedCache

CONSTANTS t1, t2, nvda, msft

Threads == {t1, t2}
Tickers == {nvda, msft}
=============================================================================
