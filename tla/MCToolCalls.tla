----------------------------- MODULE MCToolCalls -----------------------------
EXTENDS ToolCalls

CONSTANTS c1, c2, tsla, f, gm

Autos == [k \in {tsla, f, gm} |-> CASE k = tsla -> <<f, gm>>
                                    [] k = f    -> <<gm, tsla>>
                                    [] k = gm   -> <<f, tsla>>]

(* The model names one company of the cluster, or none of the Universe.    *)
Named == [a \in {"tsla ", "NVDA.US"} |-> IF a = "tsla " THEN tsla ELSE None]

Sites == {"store", "planner", "index"}

(* One handle may be dropped and opened again under the searches.          *)
StoreOnce == [s \in Sites |-> IF s = "store" THEN 1 ELSE 0]

OneEach == [s \in Sites |-> 1]
==============================================================================
