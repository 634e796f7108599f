------------------------------ MODULE MCTelemetry ------------------------------
EXTENDS Telemetry

Reported == {Price, [input_tokens |-> 2], <<>>}

Symmetry == Permutations(Sessions)
===============================================================================
