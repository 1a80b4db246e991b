--------------------------- MODULE MCDeepAnalysis ---------------------------
EXTENDS DeepAnalysis, TLC

\* Two faults, or a manual retry: their product is out of reach.
FaultsOrRetry == {[faults |-> 2, retries |-> 0], [faults |-> 0, retries |-> 1]}

OneFault == {[faults |-> 1, retries |-> 0]}
=============================================================================
