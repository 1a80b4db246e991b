--------------------------- MODULE MCRemediation ---------------------------
EXTENDS Remediation, TLC
TwoPresses == [e1 |-> [proposal |-> 1, approve |-> TRUE], e2 |-> [proposal |-> 1, approve |-> FALSE]]
Sym == Permutations(Deciders) \cup Permutations(Proposers)
=============================================================================
