--------------------------- MODULE MCSessionControl ---------------------------
EXTENDS SessionControl, TLC
\* three requests with a fault, or two with a call and a fault, or two with two calls
ManyBudgets == {<<3, 0, 1>>, <<2, 1, 1>>, <<2, 2, 0>>}
Symmetry == Permutations(Endpoints)
=============================================================================
