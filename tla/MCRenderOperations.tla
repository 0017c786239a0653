------------------------- MODULE MCRenderOperations -------------------------
EXTENDS RenderOperations, TLC, FiniteSets

Symmetry == Permutations(Workers) \cup Permutations(Requests)

\* Bound of the runs of the requests: two of them meet an attempt wherever it
\* is.  The third and the fourth are sent only before anything was rendered,
\* to an attempt at its first phase or failing, and two are open at once.
Early ==
    /\ output = {} /\ beats = {}
    /\ \A w \in Workers : pc[w] \in {"idle", "claiming", "advance", "advancing", "failing", "recording"}
At(steps) == {q \in Requests : pc[q] \in steps}
FewRequests ==
    \/ Cardinality(Requests \ At({"new"})) <= 2
    \/ Early /\ Cardinality(At({"cancelling", "retrying"})) <= 2
=============================================================================
