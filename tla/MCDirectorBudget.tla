---- MODULE MCDirectorBudget ----
EXTENDS DirectorBudget, TLC

\* Amounts in two dimensions, the one a batch reserves and the one it measures.
Amount(spend, elapsed) == "spend" :> spend @@ "elapsed" :> elapsed
TwoDimensions == {"spend", "elapsed"}
MCLimits == Amount(2, 1)
MCEstimates == {Amount(0, 0), Amount(1, 0), Amount(1, 1)}
OneEstimate == {Amount(1, 0)}
MCUsages == {Amount(1, 0), Amount(2, 1)}
OneUsage == {Amount(1, 0)}
Candidate(id, valid, score) == [id |-> id, valid |-> valid, score |-> score]
MCCandidates == {Candidate(1, TRUE, 1), Candidate(2, TRUE, 1), Candidate(3, FALSE, 2)}
OneCandidate == {Candidate(1, TRUE, 1)}
ClientSymmetry == Permutations(ClientKeys)
ExecutionSymmetry == Permutations(Executions) \cup Permutations(ClientKeys)
====
