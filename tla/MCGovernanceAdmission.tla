---- MODULE MCGovernanceAdmission ----
EXTENDS GovernanceAdmission, TLC

Limit(rate, concurrency, quota, spend) ==
  [rate |-> rate, concurrency |-> concurrency, quota |-> quota, spend |-> spend]
Capability(job, cost, recovery) == [job |-> job, cost |-> cost, recovery |-> recovery]
MCDefaults == Limit(2, 1, 5, 5)
MCPolicies == {Limit(1, 2, 6, 6)}
\* An analysis and a render: rate, quota and concurrency can each bind first.
Analysis == Capability(FALSE, 2, FALSE)
Render == Capability(TRUE, 1, FALSE)
MCCapabilities == {Analysis, Render}
Symmetry == Permutations(Requests) \cup Permutations(Clients)

\* Bound: two requests wait for the lock at once, and operations meet two
\* requests for jobs and no policies.
FewRequests ==
  LET asked == {r \in Requests : drafts[r] # None}
  IN /\ Cardinality({r \in asked : drafts[r].pc = "draft"}) <= 2
     /\ \/ \A r \in Requests : operations[r] = None
        \/ /\ Cardinality(asked) <= 2 /\ \A r \in asked : drafts[r].ask.job
           /\ \A s \in Scopes : policies[s] = None
====
