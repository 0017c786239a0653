-------------------------- MODULE MCSecretRotation --------------------------
EXTENDS SecretRotation, TLC

\* Workers, requests and keys are each alike to the code.
Symmetry == Permutations(Workers) \cup Permutations(Requests)
              \cup Permutations(Keys)
=============================================================================
