------------------------ MODULE MCWebhookDeliveries ------------------------
EXTENDS WebhookDeliveries, TLC

\* Deliveries, workers, requests and keys are each alike to the code.
Symmetry == Permutations(Deliveries) \cup Permutations(Workers)
              \cup Permutations(Requests) \cup Permutations(Keys)
============================================================================
