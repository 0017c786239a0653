--------------------------- MODULE MCProviderJobs ---------------------------
(* The adapters of the provider-job run, as the registry has them: one that  *)
(* is polled and can cancel, one that calls back, one that answers at once.  *)
EXTENDS ProviderJobs, TLC

Adapter(completion, transport, cancellable) ==
  [completion |-> completion, transport |-> transport, cancellable |-> cancellable]
MCAdapters == {Adapter("asynchronous", "polling", TRUE),
               Adapter("asynchronous", "webhook", FALSE),
               Adapter("synchronous", "none", FALSE)}
Symmetry == Permutations(Workers) \cup Permutations(Callers)
=============================================================================
