-------------------------- MODULE MCOrderPipeline --------------------------
(* Small instances of OrderPipeline for TLC. *)
EXTENDS OrderPipeline, TLC

\* Orders, worker-1 processes and worker-2 processes are interchangeable.
Symmetry == Permutations(Orders) \cup Permutations(Submitters) \cup Permutations(Trackers)
=============================================================================
