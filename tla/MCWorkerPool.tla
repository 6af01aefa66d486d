---------------------------- MODULE MCWorkerPool ----------------------------
(* Instances of WorkerPool for TLC: workers and neighbours are model values. *)
EXTENDS WorkerPool, TLC

\* Workers and neighbours are interchangeable (used by runs without liveness only).
PoolSymmetry == Permutations(Worker) \cup Permutations(Dispatcher)
=============================================================================
