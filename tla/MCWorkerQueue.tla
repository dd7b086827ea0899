--------------------------- MODULE MCWorkerQueue ---------------------------
(* Instances of WorkerQueue, and of its refinement, for TLC. *)
EXTENDS EngineWorker, TLC

\* The podcasts among the jobs: none, the only one, the second one.
NoJobs == {}
FirstJob == {1}
SecondJob == {2}

\* A job whose process nobody knows is promised nothing, and what it may do
\* makes most of the states: they are checked, and not explored further.
NoStray == stray = {}

RunnerSymmetry == Permutations(Runners)

=============================================================================
