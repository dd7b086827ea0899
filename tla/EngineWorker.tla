---------------------------- MODULE EngineWorker ----------------------------
(***************************************************************************)
(* The worker that ActionEngine assumes, implemented by WorkerQueue.  The  *)
(* engine knows of a job what Status and Artifact answer (httpclient): for *)
(* it a job is accepted, cancelled, or ends, once and for good.  Behind    *)
(* that are a record that server and runners write in turn, two kinds of   *)
(* locks, repairs, and processes that die between any two saves.           *)
(*                                                                         *)
(* Each job of the queue is taken for the only attempt of an engine; the   *)
(* engine's own state has no part in it.                                   *)
(***************************************************************************)
EXTENDS WorkerQueue

\* What the engine makes of an answer: a queued job and a running one are open,
\* and a job whose runner died failed.
Shown(j) ==
    IF rec[j].status \in Live THEN "active"
    ELSE IF rec[j].status = "killed" THEN "failed"
    ELSE rec[j].status

\* A result there is to fetch.
Fetchable(j) == rec[j].status = "completed" /\ rec[j].encoded /\ rec[j].fin = "completed"

EngineJobs(j) == [a \in {1} |-> Shown(j)]
EngineEncoded(j) == IF Fetchable(j) THEN {1} ELSE {}

Engine(j) == INSTANCE ActionEngine WITH
    jobs <- EngineJobs(j), encoded <- EngineEncoded(j), MaxJob <- 1, MaxExpiries <- 0,
    Retention <- FALSE, Executors <- {}, NoOwner <- 0, MaxFaults <- 0, MaxCalls <- 0,
    row <- 0, lease <- 0, pc <- 0, mem <- 0, inflight <- {}, confirmed <- 0, faults <- 0, calls <- 0

\* A step of the worker as the engine sees it: the job ends, and if it ends as
\* completed there is a result, or it is accepted, or cancelled while it runs.
EngineMove(j) ==
    \/ Engine(j)!WorkerEnds(1)
    \/ /\ EngineJobs(j)' \in {Engine(j)!Accepted(1), Engine(j)!Cancelled(1)}
       /\ UNCHANGED EngineEncoded(j)

-----------------------------------------------------------------------------
(* What the implementation rests on, beside JobsInv *)

\* Only a published encode completes a job.
RecordTrue(j) ==
    /\ rec[j].fin = "completed" => rec[j].encoded
    /\ rec[j].status = "completed" => rec[j].fin = "completed"

\* A runner at work on its job has a true copy of its record, so that its
\* terminal save, which writes the copy, writes nothing that is out of date.
AtWork == {"encode", "finalize", "publish", "complete"}
CopyTrue(r) ==
    /\ run[r].snap.fin = "completed" => run[r].snap.encoded
    /\ run[r].place \in AtWork => run[r].snap = RecordOf(r)
    /\ run[r].place = "publish" => RecordOf(r).encoded
    /\ run[r].place = "complete" => RecordOf(r).fin = "completed"

PublishedInv ==
    /\ \A j \in Kept : RecordTrue(j)
    /\ \A r \in Runners : run[r].place # "free" /\ JobOf(r) \in Kept => CopyTrue(r)

\* To the engine a job that no crash orphaned does what ActionEngine lets its
\* worker's jobs do: it never reopens, it is completed only with a result, and a
\* result stays.
ImplementsEngineWorker ==
    /\ \A j \in Jobs : EngineJobs(j) = [a \in {1} |-> "none"] /\ EngineEncoded(j) = {}
    /\ [][\A j \in Kept : j \notin stray' => EngineMove(j)]_<<rec, stray>>

=============================================================================
