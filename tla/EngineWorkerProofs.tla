------------------------- MODULE EngineWorkerProofs -------------------------
(***************************************************************************)
(* One job of WorkerQueue implements the worker that ActionEngine assumes, *)
(* for any number of jobs, processes and faults.                           *)
(***************************************************************************)
EXTENDS EngineWorker, WorkerQueueProofs

USE DEF Live, Terminal

\* The steps of the server, as against those of the runners.
ServerMove ==
    \/ \E j \in Jobs : Request(j)
    \/ Hold \/ QueueStarts \/ ResumeStarts \/ Pass \/ Crash \/ Startup

\* What a move of a record's status is to the engine.
LEMMA MoveIsSeen ==
    ASSUME NEW j \in Jobs, RecordTrue(j), RecordTrue(j)',
           rec[j] \in Records, rec'[j] \in Records,
           \/ rec'[j] = rec[j]
           \/ rec[j].status = "none" /\ rec'[j].status \in Live
           \/ rec[j].status \in Live /\ rec'[j].status # "none"
    PROVE  EngineMove(j)
<1> DEFINE Kind(s) == IF s.status \in Live THEN "active"
                      ELSE IF s.status = "killed" THEN "failed" ELSE s.status
           Has(s) == s.status = "completed" /\ s.encoded /\ s.fin = "completed"
<1>1. /\ EngineJobs(j) = [a \in {1} |-> Kind(rec[j])]
      /\ EngineJobs(j)' = [a \in {1} |-> Kind(rec'[j])]
      /\ EngineEncoded(j) = IF Has(rec[j]) THEN {1} ELSE {}
      /\ EngineEncoded(j)' = IF Has(rec'[j]) THEN {1} ELSE {}
  BY DEF EngineJobs, EngineEncoded, Shown, Fetchable
<1>2. CASE rec'[j] = rec[j]
  <2>1. EngineJobs(j)' = EngineJobs(j) /\ UNCHANGED EngineEncoded(j)
    BY <1>1, <1>2
  <2>2. EngineJobs(j)' \in {Engine(j)!Accepted(1), Engine(j)!Cancelled(1)}
    BY <2>1, <1>1 DEF Engine!Accepted, Engine!Cancelled, Engine!Running
  <2> QED BY <2>1, <2>2 DEF EngineMove
<1>3. CASE rec[j].status = "none" /\ rec'[j].status \in Live
  <2>1. EngineJobs(j)' = Engine(j)!Accepted(1)
    BY <1>1, <1>3 DEF Engine!Accepted
  <2>2. UNCHANGED EngineEncoded(j)
    BY <1>1, <1>3
  <2> QED BY <2>1, <2>2 DEF EngineMove
<1>4. CASE rec[j].status \in Live /\ rec'[j].status \in Live
  <2>1. EngineJobs(j)' = Engine(j)!Accepted(1)
    BY <1>1, <1>4 DEF Engine!Accepted
  <2>2. UNCHANGED EngineEncoded(j)
    BY <1>1, <1>4
  <2> QED BY <2>1, <2>2 DEF EngineMove
<1>5. CASE rec[j].status \in Live /\ rec'[j].status = "cancelled"
  <2>1. EngineJobs(j)' = Engine(j)!Cancelled(1)
    BY <1>1, <1>5 DEF Engine!Cancelled, Engine!Running
  <2>2. UNCHANGED EngineEncoded(j)
    BY <1>1, <1>5
  <2> QED BY <2>1, <2>2 DEF EngineMove
<1>6. CASE rec[j].status \in Live /\ rec'[j].status \in {"completed", "failed", "killed"}
  <2> DEFINE end == IF rec'[j].status = "completed" THEN "completed" ELSE "failed"
  <2>1. EngineJobs(j)[1] = "active" /\ end \in {"completed", "missed", "failed"}
    BY <1>1, <1>6
  <2>2. EngineJobs(j)' = [EngineJobs(j) EXCEPT ![1] = end]
    BY <1>1, <1>6
  <2>3. EngineEncoded(j)' = IF end \in {"completed", "retained"} THEN EngineEncoded(j) \cup {1}
                            ELSE EngineEncoded(j)
    BY <1>1, <1>6 DEF RecordTrue
  <2> QED BY <2>1, <2>2, <2>3 DEF EngineMove, Engine!WorkerEnds, Engine!budgets
<1> QED BY <1>2, <1>3, <1>4, <1>5, <1>6 DEF Records

-----------------------------------------------------------------------------
(* The server's steps *)

\* The server finds nothing to do about a job that is at work.
LEMMA WorkIsLeft ==
    ASSUME JobsInv, NEW r \in Runners, run[r].place \in AtWork, NEW j \in Kept, JobOf(r) = j
    PROVE  /\ rec[j].status \in Live /\ marker[j] = "none"
           /\ HasProcess(j) /\ ~Stopped(j) /\ Counted[j] = rec[j]
           /\ ~Startable(j) /\ ~PostEncodeResume(rec[j])
           /\ Reconciled(j) = rec[j]
           /\ ~PassHolds(j) /\ cancelling[j] # "killed"
<1>1. /\ j \in Jobs /\ OwnerKnown(r) /\ run[r].place \notin {"free", "load", "claim", "mark"}
      /\ marker[j] = "none"
  BY RunnerFacts DEF AtWork
<1>2. ~PassHolds(j)
  BY <1>1 DEF JobsInv, LocksExclude, OwnerKnown, PassHolds
<1>3. rec[j].status \in Live /\ rec[j].pid = r /\ cancelling[j] = "no"
  BY <1>1, <1>2 DEF OwnerKnown
<1>4. HasProcess(j) /\ rec[j].pid # NoRunner
  BY <1>1, <1>3, RunnersAssumption DEF HasProcess, Alive
<1>5. ~Stopped(j) /\ ~Startable(j) /\ ~PostEncodeResume(rec[j]) /\ Reconciled(j) = rec[j]
  BY <1>1, <1>4 DEF Stopped, Startable, PostEncodeResume, Reconciled
<1> QED BY <1>1, <1>2, <1>3, <1>4, <1>5 DEF Counted

\* What the server may write of a job that no crash orphaned.
ServerWrites(j) ==
    \/ rec'[j] = rec[j]
    \/ rec[j] = NoRecord /\ rec'[j] = [NoRecord EXCEPT !.status = "queued"]
    \/ /\ rec[j].status \in Live
       /\ rec'[j].status \notin {"none", "completed"}
       /\ rec'[j].encoded = rec[j].encoded /\ rec'[j].fin = rec[j].fin

\* A repair never completes a job, and keeps its checkpoints.
LEMMA RepairWrites ==
    ASSUME JobsInv, NEW j \in Kept
    PROVE  /\ Stopped(j) /\ rec'[j] = Recovered(j) => ServerWrites(j)
           /\ rec'[j] = Counted[j] => ServerWrites(j)
           /\ rec'[j] = Reconciled(j) => ServerWrites(j)
           /\ rec[j].status \in Live =>
                /\ rec'[j] = [Counted[j] EXCEPT !.pid = NoRunner] => ServerWrites(j)
                /\ \A p \in Runners \cup {NoRunner} : rec'[j] = [rec[j] EXCEPT !.pid = p] => ServerWrites(j)
                /\ \A status \in {"failed", "killed", "cancelled"} :
                        rec'[j] = Ended(rec[j], status) => ServerWrites(j)
<1>1. rec[j] \in Records /\ marker[j] \in {"none"} \cup Terminal
  BY DEF JobsInv, TypeOK, Kept
<1>2. rec[j].status = "running" => marker[j] = "none"
  BY <1>1 DEF JobsInv, MarkerAgrees
<1>3. Stopped(j) =>
        /\ Recovered(j).status \in {"running", "queued", "killed"}
        /\ Recovered(j).encoded = rec[j].encoded /\ Recovered(j).fin = rec[j].fin
        /\ Recovered(j) \in Records
        /\ rec[j].status \in Live
  BY <1>1 DEF Recovered, Ended, Records, Stopped
<1>4. Stopped(j) /\ rec'[j] = Recovered(j) => ServerWrites(j)
  BY <1>3 DEF ServerWrites
<1>5. rec'[j] = Counted[j] => ServerWrites(j)
  BY <1>4 DEF Counted, ServerWrites, Kept
<1>6. rec'[j] = Reconciled(j) => ServerWrites(j)
  BY <1>1, <1>2 DEF Reconciled, Ended, Records, ServerWrites
<1>7. ASSUME rec[j].status \in Live, rec'[j] = [Counted[j] EXCEPT !.pid = NoRunner]
      PROVE  ServerWrites(j)
  <2>1. /\ Counted[j] \in Records /\ Counted[j].status \in {"running", "queued", "killed"}
        /\ Counted[j].encoded = rec[j].encoded /\ Counted[j].fin = rec[j].fin
    BY <1>1, <1>3, <1>7 DEF Counted, Kept
  <2> QED BY <1>7, <2>1 DEF ServerWrites, Records
<1>8. ASSUME rec[j].status \in Live, NEW p, rec'[j] = [rec[j] EXCEPT !.pid = p]
      PROVE  ServerWrites(j)
  BY <1>1, <1>8 DEF ServerWrites, Records
<1>9. ASSUME rec[j].status \in Live, NEW status \in {"failed", "killed", "cancelled"},
             rec'[j] = Ended(rec[j], status)
      PROVE  ServerWrites(j)
  BY <1>1, <1>9 DEF ServerWrites, Records, Ended
<1> QED BY <1>4, <1>5, <1>6, <1>7, <1>8, <1>9

LEMMA ServerRecords ==
    ASSUME JobsInv, ServerMove, NEW j \in Kept
    PROVE  ServerWrites(j)
<1>0. /\ j \in Jobs /\ rec \in [Jobs -> Records] /\ rec[j] \in Records
      /\ sched.runner \in Runners \cup {NoRunner}
  BY DEF JobsInv, TypeOK, Kept, Passes
<1>1. ASSUME rec'[j] = rec[j] PROVE ServerWrites(j)
  BY <1>1 DEF ServerWrites
<1>2. ASSUME NEW records, QueuePassFrom(records), rec'[j] = records[j] => ServerWrites(j)
      PROVE  ServerWrites(j)
  BY <1>0, <1>1, <1>2, RepairWrites DEF QueuePassFrom
<1>3. ASSUME NEW i \in Jobs, Request(i) PROVE ServerWrites(j)
  <2>1. CASE SubmitNew(i)
    <3> DEFINE new == [rec EXCEPT ![i] = [NoRecord EXCEPT !.status = "queued"]]
    <3>1. rec'[j] = new[j] => ServerWrites(j)
      BY <1>0, <2>1 DEF SubmitNew, ServerWrites, JobsInv, LocksExclude
    <3> QED BY <1>2, <2>1, <3>1 DEF SubmitNew
  <2>2. CASE SubmitAgain(i)
    <3> DEFINE new == IF HasProcess(i) THEN rec ELSE [rec EXCEPT ![i].pid = NoRunner]
    <3>1. CASE rec[i].status = "queued" /\ QueuePassFrom(new)
      <4>1. rec'[j] = new[j] => ServerWrites(j)
        BY <1>0, <1>1, <3>1, RepairWrites
      <4> QED BY <1>2, <3>1, <4>1
    <3>2. CASE /\ Stopped(i)
               /\ rec' = IF PostEncodeFinished(rec[i]) THEN [rec EXCEPT ![i].pid = NoRunner]
                         ELSE [rec EXCEPT ![i] = Ended(@, "killed")]
      BY <1>0, <1>1, <3>2, RepairWrites DEF Stopped
    <3> QED BY <2>2, <3>1, <3>2 DEF SubmitAgain
  <2>3. CASE Status(i)
    BY <1>0, <1>1, <2>3, RepairWrites DEF Status
  <2>4. CASE CancelKills(i) \/ CancelMarks(i)
    BY <1>1, <2>4 DEF CancelKills, CancelMarks, jobVars
  <2>5. CASE CancelSaves(i)
    <3>1. rec[i].status \in Live
      BY <2>5 DEF CancelSaves, JobsInv, LocksExclude
    <3> QED BY <1>0, <1>1, <2>5, <3>1, RepairWrites DEF CancelSaves
  <2>6. CASE RetryPublication(i)
    BY <1>0, <1>1, <2>6 DEF RetryPublication, PostEncodeResume, ServerWrites, Records
  <2> QED BY <1>3, <2>1, <2>2, <2>3, <2>4, <2>5, <2>6 DEF Request
<1>4. ASSUME Hold \/ QueueStarts \/ ResumeStarts \/ Crash \/ Startup PROVE ServerWrites(j)
  BY <1>0, <1>1, <1>2, <1>4, RepairWrites
     DEF Hold, QueueStarts, ResumeStarts, Crash, Startup, Restart, StartupReconciles,
         StartupResumes, StartupEnds, jobVars
<1>5. ASSUME NEW i \in Jobs, QueueTakes(i) PROVE ServerWrites(j)
  <2> DEFINE free == [Counted EXCEPT ![i].pid = NoRunner]
  <2>1. \/ UNCHANGED rec
        \/ Startable(i) /\ rec' = free
        \/ Startable(i) /\ rec' = [free EXCEPT ![i].status = "failed"]
    BY <1>5 DEF QueueTakes
  <2>2. free[j] = IF j = i THEN [Counted[j] EXCEPT !.pid = NoRunner] ELSE Counted[j]
    BY <1>0 DEF Counted
  <2>3. j # i => [free EXCEPT ![i].status = "failed"][j] = Counted[j]
    BY <1>0 DEF Counted
  <2>4. [free EXCEPT ![i].status = "failed"][i] = [free[i] EXCEPT !.status = "failed"]
    BY DEF Counted
  <2> HIDE DEF free
  <2>5. CASE Startable(i) /\ rec' = free
    BY <2>2, <2>5, RepairWrites DEF Startable
  <2>6. CASE Startable(i) /\ rec' = [free EXCEPT ![i].status = "failed"]
    <3>1. CASE j # i
      BY <2>3, <2>6, <3>1, RepairWrites
    <3>2. CASE j = i
      <4>1. Counted[j] = rec[j] /\ rec[j].status \in Live
        BY <1>0, <2>6, <3>2 DEF Startable, Counted, Stopped
      <4>2. rec'[j] = [[rec[j] EXCEPT !.pid = NoRunner] EXCEPT !.status = "failed"]
        BY <2>2, <2>4, <2>6, <3>2, <4>1
      <4> QED BY <1>0, <4>1, <4>2 DEF ServerWrites, Records
    <3> QED BY <3>1, <3>2
  <2> QED BY <1>1, <2>1, <2>5, <2>6
<1>6. ASSUME NEW i \in Jobs, QueueRecords(i) \/ ResumeRecords(i) PROVE ServerWrites(j)
  <2>1. rec[i].status \in Live
    BY <1>6 DEF QueueRecords, ResumeRecords, PassHolds, JobsInv, LocksExclude
  <2> QED BY <1>0, <1>1, <1>6, <2>1, RepairWrites DEF QueueRecords, ResumeRecords
<1>7. ASSUME NEW i \in Jobs, ResumeSkips(i) \/ ResumeTakes(i) PROVE ServerWrites(j)
  <2>1. CASE ResumeSkips(i)
    BY <1>1, <2>1 DEF ResumeSkips, jobVars
  <2>2. CASE ResumeTakes(i)
    <3>1. CASE j # i
      BY <1>0, <1>1, <2>2, <3>1 DEF ResumeTakes
    <3>2. CASE j = i
      <4>1. /\ rec[j].status = "running"
            /\ rec'[j] \in {Reserved(rec[j]), [Reserved(rec[j]) EXCEPT !.permanent = FALSE]}
        BY <1>0, <2>2, <3>2 DEF ResumeTakes, PostEncodeResume
      <4>2. \A s \in {Reserved(rec[j]), [Reserved(rec[j]) EXCEPT !.permanent = FALSE]} :
                s.status = rec[j].status /\ s.encoded = rec[j].encoded /\ s.fin = rec[j].fin
        BY <1>0 DEF Reserved, Records
      <4> QED BY <4>1, <4>2 DEF ServerWrites
    <3> QED BY <3>1, <3>2
  <2> QED BY <1>7, <2>1, <2>2
<1>8. Pass => ServerWrites(j)
  BY <1>1, <1>5, <1>6, <1>7 DEF Pass, Dropped, jobVars
<1> QED BY <1>3, <1>4, <1>8 DEF ServerMove

LEMMA ServerKeepsWork ==
    ASSUME JobsInv, ServerMove, NEW r \in Runners, run[r].place \in AtWork,
           NEW j \in Kept, JobOf(r) = j
    PROVE  rec'[j] = rec[j]
<1>0. j \in Jobs /\ rec \in [Jobs -> Records] /\ rec[j] \in Records
  BY DEF JobsInv, TypeOK, Kept
<1>1. /\ rec[j].status \in Live /\ HasProcess(j)
      /\ ~Stopped(j) /\ Counted[j] = rec[j] /\ ~Startable(j) /\ ~PostEncodeResume(rec[j])
      /\ Reconciled(j) = rec[j] /\ ~PassHolds(j) /\ cancelling[j] # "killed"
  BY WorkIsLeft
<1>2. ASSUME NEW records, QueuePassFrom(records), records[j] = rec[j] PROVE rec'[j] = rec[j]
  BY <1>0, <1>1, <1>2 DEF QueuePassFrom
<1>3. ASSUME NEW i \in Jobs, Request(i) PROVE rec'[j] = rec[j]
  <2>1. CASE SubmitNew(i)
    BY <1>0, <1>1, <1>2, <2>1 DEF SubmitNew
  <2>2. CASE SubmitAgain(i)
    BY <1>0, <1>1, <1>2, <2>2 DEF SubmitAgain
  <2>3. CASE Status(i)
    BY <1>0, <1>1, <2>3 DEF Status
  <2>4. CASE CancelKills(i) \/ CancelMarks(i)
    BY <2>4 DEF CancelKills, CancelMarks, jobVars
  <2>5. CASE CancelSaves(i)
    BY <1>0, <1>1, <2>5 DEF CancelSaves
  <2>6. CASE RetryPublication(i)
    BY <1>0, <1>1, <2>6 DEF RetryPublication
  <2> QED BY <1>3, <2>1, <2>2, <2>3, <2>4, <2>5, <2>6 DEF Request
<1>4. ASSUME Hold \/ QueueStarts \/ ResumeStarts \/ Crash \/ Startup PROVE rec'[j] = rec[j]
  BY <1>0, <1>1, <1>2, <1>4
     DEF Hold, QueueStarts, ResumeStarts, Crash, Startup, Restart, StartupReconciles,
         StartupResumes, StartupEnds, jobVars
<1>5. ASSUME NEW i \in Jobs, QueueTakes(i) PROVE rec'[j] = rec[j]
  <2> DEFINE free == [Counted EXCEPT ![i].pid = NoRunner]
  <2>1. i # j => free[j] = rec[j] /\ [free EXCEPT ![i].status = "failed"][j] = rec[j]
    BY <1>0, <1>1 DEF Counted
  <2>2. \/ UNCHANGED rec
        \/ Startable(i) /\ rec' \in {free, [free EXCEPT ![i].status = "failed"]}
    BY <1>5 DEF QueueTakes
  <2> HIDE DEF free
  <2> QED BY <1>1, <2>1, <2>2
<1>6. ASSUME NEW i \in Jobs, QueueRecords(i) \/ ResumeRecords(i) PROVE rec'[j] = rec[j]
  BY <1>0, <1>1, <1>6 DEF QueueRecords, ResumeRecords
<1>7. ASSUME NEW i \in Jobs, ResumeSkips(i) \/ ResumeTakes(i) PROVE rec'[j] = rec[j]
  BY <1>0, <1>1, <1>7 DEF ResumeSkips, ResumeTakes, jobVars
<1>8. Pass => rec'[j] = rec[j]
  BY <1>5, <1>6, <1>7 DEF Pass, Dropped, jobVars
<1> QED BY <1>3, <1>4, <1>8 DEF ServerMove

\* It neither makes a process go on nor gives it another copy.
LEMMA ServerLeavesCopies ==
    ASSUME JobsInv, ServerMove, NEW r \in Runners, run'[r].place # "free"
    PROVE  run'[r] = run[r] \/ (run'[r].place = "load" /\ run'[r].snap = NoRecord)
<1> DEFINE Goal == run'[r] = run[r] \/ (run'[r].place = "load" /\ run'[r].snap = NoRecord)
<1>0. run \in [Runners -> Processes]
  BY DEF JobsInv, TypeOK
<1>1. ASSUME NEW q, run' = [run EXCEPT ![q] = NoProcess] PROVE Goal
  BY <1>0, <1>1 DEF NoProcess
<1>2. ASSUME NEW q, NEW j, run' = Spawned(q, j) PROVE Goal
  BY <1>0, <1>2 DEF Spawned
<1>3. UNCHANGED run => Goal
  OBVIOUS
<1> HIDE DEF Goal
<1>4. ASSUME NEW j \in Jobs, Request(j) PROVE Goal
  BY <1>1, <1>3, <1>4
     DEF Request, SubmitNew, SubmitAgain, Status, CancelKills, CancelSaves, CancelMarks,
         RetryPublication
<1>5. ASSUME NEW j \in Jobs,
             QueueTakes(j) \/ QueueRecords(j) \/ ResumeSkips(j) \/ ResumeTakes(j) \/ ResumeRecords(j)
      PROVE  Goal
  BY <1>1, <1>2, <1>3, <1>5 DEF QueueTakes, QueueRecords, ResumeSkips, ResumeTakes, ResumeRecords
<1>6. ASSUME Hold \/ QueueStarts \/ ResumeStarts \/ Dropped \/ Crash \/ Startup
      PROVE  Goal
  BY <1>3, <1>6
     DEF Hold, QueueStarts, ResumeStarts, Dropped, Crash, Startup, Restart,
         StartupReconciles, StartupResumes, StartupEnds
<1>7. Goal
  BY <1>4, <1>5, <1>6 DEF ServerMove, Pass
<1> QED BY <1>7 DEF Goal

LEMMA RecordTyped ==
    ASSUME JobsInv, NEW j \in Kept
    PROVE  j \in Jobs /\ rec[j] \in Records
BY DEF JobsInv, TypeOK, Kept

LEMMA ServerStepKeeps ==
    ASSUME JobsInv, JobsInv', PublishedInv, ServerMove, stray \subseteq stray'
    PROVE  PublishedInv'
<1>1. ASSUME NEW j \in Kept' PROVE RecordTrue(j)'
  <2>1. j \in Kept /\ rec[j] \in Records /\ RecordTrue(j)
    BY RecordTyped DEF Kept, PublishedInv
  <2>2. ServerWrites(j)
    BY <2>1, ServerRecords
  <2> QED BY <2>1, <2>2 DEF ServerWrites, RecordTrue, NoRecord
<1>2. ASSUME NEW r \in Runners, run'[r].place # "free", JobOf(r)' \in Kept' PROVE CopyTrue(r)'
  <2>1. CASE run'[r] = run[r]
    <3>1. JobOf(r)' = JobOf(r) /\ JobOf(r) \in Kept
      BY <1>2, <2>1 DEF JobOf, Kept
    <3>2. CopyTrue(r)
      BY <1>2, <2>1, <3>1 DEF PublishedInv
    <3>3. run[r].place \in AtWork => rec'[JobOf(r)] = rec[JobOf(r)]
      BY <3>1, ServerKeepsWork
    <3> QED BY <2>1, <3>1, <3>2, <3>3 DEF CopyTrue, RecordOf, AtWork
  <2>2. CASE run'[r].place = "load" /\ run'[r].snap = NoRecord
    BY <2>2 DEF CopyTrue, AtWork, NoRecord
  <2> QED BY <1>2, <2>1, <2>2, ServerLeavesCopies
<1> QED BY <1>1, <1>2 DEF PublishedInv

-----------------------------------------------------------------------------
(* The runners' steps *)

\* What a runner's step leaves of its own job, if no crash orphaned that.
RunnerLeaves(r, k) ==
    /\ \A j \in Jobs : j # k => rec'[j] = rec[j]
    /\ \A q \in Runners : q # r => run'[q] = run[q]
    /\ run'[r].place # "free" => run'[r].job = k
    /\ k \in Kept =>
        /\ rec'[k] = rec[k] \/ (rec[k].status \in Live /\ rec'[k].status # "none")
        /\ RecordTrue(k)'
        /\ run'[r].place # "free" => CopyTrue(r)'

\* Who goes on without a change of the record.
LEMMA QuietLeaves ==
    ASSUME JobsInv, PublishedInv, NEW r \in Runners, run[r].place # "free", NEW k, k = JobOf(r),
           UNCHANGED rec,
           \/ Exits(r)
           \/ UNCHANGED run
           \/ Goes(r, "complete") /\ run[r].place = "finalize" /\ run[r].snap.fin = "completed"
           \/ GoesWith(r, "claim", rec[k]) /\ run[r].place = "load"
    PROVE  RunnerLeaves(r, k)
<1>1. /\ run \in [Runners -> Processes] /\ run[r] \in Processes /\ run[r].job = k /\ k \in Jobs
      /\ k \in Kept => RecordTrue(k) /\ CopyTrue(r)
  BY RunnerFacts DEF JobsInv, TypeOK, PublishedInv
<1>2. /\ \A q \in Runners : q # r => run'[q] = run[q]
      /\ run'[r].place # "free" => run'[r].job = k
  BY <1>1 DEF Exits, Goes, GoesWith, NoProcess, Processes
<1>3. k \in Kept => RecordTrue(k)'
  BY <1>1 DEF RecordTrue
<1>4. ASSUME k \in Kept, run'[r].place # "free" PROVE CopyTrue(r)'
  <2>1. CASE UNCHANGED run
    BY <1>1, <1>4, <2>1 DEF CopyTrue, RecordOf, JobOf
  <2>2. CASE Exits(r)
    BY <1>1, <1>4, <2>2 DEF Exits, NoProcess
  <2>3. CASE Goes(r, "complete") /\ run[r].place = "finalize" /\ run[r].snap.fin = "completed"
    <3>1. run'[r].job = k /\ run'[r].place = "complete" /\ run'[r].snap = run[r].snap
      BY <1>1, <2>3 DEF Goes, Processes
    <3>2. run[r].snap = rec[k]
      BY <1>1, <1>4, <2>3 DEF CopyTrue, AtWork, RecordOf
    <3> QED BY <1>1, <1>4, <2>3, <3>1, <3>2 DEF CopyTrue, RecordOf, RecordTrue, JobOf
  <2>4. CASE GoesWith(r, "claim", rec[k])
    <3>1. run'[r].job = k /\ run'[r].place = "claim"
      BY <1>1, <2>4 DEF GoesWith, Processes
    <3>2. run'[r].snap = rec[k]
      BY <1>1, <2>4 DEF GoesWith, Processes
    <3> QED BY <1>1, <1>4, <3>1, <3>2 DEF CopyTrue, AtWork, RecordTrue
  <2> QED BY <2>1, <2>2, <2>3, <2>4
<1> QED BY <1>2, <1>3, <1>4 DEF RunnerLeaves

\* A runner that saves a record and goes on with it as its copy.
LEMMA SaveLeaves ==
    ASSUME JobsInv, PublishedInv, NEW r \in Runners, run[r].place # "free", NEW k, k = JobOf(r),
           NEW place, NEW new, rec' = [rec EXCEPT ![k] = new],
           Exits(r) \/ GoesWith(r, place, new),
           k \in Kept =>
               /\ rec[k].status \in Live /\ new.status # "none"
               /\ new.fin = "completed" => new.encoded
               /\ new.status = "completed" => new.fin = "completed"
               /\ place = "publish" => new.encoded
               /\ place = "complete" => new.fin = "completed"
    PROVE  RunnerLeaves(r, k)
<1>1. /\ run \in [Runners -> Processes] /\ run[r] \in Processes /\ run[r].job = k /\ k \in Jobs
      /\ rec \in [Jobs -> Records]
  BY RunnerFacts DEF JobsInv, TypeOK
<1>2. /\ \A q \in Runners : q # r => run'[q] = run[q]
      /\ rec'[k] = new /\ \A j \in Jobs : j # k => rec'[j] = rec[j]
  BY <1>1 DEF Exits, GoesWith
<1>3. run'[r].place # "free" => run'[r].job = k /\ run'[r].snap = new /\ run'[r].place = place
  BY <1>1 DEF Exits, GoesWith, NoProcess, Processes
<1>4. k \in Kept => RecordTrue(k)'
  BY <1>2 DEF RecordTrue
<1>5. k \in Kept /\ run'[r].place # "free" => CopyTrue(r)'
  BY <1>2, <1>3 DEF CopyTrue, RecordOf, JobOf
<1> QED BY <1>2, <1>3, <1>4, <1>5 DEF RunnerLeaves

\* What the step may take for granted of a job at work.
LEMMA OpenJob ==
    ASSUME JobsInv, PublishedInv, NEW r \in Runners, run[r].place \notin {"free", "mark"},
           NEW k, k = JobOf(r)
    PROVE  /\ k \in Jobs /\ rec[k] \in Records /\ run[r].snap \in Records
           /\ k \in Kept =>
                /\ rec[k].status \in Live /\ RecordTrue(k)
                /\ run[r].snap.fin = "completed" => run[r].snap.encoded
                /\ run[r].place \in AtWork => run[r].snap = rec[k]
                /\ run[r].place = "publish" => rec[k].encoded
                /\ run[r].place = "complete" => rec[k].encoded /\ rec[k].fin = "completed"
<1>1. /\ k \in Jobs /\ rec[k] \in Records /\ run[r].snap \in Records
      /\ k \in Kept => OwnerKnown(r) /\ RecordTrue(k) /\ CopyTrue(r)
  BY RunnerFacts DEF PublishedInv
<1>2. k \in Kept => rec[k].status \in Live
  BY <1>1 DEF OwnerKnown
<1> QED BY <1>1, <1>2 DEF CopyTrue, RecordTrue, RecordOf, AtWork

LEMMA ProgressLeaves ==
    ASSUME JobsInv, PublishedInv, NEW r \in Runners, run[r].place \notin {"free", "mark"},
           NEW k, k = JobOf(r), NEW place, NEW new, Progress(r, new, place),
           k \in Kept =>
               /\ new.status \in Live
               /\ new.fin = "completed" => new.encoded
               /\ place = "publish" => new.encoded
               /\ place = "complete" => new.fin = "completed"
    PROVE  RunnerLeaves(r, k)
<1>1. k \in Kept => rec[k].status \in Live
  BY OpenJob
<1>2. CASE rec[k].status = "cancelled" /\ Exits(r) /\ UNCHANGED rec
  BY <1>2, QuietLeaves
<1>3. CASE /\ rec' = [rec EXCEPT ![k] = new]
           /\ Exits(r) \/ GoesWith(r, place, new)
  BY <1>1, <1>3, SaveLeaves
<1> QED BY <1>2, <1>3 DEF Progress

LEMMA TerminateLeaves ==
    ASSUME JobsInv, PublishedInv, NEW r \in Runners, run[r].place \notin {"free", "mark"},
           NEW k, k = JobOf(r), NEW status \in {"completed", "failed"}, Terminate(r, status),
           k \in Kept =>
               /\ run[r].snap.fin = "completed" => run[r].snap.encoded
               /\ status = "completed" => run[r].snap.fin = "completed"
    PROVE  RunnerLeaves(r, k)
<1> DEFINE new == Ended(run[r].snap, status)
<1>1. /\ k \in Kept => rec[k].status \in Live
      /\ new.status = status /\ new.fin = run[r].snap.fin /\ new.encoded = run[r].snap.encoded
  BY OpenJob DEF Ended, Records
<1>2. CASE rec[k].status = "cancelled" /\ Exits(r) /\ UNCHANGED rec
  BY <1>2, QuietLeaves
<1>3. CASE rec' = [rec EXCEPT ![k] = new] /\ GoesWith(r, "mark", new)
  <2> HIDE DEF new
  <2> QED BY <1>1, <1>3, SaveLeaves
<1> QED BY <1>2, <1>3 DEF Terminate

LEMMA RunnerStepLeaves ==
    ASSUME JobsInv, PublishedInv, NEW r \in Runners, Works(r) \/ Refuse(r) \/ Dies(r),
           NEW k, k = JobOf(r)
    PROVE  run[r].place # "free" /\ RunnerLeaves(r, k)
<1>0. /\ run[r].place # "free" /\ RecordOf(r) = rec[k]
      /\ Works(r) \/ Refuse(r) => Mark(r) \/ run[r].place # "mark"
  BY DEF Works, Refuse, Dies, Load, ClaimRunner, Encode, Checkpoint, Finalize, Publish, Complete,
         Mark, RecordOf
<1> SUFFICES RunnerLeaves(r, k)
  BY <1>0
<1>a. CASE Mark(r) \/ Dies(r)
  <2>1. UNCHANGED rec /\ Exits(r)
    BY <1>a DEF Mark, Dies, jobVars
  <2> QED BY <1>0, <2>1, QuietLeaves
<1>b. CASE run[r].place # "mark" /\ ~Dies(r)
  <2>0. /\ k \in Jobs /\ rec[k] \in Records /\ run[r].snap \in Records
        /\ k \in Kept =>
             /\ rec[k].status \in Live /\ RecordTrue(k)
             /\ run[r].snap.fin = "completed" => run[r].snap.encoded
             /\ run[r].place \in AtWork => run[r].snap = rec[k]
             /\ run[r].place = "publish" => rec[k].encoded
             /\ run[r].place = "complete" => rec[k].encoded /\ rec[k].fin = "completed"
    BY <1>0, <1>b, OpenJob
  <2>1. CASE Load(r)
    BY <1>0, <2>1, QuietLeaves DEF Load, jobVars
  <2>2. CASE ClaimRunner(r)
    <3> DEFINE mine == [rec[k] EXCEPT !.pid = r, !.status = "running"]
               place == IF PostEncodeResume(run[r].snap) \/ rec[k].encoded THEN "finalize" ELSE "encode"
    <3>1. CASE Exits(r) /\ UNCHANGED rec
      BY <1>0, <3>1, QuietLeaves
    <3>2. CASE rec' = [rec EXCEPT ![k] = mine] /\ GoesWith(r, place, mine)
      <4>1. mine.status = "running" /\ mine.fin = rec[k].fin /\ mine.encoded = rec[k].encoded
        BY <2>0 DEF Records
      <4>2. place \notin {"publish", "complete"}
        OBVIOUS
      <4> HIDE DEF mine, place
      <4> QED BY <1>0, <2>0, <3>2, <4>1, <4>2, SaveLeaves DEF RecordTrue
    <3> QED BY <2>2, <3>1, <3>2 DEF ClaimRunner
  <2>3. CASE Refuse(r)
    BY <1>0, <1>b, <2>0, <2>3, TerminateLeaves DEF Refuse
  <2>4. CASE Complete(r)
    BY <1>0, <1>b, <2>0, <2>4, TerminateLeaves DEF Complete, AtWork
  <2>5. ASSUME FinalizationFails(r) PROVE RunnerLeaves(r, k)
    <3>1. PICK permanent \in BOOLEAN :
            Progress(r, [rec[k] EXCEPT
                            !.status = "running", !.pid = NoRunner, !.encoded = TRUE,
                            !.fin = IF PostEncodeFinished(rec[k]) THEN rec[k].fin ELSE "pending",
                            !.permanent = permanent], "free")
      BY <1>0, <2>5 DEF FinalizationFails
    <3> DEFINE new == [rec[k] EXCEPT
                            !.status = "running", !.pid = NoRunner, !.encoded = TRUE,
                            !.fin = IF PostEncodeFinished(rec[k]) THEN rec[k].fin ELSE "pending",
                            !.permanent = permanent]
    <3>2. new.status = "running" /\ new.encoded
      BY <2>0 DEF Records
    <3>3. Progress(r, new, "free")
      BY <3>1
    <3> HIDE DEF new
    <3> QED BY <1>0, <1>b, <3>2, <3>3, ProgressLeaves
  <2>6. CASE Encode(r)
    <3>1. CASE Terminate(r, "failed")
      BY <1>0, <1>b, <2>0, <3>1, TerminateLeaves
    <3>2. CASE Progress(r, rec[k], "encode")
      BY <1>0, <1>b, <2>0, <3>2, ProgressLeaves DEF RecordTrue
    <3>3. CASE UNCHANGED <<rec, run>>
      BY <1>0, <3>3, QuietLeaves
    <3> QED BY <1>0, <2>6, <3>1, <3>2, <3>3 DEF Encode
  <2>7. CASE Checkpoint(r)
    <3> DEFINE new == [rec[k] EXCEPT !.encoded = TRUE]
    <3>1. new.encoded /\ new.status = rec[k].status
      BY <2>0 DEF Records
    <3>2. Progress(r, new, "finalize")
      BY <1>0, <2>7 DEF Checkpoint
    <3> HIDE DEF new
    <3> QED BY <1>0, <1>b, <2>0, <3>1, <3>2, ProgressLeaves
  <2>8. CASE Finalize(r)
    <3> DEFINE new == [rec[k] EXCEPT !.encoded = TRUE, !.fin = "finalizing"]
    <3>1. new.encoded /\ new.status = rec[k].status
      BY <2>0 DEF Records
    <3>2. \/ Progress(r, new, "publish")
          \/ run[r].place = "finalize" /\ run[r].snap.fin = "completed" /\ Goes(r, "complete") /\ UNCHANGED rec
          \/ FinalizationFails(r)
      BY <1>0, <2>8 DEF Finalize
    <3> HIDE DEF new
    <3>3. CASE Progress(r, new, "publish")
      BY <1>0, <1>b, <2>0, <3>1, <3>3, ProgressLeaves
    <3>4. CASE run[r].place = "finalize" /\ run[r].snap.fin = "completed" /\ Goes(r, "complete") /\ UNCHANGED rec
      BY <1>0, <3>4, QuietLeaves
    <3> QED BY <2>5, <3>2, <3>3, <3>4
  <2>9. CASE Publish(r)
    <3> DEFINE new == [rec[k] EXCEPT !.fin = "completed"]
    <3>1. new.encoded = rec[k].encoded /\ new.status = rec[k].status /\ new.fin = "completed"
      BY <2>0 DEF Records
    <3>2. Progress(r, new, "complete") \/ FinalizationFails(r)
      BY <1>0, <2>9 DEF Publish
    <3>3. run[r].place = "publish"
      BY <2>9 DEF Publish
    <3> HIDE DEF new
    <3>4. CASE Progress(r, new, "complete")
      BY <1>0, <1>b, <2>0, <3>1, <3>3, <3>4, ProgressLeaves
    <3> QED BY <2>5, <3>2, <3>4
  <2>10. ~Mark(r)
    BY <1>b DEF Mark
  <2> QED BY <1>b, <2>1, <2>2, <2>3, <2>4, <2>6, <2>7, <2>8, <2>9, <2>10 DEF Works
<1> QED BY <1>0, <1>a, <1>b

LEMMA RunnerStepKeeps ==
    ASSUME JobsInv, PublishedInv, NEW r \in Runners, Works(r) \/ Refuse(r) \/ Dies(r),
           stray \subseteq stray'
    PROVE  PublishedInv'
<1> SUFFICES ASSUME NEW k, k = JobOf(r) PROVE PublishedInv'
  OBVIOUS
<1>1. run[r].place # "free" /\ RunnerLeaves(r, k)
  BY RunnerStepLeaves
<1>2. ASSUME NEW j \in Kept' PROVE RecordTrue(j)'
  <2>1. j \in Kept /\ j \in Jobs
    BY DEF Kept
  <2>2. CASE j = k
    BY <1>1, <2>1, <2>2 DEF RunnerLeaves
  <2>3. CASE j # k
    BY <1>1, <2>1, <2>3 DEF RunnerLeaves, PublishedInv, RecordTrue
  <2> QED BY <2>2, <2>3
<1>3. ASSUME NEW q \in Runners, run'[q].place # "free", JobOf(q)' \in Kept' PROVE CopyTrue(q)'
  <2>1. CASE q # r
    <3>1. run'[q] = run[q] /\ JobOf(q)' = JobOf(q) /\ JobOf(q) \in Kept /\ JobOf(q) \in Jobs
      BY <1>1, <1>3, <2>1 DEF RunnerLeaves, JobOf, Kept
    <3>2. JobOf(q) # k
      BY <1>1, <1>3, <2>1, <3>1 DEF JobsInv, OneRunnerKept
    <3>3. CopyTrue(q) /\ rec'[JobOf(q)] = rec[JobOf(q)]
      BY <1>1, <1>3, <3>1, <3>2 DEF RunnerLeaves, PublishedInv
    <3> QED BY <3>1, <3>3 DEF CopyTrue, RecordOf
  <2>2. CASE q = r
    <3>1. k \in Jobs
      BY <1>1, RunnerFacts
    <3>2. CASE k \in Kept
      BY <1>1, <1>3, <2>2, <3>2 DEF RunnerLeaves
    <3>3. CASE k \in stray
      <4>1. run'[r].job = k
        BY <1>1, <1>3, <2>2 DEF RunnerLeaves
      <4> QED BY <1>3, <2>2, <3>3, <4>1 DEF JobOf, Kept
    <3> QED BY <3>1, <3>2, <3>3 DEF Kept
  <2> QED BY <2>1, <2>2
<1> QED BY <1>2, <1>3 DEF PublishedInv

-----------------------------------------------------------------------------
(* The refinement *)

LEMMA NextSplits ==
    Next <=> ServerMove \/ \E r \in Runners : Works(r) \/ Refuse(r) \/ Dies(r)
BY DEF Next, ServerMove

LEMMA PublishedInit == Init => PublishedInv
BY DEF Init, PublishedInv, RecordTrue, CopyTrue, AtWork, NoRecord, NoProcess, Kept

LEMMA PublishedStep ==
    ASSUME JobsInv, JobsInv', PublishedInv, [Next]_vars
    PROVE  PublishedInv'
<1>1. stray \subseteq stray'
  BY StrayStays
<1>2. CASE Next
  BY <1>1, <1>2, NextSplits, ServerStepKeeps, RunnerStepKeeps
<1>3. CASE UNCHANGED vars
  BY <1>3 DEF vars, jobVars, history, PublishedInv, RecordTrue, CopyTrue, RecordOf, JobOf, Kept
<1> QED BY <1>2, <1>3

\* A terminal save writes a true copy, and only a published encode completes a
\* job, for any number of jobs, processes and faults.
THEOREM CopiesAreTrue == Spec => []PublishedInv
<1> QED BY JobsInvariance, PublishedInit, PublishedStep, PTL DEF Spec

\* What one step does to the status of a job that no crash orphaned.
LEMMA StatusMoves ==
    ASSUME JobsInv, PublishedInv, [Next]_vars, NEW j \in Kept
    PROVE  \/ rec'[j] = rec[j]
           \/ rec[j].status = "none" /\ rec'[j].status \in Live
           \/ rec[j].status \in Live /\ rec'[j].status # "none"
<1>1. CASE ServerMove
  <2>1. ServerWrites(j)
    BY <1>1, ServerRecords
  <2> QED BY <2>1 DEF ServerWrites, NoRecord
<1>2. ASSUME NEW r \in Runners, Works(r) \/ Refuse(r) \/ Dies(r), NEW k, k = JobOf(r)
      PROVE  \/ rec'[j] = rec[j]
             \/ rec[j].status \in Live /\ rec'[j].status # "none"
  BY <1>2, RunnerStepLeaves DEF RunnerLeaves, Kept
<1>3. CASE UNCHANGED vars
  BY <1>3 DEF vars, jobVars
<1> QED BY <1>1, <1>2, <1>3, NextSplits

\* To the engine a job that no crash orphaned does what ActionEngine lets its
\* worker's jobs do, for any number of jobs, processes and faults.
THEOREM Implementation == Spec => ImplementsEngineWorker
<1>1. Init => \A j \in Jobs : EngineJobs(j) = [a \in {1} |-> "none"] /\ EngineEncoded(j) = {}
  BY DEF Init, NoRecord, EngineJobs, EngineEncoded, Shown, Fetchable
<1>2. JobsInv /\ JobsInv' /\ PublishedInv /\ PublishedInv' /\ [Next]_vars =>
        [\A j \in Kept : j \notin stray' => EngineMove(j)]_<<rec, stray>>
  <2> SUFFICES ASSUME JobsInv, JobsInv', PublishedInv, PublishedInv', [Next]_vars,
                      NEW j \in Kept, j \notin stray'
               PROVE  EngineMove(j)
    OBVIOUS
  <2>1. j \in Jobs /\ rec[j] \in Records /\ rec'[j] \in Records
    BY DEF JobsInv, TypeOK, Kept
  <2>2. RecordTrue(j) /\ RecordTrue(j)'
    BY <2>1 DEF PublishedInv, Kept
  <2> QED BY <2>1, <2>2, StatusMoves, MoveIsSeen
<1> QED BY <1>1, <1>2, JobsInvariance, CopiesAreTrue, PTL DEF Spec, ImplementsEngineWorker

=============================================================================
