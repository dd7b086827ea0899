------------------------- MODULE WorkerQueueProofs -------------------------
(***************************************************************************)
(* What WorkerQueue promises for any number of jobs, processes and faults: *)
(* an inductive invariant about who may touch a job, and from it one       *)
(* process per job, lasting ends and bounded publication budgets.          *)
(***************************************************************************)
EXTENDS WorkerQueue, TLAPS

-----------------------------------------------------------------------------
(* Types *)

Assumptions == JobsAssumption /\ RunnersAssumption /\ LimitsAssumption

Good == {s \in Records : RecordOK(s)}

USE DEF Live, Terminal

\* An update of one record is a record if its fields have their types.
LEMMA RecordChange ==
    ASSUME NEW s \in Records, RecordOK(s)
    PROVE  /\ \A status \in {"none"} \cup Live \cup Terminal : RecordOK([s EXCEPT !.status = status])
           /\ \A p \in Runners \cup {NoRunner} : RecordOK([s EXCEPT !.pid = p])
           /\ \A status \in Live \cup Terminal, p \in Runners \cup {NoRunner} :
                RecordOK([s EXCEPT !.status = status, !.pid = p])
           /\ \A p \in Runners \cup {NoRunner} :
                RecordOK([s EXCEPT !.pid = p, !.status = "running"])
           /\ \A status \in Terminal : RecordOK(Ended(s, status))
           /\ RecordOK([s EXCEPT !.encoded = TRUE])
           /\ RecordOK([s EXCEPT !.encoded = TRUE, !.fin = "finalizing"])
           /\ RecordOK([s EXCEPT !.fin = "completed"])
<1>1. /\ \A status \in {"none"} \cup Live \cup Terminal : RecordOK([s EXCEPT !.status = status])
      /\ \A p \in Runners \cup {NoRunner} : RecordOK([s EXCEPT !.pid = p])
  BY DEF RecordOK, Records
<1>2. \A status \in Live \cup Terminal, p \in Runners \cup {NoRunner} :
        RecordOK([s EXCEPT !.status = status, !.pid = p])
  BY DEF RecordOK, Records
<1>3. \A p \in Runners \cup {NoRunner} : RecordOK([s EXCEPT !.pid = p, !.status = "running"])
  BY DEF RecordOK, Records
<1>4. \A status \in Terminal : RecordOK(Ended(s, status))
  BY <1>2 DEF Ended
<1>5. /\ RecordOK([s EXCEPT !.encoded = TRUE])
      /\ RecordOK([s EXCEPT !.encoded = TRUE, !.fin = "finalizing"])
      /\ RecordOK([s EXCEPT !.fin = "completed"])
  BY DEF RecordOK, Records
<1> QED BY <1>1, <1>2, <1>3, <1>4, <1>5

LEMMA PidChange ==
    ASSUME NEW f \in [Jobs -> Records], \A i \in Jobs : RecordOK(f[i]), NEW j \in Jobs,
           NEW p \in Runners \cup {NoRunner}
    PROVE  /\ [f EXCEPT ![j].pid = p] \in [Jobs -> Records]
           /\ \A i \in Jobs : RecordOK([f EXCEPT ![j].pid = p][i])
<1>1. RecordOK([f[j] EXCEPT !.pid = p]) /\ [f[j] EXCEPT !.pid = p] \in Records
  BY RecordChange DEF RecordOK
<1> QED BY <1>1

LEMMA StatusChange ==
    ASSUME NEW f \in [Jobs -> Records], \A i \in Jobs : RecordOK(f[i]), NEW j \in Jobs,
           NEW status \in Live \cup Terminal
    PROVE  /\ [f EXCEPT ![j].status = status] \in [Jobs -> Records]
           /\ \A i \in Jobs : RecordOK([f EXCEPT ![j].status = status][i])
<1>1. RecordOK([f[j] EXCEPT !.status = status]) /\ [f[j] EXCEPT !.status = status] \in Records
  BY RecordChange DEF RecordOK
<1> QED BY <1>1

LEMMA NoRecordOK == RecordOK(NoRecord) /\ RecordOK([NoRecord EXCEPT !.status = "queued"])
<1>1. 0 \in 0..MaxRetries
  BY LimitsAssumption
<1> QED BY <1>1 DEF RecordOK, Records, NoRecord

\* The changes that are specific to publication.
LEMMA PublicationChange ==
    ASSUME NEW s \in Records, RecordOK(s)
    PROVE  /\ RecordOK([s EXCEPT !.retries = 0, !.asked = TRUE])
           /\ PublicationAllowed(s) =>
                RecordOK(Reserved(s)) /\ RecordOK([Reserved(s) EXCEPT !.permanent = FALSE])
           /\ \A permanent \in BOOLEAN :
                RecordOK([s EXCEPT !.status = "running", !.pid = NoRunner, !.encoded = TRUE,
                                   !.fin = IF PostEncodeFinished(s) THEN s.fin ELSE "pending",
                                   !.permanent = permanent])
<1>0. 0 \in 0..MaxRetries
  BY LimitsAssumption
<1>1. RecordOK([s EXCEPT !.retries = 0, !.asked = TRUE])
  BY <1>0 DEF RecordOK, Records
<1>2. PublicationAllowed(s) => s.retries < MaxRetries /\ s.retries + 1 \in 0..MaxRetries
  BY LimitsAssumption DEF RecordOK, Records, PublicationAllowed
<1>3. PublicationAllowed(s) =>
        RecordOK(Reserved(s)) /\ RecordOK([Reserved(s) EXCEPT !.permanent = FALSE])
  BY <1>2 DEF RecordOK, Records, Reserved
<1>4. \A permanent \in BOOLEAN :
        RecordOK([s EXCEPT !.status = "running", !.pid = NoRunner, !.encoded = TRUE,
                           !.fin = IF PostEncodeFinished(s) THEN s.fin ELSE "pending",
                           !.permanent = permanent])
  BY LimitsAssumption DEF RecordOK, Records, PostEncodeFinished
<1> QED BY <1>1, <1>3, <1>4

RecsOK == rec \in [Jobs -> Records] /\ \A j \in Jobs : RecordOK(rec[j])
RunsOK ==
    /\ run \in [Runners -> Processes]
    /\ \A r \in Runners :
        /\ RecordOK(run[r].snap)
        /\ run[r].place # "free" => run[r].job \in Jobs
        /\ run[r].place = "mark" => run[r].snap.status \in Terminal
SchedOK == sched \in Passes /\ IF sched.mode = "idle" THEN sched = NoPass ELSE sched.at \in Jobs
RestOK ==
    /\ marker \in [Jobs -> {"none"} \cup Terminal]
    /\ asr \subseteq Podcasts
    /\ cancelling \in [Jobs -> {"no", "killed", "saved"}]
    /\ server \in {"down", "reconcile", "resume", "up"}
    /\ todo \subseteq Jobs
    /\ held \in BOOLEAN
    /\ stray \subseteq Jobs
    /\ attempts \in [Jobs -> Nat]
    /\ faults \in 0..MaxFaults
    /\ calls \in 0..MaxCalls

LEMMA TypeParts ==
    /\ TypeOK <=> RecsOK /\ RunsOK /\ SchedOK /\ RestOK
    /\ TypeOK' <=> RecsOK' /\ RunsOK' /\ SchedOK' /\ RestOK'
BY DEF TypeOK, RecsOK, RunsOK, SchedOK, RestOK

LEMMA Counters ==
    ASSUME RestOK
    PROVE  (Fault => faults' \in 0..MaxFaults) /\ (Call => calls' \in 0..MaxCalls)
<1>1. ASSUME Fault PROVE faults' \in 0..MaxFaults
  BY <1>1, LimitsAssumption DEF RestOK, Fault
<1>2. ASSUME Call PROVE calls' \in 0..MaxCalls
  BY <1>2, LimitsAssumption DEF RestOK, Call
<1> QED BY <1>1, <1>2

LEMMA Increment ==
    ASSUME NEW f \in [Jobs -> Nat], NEW j \in Jobs
    PROVE  [f EXCEPT ![j] = @ + 1] \in [Jobs -> Nat]
OBVIOUS

\* What a repair leaves is a record.
LEMMA RepairsType ==
    ASSUME TypeOK, NEW j \in Jobs
    PROVE  RecordOK(Recovered(j)) /\ RecordOK(Counted[j]) /\ RecordOK(Reconciled(j))
<1> USE RecordChange
<1>1. RecordOK(rec[j]) /\ rec[j] \in Records /\ marker[j] \in {"none"} \cup Terminal
  BY DEF TypeOK
<1>2. RecordOK(Recovered(j))
  BY <1>1 DEF Recovered
<1>3. RecordOK(Reconciled(j))
  BY <1>1 DEF Reconciled
<1> QED BY <1>1, <1>2, <1>3 DEF Counted

LEMMA JobsFacts == 1 \in Jobs /\ (\A j \in Jobs : j # NJobs => j + 1 \in Jobs) /\ Jobs \subseteq 0..NJobs
BY JobsAssumption DEF Jobs

\* Every pass a step can leave behind is a pass.
LEMMA PassTypes ==
    ASSUME TypeOK
    PROVE  /\ NoPass \in Passes /\ NoPass.mode = "idle"
           /\ sched.mode # "idle" =>
                /\ NextJob(sched) \in Passes
                /\ IF NextJob(sched).mode = "idle" THEN NextJob(sched) = NoPass ELSE NextJob(sched).at \in Jobs
                /\ NextJob(sched).runner = NoRunner
           /\ [NoPass EXCEPT !.mode = "queue", !.at = 1] \in Passes
           /\ ResumePass \in Passes /\ ResumePass.at = 1 /\ ResumePass.mode = "resume"
<1>0. 0 \in 0..NJobs /\ 1 \in 0..NJobs
  BY JobsAssumption
<1>1. NoPass \in Passes /\ NoPass.mode = "idle"
  BY <1>0 DEF Passes, NoPass
<1>2. ASSUME sched.mode # "idle"
      PROVE  /\ NextJob(sched) \in Passes
             /\ IF NextJob(sched).mode = "idle" THEN NextJob(sched) = NoPass ELSE NextJob(sched).at \in Jobs
             /\ NextJob(sched).runner = NoRunner
  <2>1. sched \in Passes /\ sched.at \in Jobs
    BY <1>2 DEF TypeOK
  <2>2. CASE sched.at = NJobs
    BY <2>2, <1>1 DEF NextJob, NoPass
  <2>3. CASE sched.at # NJobs
    <3>1. sched.at + 1 \in Jobs /\ sched.at + 1 \in 0..NJobs
      BY <2>1, <2>3, JobsFacts
    <3>2. NextJob(sched) = [sched EXCEPT !.at = sched.at + 1, !.runner = NoRunner]
      BY <2>3 DEF NextJob
    <3>3. /\ NextJob(sched) \in Passes
          /\ NextJob(sched).mode = sched.mode /\ NextJob(sched).at = sched.at + 1
          /\ NextJob(sched).runner = NoRunner
      BY <2>1, <3>1, <3>2 DEF Passes
    <3> QED BY <1>2, <3>1, <3>3
  <2> QED BY <2>2, <2>3
<1>3. [NoPass EXCEPT !.mode = "queue", !.at = 1] \in Passes
  BY <1>0 DEF Passes, NoPass
<1>4. Holders \subseteq Jobs
  BY DEF Holders
<1>5. ResumePass \in Passes /\ ResumePass.at = 1 /\ ResumePass.mode = "resume"
  BY <1>0, <1>4 DEF Passes, NoPass, ResumePass
<1> QED BY <1>1, <1>2, <1>3, <1>5

LEMMA QueuePassTypes ==
    ASSUME TypeOK, NEW f \in [Jobs -> Records], \A j \in Jobs : RecordOK(f[j]), QueuePassFrom(f)
    PROVE  RecsOK' /\ SchedOK'
<1>1. CASE held
  BY <1>1, PassTypes DEF QueuePassFrom, RecsOK, SchedOK
<1>2. CASE ~held
  <2>1. \A j \in Jobs : RecordOK(rec'[j])
    BY <1>2, RepairsType DEF QueuePassFrom
  <2>2. rec' \in [Jobs -> Records]
    BY <1>2, <2>1 DEF QueuePassFrom, RecordOK
  <2>3. SchedOK'
    BY <1>2, PassTypes, JobsFacts DEF QueuePassFrom, SchedOK, NoPass
  <2> QED BY <2>1, <2>2, <2>3 DEF RecsOK
<1> QED BY <1>1, <1>2

LEMMA RecsUpdate ==
    ASSUME RecsOK, NEW j \in Jobs, NEW s, RecordOK(s), rec' = [rec EXCEPT ![j] = s]
    PROVE  RecsOK'
BY DEF RecsOK, RecordOK

LEMMA RunsUpdate ==
    ASSUME RunsOK, NEW r \in Runners, NEW place \in Places, NEW j \in Jobs, NEW s, RecordOK(s),
           place = "mark" => s.status \in Terminal,
           \/ run' = [run EXCEPT ![r] = NoProcess]
           \/ run' = [run EXCEPT ![r] = [place |-> place, job |-> j, snap |-> s]]
           \/ run[r].place # "free" /\ place # "mark" /\ run' = [run EXCEPT ![r].place = place]
           \/ run[r].place # "free" /\ run' = [run EXCEPT ![r].place = place, ![r].snap = s]
    PROVE  RunsOK'
<1>1. NoProcess \in Processes /\ RecordOK(NoProcess.snap) /\ NoProcess.place = "free"
  BY NoRecordOK, JobsAssumption DEF NoProcess, Processes, Places, RecordOK
<1>2. run[r] \in Processes /\ RecordOK(run[r].snap) /\ s \in Records /\ j \in 0..NJobs
  BY JobsFacts DEF RunsOK, RecordOK
<1>3. /\ run'[r] \in Processes /\ RecordOK(run'[r].snap)
      /\ run'[r].place # "free" => run'[r].job \in Jobs
      /\ run'[r].place = "mark" => run'[r].snap.status \in Terminal
  BY <1>1, <1>2 DEF RunsOK, Processes
<1>4. run' = [run EXCEPT ![r] = run'[r]]
  BY <1>2 DEF RunsOK, Processes
<1> QED BY <1>3, <1>4 DEF RunsOK


LEMMA InitType == Init => TypeOK
<1> SUFFICES ASSUME Init PROVE TypeOK
  OBVIOUS
<1>1. RecsOK
  BY NoRecordOK DEF Init, RecsOK, RecordOK
<1>2. RunsOK
  BY NoRecordOK, JobsAssumption DEF Init, RunsOK, NoProcess, Processes, Places, RecordOK
<1>3. SchedOK
  BY JobsAssumption DEF Init, SchedOK, NoPass, Passes
<1>4. RestOK
  <2>1. 0 \in 0..MaxFaults /\ 0 \in 0..MaxCalls
    BY LimitsAssumption
  <2> QED BY <2>1 DEF Init, RestOK
<1> QED BY <1>1, <1>2, <1>3, <1>4, TypeParts

\* The requests keep the types.
LEMMA RequestType ==
    ASSUME TypeOK, NEW j \in Jobs, Request(j)
    PROVE  TypeOK'
<1> USE RecordChange, PublicationChange, RecsUpdate
<1>0. RecsOK /\ RunsOK /\ SchedOK /\ RestOK /\ RecordOK(rec[j]) /\ rec[j] \in Records
  BY TypeParts DEF RecsOK
<1>1. CASE SubmitNew(j)
  <2> DEFINE new == [rec EXCEPT ![j] = [NoRecord EXCEPT !.status = "queued"]]
  <2>1. new \in [Jobs -> Records] /\ \A i \in Jobs : RecordOK(new[i])
    BY <1>0, NoRecordOK DEF RecsOK, RecordOK
  <2>2. QueuePassFrom(new)
    BY <1>1 DEF SubmitNew
  <2>3. RecsOK' /\ SchedOK'
    BY <2>1, <2>2, QueuePassTypes
  <2>4. RunsOK' /\ RestOK'
    BY <1>0, <1>1 DEF SubmitNew, RunsOK, RestOK, history
  <2> QED BY <2>3, <2>4, TypeParts
<1>2. CASE SubmitAgain(j)
  <2>1. RunsOK' /\ RestOK'
    BY <1>0, <1>2 DEF SubmitAgain, RunsOK, RestOK, history
  <2>2. CASE QueuePassFrom(IF HasProcess(j) THEN rec ELSE [rec EXCEPT ![j].pid = NoRunner])
    <3> DEFINE new == IF HasProcess(j) THEN rec ELSE [rec EXCEPT ![j].pid = NoRunner]
    <3>1. new \in [Jobs -> Records] /\ \A i \in Jobs : RecordOK(new[i])
      BY <1>0 DEF RecsOK, RecordOK
    <3>2. RecsOK' /\ SchedOK'
      BY <2>2, <3>1, QueuePassTypes
    <3> QED BY <2>1, <3>2, TypeParts
  <2>3. CASE ~QueuePassFrom(IF HasProcess(j) THEN rec ELSE [rec EXCEPT ![j].pid = NoRunner])
    <3>1. \/ rec' = [rec EXCEPT ![j] = [rec[j] EXCEPT !.pid = NoRunner]]
          \/ rec' = [rec EXCEPT ![j] = Ended(rec[j], "killed")]
      BY <1>0, <1>2, <2>3 DEF SubmitAgain, RecsOK
    <3>2. UNCHANGED sched
      BY <1>2, <2>3 DEF SubmitAgain
    <3> QED BY <1>0, <2>1, <3>1, <3>2, TypeParts DEF SchedOK
  <2> QED BY <2>2, <2>3
<1>3. CASE Status(j)
  BY <1>0, <1>3, RepairsType, TypeParts
     DEF Status, RunsOK, SchedOK, RestOK, serverVars, history
<1>4. CASE CancelKills(j)
  <2>1. RunsOK'
    <3>1. rec[j].pid \in Runners \cup {NoRunner}
      BY <1>0 DEF Records
    <3>2. CASE HasProcess(j)
      <4>1. rec[j].pid \in Runners /\ run' = [run EXCEPT ![rec[j].pid] = NoProcess]
        BY <1>4, <3>1, <3>2 DEF CancelKills, HasProcess, Alive
      <4> QED BY <1>0, <4>1, RunsUpdate, NoRecordOK DEF Places
    <3>3. CASE ~HasProcess(j)
      BY <1>0, <1>4, <3>3 DEF CancelKills, RunsOK
    <3> QED BY <3>2, <3>3
  <2>2. RecsOK' /\ SchedOK' /\ RestOK'
    BY <1>0, <1>4 DEF CancelKills, RecsOK, SchedOK, RestOK, jobVars, history
  <2> QED BY <2>1, <2>2, TypeParts
<1>5. CASE CancelSaves(j)
  <2>1. RecordOK(Ended(rec[j], "cancelled")) /\ rec' = [rec EXCEPT ![j] = Ended(rec[j], "cancelled")]
    BY <1>0, <1>5 DEF CancelSaves, RecsOK
  <2> QED BY <1>0, <1>5, <2>1, TypeParts DEF CancelSaves, RunsOK, SchedOK, RestOK, history
<1>6. CASE CancelMarks(j)
  BY <1>0, <1>6, TypeParts DEF CancelMarks, RecsOK, RunsOK, SchedOK, RestOK, history
<1>7. CASE RetryPublication(j)
  <2>1. rec' = [rec EXCEPT ![j] = [rec[j] EXCEPT !.retries = 0, !.asked = TRUE]]
    BY <1>0, <1>7 DEF RetryPublication, RecsOK
  <2>2. RecsOK'
    BY <1>0, <2>1
  <2>3. RunsOK' /\ SchedOK'
    BY <1>0, <1>7 DEF RetryPublication, RunsOK, SchedOK, serverVars
  <2>4. calls' \in 0..MaxCalls
    BY <1>0, <1>7, Counters DEF RetryPublication
  <2>5. RestOK'
    BY <1>0, <1>7, <2>4 DEF RetryPublication, RestOK, serverVars
  <2> QED BY <2>2, <2>3, <2>5, TypeParts
<1> QED BY <1>1, <1>2, <1>3, <1>4, <1>5, <1>6, <1>7 DEF Request


\* So do the server's own steps.
LEMMA PassType ==
    ASSUME TypeOK, NEW j \in Jobs,
           \/ QueueTakes(j) \/ QueueRecords(j)
           \/ ResumeSkips(j) \/ ResumeTakes(j) \/ ResumeRecords(j)
    PROVE  TypeOK'
<1> USE RecordChange, PublicationChange, RecsUpdate
<1>0. RecsOK /\ RunsOK /\ SchedOK /\ RestOK /\ RecordOK(rec[j]) /\ rec[j] \in Records
  BY TypeParts DEF RecsOK
<1>1. sched.mode # "idle" /\ sched \in Passes
  BY <1>0 DEF QueueTakes, QueueRecords, ResumeSkips, ResumeTakes, ResumeRecords, ResumeAt, SchedOK
<1>2. /\ NextJob(sched) \in Passes
      /\ IF NextJob(sched).mode = "idle" THEN NextJob(sched) = NoPass ELSE NextJob(sched).at \in Jobs
  BY <1>1, PassTypes
<1>3. \A r \in Runners : /\ [sched EXCEPT !.runner = r] \in Passes
                        /\ [sched EXCEPT !.runner = r].at = sched.at
                        /\ [sched EXCEPT !.runner = r].mode = sched.mode
  BY <1>1 DEF Passes
<1>4. \A r \in Runners : run' = Spawned(r, j) => RunsOK'
  <2> SUFFICES ASSUME NEW r \in Runners, run' = Spawned(r, j) PROVE RunsOK'
    OBVIOUS
  <2>1. "load" \in Places
    BY DEF Places
  <2> QED BY <1>0, <2>1, RunsUpdate, NoRecordOK DEF Spawned
<1>5. \A r \in Runners : run' = [run EXCEPT ![r] = NoProcess] => RunsOK'
  <2> SUFFICES ASSUME NEW r \in Runners, run' = [run EXCEPT ![r] = NoProcess] PROVE RunsOK'
    OBVIOUS
  <2>1. "load" \in Places
    BY DEF Places
  <2> QED BY <1>0, <2>1, RunsUpdate, NoRecordOK
<1>6. UNCHANGED run => RunsOK'
  BY <1>0 DEF RunsOK
<1>7. /\ PassHolds(j) => sched.runner \in Runners
      /\ sched.at = j => sched.at \in Jobs
  BY <1>1 DEF PassHolds, Passes
<1>8. CASE QueueTakes(j)
  <2> DEFINE free == [Counted EXCEPT ![j].pid = NoRunner]
  <2>a. Counted \in [Jobs -> Records] /\ \A i \in Jobs : RecordOK(Counted[i])
    BY RepairsType DEF Counted, RecordOK
  <2>1. free \in [Jobs -> Records] /\ \A i \in Jobs : RecordOK(free[i])
    BY <2>a, PidChange
  <2> DEFINE failed == [free EXCEPT ![j].status = "failed"]
  <2>2. ASSUME NEW f, f = free
        PROVE  /\ [f EXCEPT ![j].status = "failed"] \in [Jobs -> Records]
               /\ \A i \in Jobs : RecordOK([f EXCEPT ![j].status = "failed"][i])
    BY <2>1, <2>2, StatusChange
  <2>e. rec' \in {rec, free, failed}
    BY <1>8 DEF QueueTakes, free, failed
  <2>3. RecsOK'
    <3> HIDE DEF free
    <3>1. failed \in [Jobs -> Records] /\ \A i \in Jobs : RecordOK(failed[i])
      BY <2>2
    <3> HIDE DEF failed
    <3> QED BY <1>0, <2>1, <2>e, <3>1 DEF RecsOK
  <2>4. RunsOK' /\ SchedOK'
    BY <1>1, <1>2, <1>3, <1>4, <1>6, <1>7, <1>8 DEF QueueTakes, SchedOK
  <2>5. RestOK'
    BY <1>0, <1>8, Counters DEF QueueTakes, RestOK, history
  <2> QED BY <2>3, <2>4, <2>5, TypeParts
<1>9. CASE QueueRecords(j)
  <2>1. \/ rec' = rec
        \/ rec' = [rec EXCEPT ![j] = [rec[j] EXCEPT !.pid = sched.runner]]
        \/ rec' = [rec EXCEPT ![j] = Ended(rec[j], "failed")]
    BY <1>0, <1>9 DEF QueueRecords, RecsOK
  <2>2. RecsOK'
    BY <1>0, <1>7, <1>9, <2>1 DEF QueueRecords, RecsOK
  <2>3. RunsOK' /\ SchedOK'
    BY <1>2, <1>5, <1>6, <1>7, <1>9 DEF QueueRecords, SchedOK
  <2>4. RestOK'
    BY <1>0, <1>9, Counters DEF QueueRecords, RestOK, history
  <2> QED BY <2>2, <2>3, <2>4, TypeParts
<1>10. CASE ResumeSkips(j)
  BY <1>0, <1>2, <1>6, <1>10, TypeParts
     DEF ResumeSkips, SchedOK, RecsOK, RestOK, jobVars, history
<1>11. CASE ResumeTakes(j)
  <2>1. \/ rec' = [rec EXCEPT ![j] = Reserved(rec[j])]
        \/ rec' = [rec EXCEPT ![j] = [Reserved(rec[j]) EXCEPT !.permanent = FALSE]]
    BY <1>0, <1>11 DEF ResumeTakes, RecsOK
  <2>2. RecsOK'
    BY <1>0, <1>11, <2>1 DEF ResumeTakes
  <2>3. RunsOK'
    BY <1>4, <1>6, <1>11 DEF ResumeTakes
  <2>4. \A r \in Runners : [sched EXCEPT !.runner = r, !.use = @ \cup {j}] \in Passes
                         /\ [sched EXCEPT !.runner = r, !.use = @ \cup {j}].at = sched.at
                         /\ [sched EXCEPT !.runner = r, !.use = @ \cup {j}].mode = sched.mode
    BY <1>1 DEF Passes
  <2>5. SchedOK'
    BY <1>1, <1>2, <1>7, <1>11, <2>4 DEF ResumeTakes, ResumeAt, SchedOK
  <2>6. attempts' \in [Jobs -> Nat]
    <3>1. attempts' = attempts \/ attempts' = [attempts EXCEPT ![j] = @ + 1]
      BY <1>11 DEF ResumeTakes
    <3>2. attempts \in [Jobs -> Nat]
      BY <1>0 DEF RestOK
    <3>3. [attempts EXCEPT ![j] = @ + 1] \in [Jobs -> Nat]
      BY <3>2, Increment
    <3> QED BY <3>1, <3>2, <3>3
  <2>7. RestOK'
    BY <1>0, <1>11, <2>6, Counters DEF ResumeTakes, RestOK
  <2> QED BY <2>2, <2>3, <2>5, <2>7, TypeParts
<1>12. CASE ResumeRecords(j)
  <2>1. \/ rec' = rec
        \/ rec' = [rec EXCEPT ![j] = [rec[j] EXCEPT !.pid = sched.runner]]
    BY <1>0, <1>12 DEF ResumeRecords, RecsOK
  <2>2. RecsOK'
    BY <1>0, <1>7, <1>12, <2>1 DEF ResumeRecords, RecsOK
  <2>3. RunsOK' /\ SchedOK'
    BY <1>2, <1>5, <1>6, <1>7, <1>12 DEF ResumeRecords, SchedOK
  <2>4. RestOK'
    BY <1>0, <1>12, Counters DEF ResumeRecords, RestOK, history
  <2> QED BY <2>2, <2>3, <2>4, TypeParts
<1> QED BY <1>8, <1>9, <1>10, <1>11, <1>12

LEMMA ServerType ==
    ASSUME TypeOK, Hold \/ QueueStarts \/ ResumeStarts \/ Dropped \/ Crash \/ Startup
    PROVE  TypeOK'
<1>0. RecsOK /\ RunsOK /\ SchedOK /\ RestOK
  BY TypeParts
<1>1. /\ NoPass \in Passes /\ NoPass.mode = "idle"
      /\ ResumePass \in Passes
      /\ ResumePass.at \in Jobs /\ ResumePass.mode = "resume"
  BY PassTypes, JobsFacts
<1>2. UNCHANGED run => RunsOK'
  BY <1>0 DEF RunsOK
<1>3. rec' = Counted => RecsOK'
  BY RepairsType DEF Counted, RecsOK, RecordOK
<1>4. CASE Hold
  <2>1. held' \in BOOLEAN /\ calls' \in 0..MaxCalls
    BY <1>0, <1>4, Counters DEF Hold, RestOK
  <2> QED BY <1>0, <1>2, <1>4, <2>1, TypeParts DEF Hold, RecsOK, SchedOK, RestOK, jobVars, history
<1>5. CASE QueueStarts
  <2>1. QueuePassFrom(rec)
    BY <1>5 DEF QueueStarts
  <2>2. RecsOK' /\ SchedOK'
    BY <1>0, <2>1, QueuePassTypes DEF RecsOK
  <2>3. RunsOK' /\ RestOK'
    BY <1>0, <1>2, <1>5 DEF QueueStarts, RestOK, history
  <2> QED BY <2>2, <2>3, TypeParts
<1>6. CASE ResumeStarts
  BY <1>0, <1>1, <1>2, <1>3, <1>6, TypeParts DEF ResumeStarts, SchedOK, RestOK, history
<1>7. CASE Dropped
  BY <1>0, <1>1, <1>2, <1>7, Counters, TypeParts
     DEF Dropped, RecsOK, SchedOK, RestOK, jobVars, history
<1>8. CASE Crash
  <2>1. stray' \subseteq Jobs
    <3>1. sched.runner # NoRunner => sched.at \in Jobs
      BY <1>0 DEF SchedOK, NoPass
    <3>2. stray' = IF sched.runner = NoRunner THEN stray ELSE stray \cup {sched.at}
      BY <1>8 DEF Crash
    <3> QED BY <1>0, <3>1, <3>2 DEF RestOK
  <2> QED BY <1>0, <1>1, <1>2, <1>8, <2>1, Counters, TypeParts
          DEF Crash, RecsOK, SchedOK, RestOK, jobVars
<1>9. CASE Restart
  BY <1>0, <1>2, <1>9, TypeParts DEF Restart, RecsOK, SchedOK, RestOK, jobVars, history
<1>10. CASE StartupResumes
  BY <1>0, <1>1, <1>2, <1>3, <1>10, TypeParts DEF StartupResumes, SchedOK, RestOK, history
<1>11. CASE StartupEnds
  BY <1>0, <1>2, <1>11, TypeParts DEF StartupEnds, RecsOK, SchedOK, RestOK, jobVars, history
<1>12. ASSUME NEW j \in Jobs, StartupReconciles(j) PROVE TypeOK'
  <2>1. RecsOK'
    BY <1>0, <1>12, RepairsType, RecsUpdate DEF StartupReconciles
  <2>2. RestOK'
    BY <1>0, <1>12 DEF StartupReconciles, RestOK, history
  <2> QED BY <1>0, <1>2, <1>12, <2>1, <2>2, TypeParts DEF StartupReconciles, SchedOK
<1> QED BY <1>4, <1>5, <1>6, <1>7, <1>8, <1>9, <1>10, <1>11, <1>12 DEF Startup


\* A runner's steps keep the types.
LEMMA ProgressType ==
    ASSUME RecsOK, RunsOK, NEW r \in Runners, run[r].place # "free",
           NEW new, RecordOK(new), NEW place \in Places \ {"mark"}, Progress(r, new, place)
    PROVE  RecsOK' /\ RunsOK'
<1>1. JobOf(r) \in Jobs
  BY DEF RunsOK, JobOf
<1>2. CASE rec[JobOf(r)].status = "cancelled"
  <2>1. RunsOK'
    BY <1>1, <1>2, RunsUpdate, NoRecordOK DEF Progress, Exits
  <2> QED BY <1>2, <2>1 DEF Progress, RecsOK
<1>3. CASE rec[JobOf(r)].status # "cancelled"
  <2>1. RecsOK'
    BY <1>1, <1>3, RecsUpdate DEF Progress
  <2>2. RunsOK'
    BY <1>1, <1>3, RunsUpdate DEF Progress, Exits, GoesWith
  <2> QED BY <2>1, <2>2
<1> QED BY <1>2, <1>3

LEMMA TerminateType ==
    ASSUME TypeOK, NEW r \in Runners, run[r].place # "free",
           NEW status \in Terminal, Terminate(r, status)
    PROVE  RecsOK' /\ RunsOK' /\ marker' \in [Jobs -> {"none"} \cup Terminal]
<1>0. RecsOK /\ RunsOK /\ RestOK
  BY TypeParts
<1>1. JobOf(r) \in Jobs
  BY <1>0 DEF RunsOK, JobOf
<1>2. /\ RecordOK(Ended(run[r].snap, status)) /\ "mark" \in Places
      /\ Ended(run[r].snap, status).status = status
  <2>1. run[r].snap \in Records /\ RecordOK(run[r].snap)
    BY <1>0 DEF RunsOK, RecordOK
  <2>2. RecordOK(Ended(run[r].snap, status)) /\ "mark" \in Places
    BY <2>1, RecordChange DEF Places
  <2>3. Ended(run[r].snap, status).status = status
    BY <2>1 DEF Records, Ended
  <2> QED BY <2>2, <2>3
<1>3. CASE rec[JobOf(r)].status = "cancelled"
  <2>1. RunsOK'
    BY <1>0, <1>1, <1>2, <1>3, RunsUpdate DEF Terminate, Exits
  <2>2. marker' \in [Jobs -> {"none"} \cup Terminal]
    BY <1>0, <1>1, <1>3 DEF Terminate, RestOK
  <2> QED BY <1>0, <1>3, <2>1, <2>2 DEF Terminate, RecsOK
<1>4. CASE rec[JobOf(r)].status # "cancelled"
  <2>1. RecsOK'
    BY <1>0, <1>1, <1>2, <1>4, RecsUpdate DEF Terminate
  <2>2. RunsOK'
    BY <1>0, <1>1, <1>2, <1>4, RunsUpdate DEF Terminate, GoesWith
  <2> QED BY <1>0, <1>4, <2>1, <2>2 DEF Terminate, RestOK
<1> QED BY <1>3, <1>4

LEMMA FailureType ==
    ASSUME RecsOK, RunsOK, NEW r \in Runners, run[r].place # "free", FinalizationFails(r)
    PROVE  RecsOK' /\ RunsOK'
<1>1. RecordOK(RecordOf(r)) /\ RecordOf(r) \in Records /\ "free" \in Places \ {"mark"}
  BY DEF RecsOK, RunsOK, RecordOf, JobOf, Places
<1>2. PICK permanent \in BOOLEAN :
        Progress(r, [RecordOf(r) EXCEPT
                        !.status = "running", !.pid = NoRunner, !.encoded = TRUE,
                        !.fin = IF PostEncodeFinished(RecordOf(r)) THEN RecordOf(r).fin ELSE "pending",
                        !.permanent = permanent], "free")
  BY DEF FinalizationFails
<1> QED BY <1>1, <1>2, PublicationChange, ProgressType

LEMMA RunnerType ==
    ASSUME TypeOK, NEW r \in Runners, Works(r) \/ Refuse(r) \/ Dies(r)
    PROVE  TypeOK'
<1>0. RecsOK /\ RunsOK /\ SchedOK /\ RestOK
  BY TypeParts
<1>1. run[r].place # "free"
  BY DEF Works, Refuse, Dies, Load, ClaimRunner, Encode, Checkpoint, Finalize, Publish, Complete, Mark
<1>2. JobOf(r) \in Jobs /\ run[r].job = JobOf(r)
  BY <1>0, <1>1 DEF RunsOK, JobOf
<1>3. /\ RecordOK(rec[JobOf(r)]) /\ rec[JobOf(r)] \in Records
      /\ RecordOf(r) = rec[JobOf(r)] /\ r \in Runners \cup {NoRunner}
  BY <1>0, <1>2 DEF RecsOK, RecordOf
<1>4. {"free", "claim", "encode", "finalize", "publish", "complete", "mark"} \subseteq Places
  BY DEF Places
<1>a. {"encode", "finalize", "publish", "complete"} \subseteq Places \ {"mark"}
  BY DEF Places
<1>5. SchedOK' /\ (UNCHANGED rec => RecsOK')
  BY <1>0 DEF Works, Refuse, Dies, Load, ClaimRunner, Encode, Checkpoint, Finalize, Publish,
              Complete, Mark, serverVars, SchedOK, RecsOK
<1>6. Exits(r) => RunsOK'
  BY <1>0, <1>2, <1>3, <1>4, RunsUpdate DEF Exits
<1>7. CASE Load(r)
  <2>1. RunsOK'
    BY <1>0, <1>1, <1>2, <1>3, <1>4, <1>6, <1>7, RunsUpdate DEF Load, GoesWith
  <2>2. RestOK'
    BY <1>0, <1>7 DEF Load, RestOK, jobVars, serverVars, history
  <2> QED BY <1>5, <1>7, <2>1, <2>2, TypeParts DEF Load, jobVars
<1>8. CASE ClaimRunner(r)
  <2> DEFINE mine == [rec[JobOf(r)] EXCEPT !.pid = r, !.status = "running"]
  <2>1. RecordOK(mine)
    BY <1>3, RecordChange
  <2>2. RecsOK'
    BY <1>0, <1>2, <1>5, <1>8, <2>1, RecsUpdate DEF ClaimRunner
  <2>3. RunsOK'
    <3>1. \/ Exits(r)
          \/ GoesWith(r, "finalize", mine)
          \/ GoesWith(r, "encode", mine)
      BY <1>8 DEF ClaimRunner
    <3> QED BY <1>0, <1>1, <1>2, <1>4, <1>6, <2>1, <3>1, RunsUpdate DEF GoesWith
  <2>4. RestOK'
    BY <1>0, <1>8 DEF ClaimRunner, RestOK, serverVars, history
  <2> QED BY <1>5, <2>2, <2>3, <2>4, TypeParts
<1>9. CASE Refuse(r)
  <2>1. RecsOK' /\ RunsOK' /\ marker' \in [Jobs -> {"none"} \cup Terminal]
    BY <1>1, <1>9, TerminateType DEF Refuse
  <2>2. RestOK'
    BY <1>0, <1>9, <2>1, Counters DEF Refuse, RestOK, serverVars, history
  <2> QED BY <1>5, <2>1, <2>2, TypeParts
<1>10. CASE Encode(r)
  <2>1. RecsOK' /\ RunsOK' /\ marker' \in [Jobs -> {"none"} \cup Terminal]
    <3>1. CASE Terminate(r, "failed")
      BY <1>1, <3>1, TerminateType
    <3>2. CASE Progress(r, RecordOf(r), "encode") /\ UNCHANGED marker
      BY <1>0, <1>1, <1>3, <1>a, <3>2, ProgressType DEF RestOK
    <3>3. CASE UNCHANGED <<rec, marker, run>>
      BY <1>0, <3>3 DEF RecsOK, RunsOK, RestOK
    <3> QED BY <1>10, <3>1, <3>2, <3>3 DEF Encode
  <2>2. asr' \subseteq Podcasts
    BY <1>0, <1>10 DEF Encode, RestOK
  <2>3. RestOK'
    BY <1>0, <1>10, <2>1, <2>2 DEF Encode, RestOK, serverVars, history
  <2> QED BY <1>5, <2>1, <2>3, TypeParts
<1>11. CASE Checkpoint(r)
  <2>1. RecsOK' /\ RunsOK'
    BY <1>0, <1>1, <1>3, <1>a, <1>11, RecordChange, ProgressType DEF Checkpoint
  <2>2. RestOK'
    BY <1>0, <1>11 DEF Checkpoint, RestOK, serverVars, history
  <2> QED BY <1>5, <2>1, <2>2, TypeParts
<1>12. CASE Finalize(r)
  <2>1. RecsOK' /\ RunsOK'
    <3>1. CASE Progress(r, [RecordOf(r) EXCEPT !.encoded = TRUE, !.fin = "finalizing"], "publish")
      BY <1>0, <1>1, <1>3, <1>a, <3>1, RecordChange, ProgressType
    <3>2. CASE Goes(r, "complete") /\ UNCHANGED rec
      BY <1>0, <1>1, <1>2, <1>3, <1>4, <1>5, <3>2, RunsUpdate DEF Goes
    <3>3. CASE FinalizationFails(r)
      BY <1>0, <1>1, <3>3, FailureType
    <3> QED BY <1>12, <3>1, <3>2, <3>3 DEF Finalize
  <2>2. RestOK'
    BY <1>0, <1>12 DEF Finalize, RestOK, serverVars, history
  <2> QED BY <1>5, <2>1, <2>2, TypeParts
<1>13. CASE Publish(r)
  <2>1. RecsOK' /\ RunsOK'
    <3>1. CASE Progress(r, [RecordOf(r) EXCEPT !.fin = "completed"], "complete")
      BY <1>0, <1>1, <1>3, <1>a, <3>1, RecordChange, ProgressType
    <3>2. CASE FinalizationFails(r)
      BY <1>0, <1>1, <3>2, FailureType
    <3> QED BY <1>13, <3>1, <3>2 DEF Publish
  <2>2. RestOK'
    BY <1>0, <1>13 DEF Publish, RestOK, serverVars, history
  <2> QED BY <1>5, <2>1, <2>2, TypeParts
<1>14. CASE Complete(r)
  <2>1. RecsOK' /\ RunsOK' /\ marker' \in [Jobs -> {"none"} \cup Terminal]
    BY <1>1, <1>14, TerminateType DEF Complete
  <2>2. RestOK'
    BY <1>0, <1>14, <2>1 DEF Complete, RestOK, serverVars, history
  <2> QED BY <1>5, <2>1, <2>2, TypeParts
<1>15. CASE Mark(r)
  <2>1. run[r].snap.status \in Terminal
    BY <1>0, <1>15 DEF RunsOK, Mark
  <2>2. marker' \in [Jobs -> {"none"} \cup Terminal]
    BY <1>0, <1>2, <1>15, <2>1 DEF Mark, RestOK
  <2>3. RestOK'
    BY <1>0, <1>15, <2>2 DEF Mark, RestOK, serverVars, history
  <2> QED BY <1>5, <1>6, <1>15, <2>3, TypeParts DEF Mark
<1>16. CASE Dies(r)
  <2>1. RestOK'
    BY <1>0, <1>16, Counters DEF Dies, RestOK, jobVars, serverVars, history
  <2> QED BY <1>5, <1>6, <1>16, <2>1, TypeParts DEF Dies, jobVars
<1> QED BY <1>7, <1>8, <1>9, <1>10, <1>11, <1>12, <1>13, <1>14, <1>15, <1>16 DEF Works


THEOREM NextType == TypeOK /\ [Next]_vars => TypeOK'
<1> SUFFICES ASSUME TypeOK, [Next]_vars PROVE TypeOK'
  OBVIOUS
<1>1. CASE Next
  BY <1>1, RequestType, PassType, ServerType, RunnerType DEF Next, Pass
<1>2. CASE UNCHANGED vars
  BY <1>2, TypeParts DEF vars, jobVars, serverVars, history, RecsOK, RunsOK, SchedOK, RestOK
<1> QED BY <1>1, <1>2

-----------------------------------------------------------------------------
(* The invariant *)

\* No process works on the job.
Idle(j) == \A r \in Runners : run[r].place # "free" => JobOf(r) # j

\* A job whose lock is free and whose recorded process is gone has none.
LEMMA FreeIsIdle ==
    ASSUME JobsInv, NEW j \in Kept, ~Locked(j), ~HasProcess(j)
    PROVE  Idle(j)
<1> SUFFICES ASSUME NEW r \in Runners, run[r].place # "free", JobOf(r) = j PROVE FALSE
  BY DEF Idle
<1>1. OwnerKnown(r)
  BY DEF JobsInv, OwnersKnown
<1>2. run[r].place # "mark" /\ ~PassHolds(j)
  BY DEF Locked, JobOf
<1>3. rec[j].pid = r
  BY <1>1, <1>2 DEF OwnerKnown
<1> QED BY <1>3, RunnersAssumption DEF HasProcess, Alive

\* What a job's record, marker and history must say of each other, and of the
\* processes that work on it.
JobSettled(j) ==
    /\ marker[j] # "none" => marker[j] = rec[j].status
    /\ attempts[j] <= rec[j].retries
    /\ rec[j].encoded /\ rec[j].fin # "completed" => rec[j].status # "killed"

LEMMA SettledJobs ==
    ASSUME JobsInv, NEW j \in Kept
    PROVE  JobSettled(j)
BY DEF JobsInv, JobSettled, MarkerAgrees, AttemptsCounted, EncodedOnce

\* A server's step that starts no process keeps the invariant, if the jobs it
\* touches are open, unlocked and, unless they are stray, idle.
Touched(j) ==
    /\ ~Locked(j)
    /\ rec[j].status \in {"none"} \cup Live
    /\ rec'[j].status # "none"
    /\ j \in Kept => Idle(j) /\ JobSettled(j)'

Untouched(j) == rec'[j] = rec[j] /\ marker'[j] = marker[j] /\ attempts'[j] = attempts[j]

LEMMA ServerMoves ==
    ASSUME JobsInv, TypeOK', UNCHANGED <<run, cancelling, stray>>,
           UNCHANGED sched \/ (sched.runner = NoRunner /\ sched'.runner = NoRunner),
           \A j \in Jobs : Untouched(j) \/ Touched(j)
    PROVE  JobsInv'
<1>1. LocksExclude'
  <2>1. \A j \in Jobs :
          /\ cancelling'[j] = "killed" => rec'[j].status \in Live
          /\ cancelling'[j] = "saved" => rec'[j].status = "cancelled"
          /\ rec'[j].status = "none" => rec'[j] = NoRecord
    BY DEF JobsInv, LocksExclude, Untouched, Touched, Locked
  <2>2. \A r \in Runners : run'[r].place = "mark" =>
          cancelling'[run'[r].job] = "no" /\ ~PassHolds(JobOf(r))'
    BY DEF JobsInv, LocksExclude, PassHolds, JobOf
  <2>3. \A r \in Runners : run'[r].place # "free" => rec'[run'[r].job].status # "none"
    BY DEF JobsInv, TypeOK, LocksExclude, JobOf, Untouched, Touched
  <2>4. ASSUME sched'.runner # NoRunner
        PROVE  UNCHANGED sched /\ rec'[sched.at] = rec[sched.at] /\ sched.at \in Jobs
    <3>1. sched.runner # NoRunner /\ UNCHANGED sched
      BY <2>4
    <3>2. sched.at \in Jobs
      BY <3>1 DEF JobsInv, TypeOK, NoPass
    <3> QED BY <3>1, <3>2 DEF Touched, Untouched, Locked, PassHolds
  <2> QED BY <2>1, <2>2, <2>3, <2>4 DEF JobsInv, LocksExclude, PassHolds, JobOf
<1>2. OwnersKnown' /\ OneRunnerKept'
  <2>1. OneRunnerKept'
    BY DEF JobsInv, OneRunnerKept, JobOf, Kept
  <2>2. ASSUME NEW r \in Runners, run'[r].place # "free", JobOf(r)' \in Kept'
        PROVE  OwnerKnown(r)'
    <3>1. run[r].place # "free" /\ JobOf(r) \in Kept /\ JobOf(r) \in Jobs /\ OwnerKnown(r)
      BY <2>2 DEF JobsInv, OwnersKnown, JobOf, Kept
    <3>2. Untouched(JobOf(r))
      BY <3>1 DEF Touched, Idle
    <3> QED BY <3>1, <3>2 DEF OwnerKnown, Untouched, PassHolds, JobOf
  <2> QED BY <2>1, <2>2 DEF OwnersKnown
<1>3. \A j \in Kept' : JobSettled(j)'
  BY SettledJobs DEF Untouched, Touched, JobSettled, Kept
<1>4. \A j \in Kept' : rec'[j].encoded =>
        \A r \in Runners : run'[r].job = j => run'[r].place # "encode"
  <2> SUFFICES ASSUME NEW j \in Kept', rec'[j].encoded, NEW r \in Runners, run'[r].job = j
               PROVE  run'[r].place # "encode"
    OBVIOUS
  <2>1. CASE Untouched(j)
    BY <2>1 DEF JobsInv, EncodedOnce, Untouched, Kept, JobOf
  <2>2. CASE Touched(j)
    BY <2>2 DEF Touched, Idle, Kept, JobOf
  <2> QED BY <2>1, <2>2 DEF Kept
<1>5. MarkerAgrees' /\ AttemptsCounted' /\ EncodedOnce'
  BY <1>3, <1>4 DEF MarkerAgrees, AttemptsCounted, EncodedOnce, JobSettled, JobOf
<1> QED BY <1>1, <1>2, <1>5 DEF JobsInv

\* A runner's step keeps the invariant if it changes its own job's record only
\* under the job's lock, and leaves what its own job promises.
LEMMA RunnerMoves ==
    ASSUME JobsInv, TypeOK', NEW r \in Runners, run[r].place # "free",
           NEW k \in Jobs, JobOf(r) = k,
           \A q \in Runners : q # r => run'[q] = run[q],
           run'[r].place # "free" => run'[r].job = k,
           UNCHANGED <<sched, cancelling, stray, attempts>>,
           \A i \in Jobs : i # k => rec'[i] = rec[i] /\ marker'[i] = marker[i],
           rec'[k] = rec[k] \/ (~Locked(k) /\ rec'[k].status # "none"),
           run'[r].place = "mark" => ~Locked(k),
           Locked(k) /\ run[r].place \in {"load", "claim"} =>
                run'[r].place \in {"free", "load", "claim"},
           k \in Kept =>
                /\ JobSettled(k)'
                /\ run'[r].place # "free" => OwnerKnown(r)'
                /\ rec'[k].encoded => run'[r].place # "encode"
    PROVE  JobsInv'
<1>0. run[r].job = k
  BY DEF JobOf
<1>1. LocksExclude'
  <2>1. \A j \in Jobs :
          /\ cancelling'[j] = "killed" => rec'[j].status \in Live
          /\ cancelling'[j] = "saved" => rec'[j].status = "cancelled"
          /\ rec'[j].status = "none" => rec'[j] = NoRecord
    BY <1>0 DEF JobsInv, LocksExclude, Locked
  <2>2. \A q \in Runners : run'[q].place = "mark" =>
          cancelling'[run'[q].job] = "no" /\ ~PassHolds(JobOf(q))'
    <3> SUFFICES ASSUME NEW q \in Runners, run'[q].place = "mark"
                 PROVE  cancelling'[run'[q].job] = "no" /\ ~PassHolds(JobOf(q))'
      OBVIOUS
    <3>1. CASE q = r
      BY <1>0, <3>1 DEF Locked, PassHolds, JobOf
    <3>2. CASE q # r
      BY <3>2 DEF JobsInv, LocksExclude, PassHolds, JobOf
    <3> QED BY <3>1, <3>2
  <2>a. \A q \in Runners : run'[q].place # "free" => rec'[run'[q].job].status # "none"
    BY <1>0 DEF JobsInv, TypeOK, LocksExclude, JobOf
  <2>3. ASSUME sched.runner # NoRunner
        PROVE  /\ rec'[sched.at] = rec[sched.at]
               /\ run'[sched.runner].place \in {"free", "load", "claim"}
               /\ run'[sched.runner].place # "free" => run'[sched.runner].job = sched.at
    <3>1. sched.at \in Jobs /\ sched.runner \in Runners
      BY <2>3 DEF JobsInv, TypeOK, NoPass, Passes
    <3>2. rec'[sched.at] = rec[sched.at]
      BY <2>3, <3>1 DEF Locked, PassHolds
    <3>3. CASE sched.runner = r
      <4>1. JobOf(r) = sched.at /\ run[r].place \in {"load", "claim"}
        BY <2>3, <3>3 DEF JobsInv, LocksExclude
      <4> QED BY <1>0, <2>3, <3>2, <3>3, <4>1 DEF Locked, PassHolds
    <3>4. CASE sched.runner # r
      BY <2>3, <3>1, <3>2, <3>4 DEF JobsInv, LocksExclude, JobOf
    <3> QED BY <3>3, <3>4
  <2> QED BY <2>1, <2>2, <2>a, <2>3 DEF LocksExclude, PassHolds, JobOf, JobsInv
<1>2. OneRunnerKept'
  BY DEF JobsInv, OneRunnerKept, JobOf, Kept
<1>3. OwnersKnown'
  <2> SUFFICES ASSUME NEW q \in Runners, run'[q].place # "free", JobOf(q)' \in Kept'
               PROVE  OwnerKnown(q)'
    BY DEF OwnersKnown
  <2>1. CASE q = r
    BY <1>0, <2>1 DEF Kept, JobOf
  <2>2. CASE q # r
    <3>1. run'[q] = run[q] /\ JobOf(q) \in Kept /\ JobOf(q) \in Jobs /\ OwnerKnown(q)
      BY <2>2 DEF JobsInv, OwnersKnown, JobOf, Kept
    <3>2. JobOf(q) # k
      BY <2>2, <3>1 DEF JobsInv, OneRunnerKept
    <3> QED BY <3>1, <3>2 DEF OwnerKnown, PassHolds, JobOf
  <2> QED BY <2>1, <2>2
<1>4. \A j \in Kept' : JobSettled(j)'
  BY SettledJobs DEF JobSettled, Kept
<1>5. \A j \in Kept' : rec'[j].encoded =>
        \A q \in Runners : run'[q].job = j => run'[q].place # "encode"
  <2> SUFFICES ASSUME NEW j \in Kept', rec'[j].encoded, NEW q \in Runners, run'[q].job = j,
                      run'[q].place = "encode"
               PROVE  FALSE
    OBVIOUS
  <2>1. CASE q = r
    BY <1>0, <2>1 DEF Kept
  <2>2. CASE q # r
    <3>1. run[q].job = j /\ run[q].place = "encode" /\ j \in Kept
      BY <2>2 DEF Kept
    <3>2. j # k
      BY <1>0, <2>2, <3>1 DEF JobsInv, OneRunnerKept, JobOf
    <3> QED BY <3>1, <3>2 DEF JobsInv, EncodedOnce, JobOf, Kept
  <2> QED BY <2>1, <2>2
<1>6. MarkerAgrees' /\ AttemptsCounted' /\ EncodedOnce'
  BY <1>4, <1>5 DEF MarkerAgrees, AttemptsCounted, EncodedOnce, JobSettled, JobOf
<1> QED BY <1>1, <1>2, <1>3, <1>6 DEF JobsInv


\* What a runner of a job that is not stray may rely on.
LEMMA RunnerFacts ==
    ASSUME JobsInv, NEW r \in Runners, run[r].place # "free", NEW k, k = JobOf(r)
    PROVE  /\ k \in Jobs /\ run[r].job = k /\ rec[k] \in Records /\ rec[k].status # "none"
           /\ run[r] \in Processes /\ run[r].snap \in Records
           /\ k \in Kept => OwnerKnown(r) /\ JobSettled(k)
           /\ k \in Kept /\ run[r].place # "mark" => marker[k] = "none"
<1>0. rec[k].status # "none"
  BY DEF JobsInv, LocksExclude
<1>1. /\ k \in Jobs /\ run[r].job = k /\ rec[k] \in Records
      /\ run[r] \in Processes /\ run[r].snap \in Records
      /\ marker[k] \in {"none"} \cup Terminal
  BY DEF JobsInv, TypeOK, RecordOK, JobOf
<1>2. k \in Kept => OwnerKnown(r) /\ JobSettled(k)
  BY SettledJobs DEF JobsInv, OwnersKnown
<1>3. k \in Kept /\ run[r].place # "mark" => marker[k] = "none"
  BY <1>1, <1>2 DEF OwnerKnown, JobSettled
<1> QED BY <1>0, <1>1, <1>2, <1>3

\* A step that only moves the runner on, or ends it.
LEMMA QuietMoves ==
    ASSUME JobsInv, TypeOK', NEW r \in Runners, run[r].place # "free",
           UNCHANGED <<sched, cancelling, stray, attempts, rec, marker>>,
           \/ Exits(r)
           \/ Goes(r, "complete") /\ run[r].place = "finalize"
           \/ GoesWith(r, "claim", rec[JobOf(r)]) /\ run[r].place = "load"
    PROVE  JobsInv'
<1> DEFINE k == JobOf(r)
<1>1. /\ k \in Jobs /\ run[r].job = k /\ rec[k] \in Records
      /\ run[r] \in Processes /\ run[r].snap \in Records
      /\ k \in Kept => OwnerKnown(r) /\ JobSettled(k)
  BY RunnerFacts
<1>2. run \in [Runners -> Processes]
  BY DEF JobsInv, TypeOK
<1>3. /\ \A q \in Runners : q # r => run'[q] = run[q]
      /\ run'[r].place # "free" => run'[r].job = k
      /\ run'[r].place \notin {"mark", "encode"}
      /\ run[r].place \in {"load", "claim"} => run'[r].place \in {"free", "load", "claim"}
  BY <1>1, <1>2 DEF Exits, Goes, GoesWith, NoProcess, Processes
<1>4. k \in Kept /\ run'[r].place # "free" => OwnerKnown(r)'
  <2> SUFFICES ASSUME k \in Kept, run'[r].place # "free" PROVE OwnerKnown(r)'
    OBVIOUS
  <2>1. /\ run'[r].job = k /\ run'[r].snap.retries = rec[k].retries
        /\ run[r].place # "mark"
    BY <1>1, <1>2, <1>3 DEF Exits, Goes, GoesWith, NoProcess, Processes, OwnerKnown, JobOf
  <2> QED BY <1>1, <1>3, <2>1 DEF OwnerKnown, JobOf, PassHolds
<1>6. ASSUME NEW j \in Jobs, j = k PROVE JobsInv'
  <2>1. j \in Kept => JobSettled(j)'
    BY <1>1, <1>6 DEF JobSettled
  <2> HIDE DEF k
  <2> QED BY <1>1, <1>3, <1>4, <1>6, <2>1, RunnerMoves DEF k
<1> QED BY <1>1, <1>6

\* A save of the runner's progress.
LEMMA ProgressMoves ==
    ASSUME JobsInv, TypeOK', NEW r \in Runners, run[r].place \in {"encode", "finalize", "publish"},
           NEW place \in {"free", "encode", "finalize", "publish", "complete"},
           NEW new \in Records, Progress(r, new, place),
           UNCHANGED <<sched, cancelling, stray, attempts, marker>>,
           new.retries = RecordOf(r).retries,
           RecordOf(r).status # "none" => new.status # "none",
           RecordOf(r).status \in Live => new.status \in Live,
           place # "free" => new.pid = RecordOf(r).pid,
           place = "encode" => new.encoded = RecordOf(r).encoded /\ run[r].place = "encode"
    PROVE  JobsInv'
<1> SUFFICES ASSUME NEW k \in Jobs, k = JobOf(r) PROVE JobsInv'
  BY RunnerFacts
<1>1. /\ run[r].job = k /\ rec[k] \in Records /\ rec[k].status # "none" /\ RecordOf(r) = rec[k]
      /\ run[r] \in Processes /\ run[r].snap \in Records
      /\ k \in Kept => OwnerKnown(r) /\ JobSettled(k) /\ marker[k] = "none"
  BY RunnerFacts DEF RecordOf
<1>2. run \in [Runners -> Processes] /\ rec \in [Jobs -> Records]
  BY DEF JobsInv, TypeOK
<1>3. CASE rec[k].status = "cancelled"
  <2>1. Exits(r) /\ UNCHANGED rec
    BY <1>3 DEF Progress
  <2> QED BY <2>1, QuietMoves
<1>4. CASE rec[k].status # "cancelled"
  <2>1. /\ ~Locked(k)
        /\ rec' = [rec EXCEPT ![k] = new]
        /\ IF place = "free" THEN Exits(r) ELSE GoesWith(r, place, new)
    BY <1>4 DEF Progress
  <2>2. /\ rec'[k] = new
        /\ \A i \in Jobs : i # k => rec'[i] = rec[i]
    BY <1>2, <2>1
  <2>3. /\ \A q \in Runners : q # r => run'[q] = run[q]
        /\ run'[r].place # "free" => run'[r].job = k /\ run'[r].snap = new
        /\ run'[r].place = place
    BY <1>1, <1>2, <2>1 DEF Exits, GoesWith, NoProcess, Processes
  <2>4. k \in Kept => JobSettled(k)'
    BY <1>1, <2>2 DEF JobSettled, OwnerKnown
  <2>5. k \in Kept /\ run'[r].place # "free" => OwnerKnown(r)'
    <3> SUFFICES ASSUME k \in Kept, run'[r].place # "free" PROVE OwnerKnown(r)'
      OBVIOUS
    <3>1. ~PassHolds(k) /\ cancelling[k] = "no"
      BY <2>1 DEF Locked
    <3>2. rec[k].status \in Live /\ rec[k].pid = r
      BY <1>1, <3>1 DEF OwnerKnown
    <3> QED BY <2>2, <2>3, <3>1, <3>2 DEF OwnerKnown, JobOf, PassHolds, RecordOf
  <2>6. k \in Kept => (rec'[k].encoded => run'[r].place # "encode")
    <3>1. run[r].place = "encode" /\ k \in Kept => ~rec[k].encoded
      BY DEF JobsInv, EncodedOnce
    <3> QED BY <2>2, <2>3, <3>1 DEF RecordOf
  <2> QED BY <1>1, <2>1, <2>2, <2>3, <2>4, <2>5, <2>6, RunnerMoves
<1> QED BY <1>3, <1>4

\* A terminal save.
LEMMA TerminateMoves ==
    ASSUME JobsInv, TypeOK', NEW r \in Runners, run[r].place \in {"claim", "encode", "complete"},
           NEW status \in {"completed", "failed"}, Terminate(r, status),
           UNCHANGED <<sched, cancelling, stray, attempts>>
    PROVE  JobsInv'
<1> SUFFICES ASSUME NEW k \in Jobs, k = JobOf(r) PROVE JobsInv'
  BY RunnerFacts
<1>1. /\ run[r].job = k /\ rec[k] \in Records
      /\ run[r] \in Processes /\ run[r].snap \in Records
      /\ k \in Kept => OwnerKnown(r) /\ JobSettled(k) /\ marker[k] = "none"
  BY RunnerFacts
<1>2. /\ run \in [Runners -> Processes] /\ rec \in [Jobs -> Records]
      /\ marker \in [Jobs -> {"none"} \cup Terminal]
  BY DEF JobsInv, TypeOK
<1>3. ~Locked(k)
  BY DEF Terminate
<1>4. CASE rec[k].status = "cancelled"
  <2>1. Exits(r) /\ UNCHANGED rec /\ marker' = [marker EXCEPT ![k] = "cancelled"]
    BY <1>4 DEF Terminate
  <2>2. k \notin Kept
    BY <1>1, <1>4 DEF OwnerKnown
  <2>3. \A i \in Jobs : i # k => rec'[i] = rec[i] /\ marker'[i] = marker[i]
    BY <1>2, <2>1
  <2>4. /\ \A q \in Runners : q # r => run'[q] = run[q]
        /\ run'[r].place = "free"
    BY <1>2, <2>1 DEF Exits, NoProcess
  <2> QED BY <1>1, <1>3, <2>1, <2>2, <2>3, <2>4, RunnerMoves
<1>5. CASE rec[k].status # "cancelled"
  <2> DEFINE new == Ended(run[r].snap, status)
  <2>1. /\ rec' = [rec EXCEPT ![k] = new]
        /\ GoesWith(r, "mark", new) /\ UNCHANGED marker
    BY <1>5 DEF Terminate
  <2>2. new.status = status /\ new.retries = run[r].snap.retries
    BY <1>1 DEF Ended, Records
  <2> HIDE DEF new
  <2>3. /\ rec'[k] = new
        /\ \A i \in Jobs : i # k => rec'[i] = rec[i] /\ marker'[i] = marker[i]
    BY <1>2, <2>1
  <2>4. /\ \A q \in Runners : q # r => run'[q] = run[q]
        /\ run'[r].job = k /\ run'[r].snap = new /\ run'[r].place = "mark"
    BY <1>1, <1>2, <2>1 DEF GoesWith, Processes
  <2>5. k \in Kept => JobSettled(k)'
    BY <1>1, <2>1, <2>2, <2>3 DEF JobSettled, OwnerKnown
  <2>6. k \in Kept => OwnerKnown(r)'
    BY <1>1, <1>3, <2>2, <2>3, <2>4 DEF OwnerKnown, JobOf, Locked
  <2> QED BY <1>1, <1>3, <2>2, <2>3, <2>4, <2>5, <2>6, RunnerMoves
<1> QED BY <1>4, <1>5


LEMMA StandsStill ==
    ASSUME JobsInv, TypeOK', UNCHANGED <<rec, marker, run, sched, cancelling, stray, attempts>>
    PROVE  JobsInv'
BY DEF JobsInv, LocksExclude, OwnersKnown, OwnerKnown, OneRunnerKept, MarkerAgrees, AttemptsCounted,
       EncodedOnce, PassHolds, JobOf, Kept

LEMMA FailureMoves ==
    ASSUME JobsInv, TypeOK', NEW r \in Runners, run[r].place \in {"encode", "finalize", "publish"},
           UNCHANGED <<sched, cancelling, stray, attempts, marker>>, FinalizationFails(r)
    PROVE  JobsInv'
<1>1. PICK permanent \in BOOLEAN :
        Progress(r, [RecordOf(r) EXCEPT
                        !.status = "running", !.pid = NoRunner, !.encoded = TRUE,
                        !.fin = IF PostEncodeFinished(RecordOf(r)) THEN RecordOf(r).fin ELSE "pending",
                        !.permanent = permanent], "free")
  BY DEF FinalizationFails
<1> DEFINE new == [RecordOf(r) EXCEPT
                        !.status = "running", !.pid = NoRunner, !.encoded = TRUE,
                        !.fin = IF PostEncodeFinished(RecordOf(r)) THEN RecordOf(r).fin ELSE "pending",
                        !.permanent = permanent]
<1>2. RecordOf(r) \in Records
  BY RunnerFacts DEF RecordOf
<1>3. /\ new \in Records /\ new.retries = RecordOf(r).retries /\ new.status = "running"
      /\ Progress(r, new, "free")
  BY <1>1, <1>2 DEF Records, PostEncodeFinished
<1> HIDE DEF new
<1> QED BY <1>3, ProgressMoves

LEMMA RunnerStep ==
    ASSUME JobsInv, TypeOK', NEW r \in Runners, Works(r) \/ Refuse(r) \/ Dies(r)
    PROVE  JobsInv'
<1> SUFFICES ASSUME NEW k \in Jobs, k = JobOf(r), run[r].place # "free" PROVE JobsInv'
  <2>1. run[r].place # "free"
    BY DEF Works, Refuse, Dies, Load, ClaimRunner, Encode, Checkpoint, Finalize, Publish, Complete, Mark
  <2> QED BY <2>1, RunnerFacts
<1>1. /\ run[r].job = k /\ rec[k] \in Records /\ RecordOf(r) = rec[k]
      /\ run[r] \in Processes /\ run[r].snap \in Records
      /\ k \in Kept => OwnerKnown(r) /\ JobSettled(k)
      /\ k \in Kept /\ run[r].place # "mark" => marker[k] = "none"
  BY RunnerFacts DEF RecordOf
<1>2. /\ run \in [Runners -> Processes] /\ rec \in [Jobs -> Records]
      /\ marker \in [Jobs -> {"none"} \cup Terminal]
  BY DEF JobsInv, TypeOK
<1>3. CASE Load(r)
  BY <1>3, QuietMoves DEF Load, jobVars, serverVars, history
<1>4. CASE ClaimRunner(r)
  <2>1. CASE rec[k].status = "cancelled"
    BY <1>4, <2>1, QuietMoves DEF ClaimRunner, serverVars, history
  <2>2. CASE rec[k].status # "cancelled"
    <3> DEFINE mine == [rec[k] EXCEPT !.pid = r, !.status = "running"]
    <3> DEFINE place == IF PostEncodeResume(run[r].snap) \/ rec[k].encoded THEN "finalize" ELSE "encode"
    <3>1. /\ ~Locked(k) /\ run[r].place = "claim"
          /\ rec' = [rec EXCEPT ![k] = mine]
          /\ GoesWith(r, place, mine)
          /\ UNCHANGED <<sched, cancelling, stray, attempts, marker>>
      BY <1>4, <2>2 DEF ClaimRunner, serverVars, history
    <3>2. /\ mine.pid = r /\ mine.status = "running" /\ mine.retries = rec[k].retries
          /\ mine.encoded = rec[k].encoded
      BY <1>1 DEF Records
    <3>3. place \in {"finalize", "encode"} /\ (rec[k].encoded => place # "encode")
      OBVIOUS
    <3> HIDE DEF mine, place
    <3>4. /\ rec'[k] = mine
          /\ \A i \in Jobs : i # k => rec'[i] = rec[i] /\ marker'[i] = marker[i]
      BY <1>2, <3>1
    <3>5. /\ \A q \in Runners : q # r => run'[q] = run[q]
          /\ run'[r].job = k /\ run'[r].snap = mine /\ run'[r].place = place
      BY <1>1, <1>2, <3>1 DEF GoesWith, Processes
    <3>6. k \in Kept => JobSettled(k)'
      BY <1>1, <3>1, <3>2, <3>4 DEF JobSettled
    <3>7. k \in Kept => OwnerKnown(r)'
      BY <3>1, <3>2, <3>3, <3>4, <3>5 DEF OwnerKnown, JobOf, Locked, PassHolds
    <3> QED BY <1>1, <3>1, <3>2, <3>3, <3>4, <3>5, <3>6, <3>7, RunnerMoves
  <2> QED BY <2>1, <2>2
<1>5. CASE Refuse(r)
  BY <1>5, TerminateMoves DEF Refuse, serverVars, history
<1>6. CASE Encode(r)
  <2>1. CASE Terminate(r, "failed")
    BY <1>6, <2>1, TerminateMoves DEF Encode, serverVars, history
  <2>2. CASE Progress(r, RecordOf(r), "encode") /\ UNCHANGED <<marker, asr>>
    BY <1>1, <1>6, <2>2, ProgressMoves DEF Encode, serverVars, history
  <2>3. CASE UNCHANGED <<rec, marker, run>>
    <3>1. UNCHANGED <<sched, cancelling, stray, attempts>>
      BY <1>6 DEF Encode, serverVars, history
    <3> QED BY <2>3, <3>1, StandsStill
  <2> QED BY <1>6, <2>1, <2>2, <2>3 DEF Encode
<1> DEFINE Kinds == /\ UNCHANGED <<sched, cancelling, stray, attempts, marker>>
                    /\ run[r].place \in {"encode", "finalize", "publish"}
<1>7. CASE Checkpoint(r)
  <2> DEFINE new == [rec[k] EXCEPT !.encoded = TRUE]
  <2>1. Kinds /\ Progress(r, new, "finalize")
    BY <1>1, <1>7 DEF Checkpoint, serverVars, history
  <2>2. /\ new \in Records /\ new.retries = rec[k].retries /\ new.status = rec[k].status
        /\ new.pid = rec[k].pid
    BY <1>1 DEF Records
  <2> HIDE DEF new
  <2> QED BY <1>1, <2>1, <2>2, ProgressMoves
<1>8. CASE Finalize(r)
  <2>1. Kinds
    BY <1>8 DEF Finalize, serverVars, history
  <2>2. CASE Progress(r, [RecordOf(r) EXCEPT !.encoded = TRUE, !.fin = "finalizing"], "publish")
    <3> DEFINE new == [rec[k] EXCEPT !.encoded = TRUE, !.fin = "finalizing"]
    <3>1. /\ new \in Records /\ new.retries = rec[k].retries /\ new.status = rec[k].status
          /\ new.pid = rec[k].pid /\ Progress(r, new, "publish")
      BY <1>1, <2>2 DEF Records
    <3> HIDE DEF new
    <3> QED BY <1>1, <2>1, <3>1, ProgressMoves
  <2>3. CASE Goes(r, "complete") /\ UNCHANGED rec
    BY <1>8, <2>1, <2>3, QuietMoves DEF Finalize
  <2>4. CASE FinalizationFails(r)
    BY <2>1, <2>4, FailureMoves
  <2> QED BY <1>8, <2>2, <2>3, <2>4 DEF Finalize
<1>9. CASE Publish(r)
  <2>1. Kinds
    BY <1>9 DEF Publish, serverVars, history
  <2>2. CASE Progress(r, [RecordOf(r) EXCEPT !.fin = "completed"], "complete")
    <3> DEFINE new == [rec[k] EXCEPT !.fin = "completed"]
    <3>1. /\ new \in Records /\ new.retries = rec[k].retries /\ new.status = rec[k].status
          /\ new.pid = rec[k].pid /\ Progress(r, new, "complete")
      BY <1>1, <2>2 DEF Records
    <3> HIDE DEF new
    <3> QED BY <1>1, <2>1, <3>1, ProgressMoves
  <2>3. CASE FinalizationFails(r)
    BY <2>1, <2>3, FailureMoves
  <2> QED BY <1>9, <2>2, <2>3 DEF Publish
<1>10. CASE Complete(r)
  BY <1>10, TerminateMoves DEF Complete, serverVars, history
<1>11. CASE Mark(r)
  <2>1. /\ run[r].place = "mark" /\ Exits(r) /\ marker' = [marker EXCEPT ![k] = run[r].snap.status]
        /\ UNCHANGED <<rec, sched, cancelling, stray, attempts>>
    BY <1>11 DEF Mark, serverVars, history
  <2>2. /\ \A q \in Runners : q # r => run'[q] = run[q]
        /\ run'[r].place = "free"
    BY <1>2, <2>1 DEF Exits, NoProcess
  <2>3. /\ \A i \in Jobs : i # k => rec'[i] = rec[i] /\ marker'[i] = marker[i]
        /\ marker'[k] = run[r].snap.status
    BY <1>2, <2>1
  <2>4. k \in Kept => JobSettled(k)'
    BY <1>1, <2>1, <2>3 DEF JobSettled, OwnerKnown
  <2> QED BY <1>1, <2>1, <2>2, <2>3, <2>4, RunnerMoves
<1>12. CASE Dies(r)
  BY <1>12, QuietMoves DEF Dies, jobVars, serverVars, history
<1> QED BY <1>3, <1>4, <1>5, <1>6, <1>7, <1>8, <1>9, <1>10, <1>11, <1>12 DEF Works


-----------------------------------------------------------------------------
(* The server's steps *)

\* A running job without a process, whatever a repair makes of it.
Repairs(j) == {[rec[j] EXCEPT !.pid = NoRunner],
               [rec[j] EXCEPT !.status = "queued", !.pid = NoRunner],
               Ended(rec[j], "killed")}

LEMMA RepairTouches ==
    ASSUME JobsInv, UNCHANGED attempts, UNCHANGED run, UNCHANGED stray,
           NEW j \in Jobs, ~Locked(j), rec[j].status \in Live, ~HasProcess(j),
           rec'[j] \in Repairs(j),
           PostEncodeFinished(rec[j]) => rec'[j].status # "killed",
           marker'[j] = marker[j] \/ marker'[j] = rec'[j].status
    PROVE  Touched(j)
<1>1. /\ rec[j] \in Records /\ marker[j] \in {"none"} \cup Terminal
  BY DEF JobsInv, TypeOK
<1>2. /\ rec'[j].retries = rec[j].retries /\ rec'[j].encoded = rec[j].encoded
      /\ rec'[j].fin = rec[j].fin /\ rec'[j].status \in {rec[j].status, "queued", "killed"}
  BY <1>1 DEF Repairs, Records, Ended
<1>3. ASSUME j \in Kept PROVE Idle(j) /\ JobSettled(j)'
  <2>1. Idle(j)
    BY <1>3, FreeIsIdle
  <2>2. JobSettled(j) /\ marker[j] = "none"
    BY <1>1, <1>3, SettledJobs DEF JobSettled
  <2>3. rec[j].encoded /\ rec[j].fin # "completed" => PostEncodeFinished(rec[j])
    BY <1>1 DEF Records, PostEncodeFinished
  <2> QED BY <1>2, <2>1, <2>2, <2>3 DEF JobSettled
<1> QED BY <1>2, <1>3 DEF Touched

LEMMA CountMoves ==
    ASSUME JobsInv, CanCount, UNCHANGED <<attempts, run, stray, marker>>,
           NEW j \in Jobs, Stopped(j), rec'[j] = Recovered(j)
    PROVE  Touched(j)
<1>1. ~Locked(j) /\ rec[j].status \in Live /\ ~HasProcess(j)
  BY DEF CanCount, Stopped
<1>2. rec[j] \in Records
  BY DEF JobsInv, TypeOK
<1>3. /\ Recovered(j) \in Repairs(j)
      /\ PostEncodeFinished(rec[j]) => Recovered(j).status # "killed"
  BY <1>1, <1>2 DEF Recovered, Repairs, Records, Stopped
<1> QED BY <1>1, <1>3, RepairTouches

\* A submit or a tick, before the queue is looked at.
LEMMA QueuePassMoves ==
    ASSUME JobsInv, TypeOK', UNCHANGED <<run, cancelling, stray, marker, attempts>>,
           sched.mode = "idle", NEW f, QueuePassFrom(f), NEW k \in Jobs,
           \A j \in Jobs : j # k => f[j] = rec[j],
           rec'[k] = f[k] /\ f[k] # rec[k] => Touched(k)
    PROVE  JobsInv'
<1>1. sched.runner = NoRunner /\ sched'.runner = NoRunner
  <2>1. sched = NoPass
    BY DEF JobsInv, TypeOK
  <2>2. sched' = NoPass \/ sched' = [NoPass EXCEPT !.mode = "queue", !.at = 1]
    BY DEF QueuePassFrom
  <2>3. NoPass.runner = NoRunner /\ [NoPass EXCEPT !.mode = "queue", !.at = 1].runner = NoRunner
    BY DEF NoPass
  <2> QED BY <2>1, <2>2, <2>3
<1>2. ASSUME NEW j \in Jobs PROVE Untouched(j) \/ Touched(j)
  <2>1. CASE held
    BY <2>1 DEF QueuePassFrom, Untouched
  <2>2. CASE ~held
    <3>1. CanCount /\ rec'[j] = IF Stopped(j) THEN Recovered(j) ELSE f[j]
      BY <2>2 DEF QueuePassFrom
    <3>2. CASE Stopped(j)
      BY <3>1, <3>2, CountMoves
    <3>3. CASE ~Stopped(j)
      BY <3>1, <3>3 DEF Untouched
    <3> QED BY <3>2, <3>3
  <2> QED BY <2>1, <2>2
<1> QED BY <1>1, <1>2, ServerMoves


LEMMA SubmitMoves ==
    ASSUME JobsInv, TypeOK', NEW j \in Jobs, SubmitNew(j) \/ SubmitAgain(j) \/ Status(j)
    PROVE  JobsInv'
<1>0. /\ rec[j] \in Records /\ rec \in [Jobs -> Records]
      /\ marker[j] \in {"none"} \cup Terminal /\ attempts[j] \in Nat
  BY DEF JobsInv, TypeOK
<1>a. /\ UNCHANGED <<run, cancelling, stray, marker, attempts>>
      /\ server = "up"
  BY DEF SubmitNew, SubmitAgain, Status, UpAndFree, serverVars, history
<1>1. CASE SubmitNew(j)
  <2> DEFINE f == [rec EXCEPT ![j] = [NoRecord EXCEPT !.status = "queued"]]
  <2>1. /\ QueuePassFrom(f) /\ sched.mode = "idle" /\ rec[j].status = "none"
        /\ \A i \in Jobs : i # j => f[i] = rec[i]
        /\ f[j] = [NoRecord EXCEPT !.status = "queued"]
    BY <1>0, <1>1 DEF SubmitNew, UpAndFree
  <2> HIDE DEF f
  <2>2. rec[j] = NoRecord
    BY <2>1 DEF JobsInv, LocksExclude
  <2>3. ~Locked(j)
    <3>1. sched.runner = NoRunner
      BY <2>1 DEF JobsInv, TypeOK, NoPass
    <3>2. cancelling[j] = "no"
      BY <2>1 DEF JobsInv, LocksExclude, TypeOK
    <3>3. \A r \in Runners : ~(run[r].place = "mark" /\ run[r].job = j)
      BY <2>1 DEF JobsInv, LocksExclude, JobOf
    <3> QED BY <3>1, <3>2, <3>3 DEF Locked, PassHolds
  <2>4. Idle(j)
    BY <2>1 DEF JobsInv, LocksExclude, Idle
  <2>5. rec'[j] = f[j] => Touched(j)
    <3> SUFFICES ASSUME rec'[j] = f[j] PROVE Touched(j)
      OBVIOUS
    <3>1. /\ rec'[j].status = "queued" /\ rec'[j].retries = 0 /\ ~rec'[j].encoded
      BY <2>1 DEF NoRecord
    <3>2. j \in Kept => JobSettled(j)'
      <4> SUFFICES ASSUME j \in Kept PROVE JobSettled(j)'
        OBVIOUS
      <4>1. JobSettled(j)
        BY SettledJobs
      <4>2. marker[j] = "none" /\ attempts[j] = 0
        BY <1>0, <2>1, <2>2, <4>1 DEF JobSettled, NoRecord
      <4> QED BY <1>a, <3>1, <4>2 DEF JobSettled
    <3> QED BY <2>1, <2>3, <2>4, <3>1, <3>2 DEF Touched
  <2> QED BY <1>a, <2>1, <2>5, QueuePassMoves
<1>2. CASE SubmitAgain(j)
  <2> DEFINE f == IF HasProcess(j) THEN rec ELSE [rec EXCEPT ![j].pid = NoRunner]
  <2>1. CASE rec[j].status = "queued" /\ QueuePassFrom(f)
    <3>1. /\ \A i \in Jobs : i # j => f[i] = rec[i]
          /\ f[j] = rec[j] \/ (~HasProcess(j) /\ f[j] = [rec[j] EXCEPT !.pid = NoRunner])
      BY <1>0
    <3> HIDE DEF f
    <3>2. ~Locked(j) /\ sched.mode = "idle"
      BY <1>2 DEF SubmitAgain, UpAndFree
    <3>3. rec'[j] = f[j] /\ f[j] # rec[j] => Touched(j)
      <4> SUFFICES ASSUME rec'[j] = f[j], f[j] # rec[j] PROVE Touched(j)
        OBVIOUS
      <4>1. rec'[j] = [rec[j] EXCEPT !.pid = NoRunner] /\ ~HasProcess(j)
        BY <3>1
      <4>2. rec'[j].status = "queued"
        BY <1>0, <2>1, <4>1 DEF Records
      <4> QED BY <1>a, <2>1, <3>2, <4>1, <4>2, RepairTouches DEF Repairs
    <3> QED BY <1>a, <2>1, <3>1, <3>2, <3>3, QueuePassMoves
  <2>2. CASE /\ Stopped(j)
             /\ rec' = IF PostEncodeFinished(rec[j]) THEN [rec EXCEPT ![j].pid = NoRunner]
                       ELSE [rec EXCEPT ![j] = Ended(@, "killed")]
             /\ UNCHANGED sched
    <3>1. ~Locked(j) /\ sched.mode = "idle" /\ rec[j].status = "running" /\ ~HasProcess(j)
      BY <1>2, <2>2 DEF SubmitAgain, UpAndFree, Stopped
    <3>2. /\ rec'[j] = IF PostEncodeFinished(rec[j]) THEN [rec[j] EXCEPT !.pid = NoRunner]
                       ELSE Ended(rec[j], "killed")
          /\ \A i \in Jobs : i # j => rec'[i] = rec[i]
      BY <1>0, <2>2
    <3>3. PostEncodeFinished(rec[j]) => rec'[j].status # "killed"
      BY <1>0, <3>1, <3>2 DEF Records
    <3>4. Touched(j)
      BY <1>a, <3>1, <3>2, <3>3, RepairTouches DEF Repairs
    <3>5. \A i \in Jobs : Untouched(i) \/ Touched(i)
      BY <1>a, <3>2, <3>4 DEF Untouched
    <3>6. sched.runner = NoRunner /\ sched'.runner = NoRunner
      BY <2>2, <3>1 DEF JobsInv, TypeOK, NoPass
    <3> QED BY <1>a, <3>5, <3>6, ServerMoves
  <2> QED BY <1>2, <2>1, <2>2 DEF SubmitAgain
<1>3. CASE Status(j)
  <2>1. /\ ~Locked(j) /\ Stopped(j) /\ UNCHANGED sched
        /\ rec' = [rec EXCEPT ![j] = Recovered(j)]
    BY <1>3 DEF Status, serverVars
  <2>2. rec'[j] = Recovered(j) /\ \A i \in Jobs : i # j => rec'[i] = rec[i]
    BY <1>0, <2>1
  <2>3. /\ rec[j].status \in Live /\ ~HasProcess(j)
        /\ Recovered(j) \in Repairs(j)
        /\ PostEncodeFinished(rec[j]) => Recovered(j).status # "killed"
    BY <1>0, <2>1 DEF Recovered, Repairs, Records, Stopped
  <2>4. Touched(j)
    BY <1>a, <2>1, <2>2, <2>3, RepairTouches
  <2> QED BY <1>a, <2>1, <2>2, <2>4, ServerMoves DEF Untouched
<1> QED BY <1>1, <1>2, <1>3


LEMMA CancelMoves ==
    ASSUME JobsInv, TypeOK', NEW j \in Jobs, CancelKills(j) \/ CancelSaves(j) \/ CancelMarks(j)
    PROVE  JobsInv'
<1>0. /\ rec[j] \in Records /\ rec \in [Jobs -> Records] /\ run \in [Runners -> Processes]
      /\ cancelling \in [Jobs -> {"no", "killed", "saved"}]
      /\ marker \in [Jobs -> {"none"} \cup Terminal]
  BY DEF JobsInv, TypeOK
<1>a. NoProcess.place = "free"
  BY DEF NoProcess
<1>1. CASE CancelKills(j)
  <2>1. /\ ~Locked(j) /\ rec[j].status \in Live
        /\ run' = IF HasProcess(j) THEN [run EXCEPT ![rec[j].pid] = NoProcess] ELSE run
        /\ cancelling' = [cancelling EXCEPT ![j] = "killed"]
        /\ UNCHANGED <<rec, marker, asr, sched, stray, attempts>>
    BY <1>1 DEF CancelKills, jobVars, history
  <2>2. /\ \A r \in Runners : run'[r] = run[r] \/ run'[r].place = "free"
        /\ HasProcess(j) => run'[rec[j].pid].place = "free"
    <3>1. HasProcess(j) => rec[j].pid \in Runners
      BY <1>0 DEF HasProcess, Alive, Records
    <3> QED BY <1>0, <1>a, <2>1, <3>1
  <2>3. cancelling'[j] = "killed" /\ \A i \in Jobs : i # j => cancelling'[i] = cancelling[i]
    BY <1>0, <2>1
  <2>4. j \in Kept => \A r \in Runners : run'[r].place # "free" => run'[r].job # j
    <3> SUFFICES ASSUME j \in Kept, NEW r \in Runners, run'[r].place # "free", run'[r].job = j
                 PROVE  FALSE
      OBVIOUS
    <3>1. run'[r] = run[r] /\ run[r].place # "free" /\ JobOf(r) = j
      BY <2>2 DEF JobOf
    <3>2. OwnerKnown(r) /\ run[r].place # "mark" /\ ~PassHolds(j)
      BY <2>1, <3>1 DEF JobsInv, OwnersKnown, Locked, JobOf
    <3>3. rec[j].pid = r
      BY <3>1, <3>2 DEF OwnerKnown
    <3> QED BY <2>2, <3>1, <3>3, RunnersAssumption DEF HasProcess, Alive
  <2>5. LocksExclude'
    <3>1. \A i \in Jobs :
            /\ cancelling'[i] = "killed" => rec'[i].status \in Live
            /\ cancelling'[i] = "saved" => rec'[i].status = "cancelled"
            /\ rec'[i].status = "none" => rec'[i] = NoRecord
      BY <2>1, <2>3 DEF JobsInv, LocksExclude
    <3>2. \A r \in Runners :
            /\ run'[r].place = "mark" => cancelling'[run'[r].job] = "no" /\ ~PassHolds(JobOf(r))'
            /\ run'[r].place # "free" => rec'[run'[r].job].status # "none"
      BY <2>1, <2>2, <2>3 DEF JobsInv, TypeOK, LocksExclude, PassHolds, JobOf, Locked
    <3>3. ASSUME sched.runner # NoRunner
          PROVE  /\ cancelling'[sched.at] = "no"
                 /\ run'[sched.runner].place \in {"free", "load", "claim"}
                 /\ run'[sched.runner].place # "free" => run'[sched.runner].job = sched.at
      <4>1. sched.at \in Jobs /\ sched.runner \in Runners /\ sched.at # j
        BY <2>1, <3>3 DEF JobsInv, TypeOK, NoPass, Passes, Locked, PassHolds
      <4> QED BY <2>2, <2>3, <3>3, <4>1 DEF JobsInv, LocksExclude, JobOf
    <3> QED BY <2>1, <3>1, <3>2, <3>3 DEF JobsInv, LocksExclude, PassHolds, JobOf
  <2>6. OwnersKnown'
    <3> SUFFICES ASSUME NEW r \in Runners, run'[r].place # "free", JobOf(r)' \in Kept'
                 PROVE  OwnerKnown(r)'
      BY DEF OwnersKnown
    <3>1. run'[r] = run[r] /\ OwnerKnown(r) /\ JobOf(r) \in Jobs /\ JobOf(r) # j
      BY <2>1, <2>2, <2>4 DEF JobsInv, OwnersKnown, JobOf, Kept
    <3> QED BY <2>1, <2>3, <3>1 DEF OwnerKnown, PassHolds, JobOf
  <2>7. OneRunnerKept' /\ MarkerAgrees' /\ AttemptsCounted' /\ EncodedOnce'
    BY <2>1, <2>2 DEF JobsInv, OneRunnerKept, MarkerAgrees, AttemptsCounted, EncodedOnce, JobOf, Kept
  <2> QED BY <2>5, <2>6, <2>7 DEF JobsInv
<1>2. CASE CancelSaves(j)
  <2>1. /\ cancelling[j] = "killed"
        /\ rec' = [rec EXCEPT ![j] = Ended(rec[j], "cancelled")]
        /\ cancelling' = [cancelling EXCEPT ![j] = "saved"]
        /\ UNCHANGED <<marker, run, sched, stray, attempts>>
    BY <1>0, <1>2 DEF CancelSaves, history
  <2>2. /\ rec'[j] = Ended(rec[j], "cancelled") /\ cancelling'[j] = "saved"
        /\ \A i \in Jobs : i # j => rec'[i] = rec[i] /\ cancelling'[i] = cancelling[i]
    BY <1>0, <2>1
  <2>3. /\ rec'[j].status = "cancelled" /\ rec'[j].retries = rec[j].retries
        /\ rec'[j].encoded = rec[j].encoded /\ rec'[j].fin = rec[j].fin
        /\ rec[j].status \in Live
    BY <1>0, <2>1, <2>2 DEF Ended, Records, JobsInv, LocksExclude
  <2>4. j \in Kept => Idle(j)
    BY <2>1 DEF JobsInv, OwnersKnown, OwnerKnown, Idle
  <2>5. LocksExclude'
    <3>1. \A i \in Jobs :
            /\ cancelling'[i] = "killed" => rec'[i].status \in Live
            /\ cancelling'[i] = "saved" => rec'[i].status = "cancelled"
            /\ rec'[i].status = "none" => rec'[i] = NoRecord
      BY <2>2, <2>3 DEF JobsInv, LocksExclude
    <3>2. \A r \in Runners :
            /\ run'[r].place = "mark" => cancelling'[run'[r].job] = "no" /\ ~PassHolds(JobOf(r))'
            /\ run'[r].place # "free" => rec'[run'[r].job].status # "none"
      BY <2>1, <2>2, <2>3 DEF JobsInv, TypeOK, LocksExclude, PassHolds, JobOf
    <3>3. sched.runner # NoRunner => sched.at \in Jobs /\ sched.at # j
      BY <2>1 DEF JobsInv, TypeOK, LocksExclude, NoPass
    <3> QED BY <2>1, <2>2, <3>1, <3>2, <3>3 DEF JobsInv, LocksExclude, PassHolds, JobOf
  <2>6. OwnersKnown'
    <3> SUFFICES ASSUME NEW r \in Runners, run'[r].place # "free", JobOf(r)' \in Kept'
                 PROVE  OwnerKnown(r)'
      BY DEF OwnersKnown
    <3>1. OwnerKnown(r) /\ JobOf(r) \in Jobs /\ JobOf(r) # j
      BY <2>1, <2>4 DEF JobsInv, OwnersKnown, JobOf, Kept, Idle
    <3> QED BY <2>1, <2>2, <3>1 DEF OwnerKnown, PassHolds, JobOf
  <2>7. \A i \in Kept' : JobSettled(i)'
    <3> SUFFICES ASSUME NEW i \in Kept' PROVE JobSettled(i)'
      OBVIOUS
    <3>1. i \in Kept /\ i \in Jobs /\ JobSettled(i)
      BY <2>1, SettledJobs DEF Kept
    <3>2. i = j => marker[i] = "none"
      BY <1>0, <2>3, <3>1 DEF JobSettled
    <3> QED BY <2>1, <2>2, <2>3, <3>1, <3>2 DEF JobSettled
  <2>8. OneRunnerKept' /\ MarkerAgrees' /\ AttemptsCounted'
    BY <2>1, <2>7 DEF JobsInv, OneRunnerKept, MarkerAgrees, AttemptsCounted, JobOf, Kept, JobSettled
  <2>9. EncodedOnce'
    <3>1. \A i \in Kept' : rec'[i].encoded => rec[i].encoded /\ i \in Kept
      BY <2>1, <2>2, <2>3 DEF Kept
    <3> QED BY <2>1, <2>7, <3>1 DEF JobsInv, EncodedOnce, JobOf, JobSettled
  <2> QED BY <2>5, <2>6, <2>8, <2>9 DEF JobsInv
<1>3. CASE CancelMarks(j)
  <2>1. /\ rec[j].status = "cancelled"
        /\ marker' = [marker EXCEPT ![j] = "cancelled"]
        /\ cancelling' = [cancelling EXCEPT ![j] = "no"]
        /\ UNCHANGED <<rec, run, sched, stray, attempts>>
    BY <1>3 DEF CancelMarks, history, JobsInv, LocksExclude
  <2>2. /\ marker'[j] = "cancelled" /\ cancelling'[j] = "no"
        /\ \A i \in Jobs : i # j => marker'[i] = marker[i] /\ cancelling'[i] = cancelling[i]
    BY <1>0, <2>1
  <2>3. LocksExclude'
    <3>1. \A i \in Jobs : cancelling'[i] = cancelling[i] \/ cancelling'[i] = "no"
      BY <2>2
    <3>2. sched.runner # NoRunner => sched.at \in Jobs
      BY DEF JobsInv, TypeOK, NoPass
    <3>3. \A r \in Runners : run[r].place # "free" => JobOf(r) \in Jobs
      BY DEF JobsInv, TypeOK, JobOf
    <3> QED BY <2>1, <3>1, <3>2, <3>3 DEF JobsInv, LocksExclude, PassHolds, JobOf
  <2>4. OwnersKnown'
    <3> SUFFICES ASSUME NEW r \in Runners, run'[r].place # "free", JobOf(r)' \in Kept'
                 PROVE  OwnerKnown(r)'
      BY DEF OwnersKnown
    <3>1. OwnerKnown(r) /\ JobOf(r) \in Jobs
      BY <2>1 DEF JobsInv, OwnersKnown, JobOf, Kept
    <3> QED BY <2>1, <2>2, <3>1 DEF OwnerKnown, PassHolds, JobOf
  <2>5. OneRunnerKept' /\ MarkerAgrees' /\ AttemptsCounted' /\ EncodedOnce'
    BY <2>1, <2>2 DEF JobsInv, OneRunnerKept, MarkerAgrees, AttemptsCounted, EncodedOnce, JobOf, Kept
  <2> QED BY <2>3, <2>4, <2>5 DEF JobsInv
<1> QED BY <1>1, <1>2, <1>3


LEMMA RetryMoves ==
    ASSUME JobsInv, TypeOK', NEW j \in Jobs, RetryPublication(j)
    PROVE  JobsInv'
<1>0. rec[j] \in Records /\ rec \in [Jobs -> Records] /\ attempts \in [Jobs -> Nat]
      /\ marker[j] \in {"none"} \cup Terminal
  BY DEF JobsInv, TypeOK
<1>1. /\ ~Locked(j) /\ rec[j].status = "running" /\ rec[j].pid = NoRunner
      /\ rec' = [rec EXCEPT ![j] = [rec[j] EXCEPT !.retries = 0, !.asked = TRUE]]
      /\ attempts' = [attempts EXCEPT ![j] = 0]
      /\ UNCHANGED <<marker, run, sched, cancelling, stray>>
  BY <1>0 DEF RetryPublication, PostEncodeResume, serverVars
<1>2. /\ rec'[j] = [rec[j] EXCEPT !.retries = 0, !.asked = TRUE] /\ attempts'[j] = 0
      /\ \A i \in Jobs : i # j => rec'[i] = rec[i] /\ attempts'[i] = attempts[i]
  BY <1>0, <1>1
<1>3. rec'[j].retries = 0 /\ rec'[j].status = "running"
  BY <1>0, <1>1, <1>2 DEF Records
<1>4. j \in Kept => Idle(j) /\ JobSettled(j)'
  <2> SUFFICES ASSUME j \in Kept PROVE Idle(j) /\ JobSettled(j)'
    OBVIOUS
  <2>1. Idle(j)
    BY <1>1, FreeIsIdle DEF HasProcess, Alive
  <2>2. marker[j] = "none"
    BY <1>0, <1>1, SettledJobs DEF JobSettled
  <2> QED BY <1>1, <1>2, <1>3, <2>1, <2>2 DEF JobSettled
<1>5. Touched(j)
  BY <1>1, <1>3, <1>4 DEF Touched
<1>6. \A i \in Jobs : Untouched(i) \/ Touched(i)
  BY <1>1, <1>2, <1>5 DEF Untouched
<1> QED BY <1>1, <1>6, ServerMoves

LEMMA RequestStep ==
    ASSUME JobsInv, TypeOK', NEW j \in Jobs, Request(j)
    PROVE  JobsInv'
BY SubmitMoves, CancelMoves, RetryMoves DEF Request

\* Every job is left alone, or repaired by the count.
LEMMA CountedMoves ==
    ASSUME JobsInv, TypeOK', CanCount, rec' = Counted,
           UNCHANGED <<attempts, run, stray, marker, cancelling>>,
           sched.runner = NoRunner, sched'.runner = NoRunner
    PROVE  JobsInv'
<1>1. ASSUME NEW j \in Jobs PROVE Untouched(j) \/ Touched(j)
  <2>1. CASE Stopped(j)
    BY <2>1, CountMoves DEF Counted
  <2>2. CASE ~Stopped(j)
    BY <2>2 DEF Counted, Untouched
  <2> QED BY <2>1, <2>2
<1> QED BY <1>1, ServerMoves

LEMMA ReconcileMoves ==
    ASSUME JobsInv, TypeOK', NEW j \in Jobs, StartupReconciles(j)
    PROVE  JobsInv'
<1>0. rec[j] \in Records /\ rec \in [Jobs -> Records]
      /\ marker \in [Jobs -> {"none"} \cup Terminal]
  BY DEF JobsInv, TypeOK
<1>1. /\ ~Locked(j) /\ rec' = [rec EXCEPT ![j] = Reconciled(j)]
      /\ marker' = IF Reconciled(j).status = "killed" /\ rec[j].status = "running"
                   THEN [marker EXCEPT ![j] = "killed"] ELSE marker
      /\ UNCHANGED <<run, sched, cancelling, stray, attempts>>
  BY DEF StartupReconciles, history
<1>2. /\ rec'[j] = Reconciled(j)
      /\ \A i \in Jobs : i # j => rec'[i] = rec[i] /\ marker'[i] = marker[i]
      /\ marker'[j] = marker[j] \/ (marker'[j] = "killed" /\ rec'[j].status = "killed")
  BY <1>0, <1>1
<1>3. CASE rec[j].status # "running" \/ (marker[j] = "none" /\ HasProcess(j))
  <2>1. Reconciled(j) = rec[j] /\ marker' = marker
    BY <1>1, <1>3 DEF Reconciled
  <2>2. \A i \in Jobs : Untouched(i)
    BY <1>1, <1>2, <2>1 DEF Untouched
  <2> QED BY <1>1, <2>2, ServerMoves
<1>4. CASE rec[j].status = "running" /\ marker[j] = "none" /\ ~HasProcess(j)
  <2>1. /\ Reconciled(j) \in Repairs(j)
        /\ PostEncodeFinished(rec[j]) => Reconciled(j).status # "killed"
    BY <1>0, <1>4 DEF Reconciled, Repairs, Records
  <2>2. Touched(j)
    BY <1>1, <1>2, <1>4, <2>1, RepairTouches
  <2>3. \A i \in Jobs : Untouched(i) \/ Touched(i)
    BY <1>1, <1>2, <2>2 DEF Untouched
  <2> QED BY <1>1, <2>3, ServerMoves
<1>5. CASE rec[j].status = "running" /\ marker[j] # "none"
  \* Only the marker of a stray job can contradict a running record.
  <2>1. j \notin Kept
    BY <1>0, <1>5, SettledJobs DEF JobSettled
  <2>2. Reconciled(j).status = marker[j]
    BY <1>0, <1>5 DEF Reconciled, Ended, Records
  <2>3. Touched(j)
    BY <1>0, <1>1, <1>2, <1>5, <2>1, <2>2 DEF Touched
  <2>4. \A i \in Jobs : Untouched(i) \/ Touched(i)
    BY <1>1, <1>2, <2>3 DEF Untouched
  <2> QED BY <1>1, <2>4, ServerMoves
<1> QED BY <1>3, <1>4, <1>5

LEMMA CrashMoves ==
    ASSUME JobsInv, TypeOK', Crash
    PROVE  JobsInv'
<1>1. /\ sched' = NoPass /\ sched'.runner = NoRunner
      /\ cancelling' = [j \in Jobs |-> "no"]
      /\ stray' = IF sched.runner = NoRunner THEN stray ELSE stray \cup {sched.at}
      /\ UNCHANGED <<rec, marker, run, attempts>>
  BY DEF Crash, jobVars, NoPass
<1>2. Kept' \subseteq Kept /\ \A j \in Kept' : ~PassHolds(j)
  BY <1>1 DEF Kept, PassHolds
<1>3. \A r \in Runners : run[r].place # "free" => JobOf(r) \in Jobs
  BY DEF JobsInv, TypeOK, JobOf
<1>4. LocksExclude'
  BY <1>1, <1>3 DEF JobsInv, LocksExclude, PassHolds, JobOf
<1>5. OwnersKnown'
  <2> SUFFICES ASSUME NEW r \in Runners, run'[r].place # "free", JobOf(r)' \in Kept'
               PROVE  OwnerKnown(r)'
    BY DEF OwnersKnown
  <2>1. OwnerKnown(r) /\ JobOf(r) \in Jobs /\ ~PassHolds(JobOf(r))
    BY <1>1, <1>2, <1>3 DEF JobsInv, OwnersKnown, JobOf
  <2> QED BY <1>1, <2>1 DEF OwnerKnown, PassHolds, JobOf
<1>6. OneRunnerKept' /\ MarkerAgrees' /\ AttemptsCounted' /\ EncodedOnce'
  BY <1>1, <1>2 DEF JobsInv, OneRunnerKept, MarkerAgrees, AttemptsCounted, EncodedOnce, JobOf
<1> QED BY <1>4, <1>5, <1>6 DEF JobsInv

LEMMA ServerStep ==
    ASSUME JobsInv, TypeOK', Hold \/ QueueStarts \/ ResumeStarts \/ Dropped \/ Crash \/ Startup
    PROVE  JobsInv'
<1>1. NoPass.runner = NoRunner /\ ResumePass.runner = NoRunner
  BY DEF NoPass, ResumePass
<1>2. sched.mode = "idle" => sched.runner = NoRunner
  BY <1>1 DEF JobsInv, TypeOK
<1>3. CASE Hold
  BY <1>3, StandsStill DEF Hold, jobVars, history
<1>4. CASE QueueStarts
  <2>1. /\ QueuePassFrom(rec) /\ sched.mode = "idle"
        /\ UNCHANGED <<run, cancelling, stray, marker, attempts>>
    BY <1>4 DEF QueueStarts, UpAndFree, history
  <2> QED BY <2>1, QueuePassMoves, JobsFacts
<1>5. CASE ResumeStarts
  BY <1>1, <1>2, <1>5, CountedMoves DEF ResumeStarts, UpAndFree, history
<1>6. CASE Dropped
  <2>1. \A j \in Jobs : Untouched(j)
    BY <1>6 DEF Dropped, Untouched, jobVars, history
  <2> QED BY <1>1, <1>6, <2>1, ServerMoves DEF Dropped, history
<1>7. CASE Restart
  BY <1>7, StandsStill DEF Restart, jobVars, history
<1>8. CASE StartupResumes
  BY <1>1, <1>2, <1>8, CountedMoves DEF StartupResumes, history
<1>9. CASE StartupEnds
  BY <1>9, StandsStill DEF StartupEnds, jobVars, history
<1> QED BY <1>3, <1>4, <1>5, <1>6, <1>7, <1>8, <1>9, CrashMoves, ReconcileMoves DEF Startup


\* A process is started: for an open job without one, under the job's lock.
LEMMA SpawnMoves ==
    ASSUME JobsInv, TypeOK', NEW r \in Runners, NEW j \in Jobs, Fresh(r), run' = Spawned(r, j),
           sched.runner = NoRunner, sched.at = j, ~Locked(j),
           sched'.runner = r, sched'.at = j, sched'.mode = sched.mode,
           rec'[j].status = IF sched.mode = "queue" THEN "queued" ELSE "running",
           rec'[j].pid = NoRunner, rec[j].status \in Live, ~HasProcess(j),
           j \in Kept => JobSettled(j)',
           \A i \in Jobs : i # j => Untouched(i) \/ Touched(i),
           UNCHANGED <<marker, cancelling, stray>>
    PROVE  JobsInv'
<1>1. run \in [Runners -> Processes] /\ sched \in Passes /\ run[r].place = "free"
  BY DEF JobsInv, TypeOK, Fresh
<1>2. /\ run'[r].place = "load" /\ run'[r].job = j
      /\ \A q \in Runners : q # r => run'[q] = run[q]
  BY <1>1 DEF Spawned
<1>3. r # NoRunner /\ PassHolds(j)' /\ \A i : i # j => ~PassHolds(i) /\ ~PassHolds(i)'
  BY RunnersAssumption DEF PassHolds
<1>4. cancelling[j] = "no" /\ \A q \in Runners : ~(run[q].place = "mark" /\ run[q].job = j)
  BY DEF Locked
<1>5. j \in Kept => Idle(j)
  BY FreeIsIdle
<1>6. LocksExclude'
  <2>1. \A i \in Jobs :
          /\ cancelling'[i] = "killed" => rec'[i].status \in Live
          /\ cancelling'[i] = "saved" => rec'[i].status = "cancelled"
          /\ rec'[i].status = "none" => rec'[i] = NoRecord
    BY <1>4 DEF JobsInv, LocksExclude, Untouched, Touched, Locked
  <2>2. ASSUME NEW q \in Runners
        PROVE  /\ run'[q].place = "mark" => cancelling'[run'[q].job] = "no" /\ ~PassHolds(JobOf(q))'
               /\ run'[q].place # "free" => rec'[run'[q].job].status # "none"
    <3>1. CASE q = r
      BY <1>2, <3>1
    <3>2. CASE q # r
      <4>1. run'[q] = run[q] /\ (run[q].place # "free" => run[q].job \in Jobs)
        BY <1>2, <3>2 DEF JobsInv, TypeOK
      <4>2. run'[q].place = "mark" => cancelling'[run'[q].job] = "no" /\ ~PassHolds(JobOf(q))'
        BY <1>3, <1>4, <4>1 DEF JobsInv, LocksExclude, JobOf
      <4>3. run'[q].place # "free" => rec'[run'[q].job].status # "none"
        BY <4>1 DEF JobsInv, LocksExclude, JobOf, Untouched, Touched
      <4> QED BY <4>2, <4>3
    <3> QED BY <3>1, <3>2
  <2> QED BY <1>2, <1>4, <2>1, <2>2 DEF LocksExclude, JobOf
<1>7. OneRunnerKept'
  BY <1>2, <1>5 DEF JobsInv, OneRunnerKept, JobOf, Kept, Idle
<1>8. OwnersKnown'
  <2> SUFFICES ASSUME NEW q \in Runners, run'[q].place # "free", JobOf(q)' \in Kept'
               PROVE  OwnerKnown(q)'
    BY DEF OwnersKnown
  <2>1. CASE q = r
    BY <1>2, <1>3, <1>4, <2>1 DEF OwnerKnown, JobOf
  <2>2. CASE q # r
    <3>1. run'[q] = run[q] /\ JobOf(q) \in Kept /\ JobOf(q) \in Jobs /\ OwnerKnown(q) /\ JobOf(q) # j
      BY <1>2, <1>5, <2>2 DEF JobsInv, OwnersKnown, JobOf, Kept, Idle
    <3>2. Untouched(JobOf(q))
      BY <2>2, <3>1 DEF Touched, Idle
    <3> QED BY <1>3, <3>1, <3>2 DEF OwnerKnown, Untouched, JobOf
  <2> QED BY <2>1, <2>2
<1>9. \A i \in Kept' : JobSettled(i)'
  BY SettledJobs DEF Untouched, Touched, JobSettled, Kept
<1>10. \A i \in Kept' : rec'[i].encoded =>
         \A q \in Runners : run'[q].job = i => run'[q].place # "encode"
  <2> SUFFICES ASSUME NEW i \in Kept', rec'[i].encoded, NEW q \in Runners, run'[q].job = i,
                      run'[q].place = "encode"
               PROVE  FALSE
    OBVIOUS
  <2>1. q # r /\ run[q].job = i /\ run[q].place = "encode" /\ i \in Kept /\ i \in Jobs
    BY <1>2 DEF Kept
  <2>2. i # j
    BY <1>5, <2>1 DEF Idle, JobOf
  <2>3. Untouched(i)
    BY <2>1, <2>2 DEF Touched, Idle, JobOf
  <2> QED BY <2>1, <2>3 DEF JobsInv, EncodedOnce, Untouched, JobOf
<1>11. MarkerAgrees' /\ AttemptsCounted' /\ EncodedOnce'
  BY <1>9, <1>10 DEF MarkerAgrees, AttemptsCounted, EncodedOnce, JobSettled, JobOf
<1> QED BY <1>6, <1>7, <1>8, <1>11 DEF JobsInv

\* The end of a start: the process is behind its job's record, or killed.
LEMMA RecordMoves ==
    ASSUME JobsInv, TypeOK', NEW j \in Jobs, PassHolds(j),
           sched'.runner = NoRunner,
           \/ rec' = [rec EXCEPT ![j].pid = sched.runner] /\ UNCHANGED run
           \/ /\ rec' = rec \/ rec' = [rec EXCEPT ![j] = Ended(@, "failed")]
              /\ run' = [run EXCEPT ![sched.runner] = NoProcess],
           UNCHANGED <<marker, cancelling, stray, attempts>>
    PROVE  JobsInv'
<1>0. /\ run \in [Runners -> Processes] /\ rec \in [Jobs -> Records] /\ rec[j] \in Records
      /\ sched.runner \in Runners /\ sched.at = j /\ marker[j] \in {"none"} \cup Terminal
  BY DEF JobsInv, TypeOK, Passes, PassHolds
<1>1. /\ rec[j].status \in Live /\ cancelling[j] = "no"
      /\ \A q \in Runners : ~(run[q].place = "mark" /\ run[q].job = j)
  BY <1>0 DEF JobsInv, LocksExclude, PassHolds, JobOf
<1>2. /\ \A i \in Jobs : i # j => rec'[i] = rec[i]
      /\ rec'[j].status \in Live \cup {"failed"} /\ rec'[j].retries = rec[j].retries
      /\ rec'[j].encoded = rec[j].encoded /\ rec'[j].fin = rec[j].fin
  <2>1. \/ rec' = rec
        \/ rec' = [rec EXCEPT ![j] = [rec[j] EXCEPT !.pid = sched.runner]]
        \/ rec' = [rec EXCEPT ![j] = Ended(rec[j], "failed")]
    BY <1>0
  <2>2. \/ rec'[j] = rec[j]
        \/ rec'[j] = [rec[j] EXCEPT !.pid = sched.runner]
        \/ rec'[j] = Ended(rec[j], "failed")
    BY <1>0, <2>1
  <2>3. /\ rec'[j].status \in Live \cup {"failed"} /\ rec'[j].retries = rec[j].retries
        /\ rec'[j].encoded = rec[j].encoded /\ rec'[j].fin = rec[j].fin
    BY <1>0, <1>1, <2>2 DEF Ended, Records
  <2> QED BY <1>0, <2>1, <2>3
<1>3. \A q \in Runners : run'[q] = run[q] \/ run'[q].place = "free"
  BY <1>0 DEF NoProcess
<1>4. \A i : ~PassHolds(i)' /\ (i # j => ~PassHolds(i))
  BY <1>0 DEF PassHolds
<1>5. LocksExclude'
  <2>1. \A i \in Jobs :
          /\ cancelling'[i] = "killed" => rec'[i].status \in Live
          /\ cancelling'[i] = "saved" => rec'[i].status = "cancelled"
          /\ rec'[i].status = "none" => rec'[i] = NoRecord
    BY <1>1, <1>2 DEF JobsInv, LocksExclude
  <2>2. \A q \in Runners :
          /\ run'[q].place = "mark" => cancelling'[run'[q].job] = "no"
          /\ run'[q].place # "free" => rec'[run'[q].job].status # "none"
    BY <1>2, <1>3 DEF JobsInv, TypeOK, LocksExclude, JobOf
  <2> QED BY <1>4, <2>1, <2>2 DEF LocksExclude, JobOf
<1>6. OwnersKnown'
  <2> SUFFICES ASSUME NEW q \in Runners, run'[q].place # "free", JobOf(q)' \in Kept'
               PROVE  OwnerKnown(q)'
    BY DEF OwnersKnown
  <2>1. run'[q] = run[q] /\ JobOf(q) \in Kept /\ JobOf(q) \in Jobs /\ OwnerKnown(q)
    BY <1>3 DEF JobsInv, OwnersKnown, JobOf, Kept
  <2>2. CASE JobOf(q) = j
    <3>1. q = sched.runner /\ run[q].place # "mark"
      BY <1>1, <2>1, <2>2 DEF OwnerKnown, JobOf
    <3>2. rec' = [rec EXCEPT ![j].pid = q]
      BY <1>0, <3>1 DEF NoProcess
    <3>3. rec'[j].pid = q /\ rec'[j].status \in Live
      BY <1>0, <1>1, <3>2 DEF Records
    <3> QED BY <1>1, <1>2, <1>4, <2>1, <2>2, <3>1, <3>3 DEF OwnerKnown, JobOf
  <2>3. CASE JobOf(q) # j
    BY <1>2, <1>4, <2>1, <2>3 DEF OwnerKnown, JobOf
  <2> QED BY <2>2, <2>3
<1>7. OneRunnerKept'
  BY <1>3 DEF JobsInv, OneRunnerKept, JobOf, Kept
<1>8. \A i \in Kept' : JobSettled(i)'
  <2> SUFFICES ASSUME NEW i \in Kept' PROVE JobSettled(i)'
    OBVIOUS
  <2>1. i \in Kept /\ i \in Jobs /\ JobSettled(i)
    BY SettledJobs DEF Kept
  <2>2. i = j => marker[i] = "none"
    BY <1>0, <1>1, <2>1 DEF JobSettled
  <2> QED BY <1>2, <2>1, <2>2 DEF JobSettled
<1>9. EncodedOnce'
  <2>1. \A i \in Kept' : rec'[i].encoded => rec[i].encoded /\ i \in Kept
    BY <1>2 DEF Kept
  <2> QED BY <1>3, <1>8, <2>1 DEF JobsInv, EncodedOnce, JobOf, JobSettled
<1>10. MarkerAgrees' /\ AttemptsCounted'
  BY <1>8 DEF MarkerAgrees, AttemptsCounted, JobSettled
<1> QED BY <1>5, <1>6, <1>7, <1>9, <1>10 DEF JobsInv


LEMMA QueueTakesMoves ==
    ASSUME JobsInv, TypeOK', NEW j \in Jobs, QueueTakes(j)
    PROVE  JobsInv'
<1> DEFINE free == [Counted EXCEPT ![j].pid = NoRunner]
<1>0. /\ rec \in [Jobs -> Records] /\ rec[j] \in Records /\ sched \in Passes
      /\ marker[j] \in {"none"} \cup Terminal /\ attempts \in [Jobs -> Nat] /\ TypeOK
  BY DEF JobsInv, TypeOK
<1>1. /\ sched.mode = "queue" /\ sched.at = j /\ sched.runner = NoRunner /\ ~Locked(j)
      /\ UNCHANGED <<marker, cancelling, stray, attempts>>
  BY DEF QueueTakes, history
<1>2. NextJob(sched).runner = NoRunner
  BY <1>0, <1>1, PassTypes
<1>3. CASE ~Startable(j) /\ sched' = NextJob(sched) /\ UNCHANGED <<rec, run>>
  <2>1. \A i \in Jobs : Untouched(i)
    BY <1>1, <1>3 DEF Untouched
  <2> QED BY <1>1, <1>2, <1>3, <2>1, ServerMoves
\* What the rest of a taken job's step shares.
<1>4. ASSUME Startable(j), CanCount
      PROVE  /\ rec[j].status = "queued" /\ ~HasProcess(j)
             /\ \A i \in Jobs : i # j => free[i] = IF Stopped(i) THEN Recovered(i) ELSE rec[i]
             /\ free[j] = [rec[j] EXCEPT !.pid = NoRunner]
             /\ free \in [Jobs -> Records]
  <2>1. rec[j].status = "queued" /\ ~HasProcess(j) /\ ~Stopped(j)
    BY <1>4 DEF Startable, Stopped
  <2>2. Counted \in [Jobs -> Records]
    BY <1>0, RepairsType DEF Counted, RecordOK
  <2>3. /\ Counted[j] = rec[j]
        /\ \A i \in Jobs : Counted[i] = IF Stopped(i) THEN Recovered(i) ELSE rec[i]
    BY <2>1 DEF Counted
  <2> QED BY <1>0, <2>1, <2>2, <2>3, PidChange, RepairsType DEF Records
<1>5. ASSUME NEW i \in Jobs, i # j, CanCount, UNCHANGED run,
             rec'[i] = IF Stopped(i) THEN Recovered(i) ELSE rec[i]
      PROVE  Untouched(i) \/ Touched(i)
  <2>1. CASE Stopped(i)
    BY <1>1, <1>5, <2>1, CountMoves
  <2>2. CASE ~Stopped(i)
    BY <1>1, <1>5, <2>2 DEF Untouched
  <2> QED BY <2>1, <2>2
<1>6. j \in Kept => marker[j] = "none" \/ rec[j].status \notin Live
  BY <1>0, SettledJobs DEF JobSettled
<1>7. CASE /\ Startable(j) /\ CanCount
           /\ rec' \in {rec, free} /\ sched' = NextJob(sched) /\ UNCHANGED run
  <2>1. CASE rec' = rec
    <3>1. \A i \in Jobs : Untouched(i)
      BY <1>1, <2>1 DEF Untouched
    <3> QED BY <1>1, <1>2, <1>7, <3>1, ServerMoves
  <2>2. CASE rec' = free
    <3>1. rec'[j].status = "queued"
      BY <1>0, <1>4, <1>7, <2>2 DEF Records
    <3>2. Touched(j)
      BY <1>1, <1>4, <1>7, <2>2, <3>1, RepairTouches DEF Repairs
    <3>3. \A i \in Jobs : Untouched(i) \/ Touched(i)
      BY <1>4, <1>5, <1>7, <2>2, <3>2
    <3> QED BY <1>1, <1>2, <1>7, <3>3, ServerMoves
  <2> QED BY <1>7, <2>1, <2>2
<1>8. CASE /\ Startable(j) /\ CanCount
           /\ rec' = [free EXCEPT ![j].status = "failed"]
           /\ sched' = NextJob(sched) /\ UNCHANGED run
  <2>1. /\ rec'[j] = [free[j] EXCEPT !.status = "failed"]
        /\ \A i \in Jobs : i # j => rec'[i] = free[i]
    BY <1>4, <1>8
  <2>2. /\ rec'[j].status = "failed" /\ rec'[j].retries = rec[j].retries
    BY <1>0, <1>4, <1>8, <2>1 DEF Records
  <2>3. j \in Kept => Idle(j) /\ JobSettled(j)'
    BY <1>1, <1>4, <1>6, <1>8, <2>2, FreeIsIdle, SettledJobs DEF JobSettled
  <2>4. Touched(j)
    BY <1>1, <1>4, <1>8, <2>2, <2>3 DEF Touched
  <2>5. \A i \in Jobs : Untouched(i) \/ Touched(i)
    BY <1>4, <1>5, <1>8, <2>1, <2>4
  <2> QED BY <1>1, <1>2, <1>8, <2>5, ServerMoves
<1>9. ASSUME Startable(j), CanCount, rec' = free, NEW r \in Runners, Fresh(r),
             run' = Spawned(r, j), sched' = [sched EXCEPT !.runner = r]
      PROVE  JobsInv'
  <2>1. /\ rec'[j].status = "queued" /\ rec'[j].pid = NoRunner /\ rec'[j].retries = rec[j].retries
        /\ rec'[j].encoded = rec[j].encoded
    BY <1>0, <1>4, <1>9 DEF Records
  <2>2. sched'.runner = r /\ sched'.at = j /\ sched'.mode = sched.mode
    BY <1>0, <1>1, <1>9 DEF Passes
  <2>3. j \in Kept => JobSettled(j)'
    BY <1>1, <1>4, <1>6, <1>9, <2>1, SettledJobs DEF JobSettled
  <2>4. ASSUME NEW i \in Jobs, i # j PROVE Untouched(i) \/ Touched(i)
    <3>1. rec'[i] = IF Stopped(i) THEN Recovered(i) ELSE rec[i]
      BY <1>4, <1>9, <2>4
    <3>2. CASE Stopped(i)
      <4>1. ~Locked(i) /\ rec[i].status = "running" /\ ~HasProcess(i) /\ rec[i] \in Records
        BY <1>0, <1>9, <3>2 DEF CanCount, Stopped
      <4>2. /\ rec'[i].retries = rec[i].retries /\ rec'[i].encoded = rec[i].encoded
            /\ rec'[i].fin = rec[i].fin /\ rec'[i].status \in {"running", "queued", "killed"}
            /\ PostEncodeFinished(rec[i]) => rec'[i].status # "killed"
        BY <3>1, <3>2, <4>1 DEF Recovered, Ended, Records
      <4>3. i \in Kept => Idle(i) /\ JobSettled(i)'
        <5> SUFFICES ASSUME i \in Kept PROVE Idle(i) /\ JobSettled(i)'
          OBVIOUS
        <5>1. Idle(i) /\ JobSettled(i) /\ marker[i] = "none"
          <6>1. marker[i] \in {"none"} \cup Terminal
            BY <1>0 DEF TypeOK
          <6> QED BY <4>1, <6>1, FreeIsIdle, SettledJobs DEF JobSettled
        <5>2. rec[i].encoded /\ rec[i].fin # "completed" => PostEncodeFinished(rec[i])
          BY <4>1 DEF Records, PostEncodeFinished
        <5> QED BY <1>1, <4>2, <5>1, <5>2 DEF JobSettled
      <4> QED BY <4>1, <4>2, <4>3 DEF Touched
    <3>3. CASE ~Stopped(i)
      BY <1>1, <3>1, <3>3 DEF Untouched
    <3> QED BY <3>2, <3>3
  <2> QED BY <1>1, <1>4, <1>9, <2>1, <2>2, <2>3, <2>4, SpawnMoves
<1> HIDE DEF free
<1>10. \/ ~Startable(j) /\ sched' = NextJob(sched) /\ UNCHANGED <<rec, run>>
       \/ /\ Startable(j) /\ CanCount
          /\ rec' \in {rec, free} /\ sched' = NextJob(sched) /\ UNCHANGED run
       \/ /\ Startable(j) /\ CanCount
          /\ rec' = [free EXCEPT ![j].status = "failed"]
          /\ sched' = NextJob(sched) /\ UNCHANGED run
       \/ /\ Startable(j) /\ CanCount /\ rec' = free
          /\ \E r \in Runners : /\ Fresh(r) /\ run' = Spawned(r, j)
                               /\ sched' = [sched EXCEPT !.runner = r]
  BY DEF QueueTakes, free
<1> QED BY <1>3, <1>7, <1>8, <1>9, <1>10

LEMMA ResumeTakesMoves ==
    ASSUME JobsInv, TypeOK', NEW j \in Jobs, ResumeTakes(j)
    PROVE  JobsInv'
<1>0. /\ rec \in [Jobs -> Records] /\ rec[j] \in Records /\ sched \in Passes
      /\ marker[j] \in {"none"} \cup Terminal /\ attempts \in [Jobs -> Nat] /\ TypeOK
  BY DEF JobsInv, TypeOK
<1>1. /\ sched.mode = "resume" /\ sched.at = j /\ sched.runner = NoRunner /\ ~Locked(j)
      /\ rec[j].status = "running" /\ rec[j].pid = NoRunner /\ ~HasProcess(j)
      /\ UNCHANGED <<marker, cancelling, stray>>
  BY DEF ResumeTakes, ResumeAt, PostEncodeResume, HasProcess, Alive
<1>2. j \in Kept => Idle(j) /\ JobSettled(j) /\ marker[j] = "none"
  BY <1>0, <1>1, FreeIsIdle, SettledJobs DEF JobSettled
<1>3. /\ Reserved(rec[j]).retries = rec[j].retries + 1 /\ Reserved(rec[j]).status = rec[j].status
      /\ Reserved(rec[j]).pid = rec[j].pid
      /\ [Reserved(rec[j]) EXCEPT !.permanent = FALSE].retries = rec[j].retries + 1
      /\ [Reserved(rec[j]) EXCEPT !.permanent = FALSE].status = rec[j].status
      /\ rec[j].retries \in Nat
  BY <1>0, LimitsAssumption DEF Reserved, Records
<1>4. CASE /\ rec' = [rec EXCEPT ![j] = [Reserved(rec[j]) EXCEPT !.permanent = FALSE]]
           /\ sched' = NextJob(sched) /\ UNCHANGED <<run, attempts>>
  <2>1. /\ rec'[j] = [Reserved(rec[j]) EXCEPT !.permanent = FALSE]
        /\ \A i \in Jobs : i # j => rec'[i] = rec[i]
    BY <1>0, <1>4
  <2>2. rec'[j].retries = rec[j].retries + 1 /\ rec'[j].status = "running"
    BY <1>1, <1>3, <2>1
  <2>3. j \in Kept => JobSettled(j)'
    BY <1>0, <1>1, <1>2, <1>3, <1>4, <2>2 DEF JobSettled
  <2>4. Touched(j)
    BY <1>1, <1>2, <2>2, <2>3 DEF Touched
  <2>5. \A i \in Jobs : Untouched(i) \/ Touched(i)
    BY <1>1, <1>4, <2>1, <2>4 DEF Untouched
  <2>6. NextJob(sched).runner = NoRunner
    BY <1>0, <1>1, PassTypes
  <2> QED BY <1>1, <1>4, <2>5, <2>6, ServerMoves
<1>5. ASSUME NEW r \in Runners, Fresh(r), rec' = [rec EXCEPT ![j] = Reserved(rec[j])],
             run' = Spawned(r, j), sched' = [sched EXCEPT !.runner = r, !.use = @ \cup {j}],
             attempts' = [attempts EXCEPT ![j] = @ + 1]
      PROVE  JobsInv'
  <2>1. /\ rec'[j] = Reserved(rec[j]) /\ attempts'[j] = attempts[j] + 1
        /\ \A i \in Jobs : i # j => rec'[i] = rec[i] /\ attempts'[i] = attempts[i]
    BY <1>0, <1>5
  <2>2. sched'.runner = r /\ sched'.at = j /\ sched'.mode = sched.mode
    BY <1>0, <1>1, <1>5 DEF Passes
  <2>3. j \in Kept => JobSettled(j)'
    <3>1. attempts[j] \in Nat
      BY <1>0
    <3> QED BY <1>1, <1>2, <1>3, <2>1, <3>1 DEF JobSettled
  <2>4. \A i \in Jobs : i # j => Untouched(i)
    BY <1>1, <2>1 DEF Untouched
  <2> QED BY <1>1, <1>3, <1>5, <2>1, <2>2, <2>3, <2>4, SpawnMoves
<1>6. \/ /\ rec' = [rec EXCEPT ![j] = [Reserved(rec[j]) EXCEPT !.permanent = FALSE]]
         /\ sched' = NextJob(sched) /\ UNCHANGED <<run, attempts>>
      \/ \E r \in Runners :
            /\ Fresh(r) /\ rec' = [rec EXCEPT ![j] = Reserved(rec[j])]
            /\ run' = Spawned(r, j) /\ sched' = [sched EXCEPT !.runner = r, !.use = @ \cup {j}]
            /\ attempts' = [attempts EXCEPT ![j] = @ + 1]
  BY <1>0 DEF ResumeTakes
<1> QED BY <1>4, <1>5, <1>6

LEMMA PassStep ==
    ASSUME JobsInv, TypeOK', NEW j \in Jobs,
           \/ QueueTakes(j) \/ QueueRecords(j)
           \/ ResumeSkips(j) \/ ResumeTakes(j) \/ ResumeRecords(j)
    PROVE  JobsInv'
<1>0. TypeOK
  BY DEF JobsInv
<1>1. CASE QueueRecords(j)
  <2>1. NextJob(sched).runner = NoRunner
    BY <1>0, <1>1, PassTypes DEF QueueRecords
  <2> QED BY <1>1, <2>1, RecordMoves DEF QueueRecords, history
<1>2. CASE ResumeRecords(j)
  <2>1. NextJob(sched).runner = NoRunner
    BY <1>0, <1>2, PassTypes DEF ResumeRecords
  <2> QED BY <1>2, <2>1, RecordMoves DEF ResumeRecords, history
<1>3. CASE ResumeSkips(j)
  <2>1. NextJob(sched).runner = NoRunner
    BY <1>0, <1>3, PassTypes DEF ResumeSkips, ResumeAt
  <2>2. \A i \in Jobs : Untouched(i)
    BY <1>3 DEF ResumeSkips, Untouched, jobVars, history
  <2> QED BY <1>3, <2>1, <2>2, ServerMoves DEF ResumeSkips, ResumeAt, history
<1> QED BY <1>1, <1>2, <1>3, QueueTakesMoves, ResumeTakesMoves

LEMMA InvariantInit == Init => JobsInv
<1> SUFFICES ASSUME Init PROVE JobsInv
  OBVIOUS
<1>1. TypeOK
  BY InitType
<1>2. /\ \A r \in Runners : run[r].place = "free"
      /\ sched.runner = NoRunner
      /\ \A j \in Jobs : /\ rec[j] = NoRecord /\ marker[j] = "none" /\ attempts[j] = 0
                        /\ cancelling[j] = "no"
  BY DEF Init, NoProcess, NoPass
<1>3. NoRecord.retries = 0 /\ ~NoRecord.encoded
  BY DEF NoRecord
<1> QED BY <1>1, <1>2, <1>3
        DEF JobsInv, LocksExclude, OwnersKnown, OneRunnerKept, MarkerAgrees, AttemptsCounted,
            EncodedOnce, Kept, PassHolds

LEMMA InvariantStep == JobsInv /\ [Next]_vars => JobsInv'
<1> SUFFICES ASSUME JobsInv, [Next]_vars PROVE JobsInv'
  OBVIOUS
<1>1. TypeOK'
  BY NextType DEF JobsInv
<1>2. CASE Next
  BY <1>1, <1>2, RequestStep, PassStep, ServerStep, RunnerStep DEF Next, Pass
<1>3. CASE UNCHANGED vars
  BY <1>1, <1>3, StandsStill DEF vars, jobVars, serverVars, history
<1> QED BY <1>2, <1>3

-----------------------------------------------------------------------------
(* The theorems *)

\* What is known of jobs and processes holds in every behaviour of the worker.
LEMMA JobsInvariance == Spec => []JobsInv
<1>1. Init => JobsInv
  BY InvariantInit
<1>2. JobsInv /\ [Next]_vars => JobsInv'
  BY InvariantStep
<1> QED BY <1>1, <1>2, PTL DEF Spec

-----------------------------------------------------------------------------
(* The passes *)

\* The head of a queue pass.
LEMMA QueuePassSched ==
    ASSUME NEW records, QueuePassFrom(records)
    PROVE  sched' = NoPass \/ (~held /\ sched'.mode = "queue")
BY DEF QueuePassFrom, NoPass

\* What a step does to a pass: it goes on, it ends, or one begins.
LEMMA PassMoves ==
    ASSUME TypeOK, [Next]_vars
    PROVE  /\ sched'.mode = "queue" =>
                (sched.mode = "queue" \/ ~held) /\ (held' => held)
           /\ sched'.mode = "resume" =>
                \/ sched.mode = "resume" /\ sched.use \subseteq sched'.use
                \/ sched = NoPass /\ sched'.use = Holders /\ UNCHANGED run
<1> DEFINE Goal ==
        /\ sched'.mode = "queue" =>
                (sched.mode = "queue" \/ ~held) /\ (held' => held)
        /\ sched'.mode = "resume" =>
                \/ sched.mode = "resume" /\ sched.use \subseteq sched'.use
                \/ sched = NoPass /\ sched'.use = Holders /\ UNCHANGED run
<1>0. sched \in Passes /\ (sched.mode = "idle" => sched = NoPass)
  BY DEF TypeOK
<1>1. NoPass.mode = "idle" /\ ResumePass.mode = "resume" /\ ResumePass.use = Holders
  BY DEF NoPass, ResumePass
<1>a. \/ NextJob(sched) = NoPass
      \/ NextJob(sched).mode = sched.mode /\ NextJob(sched).use = sched.use
  BY <1>0 DEF NextJob, Passes
<1>2. ASSUME NEW records, QueuePassFrom(records), UNCHANGED held PROVE Goal
  BY <1>1, <1>2, QueuePassSched
<1>3. ASSUME UNCHANGED <<sched, held>> PROVE Goal
  BY <1>3
<1>4. ASSUME NEW j \in Jobs, Request(j) PROVE Goal
  <2> HIDE DEF Goal
  <2>1. CASE SubmitNew(j)
    BY <1>2, <2>1 DEF SubmitNew
  <2>2. CASE SubmitAgain(j)
    BY <1>2, <1>3, <2>2 DEF SubmitAgain
  <2>3. CASE ~SubmitNew(j) /\ ~SubmitAgain(j)
    BY <1>3, <1>4, <2>3
       DEF Request, Status, CancelKills, CancelSaves, CancelMarks, RetryPublication, serverVars
  <2> QED BY <2>1, <2>2, <2>3
<1>5. ASSUME NEW j \in Jobs,
             QueueTakes(j) \/ QueueRecords(j) \/ ResumeSkips(j) \/ ResumeTakes(j) \/ ResumeRecords(j)
      PROVE  Goal
  <2>1. UNCHANGED held
    BY <1>5 DEF QueueTakes, QueueRecords, ResumeSkips, ResumeTakes, ResumeRecords
  <2>2. \/ sched' = NextJob(sched)
        \/ \E r \in Runners : sched' = [sched EXCEPT !.runner = r]
        \/ \E r \in Runners : sched' = [sched EXCEPT !.runner = r, !.use = @ \cup {j}]
    BY <1>5 DEF QueueTakes, QueueRecords, ResumeSkips, ResumeTakes, ResumeRecords
  <2>3. \/ sched' = NoPass
        \/ sched'.mode = sched.mode /\ sched.use \subseteq sched'.use
    <3>1. CASE sched' = NextJob(sched)
      BY <1>a, <3>1
    <3>2. CASE \E r \in Runners : sched' = [sched EXCEPT !.runner = r]
      BY <1>0, <3>2 DEF Passes
    <3>3. CASE \E r \in Runners : sched' = [sched EXCEPT !.runner = r, !.use = @ \cup {j}]
      BY <1>0, <3>3 DEF Passes
    <3> QED BY <2>2, <3>1, <3>2, <3>3
  <2> QED BY <1>1, <2>1, <2>3
<1>6. ASSUME Dropped \/ Crash PROVE Goal
  BY <1>1, <1>6 DEF Dropped, Crash
<1>7. ASSUME Hold PROVE Goal
  BY <1>7 DEF Hold
<1>8. ASSUME QueueStarts PROVE Goal
  <2> HIDE DEF Goal
  <2> QED BY <1>2, <1>8 DEF QueueStarts
<1>9. ASSUME ResumeStarts \/ StartupResumes PROVE Goal
  BY <1>0, <1>1, <1>9 DEF ResumeStarts, StartupResumes, UpAndFree
<1> HIDE DEF Goal
<1>10. ASSUME Startup PROVE Goal
  BY <1>3, <1>9, <1>10 DEF Startup, Restart, StartupReconciles, StartupEnds
<1>11. ASSUME NEW r \in Runners, Works(r) \/ Refuse(r) \/ Dies(r) PROVE Goal
  <2>1. UNCHANGED <<sched, held>>
    BY <1>11
       DEF Works, Load, ClaimRunner, Encode, Checkpoint, Finalize, Publish, Complete, Mark,
           Refuse, Dies, serverVars
  <2> QED BY <1>3, <2>1
<1>12. Next => Goal
  BY <1>4, <1>5, <1>6, <1>7, <1>8, <1>9, <1>10, <1>11 DEF Next, Pass
<1>13. UNCHANGED vars => Goal
  BY <1>3 DEF vars, serverVars
<1> QED BY <1>12, <1>13 DEF Goal

\* A process starts in a pass only: every other process at work was at work
\* before, on the same job.
Starts(r, j) == (QueueTakes(j) \/ ResumeTakes(j)) /\ Fresh(r) /\ run' = Spawned(r, j)

LEMMA WorkMoves ==
    ASSUME TypeOK, [Next]_vars, NEW r \in Busy'
    PROVE  \/ r \in Busy /\ run'[r].job = run[r].job
           \/ \E j \in Jobs : Starts(r, j)
<1> DEFINE Stays(q) == q \in Busy /\ run'[q].job = run[q].job
           Goal == Stays(r) \/ \E j \in Jobs : Starts(r, j)
<1>0. /\ r \in Runners /\ run'[r].place \notin {"free", "mark"}
      /\ run \in [Runners -> Processes] /\ \A q \in Runners : run[q] \in Processes
  BY DEF Busy, TypeOK
<1>1. ASSUME run'[r] = run[r] PROVE Goal
  BY <1>0, <1>1 DEF Busy
<1>2. ASSUME UNCHANGED run PROVE Goal
  BY <1>1, <1>2
<1>3. ASSUME NEW q, run' = [run EXCEPT ![q] = NoProcess] PROVE Goal
  <2>1. q # r
    BY <1>0, <1>3 DEF NoProcess
  <2> QED BY <1>0, <1>1, <1>3, <2>1
<1>4. ASSUME NEW q \in Runners, NEW place, NEW s, run[q].place \notin {"free", "mark"},
             Goes(q, place) \/ GoesWith(q, place, s)
      PROVE  Goal
  <2>1. CASE q = r
    BY <1>0, <1>4, <2>1 DEF Goes, GoesWith, Processes, Busy
  <2>2. CASE q # r
    <3>1. run'[r] = run[r]
      BY <1>0, <1>4, <2>2 DEF Goes, GoesWith
    <3> QED BY <1>1, <3>1
  <2> QED BY <2>1, <2>2
<1> HIDE DEF Goal
<1>5. ASSUME NEW j \in Jobs, Request(j) PROVE Goal
  BY <1>2, <1>3, <1>5
     DEF Request, SubmitNew, SubmitAgain, Status, CancelKills, CancelSaves, CancelMarks,
         RetryPublication
<1>6. ASSUME NEW j \in Jobs,
             QueueTakes(j) \/ QueueRecords(j) \/ ResumeSkips(j) \/ ResumeTakes(j) \/ ResumeRecords(j)
      PROVE  Goal
  <2>1. \/ UNCHANGED run
        \/ \E q : run' = [run EXCEPT ![q] = NoProcess]
        \/ (QueueTakes(j) \/ ResumeTakes(j)) /\ \E q \in Runners : Fresh(q) /\ run' = Spawned(q, j)
    BY <1>6 DEF QueueTakes, QueueRecords, ResumeSkips, ResumeTakes, ResumeRecords
  <2>2. ASSUME NEW q \in Runners, Fresh(q), run' = Spawned(q, j), QueueTakes(j) \/ ResumeTakes(j)
        PROVE  Goal
    <3>1. CASE q = r
      BY <2>2, <3>1 DEF Goal, Starts
    <3>2. CASE q # r
      <4>1. run'[r] = run[r]
        BY <1>0, <2>2, <3>2 DEF Spawned
      <4> QED BY <1>1, <4>1
    <3> QED BY <3>1, <3>2
  <2> QED BY <1>2, <1>3, <2>1, <2>2
<1>7. ASSUME Hold \/ QueueStarts \/ ResumeStarts \/ Dropped \/ Crash \/ Startup PROVE Goal
  <2>1. UNCHANGED run
    BY <1>7
       DEF Hold, QueueStarts, ResumeStarts, Dropped, Crash, Startup, Restart,
           StartupReconciles, StartupResumes, StartupEnds
  <2> QED BY <1>2, <2>1
<1>8. ASSUME NEW q \in Runners, Works(q) \/ Refuse(q) \/ Dies(q) PROVE Goal
  <2> DEFINE Advances == \E place, s : Goes(q, place) \/ GoesWith(q, place, s)
  <2>1. ASSUME NEW place, NEW new, Progress(q, new, place) PROVE Exits(q) \/ Advances
    BY <2>1 DEF Progress
  <2>2. ASSUME NEW status, Terminate(q, status) PROVE Exits(q) \/ Advances
    BY <2>2 DEF Terminate
  <2>3. ASSUME UNCHANGED run PROVE Goal
    BY <1>2, <2>3
  <2>4. CASE Mark(q) \/ Dies(q)
    BY <1>3, <2>4 DEF Mark, Dies, Exits
  <2>5. CASE run[q].place \notin {"free", "mark"} /\ (Exits(q) \/ Advances)
    BY <1>3, <1>4, <2>5 DEF Exits
  <2> HIDE DEF Advances
  <2>6. CASE Refuse(q) \/ Complete(q)
    BY <2>2, <2>5, <2>6 DEF Refuse, Complete
  <2>7. CASE Encode(q)
    BY <2>1, <2>2, <2>3, <2>5, <2>7 DEF Encode
  <2>8. CASE Checkpoint(q)
    BY <2>1, <2>5, <2>8 DEF Checkpoint
  <2>9. CASE Publish(q)
    BY <2>1, <2>5, <2>9 DEF Publish, FinalizationFails
  <2>10. CASE Load(q) \/ ClaimRunner(q)
    BY <2>5, <2>10 DEF Load, ClaimRunner, Advances
  <2>11. CASE Finalize(q)
    BY <2>1, <2>5, <2>11 DEF Finalize, FinalizationFails, Advances
  <2> QED BY <1>8, <2>4, <2>6, <2>7, <2>8, <2>9, <2>10, <2>11 DEF Works
<1>9. Next => Goal
  BY <1>5, <1>6, <1>7, <1>8 DEF Next, Pass
<1>10. UNCHANGED vars => Goal
  BY <1>2 DEF vars
<1> QED BY <1>9, <1>10 DEF Goal

\* While no pass holds a job, a process at work on a kept one has its slot.
LEMMA BusyHolds ==
    ASSUME JobsInv, sched.runner = NoRunner, NEW r \in BusyOn(Kept)
    PROVE  JobOf(r) \in Holders
<1>1. r \in Runners /\ run[r].place \notin {"free", "mark"} /\ JobOf(r) \in Kept /\ JobOf(r) \in Jobs
  BY DEF BusyOn, Busy, Kept
<1>2. OwnerKnown(r)
  BY <1>1 DEF JobsInv, OwnersKnown
<1>3. rec[JobOf(r)].status \in Live /\ rec[JobOf(r)].pid = r
  BY <1>1, <1>2 DEF OwnerKnown, PassHolds
<1> QED BY <1>1, <1>3, RunnersAssumption DEF Holders, HasProcess, Alive

LEMMA StrayStays == [Next]_vars => stray \subseteq stray'
<1>1. ASSUME NEW j \in Jobs, Request(j) PROVE UNCHANGED stray
  BY <1>1
     DEF Request, SubmitNew, SubmitAgain, Status, CancelKills, CancelSaves, CancelMarks,
         RetryPublication, history
<1>2. ASSUME Hold \/ QueueStarts \/ ResumeStarts \/ Pass \/ Startup PROVE UNCHANGED stray
  BY <1>2
     DEF Hold, QueueStarts, ResumeStarts, Pass, Startup, Restart, StartupReconciles,
         StartupResumes, StartupEnds, QueueTakes, QueueRecords, ResumeSkips, ResumeTakes,
         ResumeRecords, Dropped, history
<1>3. ASSUME Crash PROVE stray \subseteq stray'
  BY <1>3 DEF Crash
<1>4. ASSUME NEW r \in Runners, Works(r) \/ Refuse(r) \/ Dies(r) PROVE UNCHANGED stray
  BY <1>4
     DEF Works, Load, ClaimRunner, Encode, Checkpoint, Finalize, Publish, Complete, Mark,
         Refuse, Dies, history
<1> QED BY <1>1, <1>2, <1>3, <1>4 DEF Next, vars, history

LEMMA PassCountsStep == IInv /\ [Next]_vars => PassCounts'
<1> SUFFICES ASSUME IInv, [Next]_vars, sched'.mode = "resume", NEW r \in BusyOn(Kept)'
             PROVE  run'[r].job \in sched'.use
  BY DEF PassCounts, JobOf
<1>1. TypeOK /\ JobsInv /\ PassCounts
  BY DEF IInv, JobsInv
<1>2. \/ sched.mode = "resume" /\ sched.use \subseteq sched'.use
      \/ sched = NoPass /\ sched'.use = Holders /\ UNCHANGED run
  BY <1>1, PassMoves
<1>3. r \in Busy' /\ run'[r].job \in Kept
  BY StrayStays DEF BusyOn, JobOf, Kept
<1>4. r \in Busy /\ run'[r].job = run[r].job => r \in BusyOn(Kept)
  BY <1>3 DEF BusyOn, JobOf
<1>5. CASE sched.mode = "resume" /\ sched.use \subseteq sched'.use
  <2>1. CASE r \in Busy /\ run'[r].job = run[r].job
    BY <1>1, <1>4, <1>5, <2>1 DEF PassCounts, JobOf
  <2>2. CASE \E j \in Jobs : Starts(r, j)
    <3>1. PICK j \in Jobs : Starts(r, j)
      BY <2>2
    <3>2. run'[r].job = j /\ run'[r].place = "load" /\ run[r].place = "free"
      BY <1>1, <1>3, <3>1 DEF Starts, Spawned, Fresh, Busy, TypeOK
    <3>3. \E q \in Runners : sched' = [sched EXCEPT !.runner = q, !.use = @ \cup {j}]
      BY <1>5, <3>1, <3>2 DEF Starts, QueueTakes, ResumeTakes
    <3>4. j \in sched'.use
      BY <1>1, <3>3 DEF TypeOK, Passes
    <3> QED BY <3>2, <3>4
  <2> QED BY <1>1, <1>3, <2>1, <2>2, WorkMoves
<1>6. CASE sched = NoPass /\ sched'.use = Holders /\ UNCHANGED run
  <2>1. sched.runner = NoRunner /\ r \in Busy
    BY <1>3, <1>6 DEF NoPass, Busy
  <2> QED BY <1>1, <1>4, <1>6, <2>1, BusyHolds DEF JobOf
<1> QED BY <1>2, <1>5, <1>6

LEMMA HeldIsIdleStep == IInv /\ [Next]_vars => HeldIsIdle'
BY PassMoves DEF IInv, JobsInv, HeldIsIdle

\* The strengthening holds in every behaviour of the worker.
THEOREM Invariance == Spec => []IInv
<1>1. Init => IInv
  <2> SUFFICES ASSUME Init PROVE IInv
    OBVIOUS
  <2>1. JobsInv
    BY InvariantInit
  <2> QED BY <2>1 DEF Init, IInv, PassCounts, HeldIsIdle, NoPass
<1>2. IInv /\ [Next]_vars => IInv'
  <2>1. IInv /\ [Next]_vars => JobsInv'
    BY InvariantStep DEF IInv
  <2> QED BY <2>1, PassCountsStep, HeldIsIdleStep DEF IInv
<1> QED BY <1>1, <1>2, PTL DEF Spec

\* "Once the hold is confirmed no pass can start another job": what starts
\* while the queue is held is a publication.
THEOREM HoldIsObeyed == Spec => HoldStopsQueue
<1>1. IInv /\ [Next]_vars =>
        [\A r \in Runners :
            held /\ run[r].place = "free" /\ run'[r].place = "load"
                => rec[run'[r].job].status # "queued"]_run
  <2> SUFFICES ASSUME IInv, [Next]_vars, NEW r \in Runners,
                      held, run[r].place = "free", run'[r].place = "load"
               PROVE  rec[run'[r].job].status # "queued"
    OBVIOUS
  <2>1. r \in Busy' /\ r \notin Busy
    BY DEF Busy
  <2>2. PICK j \in Jobs : Starts(r, j)
    BY <2>1, WorkMoves DEF IInv, JobsInv
  <2>3. ResumeTakes(j) /\ run'[r].job = j
    BY <2>2 DEF Starts, Spawned, QueueTakes, IInv, JobsInv, TypeOK, HeldIsIdle
  <2> QED BY <2>3 DEF ResumeTakes, PostEncodeResume
<1> QED BY <1>1, Invariance, PTL DEF Spec, HoldStopsQueue

\* Every variable has its type, in particular no publication is charged with
\* more attempts than its budget.
THEOREM Typing == Spec => []TypeOK
<1>1. JobsInv => TypeOK
  BY DEF JobsInv
<1> QED BY <1>1, JobsInvariance, PTL

\* A job has one process at most: admission, restarts, repairs and both kinds
\* of passes never start a second one, unless a crash made its job stray.
THEOREM OneProcess == Spec => []OneRunnerKept
<1>1. JobsInv => OneRunnerKept
  BY DEF JobsInv
<1> QED BY <1>1, JobsInvariance, PTL

\* A cancelled job has no process: the cancel finds every one there is.
THEOREM CancelEndsWork == Spec => []CancelStops
<1>1. ASSUME JobsInv PROVE CancelStops
  <2> SUFFICES ASSUME NEW r \in Runners, run[r].place # "free", JobOf(r) \in Kept,
                      rec[JobOf(r)].status = "cancelled"
               PROVE  FALSE
    BY DEF CancelStops
  <2>1. OwnerKnown(r)
    BY <1>1 DEF JobsInv, OwnersKnown
  <2> QED BY <2>1 DEF OwnerKnown, Live
<1> QED BY <1>1, JobsInvariance, PTL

\* The marker never contradicts its record.
THEOREM MarkersAgree == Spec => []MarkerAgrees
<1>1. JobsInv => MarkerAgrees
  BY DEF JobsInv
<1> QED BY <1>1, JobsInvariance, PTL

\* An encode is checkpointed once.
THEOREM EncodesOnce == Spec => []EncodedOnce
<1>1. JobsInv => EncodedOnce
  BY DEF JobsInv
<1> QED BY <1>1, JobsInvariance, PTL

\* A publication gets its budget of attempts and no more, whoever dies.
THEOREM BudgetIsKept == Spec => []BudgetHolds
<1>1. ASSUME JobsInv PROVE BudgetHolds
  <2>1. \A j \in Jobs : rec[j].retries \in 0..MaxRetries /\ attempts[j] \in Nat
    BY <1>1 DEF JobsInv, TypeOK, Records
  <2> QED BY <1>1, <2>1, LimitsAssumption DEF JobsInv, AttemptsCounted, BudgetHolds, Kept
<1> QED BY <1>1, JobsInvariance, PTL

-----------------------------------------------------------------------------
(* What a step does to the record of a job that ended *)

\* The repairs and the queue's look at its jobs leave ended records alone.
LEMMA EndedIsLeft ==
    ASSUME JobsInv, NEW j \in Jobs, rec[j].status \in Terminal
    PROVE  /\ ~Stopped(j) /\ Counted[j] = rec[j]
           /\ ~Startable(j) /\ ~PostEncodeResume(rec[j])
           /\ Reconciled(j) = rec[j]
           /\ PassHolds(j) => FALSE
           /\ cancelling[j] # "killed"
<1>1. rec[j].status \notin {"none", "queued", "running"}
  BY DEF Terminal
<1>2. /\ ~Stopped(j) /\ ~Startable(j) /\ ~PostEncodeResume(rec[j])
      /\ Reconciled(j) = rec[j] /\ Counted[j] = rec[j]
  BY <1>1 DEF Stopped, Counted, Startable, PostEncodeResume, Reconciled
<1>3. /\ PassHolds(j) => FALSE
      /\ cancelling[j] # "killed"
  BY <1>1 DEF JobsInv, LocksExclude, PassHolds, Live
<1> QED BY <1>2, <1>3

\* Only the process of the job itself writes the record of a job that ended,
\* and not that of a cancelled one.
LEMMA EndedMoves ==
    ASSUME JobsInv, [Next]_vars, NEW j \in Jobs, rec[j].status \in Terminal, rec'[j] # rec[j]
    PROVE  /\ rec[j].status # "cancelled"
           /\ \E r \in Runners : run[r].place \notin {"free", "mark"} /\ JobOf(r) = j
<1> DEFINE Goal == /\ rec[j].status # "cancelled"
                   /\ \E r \in Runners : run[r].place \notin {"free", "mark"} /\ JobOf(r) = j
<1>0. rec \in [Jobs -> Records] /\ rec[j].status \notin {"none", "queued", "running"}
  BY DEF JobsInv, TypeOK, Terminal
<1>1. /\ ~Stopped(j) /\ Counted[j] = rec[j] /\ ~Startable(j) /\ ~PostEncodeResume(rec[j])
      /\ Reconciled(j) = rec[j] /\ ~PassHolds(j) /\ cancelling[j] # "killed"
  BY EndedIsLeft
<1>2. ASSUME NEW records, QueuePassFrom(records), records[j] = rec[j] PROVE FALSE
  BY <1>1, <1>2 DEF QueuePassFrom
<1>3. ASSUME NEW i \in Jobs, Request(i) PROVE FALSE
  <2>1. CASE SubmitNew(i)
    BY <1>0, <1>2, <2>1 DEF SubmitNew
  <2>2. CASE SubmitAgain(i)
    BY <1>0, <1>1, <1>2, <2>2 DEF SubmitAgain
  <2>3. CASE Status(i)
    BY <1>0, <1>1, <2>3 DEF Status
  <2>4. CASE CancelKills(i) \/ CancelMarks(i)
    BY <2>4 DEF CancelKills, CancelMarks, jobVars
  <2>5. CASE CancelSaves(i)
    BY <1>0, <1>1, <2>5 DEF CancelSaves
  <2>6. CASE RetryPublication(i)
    BY <1>0, <1>1, <2>6 DEF RetryPublication
  <2> QED BY <1>3, <2>1, <2>2, <2>3, <2>4, <2>5, <2>6 DEF Request
<1>4. ASSUME Hold \/ QueueStarts \/ ResumeStarts \/ Crash \/ Startup PROVE FALSE
  BY <1>0, <1>1, <1>2, <1>4
     DEF Hold, QueueStarts, ResumeStarts, Crash, Startup, Restart, StartupReconciles,
         StartupResumes, StartupEnds, jobVars
<1>5. ASSUME NEW i \in Jobs, QueueTakes(i) PROVE FALSE
  <2> DEFINE free == [Counted EXCEPT ![i].pid = NoRunner]
  <2>1. i # j => free[j] = rec[j]
    BY <1>1 DEF Counted
  <2>2. i # j => [free EXCEPT ![i].status = "failed"][j] = rec[j]
    BY <2>1 DEF Counted
  <2>3. \/ ~Startable(i) /\ UNCHANGED rec
        \/ Startable(i) /\ rec' \in {rec, free}
        \/ Startable(i) /\ rec' = [free EXCEPT ![i].status = "failed"]
    BY <1>5 DEF QueueTakes
  <2> HIDE DEF free
  <2> QED BY <1>1, <2>1, <2>2, <2>3
<1>6. ASSUME NEW i \in Jobs, QueueRecords(i) \/ ResumeRecords(i) PROVE FALSE
  BY <1>0, <1>1, <1>6 DEF QueueRecords, ResumeRecords
<1>7. ASSUME NEW i \in Jobs, ResumeSkips(i) \/ ResumeTakes(i) PROVE FALSE
  BY <1>0, <1>1, <1>7 DEF ResumeSkips, ResumeTakes, jobVars
<1>8. ~Pass
  BY <1>5, <1>6, <1>7 DEF Pass, Dropped, jobVars
<1>9. ASSUME NEW r \in Runners, NEW new, NEW place, Progress(r, new, place),
             run[r].place \notin {"free", "mark"}
      PROVE  Goal
  BY <1>0, <1>9 DEF Progress, JobOf
<1>10. ASSUME NEW r \in Runners, NEW status, Terminate(r, status),
              run[r].place \notin {"free", "mark"}
       PROVE  Goal
  BY <1>0, <1>10 DEF Terminate, JobOf
<1>11. ASSUME NEW r \in Runners, Works(r) \/ Refuse(r) \/ Dies(r) PROVE Goal
  <2> HIDE DEF Goal
  <2>1. CASE Load(r) \/ Mark(r) \/ Dies(r)
    BY <2>1 DEF Load, Mark, Dies, jobVars
  <2>2. CASE ClaimRunner(r)
    BY <1>0, <2>2 DEF ClaimRunner, JobOf, Goal
  <2>3. CASE Refuse(r) \/ Complete(r)
    BY <1>10, <2>3 DEF Refuse, Complete
  <2>4. CASE Encode(r)
    BY <1>9, <1>10, <2>4 DEF Encode
  <2>5. CASE Checkpoint(r)
    BY <1>9, <2>5 DEF Checkpoint
  <2>6. CASE Finalize(r)
    BY <1>9, <2>6 DEF Finalize, FinalizationFails
  <2>7. CASE Publish(r)
    BY <1>9, <2>7 DEF Publish, FinalizationFails
  <2> QED BY <1>11, <2>1, <2>2, <2>3, <2>4, <2>5, <2>6, <2>7 DEF Works
<1>12. Next
  BY DEF vars, jobVars
<1> HIDE DEF Goal
<1>13. Goal
  BY <1>3, <1>4, <1>8, <1>11, <1>12 DEF Next
<1> QED BY <1>13 DEF Goal

\* A job that ended stays as it ended, whatever a process, a repair or a
\* restart believes.
THEOREM EndIsFinal == Spec => EndedStays
<1>1. JobsInv /\ [Next]_vars =>
        [\A j \in Kept : rec[j].status \in Terminal /\ j \notin stray' => rec'[j] = rec[j]]_<<rec, stray>>
  <2> SUFFICES ASSUME JobsInv, [Next]_vars, NEW j \in Kept, rec[j].status \in Terminal,
                      rec'[j] # rec[j]
               PROVE  FALSE
    OBVIOUS
  <2>1. j \in Jobs
    BY DEF Kept
  <2>2. PICK r \in Runners : run[r].place \notin {"free", "mark"} /\ JobOf(r) = j
    BY <2>1, EndedMoves
  <2>3. OwnerKnown(r)
    BY <2>2 DEF JobsInv, OwnersKnown
  <2> QED BY <2>2, <2>3 DEF OwnerKnown, Live, Terminal
<1> QED BY <1>1, JobsInvariance, PTL DEF Spec, EndedStays

\* Cancelled is for ever, even for a process nobody knew.
THEOREM CancelIsFinal == Spec => CancelledStays
<1>1. JobsInv /\ [Next]_vars =>
        [\A j \in Jobs : rec[j].status = "cancelled" => rec'[j].status = "cancelled"]_rec
  <2> SUFFICES ASSUME JobsInv, [Next]_vars, NEW j \in Jobs, rec[j].status = "cancelled",
                      rec'[j] # rec[j]
               PROVE  FALSE
    OBVIOUS
  <2> QED BY EndedMoves DEF Terminal
<1> QED BY <1>1, JobsInvariance, PTL DEF Spec, CancelledStays

=============================================================================
