---------------------------- MODULE WorkerQueue ----------------------------
(***************************************************************************)
(* The conversion worker's durable queue (src/internal/transcodeworker):   *)
(* its server, which admits, schedules, cancels and recovers jobs, and the *)
(* detached runner processes, which carry them out.  They share nothing    *)
(* but files: a record per job (job.json), a terminal marker and two kinds *)
(* of locks.  Server and runners die independently of each other.          *)
(*                                                                         *)
(* The capacity lock is held by one pass at a time (sched).  A per-job     *)
(* lock makes a read-modify-write of a record one step; it is seen only    *)
(* where its holder does two things that a crash can part (Locked).        *)
(*                                                                         *)
(* Jobs publish on encode, to a share; candidates that wait for approval   *)
(* and the x265 cap are left out.                                          *)
(***************************************************************************)
EXTENDS Naturals, FiniteSets

CONSTANTS
    NJobs,          \* bound: jobs, numbered in the order of their creation
    Podcasts,       \* the podcast jobs among them
    Runners,        \* bound: runner processes that can be referred to at a time
    NoRunner,       \* PID 0
    Ceiling,        \* jobs at once
    VideoPool,      \* video jobs at once
    PodcastPool,    \* podcast jobs at once
    MaxRetries,     \* MaxFinalizationRetries
    MaxFaults,      \* bound: faults in a behaviour
    MaxCalls        \* bound: holds and operator retries of a publication

Jobs == 1..NJobs

ASSUME JobsAssumption == NJobs \in Nat \ {0} /\ Podcasts \subseteq Jobs
ASSUME RunnersAssumption == NoRunner \notin Runners
ASSUME LimitsAssumption ==
    /\ Ceiling \in Nat /\ VideoPool \in Nat /\ PodcastPool \in Nat
    /\ MaxRetries \in Nat \ {0} /\ MaxFaults \in Nat /\ MaxCalls \in Nat

VARIABLES
    rec,        \* job.json of each job
    marker,     \* terminal.json of each job
    asr,        \* podcast jobs with a transcript or matches on disk
    run,        \* the runner processes
    sched,      \* the pass that holds the capacity lock
    cancelling, \* cancels that hold a job's lock
    server,     \* the server process
    todo,       \* jobs its startup has still to reconcile
    held,       \* worker-hold.json
    stray,      \* history: jobs with a runner whose server died before it was recorded
    attempts,   \* history: publications started since the operator's last retry
    faults,     \* faults used up
    calls       \* holds and operator retries made

jobVars == <<rec, marker, asr>>
serverVars == <<sched, cancelling, server, todo, held>>
history == <<stray, attempts>>
vars == <<jobVars, run, serverVars, history, faults, calls>>

-----------------------------------------------------------------------------
(* Data *)

\* "killed" is a failed job whose reason is runner_killed.
Live == {"queued", "running"}
Terminal == {"completed", "failed", "killed", "cancelled"}

Records == [ status: {"none"} \cup Live \cup Terminal,
             pid: Runners \cup {NoRunner},
             encoded: BOOLEAN,                              \* EncodeComplete
             fin: {"pending", "finalizing", "completed"},   \* FinalizationState
             retries: 0..MaxRetries,                        \* FinalizationRetryCount
             permanent: BOOLEAN,    \* the last publication error is not retryable
             asked: BOOLEAN ]       \* OperatorRetryRequested

NoRecord == [ status |-> "none", pid |-> NoRunner, encoded |-> FALSE, fin |-> "pending",
              retries |-> 0, permanent |-> FALSE, asked |-> FALSE ]

\* Where a runner is: InternalRun up to its claim, the work, the last saves.
Places == {"free", "load", "claim", "encode", "finalize", "publish", "complete", "mark"}

Processes == [place: Places, job: 0..NJobs, snap: Records]
NoProcess == [place |-> "free", job |-> 0, snap |-> NoRecord]

Passes == [ mode: {"idle", "resume", "queue"},
            at: 0..NJobs,                   \* the job it looks at; 0 before and after
            use: SUBSET Jobs,               \* slots counted by a resume pass
            runner: Runners \cup {NoRunner} ]   \* started and not yet recorded
NoPass == [mode |-> "idle", at |-> 0, use |-> {}, runner |-> NoRunner]

Alive(r) == r # NoRunner /\ run[r].place # "free"
HasProcess(j) == Alive(rec[j].pid)

\* A running job whose process is gone.
Stopped(j) == rec[j].status = "running" /\ rec[j].pid # NoRunner /\ ~HasProcess(j)

\* Mutant of PostEncodeFinished: only a publication under way counts.
FinalizingOnly(s) == s.encoded /\ s.fin = "finalizing"

\* IsPostEncodeFinished: encoded, and still to be published.
PostEncodeFinished(s) == s.encoded /\ s.fin \in {"pending", "finalizing"}

\* Mutant of PostEncodeResume: a publication under way is not taken up.
ResumePending(s) ==
    s.status = "running" /\ s.pid = NoRunner /\ s.encoded /\ s.fin = "pending"

\* isPostEncodeResume
PostEncodeResume(s) == s.status = "running" /\ s.pid = NoRunner /\ PostEncodeFinished(s)

\* Mutant of PublicationAllowed: the budget is compared off by one.
OneMoreAttempt(s) == s.asked \/ (s.retries <= MaxRetries /\ ~s.permanent)

\* automaticFinalizationAllowed
PublicationAllowed(s) == s.asked \/ (s.retries < MaxRetries /\ ~s.permanent)

\* The job whose lock a server's pass holds across two steps, and every holder.
PassHolds(j) == sched.runner # NoRunner /\ sched.at = j
Locked(j) ==
    \/ PassHolds(j)
    \/ cancelling[j] # "no"
    \/ \E r \in Runners : run[r].place = "mark" /\ run[r].job = j

Fault == faults < MaxFaults /\ faults' = faults + 1
Call == calls < MaxCalls /\ calls' = calls + 1

-----------------------------------------------------------------------------
(* Slots *)

\* countActiveJobsByKind, without its repairs: a queued job that was started
\* and a running one hold a slot while their process lives.
Holders == {j \in Jobs : rec[j].status \in Live /\ HasProcess(j)}

SameKind(j) == {i \in Jobs : i \in Podcasts <=> j \in Podcasts}
Pool(j) == IF j \in Podcasts THEN PodcastPool ELSE VideoPool

\* Mutant of HasRoom: the ceiling is compared off by one.
RoomForOneMore(j, use) ==
    Cardinality(use) <= Ceiling /\ Cardinality(use \cap SameKind(j)) <= Pool(j)

HasRoom(j, use) ==
    Cardinality(use) < Ceiling /\ Cardinality(use \cap SameKind(j)) < Pool(j)

\* A record that ended; its PID, kept in the file, is not read again.
Ended(s, status) == [s EXCEPT !.status = status, !.pid = NoRunner]

\* reconcileStoppedRunner: what becomes of a job whose runner is gone.
Recovered(j) ==
    IF PostEncodeFinished(rec[j]) THEN [rec[j] EXCEPT !.pid = NoRunner]
    ELSE IF j \in asr THEN [rec[j] EXCEPT !.status = "queued", !.pid = NoRunner]
    ELSE Ended(rec[j], "killed")

\* Counting the slots repairs every stopped job it meets, each under its lock.
CanCount == \A j \in Jobs : Stopped(j) => ~Locked(j)
Counted == [j \in Jobs |-> IF Stopped(j) THEN Recovered(j) ELSE rec[j]]

-----------------------------------------------------------------------------
(* Requests *)

UpAndFree == server = "up" /\ sched.mode = "idle"

\* The head of scheduleQueuedLocked: a held queue is not looked at; otherwise
\* the slots are counted and the queued jobs are taken in their order.
QueuePassFrom(records) ==
    IF held THEN rec' = records /\ sched' = NoPass
    ELSE /\ CanCount
         /\ rec' = [j \in Jobs |-> IF Stopped(j) THEN Recovered(j) ELSE records[j]]
         /\ sched' = [NoPass EXCEPT !.mode = "queue", !.at = 1]

\* Submit of a new job: the record is durable before the queue is looked at.
\* The capacity lock is kept for that pass.
SubmitNew(j) ==
    /\ UpAndFree
    /\ rec[j].status = "none"
    /\ j > 1 => rec[j - 1].status # "none"
    /\ QueuePassFrom([rec EXCEPT ![j] = [NoRecord EXCEPT !.status = "queued"]])
    /\ UNCHANGED <<marker, asr, run, cancelling, server, todo, held, history, faults, calls>>

\* Submit of a known job: it is answered with its record.  A stopped one is
\* repaired, here without a look at the podcast checkpoints, and one that is
\* queued is a reason to look at the queue.
SubmitAgain(j) ==
    /\ UpAndFree
    /\ ~Locked(j)
    /\ \/ /\ rec[j].status = "queued"
          /\ QueuePassFrom(IF HasProcess(j) THEN rec ELSE [rec EXCEPT ![j].pid = NoRunner])
       \/ /\ Stopped(j)
          /\ rec' = IF PostEncodeFinished(rec[j]) THEN [rec EXCEPT ![j].pid = NoRunner]
                    ELSE [rec EXCEPT ![j] = Ended(@, "killed")]
          /\ UNCHANGED sched
    /\ UNCHANGED <<marker, asr, run, cancelling, server, todo, held, history, faults, calls>>

\* Status repairs the job it is asked for.
Status(j) ==
    /\ server = "up"
    /\ ~Locked(j)
    /\ Stopped(j)
    /\ rec' = [rec EXCEPT ![j] = Recovered(j)]
    /\ UNCHANGED <<marker, asr, run, serverVars, history, faults, calls>>

\* Mutant of CancelKills: the process is left alone.
CancelSparesRunner(j) ==
    /\ server = "up"
    /\ ~Locked(j)
    /\ rec[j].status \in Live
    /\ UNCHANGED run
    /\ cancelling' = [cancelling EXCEPT ![j] = "killed"]
    /\ UNCHANGED <<jobVars, sched, server, todo, held, history, faults, calls>>

\* Mutant of CancelKills: a job that ended is cancelled too.
CancelAnyway(j) ==
    /\ server = "up"
    /\ ~Locked(j)
    /\ rec[j].status \notin {"none", "cancelled"}
    /\ run' = IF HasProcess(j) THEN [run EXCEPT ![rec[j].pid] = NoProcess] ELSE run
    /\ cancelling' = [cancelling EXCEPT ![j] = "killed"]
    /\ UNCHANGED <<jobVars, sched, server, todo, held, history, faults, calls>>

\* Cancel: under the job's lock the process is killed, the record is saved and
\* the marker is written, in this order.
CancelKills(j) ==
    /\ server = "up"
    /\ ~Locked(j)
    /\ rec[j].status \in Live
    /\ run' = IF HasProcess(j) THEN [run EXCEPT ![rec[j].pid] = NoProcess] ELSE run
    /\ cancelling' = [cancelling EXCEPT ![j] = "killed"]
    /\ UNCHANGED <<jobVars, sched, server, todo, held, history, faults, calls>>

CancelSaves(j) ==
    /\ cancelling[j] = "killed"
    /\ rec' = [rec EXCEPT ![j] = Ended(@, "cancelled")]
    /\ cancelling' = [cancelling EXCEPT ![j] = "saved"]
    /\ UNCHANGED <<marker, asr, run, sched, server, todo, held, history, faults, calls>>

\* The end of a cancel.  One of a job that is cancelled already only does this.
CancelMarks(j) ==
    /\ \/ cancelling[j] = "saved"
       \/ server = "up" /\ ~Locked(j) /\ rec[j].status = "cancelled" /\ marker[j] = "none"
    /\ marker' = [marker EXCEPT ![j] = "cancelled"]
    /\ cancelling' = [cancelling EXCEPT ![j] = "no"]
    /\ UNCHANGED <<rec, asr, run, sched, server, todo, held, history, faults, calls>>

\* RetryPublication: an operator gives a publication a new budget.
RetryPublication(j) ==
    /\ server = "up"
    /\ ~Locked(j)
    /\ PostEncodeResume(rec[j])
    /\ Call
    /\ rec' = [rec EXCEPT ![j].retries = 0, ![j].asked = TRUE]
    /\ attempts' = [attempts EXCEPT ![j] = 0]
    /\ UNCHANGED <<marker, asr, run, serverVars, stray, faults>>

\* Mutant of Hold: the pass under way is not waited for.
HoldAtOnce ==
    /\ server = "up"
    /\ \/ ~held /\ Call
       \/ held /\ UNCHANGED calls
    /\ held' = ~held
    /\ UNCHANGED <<jobVars, run, sched, cancelling, server, todo, history, faults>>

\* SetHold: turning it on waits for the pass under way.
Hold ==
    /\ server = "up"
    /\ \/ ~held /\ sched.mode = "idle" /\ Call
       \/ held /\ UNCHANGED calls
    /\ held' = ~held
    /\ UNCHANGED <<jobVars, run, sched, cancelling, server, todo, history, faults>>

-----------------------------------------------------------------------------
(* Scheduler passes *)

NextJob(s) == IF s.at = NJobs THEN NoPass ELSE [s EXCEPT !.at = s.at + 1, !.runner = NoRunner]

\* The rest of a pass is dropped when its context ends.
Dropped ==
    /\ sched.mode # "idle" /\ sched.runner = NoRunner
    /\ Fault
    /\ sched' = NoPass
    /\ UNCHANGED <<jobVars, run, cancelling, server, todo, held, history, calls>>

\* The ticker's passes; the resume pass of the startup is ResumeStarts.
QueueStarts ==
    /\ UpAndFree
    /\ ~held
    /\ QueuePassFrom(rec)
    /\ UNCHANGED <<marker, asr, run, cancelling, server, todo, held, history, faults, calls>>

ResumePass == [NoPass EXCEPT !.mode = "resume", !.at = 1, !.use = Holders]

ResumeStarts ==
    /\ UpAndFree
    /\ CanCount
    /\ rec' = Counted
    /\ sched' = ResumePass
    /\ UNCHANGED <<marker, asr, run, cancelling, server, todo, held, history, faults, calls>>

\* A process the system can name: no record that may be alive refers to it.
Fresh(r) == run[r].place = "free" /\ \A j \in Jobs : rec[j].status \in Live => rec[j].pid # r

Spawned(r, j) == [run EXCEPT ![r] = [place |-> "load", job |-> j, snap |-> NoRecord]]

\* Mutant of Startable: a job that was started is started again.
StartableAgain(j) == rec[j].status = "queued"

\* Mutant of Startable: a process that died before its claim is not seen.
NeverStarted(j) == rec[j].status = "queued" /\ rec[j].pid = NoRunner

\* A queued job nobody has started yet, or whose process died before its claim.
Startable(j) == rec[j].status = "queued" /\ ~HasProcess(j)

\* One job of a queue pass, under the capacity lock and the job's own.
QueueTakes(j) ==
    /\ sched.mode = "queue" /\ sched.at = j /\ sched.runner = NoRunner
    /\ ~Locked(j)
    /\ LET free == [Counted EXCEPT ![j].pid = NoRunner] IN
       \/ /\ ~Startable(j)
          /\ sched' = NextJob(sched)
          /\ UNCHANGED <<rec, run, faults>>
       \/ /\ Startable(j) /\ CanCount
          /\ ~HasRoom(j, Holders)
          /\ rec' \in {rec, free}      \* passed over before its lock, or under it
          /\ sched' = NextJob(sched)
          /\ UNCHANGED <<run, faults>>
       \/ /\ Startable(j) /\ CanCount
          /\ HasRoom(j, Holders)
          /\ rec' = free
          /\ \E r \in Runners :
              /\ Fresh(r)
              /\ run' = Spawned(r, j)
              /\ sched' = [sched EXCEPT !.runner = r]
          /\ UNCHANGED faults
       \/ /\ Startable(j) /\ CanCount
          /\ HasRoom(j, Holders)
          /\ Fault                      \* the process cannot be started
          /\ rec' = [free EXCEPT ![j].status = "failed"]
          /\ sched' = NextJob(sched)
          /\ UNCHANGED run
    /\ UNCHANGED <<marker, asr, cancelling, server, todo, held, history, calls>>

\* The process's identity is recorded, or the process is killed.
QueueRecords(j) ==
    /\ sched.mode = "queue" /\ PassHolds(j)
    /\ \/ /\ rec' = [rec EXCEPT ![j].pid = sched.runner]
          /\ UNCHANGED <<run, faults>>
       \/ /\ Fault                      \* the save fails, and the second one may
          /\ rec' \in {rec, [rec EXCEPT ![j] = Ended(@, "failed")]}
          /\ run' = [run EXCEPT ![sched.runner] = NoProcess]
    /\ sched' = NextJob(sched)
    /\ UNCHANGED <<marker, asr, cancelling, server, todo, held, history, calls>>

\* Mutant of Reserved: the attempt is not reserved before the spawn.
Unreserved(s) == [s EXCEPT !.asked = FALSE]

\* The attempt is charged to the budget before its process exists.
Reserved(s) ==
    [s EXCEPT !.retries = s.retries + 1, !.asked = FALSE]

ResumeAt(j) == sched.mode = "resume" /\ sched.at = j /\ sched.runner = NoRunner /\ ~Locked(j)

\* One job of a resume pass (ResumePostEncode).  A job whose next attempt is not
\* due yet is passed over.
ResumeSkips(j) ==
    /\ ResumeAt(j)
    /\ sched' = NextJob(sched)
    /\ UNCHANGED <<jobVars, run, cancelling, server, todo, held, history, faults, calls>>

ResumeTakes(j) ==
    /\ ResumeAt(j)
    /\ PostEncodeResume(rec[j])
    /\ PublicationAllowed(rec[j])
    /\ HasRoom(j, sched.use)
    /\ \/ \E r \in Runners :
          /\ Fresh(r)
          /\ rec' = [rec EXCEPT ![j] = Reserved(@)]
          /\ run' = Spawned(r, j)
          /\ sched' = [sched EXCEPT !.runner = r, !.use = @ \cup {j}]
          /\ attempts' = [attempts EXCEPT ![j] = @ + 1]
          /\ UNCHANGED faults
       \/ /\ Fault                      \* no process: an attempt less, and a retryable error
          /\ rec' = [rec EXCEPT ![j] = [Reserved(@) EXCEPT !.permanent = FALSE]]
          /\ sched' = NextJob(sched)
          /\ UNCHANGED <<run, attempts>>
    /\ UNCHANGED <<marker, asr, cancelling, server, todo, held, stray, calls>>

ResumeRecords(j) ==
    /\ sched.mode = "resume" /\ PassHolds(j)
    /\ \/ /\ rec' = [rec EXCEPT ![j].pid = sched.runner]
          /\ UNCHANGED <<run, faults>>
       \/ /\ Fault
          /\ run' = [run EXCEPT ![sched.runner] = NoProcess]
          /\ UNCHANGED rec
    /\ sched' = NextJob(sched)
    /\ UNCHANGED <<marker, asr, cancelling, server, todo, held, history, calls>>

Pass ==
    \/ \E j \in Jobs :
        \/ QueueTakes(j) \/ QueueRecords(j)
        \/ ResumeSkips(j) \/ ResumeTakes(j) \/ ResumeRecords(j)
    \/ Dropped

-----------------------------------------------------------------------------
(* Crash and startup *)

\* The server dies; its locks go with it, the runners stay.
Crash ==
    /\ server # "down"
    /\ Fault
    /\ server' = "down"
    /\ sched' = NoPass
    /\ cancelling' = [j \in Jobs |-> "no"]
    /\ todo' = {}
    /\ stray' = IF sched.runner = NoRunner THEN stray ELSE stray \cup {sched.at}
    /\ UNCHANGED <<jobVars, run, held, attempts, calls>>

Restart ==
    /\ server = "down"
    /\ server' = "reconcile"
    /\ todo' = Jobs
    /\ UNCHANGED <<jobVars, run, sched, cancelling, held, history, faults, calls>>

\* Mutant of Reconciled: a job that ended is reconciled too.
ReconciledAnyway(j) ==
    IF rec[j].status \in {"none", "queued"} THEN rec[j]
    ELSE IF marker[j] # "none" THEN Ended(rec[j], marker[j])
    ELSE IF HasProcess(j) THEN rec[j]
    ELSE IF PostEncodeFinished(rec[j]) THEN [rec[j] EXCEPT !.pid = NoRunner]
    ELSE IF j \in asr THEN [rec[j] EXCEPT !.status = "queued", !.pid = NoRunner]
    ELSE Ended(rec[j], "killed")

\* reconcileJob: a marker decides, then the process, then what is on disk.
Reconciled(j) ==
    IF rec[j].status # "running" THEN rec[j]
    ELSE IF marker[j] # "none" THEN Ended(rec[j], marker[j])
    ELSE IF HasProcess(j) THEN rec[j]
    ELSE IF PostEncodeFinished(rec[j]) THEN [rec[j] EXCEPT !.pid = NoRunner]
    ELSE IF j \in asr THEN [rec[j] EXCEPT !.status = "queued", !.pid = NoRunner]
    ELSE Ended(rec[j], "killed")

StartupReconciles(j) ==
    /\ server = "reconcile"
    /\ j \in todo
    /\ ~Locked(j)
    /\ rec' = [rec EXCEPT ![j] = Reconciled(j)]
    /\ marker' = IF Reconciled(j).status = "killed" /\ rec[j].status = "running"
                 THEN [marker EXCEPT ![j] = "killed"] ELSE marker
    /\ todo' = todo \ {j}
    /\ UNCHANGED <<asr, run, sched, cancelling, server, held, history, faults, calls>>

\* Only then the publications, and only then the queue and the requests.
StartupResumes ==
    /\ server = "reconcile" /\ sched.mode = "idle"
    /\ todo = {}
    /\ CanCount
    /\ server' = "resume"
    /\ rec' = Counted
    /\ sched' = ResumePass
    /\ UNCHANGED <<marker, asr, run, cancelling, todo, held, history, faults, calls>>

StartupEnds ==
    /\ server = "resume"
    /\ sched.mode = "idle"
    /\ server' = "up"
    /\ UNCHANGED <<jobVars, run, sched, cancelling, todo, held, history, faults, calls>>

Startup == Restart \/ StartupResumes \/ StartupEnds \/ \E j \in Jobs : StartupReconciles(j)

-----------------------------------------------------------------------------
(* The runner process of a job *)

JobOf(r) == run[r].job
Exits(r) == run' = [run EXCEPT ![r] = NoProcess]
Goes(r, place) == run' = [run EXCEPT ![r].place = place]
GoesWith(r, place, s) == run' = [run EXCEPT ![r].place = place, ![r].snap = s]

\* InternalRun reads the record without the job's lock.
Load(r) ==
    /\ run[r].place = "load"
    /\ LET s == rec[JobOf(r)] IN
       \/ s.status \notin Live /\ Exits(r) /\ UNCHANGED faults
       \/ s.status \in Live /\ GoesWith(r, "claim", s) /\ UNCHANGED faults
    /\ UNCHANGED <<jobVars, serverVars, history, calls>>

\* Mutant of ClaimRunner: a cancelled record is claimed too.
ClaimAnything(r) ==
    /\ run[r].place = "claim"
    /\ LET j == JobOf(r)
           mine == [rec[j] EXCEPT !.pid = r, !.status = "running"]
       IN /\ ~Locked(j)
          /\ rec' = [rec EXCEPT ![j] = mine]
          /\ GoesWith(r, IF rec[j].encoded THEN "finalize" ELSE "encode", mine)
    /\ UNCHANGED <<marker, asr, serverVars, history, faults, calls>>

\* claimRunner: the runner takes its job unless that is cancelled.
ClaimRunner(r) ==
    /\ run[r].place = "claim"
    /\ LET j == JobOf(r)
           mine == [rec[j] EXCEPT !.pid = r, !.status = "running"]
       IN /\ ~Locked(j)
          /\ \/ /\ rec[j].status = "cancelled"
                /\ Exits(r)
                /\ UNCHANGED rec
             \/ /\ rec[j].status # "cancelled"
                /\ rec' = [rec EXCEPT ![j] = mine]
                /\ GoesWith(r, IF PostEncodeResume(run[r].snap) \/ rec[j].encoded
                               THEN "finalize" ELSE "encode", mine)
    /\ UNCHANGED <<marker, asr, serverVars, history, faults, calls>>

\* Mutant of Progress: the runner goes on with the copy it had.
ProgressKeepsCopy(r, new, place) ==
    LET j == JobOf(r) IN
    /\ ~Locked(j)
    /\ \/ rec[j].status = "cancelled" /\ Exits(r) /\ UNCHANGED rec
       \/ /\ rec[j].status # "cancelled"
          /\ rec' = [rec EXCEPT ![j] = new]
          /\ IF place = "free" THEN Exits(r) ELSE Goes(r, place)

\* persistOperationalProgress: the runner's change is made to the record as it
\* is now, and not at all to a cancelled one.
Progress(r, new, place) ==
    LET j == JobOf(r) IN
    /\ ~Locked(j)
    /\ \/ /\ rec[j].status = "cancelled"
          /\ Exits(r)
          /\ UNCHANGED rec
       \/ /\ rec[j].status # "cancelled"
          /\ rec' = [rec EXCEPT ![j] = new]
          /\ IF place = "free" THEN Exits(r) ELSE GoesWith(r, place, new)

RecordOf(r) == rec[JobOf(r)]

\* Mutant of Terminate: the record is not read again.
TerminateBlindly(r, status) ==
    LET j == JobOf(r) IN
    /\ ~Locked(j)
    /\ rec' = [rec EXCEPT ![j] = Ended(run[r].snap, status)]
    /\ GoesWith(r, "mark", Ended(run[r].snap, status))
    /\ UNCHANGED marker

\* persistTerminalJob: the runner's own copy becomes the record, then the
\* marker is written; a cancelled record only has its marker refreshed.
Terminate(r, status) ==
    LET j == JobOf(r) IN
    /\ ~Locked(j)
    /\ \/ /\ rec[j].status = "cancelled"
          /\ marker' = [marker EXCEPT ![j] = "cancelled"]
          /\ Exits(r)
          /\ UNCHANGED rec
       \/ /\ rec[j].status # "cancelled"
          /\ rec' = [rec EXCEPT ![j] = Ended(run[r].snap, status)]
          /\ GoesWith(r, "mark", Ended(run[r].snap, status))
          /\ UNCHANGED marker

\* Its storage backend is not what the record asks for: it fails unclaimed.
Refuse(r) ==
    /\ run[r].place = "claim"
    /\ Terminate(r, "failed")
    /\ Fault
    /\ UNCHANGED <<asr, serverVars, history, calls>>

\* Staging, probing, planning, the encode and the validation of its candidate,
\* with saves of their progress; a podcast job may leave a transcript or its
\* matches on the way.  Each of them may fail the job.
Encode(r) ==
    /\ run[r].place = "encode"
    /\ \/ Terminate(r, "failed") /\ UNCHANGED asr
       \/ Progress(r, RecordOf(r), "encode") /\ UNCHANGED <<marker, asr>>
       \/ /\ JobOf(r) \in Podcasts \ asr
          /\ asr' = asr \cup {JobOf(r)}
          /\ UNCHANGED <<rec, marker, run>>
    /\ UNCHANGED <<serverVars, history, faults, calls>>

\* The encode is checkpointed: from here on it is never repeated.
Checkpoint(r) ==
    /\ run[r].place = "encode"
    /\ Progress(r, [RecordOf(r) EXCEPT !.encoded = TRUE], "finalize")
    /\ UNCHANGED <<marker, asr, serverVars, history, faults, calls>>

\* recordFinalizationFailure: the job stays running without a process.
FinalizationFails(r) ==
    /\ \E permanent \in BOOLEAN :
        Progress(r, [RecordOf(r) EXCEPT
                        !.status = "running", !.pid = NoRunner, !.encoded = TRUE,
                        !.fin = IF PostEncodeFinished(RecordOf(r)) THEN RecordOf(r).fin ELSE "pending",
                        !.permanent = permanent], "free")

Finalize(r) ==
    /\ run[r].place = "finalize"
    /\ \/ run[r].snap.fin # "completed" /\ Progress(r, [RecordOf(r) EXCEPT !.encoded = TRUE, !.fin = "finalizing"], "publish")
       \/ run[r].snap.fin = "completed" /\ Goes(r, "complete") /\ UNCHANGED rec
       \/ FinalizationFails(r)
    /\ UNCHANGED <<marker, asr, serverVars, history, faults, calls>>

\* Mutant of Publish: the publication is not recorded before the job ends.
PublishUnrecorded(r) ==
    /\ run[r].place = "publish"
    /\ Goes(r, "complete")
    /\ UNCHANGED <<jobVars, serverVars, history, faults, calls>>

Publish(r) ==
    /\ run[r].place = "publish"
    /\ \/ Progress(r, [RecordOf(r) EXCEPT !.fin = "completed"], "complete")
       \/ FinalizationFails(r)
    /\ UNCHANGED <<marker, asr, serverVars, history, faults, calls>>

Complete(r) ==
    /\ run[r].place = "complete"
    /\ Terminate(r, "completed")
    /\ UNCHANGED <<asr, serverVars, history, faults, calls>>

Mark(r) ==
    /\ run[r].place = "mark"
    /\ marker' = [marker EXCEPT ![JobOf(r)] = run[r].snap.status]
    /\ Exits(r)
    /\ UNCHANGED <<rec, asr, serverVars, history, faults, calls>>

\* The process dies, or a save of its own fails and it returns.
Dies(r) ==
    /\ run[r].place # "free"
    /\ Fault
    /\ Exits(r)
    /\ UNCHANGED <<jobVars, serverVars, history, calls>>

\* What a runner does.
Works(r) ==
    \/ Load(r) \/ ClaimRunner(r) \/ Encode(r) \/ Checkpoint(r)
    \/ Finalize(r) \/ Publish(r) \/ Complete(r) \/ Mark(r)

-----------------------------------------------------------------------------
Init ==
    /\ rec = [j \in Jobs |-> NoRecord]
    /\ marker = [j \in Jobs |-> "none"]
    /\ asr = {}
    /\ run = [r \in Runners |-> NoProcess]
    /\ sched = NoPass
    /\ cancelling = [j \in Jobs |-> "no"]
    /\ server = "up"
    /\ todo = {}
    /\ held = FALSE
    /\ stray = {}
    /\ attempts = [j \in Jobs |-> 0]
    /\ faults = 0
    /\ calls = 0

Request(j) ==
    \/ SubmitNew(j) \/ SubmitAgain(j) \/ Status(j)
    \/ CancelKills(j) \/ CancelSaves(j) \/ CancelMarks(j)
    \/ RetryPublication(j)

Next ==
    \/ \E j \in Jobs : Request(j)
    \/ Hold \/ QueueStarts \/ ResumeStarts \/ Pass
    \/ Crash \/ Startup
    \/ \E r \in Runners : Works(r) \/ Refuse(r) \/ Dies(r)

Spec == Init /\ [][Next]_vars

\* The daemon is restarted; its ticker makes both passes in turn, so neither is
\* kept from the capacity lock for ever; a request that holds a lock goes on;
\* an attempt becomes due; processes are scheduled and an encode ends.
Fairness ==
    /\ WF_vars(Startup)
    /\ WF_vars(Pass)
    /\ SF_vars(QueueStarts)
    /\ SF_vars(ResumeStarts)
    /\ \A j \in Jobs :
        /\ WF_vars(CancelSaves(j) \/ CancelMarks(j))
        /\ SF_vars(ResumeTakes(j))
    /\ \A r \in Runners : WF_vars(Works(r))

FairSpec == Spec /\ Fairness

-----------------------------------------------------------------------------
(* Properties.  A server that dies between the start of a runner and the save *)
(* of its identity leaves a process nobody knows (stray, see OneRunner); what *)
(* its job then does is not promised.                                         *)

Kept == Jobs \ stray

\* A record has at most one idea of who asked for a new budget.
RecordOK(s) == s \in Records /\ (s.asked => s.retries = 0)

\* Every variable has its type.
TypeOK ==
    /\ \A j \in Jobs : RecordOK(rec[j])
    /\ rec \in [Jobs -> Records]
    /\ marker \in [Jobs -> {"none"} \cup Terminal]
    /\ asr \subseteq Podcasts
    /\ run \in [Runners -> Processes]
    /\ \A r \in Runners :
        /\ RecordOK(run[r].snap)
        /\ run[r].place # "free" => run[r].job \in Jobs
        /\ run[r].place = "mark" => run[r].snap.status \in Terminal
    /\ sched \in Passes /\ IF sched.mode = "idle" THEN sched = NoPass ELSE sched.at \in Jobs
    /\ cancelling \in [Jobs -> {"no", "killed", "saved"}]
    /\ server \in {"down", "reconcile", "resume", "up"}
    /\ todo \subseteq Jobs
    /\ held \in BOOLEAN
    /\ stray \subseteq Jobs
    /\ attempts \in [Jobs -> Nat]
    /\ faults \in 0..MaxFaults
    /\ calls \in 0..MaxCalls

Busy == {r \in Runners : run[r].place \notin {"free", "mark"}}
BusyOn(kind) == {r \in Busy : JobOf(r) \in kind}

\* The slots are respected by processes, not by what the records say: through
\* restarts, repairs and both kinds of passes, whatever a stray does.
SlotsRespected ==
    /\ Cardinality(BusyOn(Kept)) <= Ceiling
    /\ Cardinality(BusyOn(Kept \cap Podcasts)) <= PodcastPool
    /\ Cardinality(BusyOn(Kept \ Podcasts)) <= VideoPool

\* The comment of scheduleQueuedLocked: "It never double-spawns".  A job has
\* one process at most.
OneRunner ==
    \A r, q \in Runners :
        run[r].place # "free" /\ run[q].place # "free" /\ JobOf(r) = JobOf(q) => r = q

\* The same, of the jobs whose runners were recorded.
OneRunnerKept ==
    \A r, q \in Runners :
        run[r].place # "free" /\ run[q].place # "free" /\ JobOf(r) = JobOf(q) /\ JobOf(r) \in Kept => r = q

\* A cancelled job has no process left that encodes or publishes: the cancel
\* found every one there was, also one that had not claimed its job yet.
CancelStops ==
    \A r \in Runners :
        run[r].place # "free" /\ JobOf(r) \in Kept => rec[JobOf(r)].status # "cancelled"

\* A job that ended stays as it ended, whatever a process, a repair or a
\* restart believes.
EndedStays ==
    [][\A j \in Kept : rec[j].status \in Terminal /\ j \notin stray' => rec'[j] = rec[j]]_<<rec, stray>>

\* Cancelled is for ever, even for a process nobody knew.
CancelledStays ==
    [][\A j \in Jobs : rec[j].status = "cancelled" => rec'[j].status = "cancelled"]_rec

\* After the encode's checkpoint no process encodes the job again, and a dead
\* one does not make it a killed job while its output waits for publication.
EncodedOnce ==
    \A j \in Kept :
        rec[j].encoded =>
            /\ \A r \in Runners : JobOf(r) = j => run[r].place # "encode"
            /\ rec[j].fin # "completed" => rec[j].status # "killed"

\* A terminal marker says what the record says, so that a restart never applies
\* one that contradicts it.
MarkerAgrees ==
    \A j \in Kept : marker[j] # "none" => marker[j] = rec[j].status

\* Neither crashes nor fast failures of the processes give a publication more
\* attempts than its budget; only an operator does.
BudgetHolds == \A j \in Kept : attempts[j] <= MaxRetries

\* The strengthening that makes the invariants above inductive.  JobsInv is
\* about the jobs and their processes, the rest of IInv about the passes.  Who
\* holds a job's lock knows what its record says and excludes the others.
LocksExclude ==
    /\ sched.runner # NoRunner =>
        /\ rec[sched.at].pid = NoRunner
        /\ rec[sched.at].status = IF sched.mode = "queue" THEN "queued" ELSE "running"
        /\ cancelling[sched.at] = "no"
        /\ run[sched.runner].place \in {"free", "load", "claim"}
        /\ run[sched.runner].place # "free" => JobOf(sched.runner) = sched.at
    /\ \A j \in Jobs :
        /\ cancelling[j] = "killed" => rec[j].status \in Live
        /\ cancelling[j] = "saved" => rec[j].status = "cancelled"
        /\ rec[j].status = "none" => rec[j] = NoRecord
    /\ \A r \in Runners :
        /\ run[r].place = "mark" => cancelling[JobOf(r)] = "no" /\ ~PassHolds(JobOf(r))
        /\ run[r].place # "free" => rec[JobOf(r)].status # "none"

\* Every process is behind a record that can be killed or is known to the pass
\* that started it, and what it remembers of its job's budget is true.
OwnerKnown(r) ==
    LET j == JobOf(r) IN
    /\ cancelling[j] = "no"
    /\ run[r].place # "load" => run[r].snap.retries = rec[j].retries
    /\ run[r].place = "mark" =>
        rec[j].status = run[r].snap.status /\ rec[j].status \in {"completed", "failed"}
    /\ run[r].place # "mark" =>
        /\ rec[j].status \in Live
        /\ IF PassHolds(j) THEN sched.runner = r ELSE rec[j].pid = r

OwnersKnown ==
    \A r \in Runners : run[r].place # "free" /\ JobOf(r) \in Kept => OwnerKnown(r)

AttemptsCounted == \A j \in Kept : attempts[j] <= rec[j].retries

JobsInv ==
    /\ TypeOK /\ LocksExclude /\ OwnersKnown /\ OneRunnerKept
    /\ MarkerAgrees /\ AttemptsCounted /\ EncodedOnce

\* A resume pass counts the slots once: every process at work later on has one
\* of the slots it counted, or one that it took itself.
PassCounts ==
    sched.mode = "resume" => \A r \in BusyOn(Kept) : JobOf(r) \in sched.use

\* Nothing looks at a held queue.
HeldIsIdle == held => sched.mode # "queue"

IInv == JobsInv /\ PassCounts /\ HeldIsIdle

\* SetHold: "once the hold is confirmed no pass can start another job".
HoldStopsQueue ==
    [][\A r \in Runners :
        held /\ run[r].place = "free" /\ run'[r].place = "load" => rec[run'[r].job].status # "queued"]_run

\* A queued job is started or ends, unless the queue is held again and again.
QueuedStarts ==
    \A j \in Jobs : rec[j].status = "queued" ~> rec[j].status # "queued" \/ held \/ j \in stray

\* A finished encode is published, or its job ends, or it waits for an operator.
EncodedSettles ==
    \A j \in Jobs :
        PostEncodeFinished(rec[j]) /\ rec[j].status = "running" ~>
            rec[j].status # "running" \/ ~PublicationAllowed(rec[j]) \/ j \in stray

\* The comment of finalizeOperational, "a finalization or storage failure after
\* EncodeComplete leaves the job nonterminal/resumable": no job whose encode
\* was checkpointed ends as killed.
EncodedIsNotKilled ==
    \A j \in Kept : rec[j].encoded => rec[j].status # "killed"

=============================================================================
