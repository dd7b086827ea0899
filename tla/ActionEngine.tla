--------------------------- MODULE ActionEngine ---------------------------
(***************************************************************************)
(* The durable workflow engine (src/action/engine.go) running one          *)
(* transcode_media action, from its admission to its last save.            *)
(*                                                                         *)
(* The action is one row of the store.  Any number of calls (the           *)
(* reconciler's continuations, a user's resume, retry or cancel) work on   *)
(* it; a call is an executor.  An executor works under a durable lease,    *)
(* keeps its own copy of the row and writes it back only while it holds    *)
(* the lease.  The lease can lapse under a live executor, the executor's   *)
(* context can end and its process can die between any two steps; the      *)
(* conversion worker is reached over HTTP, where a reply can be lost and   *)
(* a request can arrive after its sender gave up.                          *)
(***************************************************************************)
EXTENDS Naturals

CONSTANTS
    Executors,      \* the calls that can be in progress at the same time
    NoOwner,        \* no executor: the lease row does not exist
    MaxJob,         \* bound: worker job identities one action allocates
    MaxExpiries,    \* maxCandidateExpiries: re-encodes of a dropped candidate
    MaxFaults,      \* bound: faults of the environment in a behaviour
    MaxCalls,       \* bound: calls made by users in a behaviour
    Retention       \* the worker keeps candidates until they are approved

ASSUME ExecutorsAssumption == NoOwner \notin Executors
ASSUME BoundsAssumption ==
    /\ MaxJob \in Nat \ {0}
    /\ MaxExpiries \in Nat
    /\ MaxFaults \in Nat
    /\ MaxCalls \in Nat
    /\ Retention \in BOOLEAN

VARIABLES
    row,        \* the action's row: status, current_step and state_json
    lease,      \* its action_execution_leases row; live: expires_at > now
    pc,         \* where each executor is in the code
    mem,        \* each executor's copy of the row and of its step's result
    jobs,       \* the worker's record of each job identity
    inflight,   \* submits whose sender gave up, still on their way
    encoded,    \* history: identities whose encode finished with a candidate
    confirmed,  \* what the last Cancel that returned no error rested on
    faults,     \* faults used up
    calls       \* user calls made

vars == <<row, lease, pc, mem, jobs, inflight, encoded, confirmed, faults, calls>>
workerVars == <<jobs, inflight, encoded>>
budgets == <<faults, calls>>

-----------------------------------------------------------------------------
(* Data *)

Attempts == 1..MaxJob   \* job-<id>, job-<id>-recipe-r1, job-<id>-retry-1, ...

\* The template's steps.  submit_benchmark and wait_benchmark, which only
\* compute the plan, are part of preflight here.
Preflight == 1
Submit == 2
Wait == 3
Validate == 4
Accept == 5
Done == 6
Steps == Preflight..Done

Open == {"pending", "running", "waiting_external", "waiting_decision"}
Final == {"completed", "failed", "cancelled"}
Statuses == {"none"} \cup Open \cup Final

\* The keys of state_json that decide what the engine does.
States == [ origin: BOOLEAN,        \* request_origin
            background: BOOLEAN,    \* background_admission
            worker: BOOLEAN,        \* worker: assigned
            job: 0..MaxJob,         \* job_id, 0 when absent
            submitted: BOOLEAN,     \* transcode_submitted
            reconcile: BOOLEAN,     \* transcode_reconcile
            rejected: BOOLEAN,      \* transcode_submit_rejected
            done: BOOLEAN,          \* transcode_done
            skip: BOOLEAN,          \* skip_transcode
            expiries: 0..MaxExpiries ]

EmptyState == [ origin |-> FALSE, background |-> FALSE, worker |-> FALSE, job |-> 0,
                submitted |-> FALSE, reconcile |-> FALSE, rejected |-> FALSE,
                done |-> FALSE, skip |-> FALSE, expiries |-> 0 ]

Rows == [status: Statuses, step: Steps, st: States]

\* What the worker's Status endpoint says of a job.  "missed" is a failed job
\* whose reason is the quality or size policy; "retained" a running one whose
\* finished candidate waits on the worker.
Running == {"active", "retained"}
Ended == {"completed", "failed", "missed", "cancelled"}
JobStatuses == {"none", "expired"} \cup Running \cup Ended

Kinds == {"none", "auto", "resume", "retry", "cancel", "run"}
Decisions == {"none", "reject", "accept"}
Results == {"none", "completed", "failed", "external", "decision"}

Memories == [ kind: Kinds, status: Statuses, step: Steps, st: States,
              ctx: BOOLEAN,     \* the call's context is alive
              decision: Decisions, res: Results, next: Steps ]

NoMemory == [ kind |-> "none", status |-> "none", step |-> Preflight, st |-> EmptyState,
              ctx |-> TRUE, decision |-> "none", res |-> "none", next |-> Preflight ]

\* Where an executor can be while it works on its copy of the row.
Executing == {"loop", "assign", "run", "reconcile", "admit", "send", "record", "result"}
Places == {"idle", "runClaim", "resuming", "retryCheck", "retrySave", "cancelling",
           "remoteCancel", "cancelStatus", "release"} \cup Executing

\* transcodeAttemptKeys, and the keys a manual retry deletes.
ClearAttempt(s) ==
    [s EXCEPT !.submitted = FALSE, !.reconcile = FALSE, !.rejected = FALSE, !.done = FALSE]

\* The last send was refused and nothing was sent since.
NoRemoteJob(s) == s.rejected /\ ~s.submitted /\ ~s.reconcile

-----------------------------------------------------------------------------
(* Building blocks *)

\* The fence of UpdateClaimedActionInstance.
Holds(e) == lease.owner = e /\ lease.live

RowOf(m) == [status |-> m.status, step |-> m.step, st |-> m.st]

\* Mutant of SaveThen: the save is not fenced.
UnfencedSave(e, r, place) ==
    /\ row' = r
    /\ pc' = [pc EXCEPT ![e] = place]

\* A fenced save of the executor's row; a call whose save is refused returns.
SaveThen(e, r, place) ==
    /\ row' = IF Holds(e) THEN r ELSE row
    /\ pc' = [pc EXCEPT ![e] = IF Holds(e) THEN place ELSE "release"]

\* Mutants of Persisted: nothing is stored; or whoever holds the lease.
NeverPersisted(e, s) == row
UnfencedPersist(e, s) == [row EXCEPT !.st = s]

\* persistExecutionState: only the state part of the row is overwritten.
Persisted(e, s) == IF Holds(e) THEN [row EXCEPT !.st = s] ELSE row

\* Mutant of Return: a rewind is forgotten.
ReturnForward(e, out, s, next) ==
    /\ mem' = [mem EXCEPT ![e] = [@ EXCEPT !.st = s, !.res = out,
                                          !.next = IF out = "completed" THEN mem[e].step + 1 ELSE next]]
    /\ pc' = [pc EXCEPT ![e] = "result"]

\* A step returned: what it decided waits in memory for the engine's save.
Return(e, out, s, next) ==
    /\ mem' = [mem EXCEPT ![e] = [@ EXCEPT !.st = s, !.res = out, !.next = next]]
    /\ pc' = [pc EXCEPT ![e] = "result"]

\* A fault of the environment, counted against the bound.
Fault == faults < MaxFaults /\ faults' = faults + 1

\* A request gets no answer: the network failed, or the caller's context is over.
Unanswered(e) == IF mem[e].ctx THEN Fault ELSE UNCHANGED faults

Ctx(e) == mem[e].ctx
St(e) == mem[e].st
Job(e) == IF St(e).job = 0 THEN 1 ELSE St(e).job    \* job-<instance> by default

\* Mutant of Accepted: a cancelled job is taken for one that can be started.
AcceptedAgain(j) ==
    IF jobs[j] \in {"none", "expired", "cancelled"} THEN [jobs EXCEPT ![j] = "active"] ELSE jobs

\* The worker's Submit: an identity it knows is answered with the job it has;
\* a dropped candidate leaves a tombstone that a new submit does not find.
Accepted(j) == IF jobs[j] \in {"none", "expired"} THEN [jobs EXCEPT ![j] = "active"] ELSE jobs

-----------------------------------------------------------------------------
(* Admission *)

\* Enqueue: the receipt and the pending row are one transaction; a replay
\* finds the row and changes nothing.
Enqueue ==
    /\ row.status = "none"
    /\ row' = [status |-> "pending", step |-> Preflight,
               st |-> [EmptyState EXCEPT !.origin = TRUE, !.background = TRUE]]
    /\ UNCHANGED <<lease, pc, mem, workerVars, confirmed, budgets>>

-----------------------------------------------------------------------------
(* Claiming the lease.  A busy lease refuses an automatic resume and is      *)
(* polled by the others; both are no step here.  The row is read under it.   *)

\* Mutant of ShouldReconcile: an interrupted action is not picked up.
ReconcilesWaits ==
    \/ row.status = "pending" /\ row.st.background
    \/ row.status = "waiting_external"

ShouldReconcile ==
    \/ row.status = "pending" /\ row.st.background
    \/ row.status = "waiting_external"
    \/ row.status = "running" /\ row.st # EmptyState

Claim(e, kind, decision, place) ==
    /\ pc[e] = "idle"
    /\ row.status # "none"
    /\ ~lease.live
    /\ lease' = [owner |-> e, live |-> TRUE]
    /\ mem' = [mem EXCEPT ![e] = [kind |-> kind, status |-> row.status, step |-> row.step,
                                  st |-> row.st, ctx |-> TRUE, decision |-> decision,
                                  res |-> "none", next |-> row.step]]
    /\ pc' = [pc EXCEPT ![e] = place]
    /\ UNCHANGED <<row, workerVars, confirmed, faults>>

\* A call that finds nothing to do returns at once.
AutoResume(e) ==
    /\ ShouldReconcile
    /\ Claim(e, "auto", "none", "resuming")
    /\ UNCHANGED calls

UserCall == calls < MaxCalls /\ calls' = calls + 1

\* A resume of a decision wait needs a decision; "none" stands for recheck,
\* which the steps modelled here treat like any other word.
UserResume(e) ==
    \E d \in Decisions :
        /\ UserCall
        /\ Claim(e, "resume", d, IF row.status \in Final THEN "release" ELSE "resuming")

UserRetry(e) ==
    /\ UserCall
    /\ Claim(e, "retry", "none",
             IF row.status # "failed" THEN "release"
             ELSE IF row.st.job # 0 /\ ~row.st.done THEN "retryCheck"
             ELSE "retrySave")

UserCancel(e) ==
    /\ UserCall
    /\ Claim(e, "cancel", "none", IF row.status = "completed" THEN "release" ELSE "cancelling")

\* The save of resume that precedes execute.
Resuming(e) ==
    /\ pc[e] = "resuming"
    /\ mem' = [mem EXCEPT ![e].status = "running"]
    /\ SaveThen(e, [RowOf(mem[e]) EXCEPT !.status = "running"], "loop")
    /\ UNCHANGED <<lease, workerVars, confirmed, budgets>>

-----------------------------------------------------------------------------
(* execute *)

\* The head of the loop: a dead context suspends the action, otherwise the
\* step about to run is saved; past the last step the action is completed.
Loop(e) ==
    /\ pc[e] = "loop"
    /\ LET m == mem[e] IN
       \/ /\ m.step < Done
          /\ ~m.ctx
          /\ SaveThen(e, [status |-> IF m.st = EmptyState THEN "failed" ELSE "waiting_external",
                          step |-> m.step, st |-> m.st], "release")
          /\ UNCHANGED mem
       \/ /\ m.step < Done
          /\ m.ctx
          /\ mem' = [mem EXCEPT ![e].status = "running"]
          /\ SaveThen(e, [RowOf(m) EXCEPT !.status = "running"], "assign")
       \/ /\ m.step = Done
          /\ SaveThen(e, [RowOf(m) EXCEPT !.status = "completed"], "release")
          /\ UNCHANGED mem
    /\ UNCHANGED <<lease, workerVars, confirmed, budgets>>

\* ensureWorkerAssigned: the worker is stored before any step uses it; without
\* one, or when it cannot be stored, the action waits.
AssignWorker(e) ==
    /\ pc[e] = "assign"
    /\ LET s == [St(e) EXCEPT !.worker = TRUE] IN
       \/ /\ St(e).worker
          /\ pc' = [pc EXCEPT ![e] = "run"]
          /\ UNCHANGED <<row, mem, faults>>
       \/ /\ ~St(e).worker
          /\ Holds(e)
          /\ row' = Persisted(e, s)
          /\ mem' = [mem EXCEPT ![e].st = s]
          /\ pc' = [pc EXCEPT ![e] = "run"]
          /\ UNCHANGED faults
       \/ /\ ~St(e).worker
          /\ IF Holds(e) THEN Unanswered(e) ELSE UNCHANGED faults
          /\ Return(e, "external", St(e), mem[e].step)
          /\ UNCHANGED row
    /\ UNCHANGED <<lease, workerVars, confirmed, calls>>

\* A step's ordinary results.
Completes(e, s) == Return(e, "completed", s, mem[e].step + 1) /\ UNCHANGED faults
Fails(e, s) == Return(e, "failed", s, mem[e].step) /\ UNCHANGED faults
AsksUser(e, s) == Return(e, "decision", s, mem[e].step) /\ UNCHANGED faults
WaitsForWorker(e, s) == Return(e, "external", s, mem[e].step) /\ UNCHANGED faults
Unreachable(e, s) == Unanswered(e) /\ Return(e, "external", s, mem[e].step)
\* A status read answered by an error that is neither passing nor a 404.
StatusRefused(e, s) == Ctx(e) /\ Fault /\ Return(e, "failed", s, mem[e].step)

\* preflight and the plan: the goal may already be met, or be unreachable.
RunPreflight(e) ==
    /\ pc[e] = "run"
    /\ mem[e].step = Preflight
    /\ \/ Completes(e, St(e))
       \/ Completes(e, [St(e) EXCEPT !.skip = TRUE])
       \/ Fails(e, St(e))
       \/ AsksUser(e, St(e))
       \/ Unreachable(e, St(e))
    /\ UNCHANGED <<row, lease, workerVars, confirmed, calls>>

\* The head of stepTranscodeSubmit.
RunSubmit(e) ==
    /\ pc[e] = "run"
    /\ mem[e].step = Submit
    /\ LET s == St(e)
           known == s.submitted /\ ~s.reconcile
       IN \/ (s.skip \/ known) /\ Completes(e, s)
          \/ /\ ~s.skip /\ ~known
             /\ pc' = [pc EXCEPT ![e] = IF s.reconcile THEN "reconcile" ELSE "admit"]
             /\ UNCHANGED <<mem, faults>>
    /\ UNCHANGED <<row, lease, workerVars, confirmed, calls>>

\* Uncertain submit: the worker is asked before anything is sent again.
\* A job it knows is recorded as submitted; one it never had, or whose
\* candidate it dropped, is sent again.
Reconcile(e) ==
    /\ pc[e] = "reconcile"
    /\ LET s == St(e)
           j == Job(e)
           found == [s EXCEPT !.job = j, !.submitted = TRUE, !.reconcile = FALSE, !.rejected = FALSE]
           lost == [s EXCEPT !.reconcile = FALSE]
       IN \/ Unreachable(e, s) /\ UNCHANGED row
          \/ StatusRefused(e, s) /\ UNCHANGED row
          \/ /\ Ctx(e)
             /\ jobs[j] \in {"none", "expired"}
             /\ mem' = [mem EXCEPT ![e].st = lost]
             /\ pc' = [pc EXCEPT ![e] = "admit"]
             /\ UNCHANGED <<row, faults>>
          \/ /\ Ctx(e)
             /\ jobs[j] \notin {"none", "expired"}
             /\ row' = Persisted(e, found)
             /\ IF Holds(e) THEN Return(e, "completed", found, Wait) ELSE Return(e, "failed", found, Submit)
             /\ UNCHANGED faults
    /\ UNCHANGED <<lease, workerVars, confirmed, calls>>

\* The identity checkpoint: before anything is sent, the row says which job
\* this action may have on the worker.  The checks before it (capabilities,
\* slot turn, drain or pause hold) may defer or refuse the encode.
Admit(e) ==
    /\ pc[e] = "admit"
    /\ LET s == St(e)
           id == [s EXCEPT !.job = Job(e), !.reconcile = TRUE, !.rejected = FALSE]
       IN \/ Unreachable(e, s) /\ UNCHANGED row
          \/ Fails(e, s) /\ UNCHANGED row
          \/ /\ Holds(e)
             /\ row' = Persisted(e, id)
             /\ mem' = [mem EXCEPT ![e].st = id]
             /\ pc' = [pc EXCEPT ![e] = "send"]
             /\ UNCHANGED faults
          \/ /\ ~Holds(e)
             /\ Fails(e, id)
             /\ UNCHANGED row
    /\ UNCHANGED <<lease, workerVars, confirmed, calls>>

\* The submit and the outcome the step holds in memory.  A lost reply leaves
\* the job accepted, still on its way, or never received.  The worker can
\* refuse outright whatever it holds: it checks the source before it looks
\* for the identity.
Send(e) ==
    /\ pc[e] = "send"
    /\ LET s == St(e)
           accepted == [s EXCEPT !.submitted = TRUE, !.reconcile = FALSE, !.rejected = FALSE]
           refused == [s EXCEPT !.reconcile = FALSE, !.rejected = TRUE]
           Outcome(st, out) ==
               /\ mem' = [mem EXCEPT ![e] = [@ EXCEPT !.st = st, !.res = out,
                             !.next = IF out = "completed" THEN Wait ELSE Submit]]
               /\ pc' = [pc EXCEPT ![e] = "record"]
       IN \/ /\ Ctx(e)
             /\ jobs' = Accepted(s.job)
             /\ Outcome(accepted, "completed")
             /\ UNCHANGED <<inflight, faults>>
          \/ /\ Unanswered(e)
             /\ \/ jobs' = Accepted(s.job) /\ UNCHANGED inflight
                \/ inflight' = inflight \cup {s.job} /\ UNCHANGED jobs
                \/ UNCHANGED <<jobs, inflight>>
             /\ Outcome(s, "external")
          \/ /\ Ctx(e) /\ Fault
             /\ \E out \in {"external", "failed"} : Outcome(refused, out)
             /\ UNCHANGED <<jobs, inflight>>
    /\ UNCHANGED <<row, lease, encoded, confirmed, calls>>

\* The outcome of the submit is stored before the step returns it.
Record(e) ==
    /\ pc[e] = "record"
    /\ row' = Persisted(e, St(e))
    /\ mem' = IF Holds(e) THEN mem
              ELSE [mem EXCEPT ![e] = [@ EXCEPT !.res = "failed", !.next = Submit]]
    /\ pc' = [pc EXCEPT ![e] = "result"]
    /\ UNCHANGED <<lease, workerVars, confirmed, budgets>>

\* Mutant of NextEncode: the next rung keeps the last one's identity.
SameEncode(s) == ClearAttempt(s)

\* The worker missed the quality or size goal: the next encode of the ladder
\* gets an identity of its own, or the ladder ends with nothing to offer.
NextEncode(s) == [ClearAttempt(s) EXCEPT !.job = s.job + 1]

RunWait(e) ==
    /\ pc[e] = "run"
    /\ mem[e].step = Wait
    /\ LET s == St(e)
           j == s.job
           rewind == [ClearAttempt(s) EXCEPT !.expiries = @ + 1]
       IN \/ s.skip /\ Completes(e, s)
          \/ ~s.skip /\ j = 0 /\ Fails(e, s)
          \/ ~s.skip /\ j # 0 /\ (Unreachable(e, s) \/ StatusRefused(e, s))
          \/ /\ ~s.skip /\ j # 0 /\ Ctx(e)
             /\ \/ jobs[j] \in {"none", "cancelled", "failed"} /\ Fails(e, s)
                \/ jobs[j] = "active" /\ (WaitsForWorker(e, s) \/ AsksUser(e, s))
                \/ jobs[j] \in {"completed", "retained"} /\ Completes(e, [s EXCEPT !.done = TRUE])
                \/ /\ jobs[j] = "expired"
                   /\ IF s.expiries < MaxExpiries
                      THEN Return(e, "completed", rewind, Submit) /\ UNCHANGED faults
                      ELSE Fails(e, s)
                \/ /\ jobs[j] = "missed"
                   /\ \/ Completes(e, [s EXCEPT !.skip = TRUE])
                      \/ Fails(e, s)
                      \/ /\ j < MaxJob
                         /\ Return(e, "completed", NextEncode(s), Submit)
                         /\ UNCHANGED faults
    /\ UNCHANGED <<row, lease, workerVars, confirmed, calls>>

\* validate_result: policy checks of the worker's attested candidate.
RunValidate(e) ==
    /\ pc[e] = "run"
    /\ mem[e].step = Validate
    /\ LET s == St(e) IN
       \/ s.skip /\ Completes(e, s)
       \/ ~s.skip /\ Fails(e, s)
       \/ /\ ~s.skip /\ mem[e].decision # "reject"
          /\ \/ Completes(e, s)
             \/ Completes(e, [s EXCEPT !.skip = TRUE])
             \/ mem[e].decision # "accept" /\ AsksUser(e, s)
    /\ UNCHANGED <<row, lease, workerVars, confirmed, calls>>

\* accept_result: the original is verified unchanged.
RunAccept(e) ==
    /\ pc[e] = "run"
    /\ mem[e].step = Accept
    /\ \/ mem[e].decision # "reject" /\ Completes(e, St(e))
       \/ Fails(e, St(e))
    /\ UNCHANGED <<row, lease, workerVars, confirmed, calls>>

\* execute's save of what the step returned.  Whatever it was, a context that
\* ended meanwhile turns it into a wait at the same step.
Result(e) ==
    /\ pc[e] = "result"
    /\ LET m == mem[e]
           out == IF m.ctx THEN m.res ELSE "external"
       IN IF out = "completed"
          THEN /\ SaveThen(e, [status |-> "running", step |-> m.next, st |-> m.st], "loop")
               /\ mem' = [mem EXCEPT ![e] = [@ EXCEPT !.step = m.next, !.res = "none"]]
          ELSE /\ SaveThen(e, [step |-> m.step, st |-> m.st,
                               status |-> CASE out = "failed" -> "failed"
                                            [] out = "decision" -> "waiting_decision"
                                            [] OTHER -> "waiting_external"], "release")
               /\ UNCHANGED mem
    /\ UNCHANGED <<lease, workerVars, confirmed, budgets>>

-----------------------------------------------------------------------------
(* Retry *)

\* prepareRemoteRetry: the same identity unless the worker confirms that its
\* job ended without a candidate.  Some failures refuse the retry.
RetryCheck(e) ==
    /\ pc[e] = "retryCheck"
    /\ LET s == St(e)
           SameJob == /\ mem' = [mem EXCEPT ![e] = [@ EXCEPT !.step = Submit, !.st.reconcile = TRUE]]
                      /\ pc' = [pc EXCEPT ![e] = "retrySave"]
                      /\ UNCHANGED row
           Refused == pc' = [pc EXCEPT ![e] = "release"] /\ UNCHANGED <<mem, row>>
           new == NextEncode(s)
       IN \/ Unanswered(e) /\ SameJob
          \/ Ctx(e) /\ jobs[s.job] \notin {"failed", "missed", "cancelled"} /\ SameJob /\ UNCHANGED faults
          \/ Ctx(e) /\ jobs[s.job] \in {"failed", "missed", "cancelled"} /\ Refused /\ UNCHANGED faults
          \/ Ctx(e) /\ Fault /\ Refused
          \/ /\ Ctx(e) /\ jobs[s.job] \in {"failed", "missed", "cancelled"}
             /\ s.job < MaxJob
             /\ mem' = [mem EXCEPT ![e] = [@ EXCEPT !.step = Submit, !.st = new]]
             /\ SaveThen(e, [row EXCEPT !.st = new], "retrySave")
             /\ UNCHANGED faults
    /\ UNCHANGED <<lease, workerVars, confirmed, calls>>

RetrySave(e) ==
    /\ pc[e] = "retrySave"
    /\ mem' = [mem EXCEPT ![e].status = "running"]
    /\ SaveThen(e, [RowOf(mem[e]) EXCEPT !.status = "running"], "loop")
    /\ UNCHANGED <<lease, workerVars, confirmed, budgets>>

-----------------------------------------------------------------------------
(* Cancel *)

\* The local cancellation is durable before the worker is contacted.
Cancelling(e) ==
    /\ pc[e] = "cancelling"
    /\ LET nothing == St(e).job = 0 \/ NoRemoteJob(St(e)) IN
       /\ SaveThen(e, [RowOf(mem[e]) EXCEPT !.status = "cancelled"],
                   IF nothing THEN "release" ELSE "remoteCancel")
       /\ confirmed' = IF Holds(e) /\ nothing THEN "skipped" ELSE confirmed
    /\ UNCHANGED <<lease, mem, workerVars, budgets>>

\* The worker's Cancel: a job that ended keeps its record, a running one is
\* stopped and a retained candidate is released.
Cancelled(j) == IF jobs[j] \in Running THEN [jobs EXCEPT ![j] = "cancelled"] ELSE jobs

Answer(j) == IF jobs[j] = "expired" THEN "expired" ELSE "stopped"

CancelReturns(e) == pc' = [pc EXCEPT ![e] = "release"]

RemoteCancel(e) ==
    /\ pc[e] = "remoteCancel"
    /\ LET j == St(e).job IN
       \/ /\ Ctx(e) /\ jobs[j] # "none"
          /\ jobs' = Cancelled(j)
          /\ confirmed' = Answer(j)
          /\ CancelReturns(e)
          /\ UNCHANGED faults
       \/ /\ Ctx(e) /\ jobs[j] = "none"     \* 404
          /\ CancelReturns(e)
          /\ UNCHANGED <<jobs, confirmed, faults>>
       \/ /\ Ctx(e) /\ Fault                \* release refused, or a 5xx
          /\ CancelReturns(e)
          /\ UNCHANGED <<jobs, confirmed>>
       \/ /\ Unanswered(e)
          /\ jobs' \in {jobs, Cancelled(j)}
          /\ pc' = [pc EXCEPT ![e] = "cancelStatus"]
          /\ UNCHANGED confirmed
    /\ UNCHANGED <<row, lease, mem, inflight, encoded, calls>>

\* cancelTranscodeJobConfirmed after an uncertain answer: one status read, and
\* a second cancel only for a job that is still running.
CancelStatus(e) ==
    /\ pc[e] = "cancelStatus"
    /\ LET j == St(e).job IN
       \/ /\ Ctx(e) /\ jobs[j] \in Ended \cup Running
          /\ jobs' = Cancelled(j)
          /\ confirmed' = "stopped"
          /\ UNCHANGED faults
       \/ /\ Ctx(e) /\ jobs[j] \in {"none", "expired"}
          /\ UNCHANGED <<jobs, confirmed, faults>>
       \/ /\ Unanswered(e)
          /\ UNCHANGED <<jobs, confirmed>>
    /\ CancelReturns(e)
    /\ UNCHANGED <<row, lease, mem, inflight, encoded, calls>>

-----------------------------------------------------------------------------
(* The end of a call *)

\* release deletes the lease only while it is this call's own.
Release(e) ==
    /\ pc[e] = "release"
    /\ lease' = IF lease.owner = e THEN [owner |-> NoOwner, live |-> FALSE] ELSE lease
    /\ pc' = [pc EXCEPT ![e] = "idle"]
    /\ mem' = [mem EXCEPT ![e] = NoMemory]
    /\ UNCHANGED <<row, workerVars, confirmed, budgets>>

\* The process dies: the lease row stays until it expires.
Crash(e) ==
    /\ pc[e] # "idle"
    /\ Fault
    /\ pc' = [pc EXCEPT ![e] = "idle"]
    /\ mem' = [mem EXCEPT ![e] = NoMemory]
    /\ UNCHANGED <<row, lease, workerVars, confirmed, calls>>

\* The request's client goes away or the service shuts down; an executor whose
\* lease is gone learns it from its renewal.
CtxEnds(e) ==
    /\ pc[e] \notin {"idle", "release"}
    /\ Ctx(e)
    /\ IF Holds(e) THEN Fault ELSE UNCHANGED faults
    /\ mem' = [mem EXCEPT ![e].ctx = FALSE]
    /\ UNCHANGED <<row, lease, pc, workerVars, confirmed, calls>>

-----------------------------------------------------------------------------
(* Time and the worker *)

\* Nobody renews the lease of a call that is over.
Expire ==
    /\ lease.live
    /\ pc[lease.owner] = "idle"
    /\ lease' = [lease EXCEPT !.live = FALSE]
    /\ UNCHANGED <<row, pc, mem, workerVars, confirmed, budgets>>

\* A live executor is stalled past the lease's lifetime.
Lapse ==
    /\ lease.live
    /\ pc[lease.owner] # "idle"
    /\ Fault
    /\ lease' = [lease EXCEPT !.live = FALSE]
    /\ UNCHANGED <<row, pc, mem, workerVars, confirmed, calls>>

\* A submit whose sender gave up reaches the worker.
Deliver ==
    /\ \E j \in inflight :
        /\ inflight' = inflight \ {j}
        /\ jobs' = Accepted(j)
    /\ UNCHANGED <<row, lease, pc, mem, encoded, confirmed, budgets>>

\* The worker ends a job: published, kept for its approval, missed the goal or
\* failed.
WorkerEnds(j) ==
    /\ jobs[j] = "active"
    /\ \E end \in {"completed", "missed", "failed"} \cup (IF Retention THEN {"retained"} ELSE {}) :
        /\ jobs' = [jobs EXCEPT ![j] = end]
        /\ encoded' = IF end \in {"completed", "retained"} THEN encoded \cup {j} ELSE encoded
    /\ UNCHANGED <<row, lease, pc, mem, inflight, confirmed, budgets>>

\* A retained candidate leaves the worker: dropped at the end of its
\* retention, or published once approved.
RetentionEnds(j) ==
    /\ jobs[j] = "retained"
    /\ \/ jobs' = [jobs EXCEPT ![j] = "expired"] /\ Fault
       \/ jobs' = [jobs EXCEPT ![j] = "completed"] /\ UNCHANGED faults
    /\ UNCHANGED <<row, lease, pc, mem, inflight, encoded, confirmed, calls>>

-----------------------------------------------------------------------------
Init ==
    /\ row = [status |-> "none", step |-> Preflight, st |-> EmptyState]
    /\ lease = [owner |-> NoOwner, live |-> FALSE]
    /\ pc = [e \in Executors |-> "idle"]
    /\ mem = [e \in Executors |-> NoMemory]
    /\ jobs = [j \in Attempts |-> "none"]
    /\ inflight = {}
    /\ encoded = {}
    /\ confirmed = "no"
    /\ faults = 0
    /\ calls = 0

User(e) == UserResume(e) \/ UserRetry(e) \/ UserCancel(e)

\* What a call does by itself once it holds the lease.
Work(e) ==
    \/ Resuming(e) \/ Loop(e) \/ AssignWorker(e)
    \/ RunPreflight(e) \/ RunSubmit(e) \/ Reconcile(e) \/ Admit(e) \/ Send(e) \/ Record(e)
    \/ RunWait(e) \/ RunValidate(e) \/ RunAccept(e) \/ Result(e)
    \/ RetryCheck(e) \/ RetrySave(e)
    \/ Cancelling(e) \/ RemoteCancel(e) \/ CancelStatus(e)
    \/ Release(e)

Call(e) == AutoResume(e) \/ User(e) \/ Work(e) \/ Crash(e) \/ CtxEnds(e)

Worker == Deliver \/ \E j \in Attempts : WorkerEnds(j) \/ RetentionEnds(j)

Next == Enqueue \/ Expire \/ Lapse \/ Worker \/ \E e \in Executors : Call(e)

Spec == Init /\ [][Next]_vars

\* Go schedules every running call, the reconciler's ticker resumes what is
\* due, leases expire by the clock and the worker ends what it runs.
Fairness ==
    /\ WF_vars(Expire)
    /\ WF_vars(\E e \in Executors : AutoResume(e))
    /\ \A e \in Executors : WF_vars(Work(e))
    /\ \A j \in Attempts : WF_vars(WorkerEnds(j))

FairSpec == Spec /\ Fairness

-----------------------------------------------------------------------------
(* Run, the synchronous admission a batch uses for its children: the row is  *)
(* inserted first and claimed after, and execute starts from a state of the  *)
(* call's own.  SyncSpec is Spec with it.                                    *)

RunCreates(e) ==
    /\ pc[e] = "idle"
    /\ row.status = "none"
    /\ row' = [status |-> "pending", step |-> Preflight, st |-> EmptyState]
    /\ pc' = [pc EXCEPT ![e] = "runClaim"]
    /\ mem' = [mem EXCEPT ![e] = [NoMemory EXCEPT !.kind = "run"]]
    /\ UNCHANGED <<lease, workerVars, confirmed, budgets>>

\* The row is read again under the lease, but its status is not looked at.
RunClaims(e) ==
    /\ pc[e] = "runClaim"
    /\ \/ /\ Ctx(e)
          /\ ~lease.live
          /\ lease' = [owner |-> e, live |-> TRUE]
          /\ mem' = [mem EXCEPT ![e] = [@ EXCEPT !.status = row.status, !.step = row.step,
                                                !.next = row.step, !.st.origin = TRUE]]
          /\ pc' = [pc EXCEPT ![e] = "loop"]
       \/ /\ ~Ctx(e)
          /\ pc' = [pc EXCEPT ![e] = "idle"]
          /\ mem' = [mem EXCEPT ![e] = NoMemory]
          /\ UNCHANGED lease
    /\ UNCHANGED <<row, workerVars, confirmed, budgets>>

SyncNext == Next \/ \E e \in Executors : RunCreates(e) \/ RunClaims(e)

SyncSpec == Init /\ [][SyncNext]_vars

-----------------------------------------------------------------------------
(* Properties *)

\* Every variable has its type.
TypeOK ==
    /\ row \in Rows
    /\ lease \in [owner: Executors \cup {NoOwner}, live: BOOLEAN]
    /\ lease.live => lease.owner \in Executors
    /\ pc \in [Executors -> Places]
    /\ mem \in [Executors -> Memories]
    /\ jobs \in [Attempts -> JobStatuses]
    /\ inflight \subseteq 0..MaxJob
    /\ encoded \subseteq Attempts
    /\ confirmed \in {"no", "stopped", "expired", "skipped"}
    /\ faults \in 0..MaxFaults
    /\ calls \in 0..MaxCalls

\* The worker encodes at most one job of an action at a time, however its
\* calls interleave, and the durable row names that job: a cancel or a retry
\* that reads the row finds everything that runs.  It rests on the identity
\* being stored before the submit and on a new identity being taken only after
\* the worker confirmed the end of the last one.
OnlyTrackedJobRuns ==
    \A j \in Attempts : jobs[j] \in Running \/ j \in inflight => j <= row.st.job /\ (jobs[j] \in Running => j = row.st.job)

\* A completed action has a candidate the worker finished under the identity
\* the row names, or says that it was skipped.
CompletedHasCandidate ==
    row.status = "completed" => row.st.skip \/ row.st.job \in encoded

\* A cancel that returned no error because the worker stopped the job, or
\* because the job had ended, is never followed by that job running again:
\* neither a late submit nor a stalled executor revives it.
ConfirmedCancelHolds ==
    confirmed = "stopped" /\ row.status = "cancelled" => jobs[row.st.job] \notin Running

\* Completed and cancelled are final: no call that read the row before, and
\* lost its lease since, writes its older copy over them.
FinalIsFinal ==
    [][ /\ row.status = "completed" => row'.status = "completed"
        /\ row.status = "cancelled" => row' = row ]_row

\* The checkpoint moves back only when the worker's job did not give a
\* candidate (a rewind to the submit) or when a failed action is retried, and
\* the row never goes back to an earlier job.
CheckpointMovesOn ==
    [][ /\ row'.st.job >= row.st.job
        /\ row'.step < row.step =>
            /\ row'.step = Submit
            /\ \/ row.status = "failed"
               \/ row'.st.job > row.st.job
               \/ row'.st.expiries > row.st.expiries ]_row

\* An action the engine works on, or waits for the worker with, does not hang:
\* it ends, or asks its user.
Settles ==
    row.status \in Open \ {"waiting_decision"} ~> row.status \in Final \cup {"waiting_decision"}

\* What a user sees of the row, and what the worker encodes.
Phase ==
    CASE row.status = "none" -> "absent"
      [] row.status \in Open -> "open"
      [] row.status = "completed" -> IF row.st.skip THEN "skipped" ELSE "completed"
      [] OTHER -> row.status

Encoding == {j \in Attempts : jobs[j] = "active"}

Lifecycle == INSTANCE ActionLifecycle WITH
    phase <- Phase, attempt <- row.st.job, encoding <- Encoding, finished <- encoded

\* The engine with its leases, faults and repeated calls does what the abstract
\* life of a conversion allows and nothing else.
ImplementsLifecycle == Lifecycle!Spec

\* The comment of noRemoteJob: after a refused send "the worker holds no job
\* under that identity", so a cancel need not ask it.
RejectedMeansNoJob ==
    NoRemoteJob(row.st) /\ row.st.job # 0 => jobs[row.st.job] \notin Running

\* The comment of cancel: its save "closes admission immediately: no new child
\* submit may start after cancel is confirmed locally".  A cancelled action is
\* never running again.
CancelClosesAdmission ==
    [][row.status = "cancelled" => row'.status # "running"]_row

\* The comment of execute: "current_step and state are one durable checkpoint".
\* A row that stands at the wait names a job that was sent.
WaitsForSentJob ==
    row.step = Wait /\ ~row.st.skip => row.st.submitted

\* What is left of it: a row that waits for a job it did not send hides no encode,
\* unless it was to replace a candidate the worker had dropped.  The worker has no
\* such job and none is on its way, so the wait ends with the answer 404.
UnsentWaitHidesNothing ==
    row.step = Wait /\ ~row.st.skip /\ ~row.st.submitted /\ row.st.job # 0 /\ row.st.expiries = 0
        => jobs[row.st.job] = "none" /\ row.st.job \notin inflight

-----------------------------------------------------------------------------
(* The inductive invariant *)

\* What a call that still holds its lease knows of the row.
InSync(e) ==
    LET m == mem[e] IN
    /\ pc[e] = "resuming" => row.status \in Open /\ row = RowOf(m)
    /\ pc[e] = "retryCheck" => row.status = "failed" /\ row = RowOf(m)
    /\ pc[e] = "retrySave" => row.status = "failed" /\ row.st.job = m.st.job
    /\ pc[e] = "cancelling" => row.status \notin {"none", "completed"} /\ row = RowOf(m)
    /\ pc[e] \in Executing => row.status = "running" /\ row.step = m.step
    /\ pc[e] \in Executing \ {"result"} => row.st.job = m.st.job
    /\ pc[e] = "result" =>
        \/ row.st.job = m.st.job
        \/ /\ m.st.job = row.st.job + 1
           /\ m.res = "completed" /\ m.next = Submit
           /\ row.st.job # 0 /\ jobs[row.st.job] \in Ended

HolderInSync == \A e \in Executors : Holds(e) => InSync(e)

\* Only identities the row has named are known to the worker, and the earlier
\* ones ended for good: no submit starts them again.
EarlierJobsEnded ==
    /\ row.status = "none" => row.st.job = 0
    /\ \A j \in Attempts :
        /\ jobs[j] # "none" \/ j \in inflight => j <= row.st.job
        /\ j < row.st.job => jobs[j] \in Ended

\* What remains true of an executor even after it lost its lease.
Stale(e) ==
    /\ pc[e] \in {"reconcile", "admit", "send", "record"} => mem[e].step = Submit
    /\ pc[e] \in {"send", "record"} => mem[e].st.job \in 1..row.st.job
    /\ pc[e] \in {"remoteCancel", "cancelStatus"} =>
        row.status = "cancelled" /\ row.st = mem[e].st /\ row.st.job # 0
    /\ pc[e] = "retryCheck" => mem[e].st.job # 0 /\ ~mem[e].st.done

StaleKnows == \A e \in Executors : Stale(e)

\* A candidate exists wherever the checkpoint is past the wait.
HasCandidate(step, s) == step >= Validate => s.skip \/ (s.done /\ s.job \in encoded)

CandidateBehind ==
    /\ HasCandidate(row.step, row.st)
    /\ row.status = "completed" => row.step = Done
    /\ \A j \in Attempts : jobs[j] \in {"completed", "retained"} => j \in encoded
    /\ \A e \in Executors :
        /\ HasCandidate(mem[e].step, mem[e].st)
        /\ pc[e] \in {"record", "result"} /\ mem[e].res = "completed" =>
            HasCandidate(mem[e].next, mem[e].st)

StoppedStays ==
    confirmed = "stopped" =>
        row.status = "cancelled" /\ row.st.job # 0 /\ jobs[row.st.job] \in Ended

\* Where a call that still holds its lease will put the checkpoint: further on,
\* or back at the submit for a reason the row shows.
KnowsWayBack(e) ==
    LET m == mem[e] IN
    /\ pc[e] \in Executing \ {"result"} => row.st.expiries = m.st.expiries
    /\ pc[e] = "retrySave" => m.step \in {Submit, row.step}
    /\ pc[e] = "record" /\ m.res = "completed" => m.next = Wait
    /\ pc[e] = "result" /\ m.res = "completed" =>
        \/ m.next >= m.step
        \/ /\ m.next = Submit
           /\ m.st.job > row.st.job \/ m.st.expiries > row.st.expiries

WayBackKnown ==
    /\ row.status = "none" => row.step = Preflight
    /\ \A e \in Executors : Holds(e) => KnowsWayBack(e)

\* The worker never heard of the identity j, and nobody is about to send it.
Unheard(j) ==
    /\ jobs[j] = "none" /\ j \notin inflight
    /\ \A e \in Executors : pc[e] = "send" => mem[e].st.job # j

\* A wait for a job that was not sent, other than to replace a dropped candidate,
\* which keeps its identity.
UnsentWait(step, s) == step = Wait /\ ~s.skip /\ ~s.submitted /\ s.job # 0 /\ s.expiries = 0

\* Such a wait, in the row or with a call that may still write it, is for an
\* identity the worker never heard of; nobody goes on to one.
UnsentFor(e) ==
    LET m == mem[e] IN
    /\ UnsentWait(m.step, m.st) => Unheard(m.st.job)
    /\ pc[e] \in {"record", "result"} /\ m.res = "completed" => ~UnsentWait(m.next, m.st)

UnsentUnheard ==
    /\ UnsentWait(row.step, row.st) => Unheard(row.st.job)
    /\ \A e \in Executors : Holds(e) => UnsentFor(e)

IInv ==
    /\ TypeOK
    /\ HolderInSync
    /\ EarlierJobsEnded
    /\ StaleKnows
    /\ CandidateBehind
    /\ StoppedStays
    /\ WayBackKnown
    /\ UnsentUnheard

=============================================================================
