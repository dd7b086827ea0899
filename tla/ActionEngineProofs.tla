------------------------ MODULE ActionEngineProofs ------------------------
(***************************************************************************)
(* Proofs about ActionEngine for every set of executors and every bound:   *)
(* its types, its inductive invariant and what follows from it.            *)
(***************************************************************************)
EXTENDS ActionEngine, TLAPS

USE DEF Preflight, Submit, Wait, Validate, Accept, Done

-----------------------------------------------------------------------------
(* Types *)

LEMMA Constants ==
    /\ MaxJob \in Nat /\ MaxJob > 0 /\ 1 \in Attempts /\ Attempts \subseteq Nat
    /\ MaxExpiries \in Nat /\ MaxFaults \in Nat /\ MaxCalls \in Nat
BY BoundsAssumption DEF Attempts

LEMMA KnownSteps == {Preflight, Submit, Wait, Validate, Accept, Done} \subseteq Steps
BY DEF Steps

\* The empty state and the empty memory are of their types.
LEMMA EmptyTypes == EmptyState \in States /\ NoMemory \in Memories
BY Constants DEF EmptyState, States, NoMemory, Memories, Kinds, Statuses, Open, Final,
    Decisions, Results, Steps

\* Dropping an attempt's marks, and numbering the next one, keep the type.
LEMMA AttemptTypes ==
    ASSUME NEW s \in States
    PROVE  /\ ClearAttempt(s) \in States
           /\ s.job < MaxJob => NextEncode(s) \in States
           /\ s.expiries < MaxExpiries =>
                [ClearAttempt(s) EXCEPT !.expiries = @ + 1] \in States
<1>1. ClearAttempt(s) \in States /\ ClearAttempt(s).expiries = s.expiries
  BY DEF ClearAttempt, States
<1>2. \A t \in States, n \in 0..MaxJob : [t EXCEPT !.job = n] \in States
  BY DEF States
<1>3. \A t \in States, n \in 0..MaxExpiries : [t EXCEPT !.expiries = n] \in States
  BY DEF States
<1>4. s.job \in 0..MaxJob /\ s.expiries \in 0..MaxExpiries
  BY DEF States
<1>5. ASSUME s.job < MaxJob
      PROVE  NextEncode(s) \in States
  <2>1. s.job + 1 \in 0..MaxJob
    BY <1>4, <1>5, Constants
  <2> QED BY <1>1, <1>2, <2>1 DEF NextEncode
<1>6. ASSUME s.expiries < MaxExpiries
      PROVE  [ClearAttempt(s) EXCEPT !.expiries = @ + 1] \in States
  <2>1. s.expiries + 1 \in 0..MaxExpiries
    BY <1>4, <1>6, Constants
  <2> QED BY <1>1, <1>3, <2>1
<1> QED BY <1>1, <1>5, <1>6

\* What the submit step writes into the state keeps its type.
LEMMA SubmitTypes ==
    ASSUME NEW s \in States, NEW j \in Attempts
    PROVE  /\ [s EXCEPT !.worker = TRUE] \in States
           /\ [s EXCEPT !.skip = TRUE] \in States
           /\ [s EXCEPT !.done = TRUE] \in States
           /\ [s EXCEPT !.reconcile = TRUE] \in States
           /\ [s EXCEPT !.reconcile = FALSE] \in States
           /\ [s EXCEPT !.job = j, !.submitted = TRUE, !.reconcile = FALSE, !.rejected = FALSE] \in States
           /\ [s EXCEPT !.job = j, !.reconcile = TRUE, !.rejected = FALSE] \in States
           /\ [s EXCEPT !.submitted = TRUE, !.reconcile = FALSE, !.rejected = FALSE] \in States
           /\ [s EXCEPT !.reconcile = FALSE, !.rejected = TRUE] \in States
<1>1. \A t \in States :
        /\ [t EXCEPT !.worker = TRUE] \in States
        /\ [t EXCEPT !.skip = TRUE] \in States
        /\ [t EXCEPT !.done = TRUE] \in States
  BY DEF States
<1>2. \A t \in States, b \in BOOLEAN : [t EXCEPT !.reconcile = b] \in States
  BY DEF States
<1>3. \A t \in States, b \in BOOLEAN : [t EXCEPT !.rejected = b] \in States
  BY DEF States
<1>4. \A t \in States : [t EXCEPT !.submitted = TRUE] \in States
  BY DEF States
<1>5. \A t \in States : [t EXCEPT !.job = j] \in States
  BY Constants DEF States, Attempts
<1> QED BY <1>1, <1>2, <1>3, <1>4, <1>5

\* A fenced save writes a row and moves the executor.
LEMMA SaveThenTypes ==
    ASSUME TypeOK, NEW e \in Executors, NEW r \in Rows, NEW place \in Places,
           SaveThen(e, r, place)
    PROVE  row' \in Rows /\ pc' \in [Executors -> Places]
BY DEF TypeOK, SaveThen, Places

\* So does a save of the state alone.
LEMMA PersistedType ==
    ASSUME TypeOK, NEW e \in Executors, NEW s \in States
    PROVE  Persisted(e, s) \in Rows
BY DEF TypeOK, Persisted, Rows

\* A step's return keeps the executor's memory well formed.
LEMMA ReturnTypes ==
    ASSUME TypeOK, NEW e \in Executors, NEW out \in Results, NEW s \in States,
           NEW next \in Steps, Return(e, out, s, next)
    PROVE  mem' \in [Executors -> Memories] /\ pc' \in [Executors -> Places]
<1>1. [mem[e] EXCEPT !.st = s, !.res = out, !.next = next] \in Memories
  BY DEF TypeOK, Memories
<1>2. mem' = [mem EXCEPT ![e] = [mem[e] EXCEPT !.st = s, !.res = out, !.next = next]]
  BY DEF Return
<1>3. mem' \in [Executors -> Memories]
  BY <1>1, <1>2 DEF TypeOK
<1> QED BY <1>3 DEF TypeOK, Return, Places, Executing

LEMMA MemoryTypes ==
    ASSUME TypeOK, NEW e \in Executors
    PROVE  /\ mem[e] \in Memories /\ mem[e].st \in States /\ mem[e].step \in Steps
           /\ mem[e].status \in Statuses /\ mem[e].next \in Steps /\ RowOf(mem[e]) \in Rows
           /\ St(e) \in States /\ Job(e) \in Attempts /\ row.st \in States
           /\ row.step \in Steps /\ row.status \in Statuses
BY Constants DEF TypeOK, Memories, RowOf, Rows, St, Job, States, Attempts

LEMMA FaultTypes ==
    ASSUME TypeOK, NEW e \in Executors
    PROVE  /\ Fault => faults' \in 0..MaxFaults
           /\ Unanswered(e) => faults' \in 0..MaxFaults
           /\ UserCall => calls' \in 0..MaxCalls
BY Constants DEF TypeOK, Fault, Unanswered, UserCall

LEMMA JobTypes ==
    ASSUME TypeOK, NEW j \in 0..MaxJob
    PROVE  /\ Accepted(j) \in [Attempts -> JobStatuses]
           /\ Cancelled(j) \in [Attempts -> JobStatuses]
BY DEF TypeOK, Accepted, Cancelled, JobStatuses, Running, Ended

\* The updates the actions make to an executor's memory and to a row.
LEMMA MemoryUpdates ==
    ASSUME TypeOK, NEW e \in Executors
    PROVE  /\ \A s \in States : [mem EXCEPT ![e].st = s] \in [Executors -> Memories]
           /\ \A status \in Statuses : [mem EXCEPT ![e].status = status] \in [Executors -> Memories]
           /\ [mem EXCEPT ![e].ctx = FALSE] \in [Executors -> Memories]
           /\ [mem EXCEPT ![e] = NoMemory] \in [Executors -> Memories]
           /\ \A step \in Steps, s \in States :
                [mem EXCEPT ![e] = [mem[e] EXCEPT !.step = step, !.st = s]] \in [Executors -> Memories]
           /\ \A step \in Steps, res \in Results :
                [mem EXCEPT ![e] = [mem[e] EXCEPT !.step = step, !.res = res]] \in [Executors -> Memories]
           /\ \A res \in Results, next \in Steps :
                [mem EXCEPT ![e] = [mem[e] EXCEPT !.res = res, !.next = next]] \in [Executors -> Memories]
           /\ \A s \in States, res \in Results, next \in Steps :
                [mem EXCEPT ![e] = [mem[e] EXCEPT !.st = s, !.res = res, !.next = next]]
                    \in [Executors -> Memories]
<1>1. mem \in [Executors -> Memories] /\ mem[e] \in Memories
  BY DEF TypeOK
<1>2. /\ \A s \in States : [mem[e] EXCEPT !.st = s] \in Memories
      /\ \A status \in Statuses : [mem[e] EXCEPT !.status = status] \in Memories
      /\ [mem[e] EXCEPT !.ctx = FALSE] \in Memories
  BY <1>1 DEF Memories
<1>3. /\ \A step \in Steps, s \in States : [mem[e] EXCEPT !.step = step, !.st = s] \in Memories
      /\ \A step \in Steps, res \in Results : [mem[e] EXCEPT !.step = step, !.res = res] \in Memories
      /\ \A res \in Results, next \in Steps : [mem[e] EXCEPT !.res = res, !.next = next] \in Memories
  BY <1>1 DEF Memories
<1>4. \A s \in States, res \in Results, next \in Steps :
        [mem[e] EXCEPT !.st = s, !.res = res, !.next = next] \in Memories
  BY <1>1 DEF Memories
<1>5. \A m \in Memories : [mem EXCEPT ![e] = m] \in [Executors -> Memories]
  BY <1>1
<1> QED BY <1>2, <1>3, <1>4, <1>5, EmptyTypes

LEMMA RowUpdates ==
    ASSUME NEW r \in Rows, NEW status \in Statuses, NEW s \in States
    PROVE  [r EXCEPT !.status = status] \in Rows /\ [r EXCEPT !.st = s] \in Rows
BY DEF Rows

-----------------------------------------------------------------------------
\* Every step keeps the types.
LEMMA TypeStep == TypeOK /\ [Next]_vars => TypeOK'
<1> SUFFICES ASSUME TypeOK, [Next]_vars
             PROVE  TypeOK'
  OBVIOUS
<1> USE Constants, EmptyTypes
<1>1. CASE Enqueue
  <2>1. row' \in Rows
    <3>1. [EmptyState EXCEPT !.origin = TRUE, !.background = TRUE] \in States
      BY DEF States
    <3> QED BY <1>1, <3>1 DEF Enqueue, Rows, Statuses, Open, Steps
  <2> QED BY <1>1, <2>1 DEF TypeOK, Enqueue, workerVars, budgets
<1>2. CASE Expire
  BY <1>2 DEF TypeOK, Expire, workerVars, budgets
<1>3. CASE Lapse
  <2>1. faults' \in 0..MaxFaults
    BY <1>3, FaultTypes DEF Lapse, TypeOK
  <2> QED BY <1>3, <2>1 DEF TypeOK, Lapse, workerVars
<1>4. CASE Deliver
  BY <1>4, JobTypes DEF TypeOK, Deliver, budgets
<1>5. ASSUME NEW j \in Attempts, WorkerEnds(j)
      PROVE  TypeOK'
  BY <1>5 DEF TypeOK, WorkerEnds, JobStatuses, Running, Ended, budgets
<1>6. ASSUME NEW j \in Attempts, RetentionEnds(j)
      PROVE  TypeOK'
  BY <1>6 DEF TypeOK, RetentionEnds, JobStatuses, Running, Ended, Fault
<1>7. ASSUME NEW e \in Executors, NEW kind \in Kinds, NEW d \in Decisions, NEW place \in Places,
             Claim(e, kind, d, place), calls' \in 0..MaxCalls
      PROVE  TypeOK'
  <2>1. mem' \in [Executors -> Memories]
    BY <1>7, MemoryTypes DEF Claim, TypeOK, Memories, Results
  <2> QED BY <1>7, <2>1 DEF TypeOK, Claim, workerVars
<1>8. ASSUME NEW e \in Executors, AutoResume(e)
      PROVE  TypeOK'
  BY <1>7, <1>8 DEF AutoResume, TypeOK, Kinds, Decisions, Places
<1>9. ASSUME NEW e \in Executors, User(e)
      PROVE  TypeOK'
  BY <1>7, <1>9, FaultTypes DEF User, UserResume, UserRetry, UserCancel, Kinds, Decisions, Places
<1>10. ASSUME NEW e \in Executors, Resuming(e)
       PROVE  TypeOK'
  <2>1. "running" \in Statuses /\ "loop" \in Places
    BY DEF Statuses, Open, Places, Executing
  <2>2. row' \in Rows /\ pc' \in [Executors -> Places]
    BY <1>10, <2>1, MemoryTypes, RowUpdates, SaveThenTypes DEF Resuming
  <2>3. mem' \in [Executors -> Memories]
    BY <1>10, <2>1, MemoryUpdates, MemoryTypes DEF Resuming, Results
  <2> QED BY <1>10, <2>2, <2>3 DEF TypeOK, Resuming, workerVars, budgets
<1>11. ASSUME NEW e \in Executors, Loop(e)
       PROVE  TypeOK'
  <2>1. /\ {"running", "failed", "waiting_external", "completed"} \subseteq Statuses
        /\ {"release", "assign"} \subseteq Places
    BY DEF Statuses, Open, Final, Places, Executing
  <2>2. \A status \in Statuses : [status |-> status, step |-> mem[e].step, st |-> mem[e].st] \in Rows
    BY MemoryTypes DEF Rows
  <2>3. row' \in Rows /\ pc' \in [Executors -> Places]
    <3>1. CASE mem[e].step < Done /\ ~mem[e].ctx
      BY <1>11, <3>1, <2>1, <2>2, SaveThenTypes DEF Loop
    <3>2. CASE mem[e].step < Done /\ mem[e].ctx
      BY <1>11, <3>2, <2>1, MemoryTypes, RowUpdates, SaveThenTypes DEF Loop
    <3>3. CASE mem[e].step = Done
      <4>1. SaveThen(e, [RowOf(mem[e]) EXCEPT !.status = "completed"], "release")
        BY <1>11, <3>3 DEF Loop
      <4>2. [RowOf(mem[e]) EXCEPT !.status = "completed"] \in Rows
        BY <2>1, MemoryTypes, RowUpdates
      <4> QED BY <4>1, <4>2, <2>1, SaveThenTypes
    <3>4. mem[e].step < Done \/ mem[e].step = Done
      BY <1>11 DEF Loop
    <3> QED BY <3>1, <3>2, <3>3, <3>4, MemoryTypes DEF Memories
  <2>4. mem' \in [Executors -> Memories]
    <3>1. mem' = mem \/ mem' = [mem EXCEPT ![e].status = "running"]
      BY <1>11 DEF Loop
    <3>2. [mem EXCEPT ![e].status = "running"] \in [Executors -> Memories]
      BY <2>1, MemoryUpdates
    <3> QED BY <3>1, <3>2 DEF TypeOK
  <2> QED BY <1>11, <2>3, <2>4 DEF TypeOK, Loop, workerVars, budgets
<1>12. ASSUME NEW e \in Executors, AssignWorker(e)
       PROVE  TypeOK'
  <2> DEFINE s == [St(e) EXCEPT !.worker = TRUE]
  <2>1. s \in States /\ "external" \in Results
    BY MemoryTypes DEF States, Results
  <2>2. row' \in Rows
    BY <1>12, <2>1, PersistedType DEF AssignWorker, TypeOK
  <2>3. mem' \in [Executors -> Memories] /\ pc' \in [Executors -> Places]
    <3>1. CASE mem' = mem /\ pc' = [pc EXCEPT ![e] = "run"]
      BY <3>1 DEF TypeOK, Places, Executing
    <3>2. CASE mem' = [mem EXCEPT ![e].st = s] /\ pc' = [pc EXCEPT ![e] = "run"]
      BY <3>2, <2>1, MemoryUpdates DEF TypeOK, Places, Executing
    <3>3. CASE Return(e, "external", St(e), mem[e].step)
      BY <3>3, <2>1, MemoryTypes, ReturnTypes
    <3> QED BY <1>12, <3>1, <3>2, <3>3 DEF AssignWorker
  <2>4. faults' \in 0..MaxFaults
    BY <1>12, FaultTypes DEF AssignWorker, TypeOK
  <2> QED BY <1>12, <2>2, <2>3, <2>4 DEF TypeOK, AssignWorker, workerVars
<1>13. ASSUME NEW e \in Executors, NEW s \in States,
              \/ mem[e].step < Done /\ Completes(e, s)
              \/ Fails(e, s) \/ AsksUser(e, s) \/ WaitsForWorker(e, s)
              \/ Unreachable(e, s) \/ StatusRefused(e, s)
       PROVE  /\ mem' \in [Executors -> Memories] /\ pc' \in [Executors -> Places]
              /\ faults' \in 0..MaxFaults
  <2>1. mem[e].step < Done => mem[e].step + 1 \in Steps
    BY MemoryTypes DEF Steps
  <2>2. {"completed", "failed", "external", "decision"} \subseteq Results
    BY DEF Results
  <2> QED BY <1>13, <2>1, <2>2, MemoryTypes, ReturnTypes, FaultTypes
         DEF Completes, Fails, AsksUser, WaitsForWorker, Unreachable, StatusRefused, TypeOK
<1>14. ASSUME NEW e \in Executors, RunPreflight(e)
       PROVE  TypeOK'
  <2>1. [St(e) EXCEPT !.skip = TRUE] \in States
    BY MemoryTypes DEF States
  <2>2. mem' \in [Executors -> Memories] /\ pc' \in [Executors -> Places] /\ faults' \in 0..MaxFaults
    BY <1>13, <1>14, <2>1, MemoryTypes DEF RunPreflight
  <2> QED BY <1>14, <2>2 DEF TypeOK, RunPreflight, workerVars
<1>15. ASSUME NEW e \in Executors, RunSubmit(e)
       PROVE  TypeOK'
  <2>1. mem' \in [Executors -> Memories] /\ pc' \in [Executors -> Places] /\ faults' \in 0..MaxFaults
    BY <1>13, <1>15, MemoryTypes DEF RunSubmit, TypeOK, Places, Executing
  <2> QED BY <1>15, <2>1 DEF TypeOK, RunSubmit, workerVars
<1>16. ASSUME NEW e \in Executors, Reconcile(e)
       PROVE  TypeOK'
  <2> DEFINE found == [St(e) EXCEPT !.job = Job(e), !.submitted = TRUE, !.reconcile = FALSE, !.rejected = FALSE]
             lost == [St(e) EXCEPT !.reconcile = FALSE]
  <2>1. found \in States /\ lost \in States /\ mem[e].step \in Steps
    BY MemoryTypes, SubmitTypes
  <2>2. row' \in Rows
    BY <1>16, <2>1, PersistedType DEF Reconcile, TypeOK
  <2>3. mem' \in [Executors -> Memories] /\ pc' \in [Executors -> Places] /\ faults' \in 0..MaxFaults
    <3>1. CASE Unreachable(e, St(e)) \/ StatusRefused(e, St(e))
      BY <1>13, <3>1, MemoryTypes
    <3>2. CASE mem' = [mem EXCEPT ![e].st = lost] /\ pc' = [pc EXCEPT ![e] = "admit"] /\ UNCHANGED faults
      <4>1. [mem EXCEPT ![e].st = lost] \in [Executors -> Memories]
        BY <2>1, MemoryUpdates
      <4> QED BY <3>2, <4>1 DEF TypeOK, Places, Executing
    <3>3. CASE /\ \/ Return(e, "completed", found, Wait)
                  \/ Return(e, "failed", found, Submit)
               /\ UNCHANGED faults
      BY <3>3, <2>1, ReturnTypes DEF Results, Steps, TypeOK
    <3> QED BY <1>16, <3>1, <3>2, <3>3 DEF Reconcile
  <2> QED BY <1>16, <2>2, <2>3 DEF TypeOK, Reconcile, workerVars
<1>17. ASSUME NEW e \in Executors, Admit(e)
       PROVE  TypeOK'
  <2> DEFINE id == [St(e) EXCEPT !.job = Job(e), !.reconcile = TRUE, !.rejected = FALSE]
  <2>1. id \in States
    BY MemoryTypes, SubmitTypes
  <2>2. row' \in Rows
    BY <1>17, <2>1, PersistedType DEF Admit, TypeOK
  <2>3. mem' \in [Executors -> Memories] /\ pc' \in [Executors -> Places] /\ faults' \in 0..MaxFaults
    <3>1. CASE Unreachable(e, St(e)) \/ Fails(e, St(e)) \/ Fails(e, id)
      BY <1>13, <2>1, <3>1, MemoryTypes
    <3>2. CASE mem' = [mem EXCEPT ![e].st = id] /\ pc' = [pc EXCEPT ![e] = "send"] /\ UNCHANGED faults
      <4>1. [mem EXCEPT ![e].st = id] \in [Executors -> Memories]
        BY <2>1, MemoryUpdates
      <4> QED BY <3>2, <4>1 DEF TypeOK, Places, Executing
    <3> QED BY <1>17, <3>1, <3>2 DEF Admit
  <2> QED BY <1>17, <2>2, <2>3 DEF TypeOK, Admit, workerVars
<1>18. ASSUME NEW e \in Executors, Record(e)
       PROVE  TypeOK'
  <2>1. row' \in Rows
    BY <1>18, MemoryTypes, PersistedType DEF Record
  <2>2. [mem EXCEPT ![e] = [mem[e] EXCEPT !.res = "failed", !.next = Submit]] \in [Executors -> Memories]
    <3>1. "failed" \in Results /\ Submit \in Steps
      BY DEF Results, Steps
    <3> QED BY <3>1, MemoryUpdates
  <2>3. mem' \in [Executors -> Memories]
    BY <1>18, <2>2 DEF Record, TypeOK
  <2> QED BY <1>18, <2>1, <2>3 DEF TypeOK, Record, Places, Executing, workerVars, budgets
<1>19. ASSUME NEW e \in Executors, RunWait(e)
       PROVE  TypeOK'
  <2>1. /\ [St(e) EXCEPT !.skip = TRUE] \in States /\ [St(e) EXCEPT !.done = TRUE] \in States
        /\ "completed" \in Results /\ Submit \in Steps
    <3>1. "completed" \in Results /\ Submit \in Steps
      BY DEF Results, Steps
    <3> QED BY <3>1, MemoryTypes, SubmitTypes
  <2>2. mem' \in [Executors -> Memories] /\ pc' \in [Executors -> Places] /\ faults' \in 0..MaxFaults
    <3>1. mem[e].step < Done
      BY <1>19 DEF RunWait
    <3>2. CASE \E s \in States : \/ Completes(e, s) \/ Fails(e, s) \/ AsksUser(e, s) \/ WaitsForWorker(e, s)
                                 \/ Unreachable(e, s) \/ StatusRefused(e, s)
      BY <1>13, <3>1, <3>2
    <3>3. CASE /\ St(e).expiries < MaxExpiries
               /\ Return(e, "completed", [ClearAttempt(St(e)) EXCEPT !.expiries = @ + 1], Submit)
               /\ UNCHANGED faults
      BY <3>3, <2>1, MemoryTypes, AttemptTypes, ReturnTypes DEF TypeOK
    <3>4. CASE /\ St(e).job < MaxJob
               /\ Return(e, "completed", NextEncode(St(e)), Submit)
               /\ UNCHANGED faults
      BY <3>4, <2>1, MemoryTypes, AttemptTypes, ReturnTypes DEF TypeOK
    <3> QED BY <1>19, <2>1, <3>2, <3>3, <3>4, MemoryTypes DEF RunWait
  <2> QED BY <1>19, <2>2 DEF TypeOK, RunWait, workerVars
<1>20. ASSUME NEW e \in Executors, RunValidate(e)
       PROVE  TypeOK'
  <2>1. [St(e) EXCEPT !.skip = TRUE] \in States
    BY MemoryTypes DEF States
  <2>2. mem' \in [Executors -> Memories] /\ pc' \in [Executors -> Places] /\ faults' \in 0..MaxFaults
    BY <1>13, <1>20, <2>1, MemoryTypes DEF RunValidate
  <2> QED BY <1>20, <2>2 DEF TypeOK, RunValidate, workerVars
<1>21. ASSUME NEW e \in Executors, RunAccept(e)
       PROVE  TypeOK'
  <2>1. mem' \in [Executors -> Memories] /\ pc' \in [Executors -> Places] /\ faults' \in 0..MaxFaults
    BY <1>13, <1>21, MemoryTypes DEF RunAccept
  <2> QED BY <1>21, <2>1 DEF TypeOK, RunAccept, workerVars
<1>22. ASSUME NEW e \in Executors, Send(e)
       PROVE  TypeOK'
  <2> DEFINE accepted == [St(e) EXCEPT !.submitted = TRUE, !.reconcile = FALSE, !.rejected = FALSE]
             refused == [St(e) EXCEPT !.reconcile = FALSE, !.rejected = TRUE]
  <2>1. accepted \in States /\ refused \in States /\ St(e) \in States
    BY MemoryTypes, SubmitTypes
  <2>2. {"completed", "external", "failed"} \subseteq Results /\ {Wait, Submit} \subseteq Steps
    BY DEF Results, Steps
  <2>3. PICK s \in {St(e), accepted, refused}, out \in {"completed", "external", "failed"} :
          /\ mem' = [mem EXCEPT ![e] = [mem[e] EXCEPT !.st = s, !.res = out,
                                !.next = IF out = "completed" THEN Wait ELSE Submit]]
          /\ pc' = [pc EXCEPT ![e] = "record"]
    BY <1>22 DEF Send
  <2>4. mem' \in [Executors -> Memories] /\ pc' \in [Executors -> Places]
    <3>1. s \in States /\ out \in Results
      BY <2>1, <2>2
    <3>2. (IF out = "completed" THEN Wait ELSE Submit) \in Steps
      BY <2>2
    <3> QED BY <2>3, <3>1, <3>2, MemoryUpdates DEF TypeOK, Places, Executing
  <2>5. jobs' \in [Attempts -> JobStatuses]
    <3>1. Send(e) => jobs' \in {jobs, Accepted(St(e).job)}
      BY DEF Send
    <3>2. Accepted(St(e).job) \in [Attempts -> JobStatuses]
      BY DEF Accepted, TypeOK, JobStatuses, Running
    <3> QED BY <1>22, <3>1, <3>2 DEF TypeOK
  <2>6. faults' \in 0..MaxFaults
    BY <1>22, FaultTypes DEF Send, TypeOK
  <2>7. inflight' \subseteq 0..MaxJob
    <3>1. Send(e) => inflight' \in {inflight, inflight \cup {St(e).job}}
      BY DEF Send
    <3>2. St(e).job \in 0..MaxJob
      BY MemoryTypes DEF States
    <3> QED BY <1>22, <3>1, <3>2 DEF TypeOK
  <2> QED BY <1>22, <2>4, <2>5, <2>6, <2>7 DEF TypeOK, Send
<1>23. ASSUME NEW e \in Executors, Result(e)
       PROVE  TypeOK'
  <2>1. /\ {"running", "failed", "waiting_decision", "waiting_external"} \subseteq Statuses
        /\ {"loop", "release"} \subseteq Places /\ "none" \in Results
    BY DEF Statuses, Open, Final, Places, Executing, Results
  <2>2. \A status \in Statuses, step \in Steps :
          [status |-> status, step |-> step, st |-> mem[e].st] \in Rows
    BY MemoryTypes DEF Rows
  <2>3. row' \in Rows /\ pc' \in [Executors -> Places]
    <3>1. \E status \in {"running", "failed", "waiting_decision", "waiting_external"},
             step \in {mem[e].step, mem[e].next}, place \in {"loop", "release"} :
            SaveThen(e, [status |-> status, step |-> step, st |-> mem[e].st], place)
      BY <1>23 DEF Result, SaveThen
    <3>2. PICK status \in Statuses, step \in Steps, place \in Places :
            SaveThen(e, [status |-> status, step |-> step, st |-> mem[e].st], place)
      BY <3>1, <2>1, MemoryTypes
    <3> QED BY <3>2, <2>2, SaveThenTypes
  <2>4. mem' \in [Executors -> Memories]
    <3>1. \/ mem' = mem
          \/ mem' = [mem EXCEPT ![e] = [mem[e] EXCEPT !.step = mem[e].next, !.res = "none"]]
      BY <1>23 DEF Result
    <3>2. [mem EXCEPT ![e] = [mem[e] EXCEPT !.step = mem[e].next, !.res = "none"]]
            \in [Executors -> Memories]
      BY <2>1, MemoryTypes, MemoryUpdates
    <3> QED BY <3>1, <3>2 DEF TypeOK
  <2> QED BY <1>23, <2>3, <2>4 DEF TypeOK, Result, workerVars, budgets
<1>24. ASSUME NEW e \in Executors, RetryCheck(e)
       PROVE  TypeOK'
  <2> DEFINE same == [mem EXCEPT ![e] = [mem[e] EXCEPT !.step = Submit, !.st.reconcile = TRUE]]
             new == NextEncode(St(e))
  <2>1. {"release", "retrySave"} \subseteq Places
    BY DEF Places
  <2>2. same \in [Executors -> Memories]
    <3>1. [St(e) EXCEPT !.reconcile = TRUE] \in States /\ Submit \in Steps
      BY MemoryTypes, SubmitTypes, KnownSteps
    <3>2. same = [mem EXCEPT ![e] = [mem[e] EXCEPT !.step = Submit, !.st = [St(e) EXCEPT !.reconcile = TRUE]]]
      BY MemoryTypes DEF St, Memories
    <3> QED BY <3>1, <3>2, MemoryUpdates
  <2>3. CASE mem' = same /\ pc' = [pc EXCEPT ![e] = "retrySave"] /\ row' = row /\ faults' \in 0..MaxFaults
    BY <1>24, <2>1, <2>2, <2>3 DEF TypeOK, RetryCheck, workerVars
  <2>4. CASE mem' = mem /\ pc' = [pc EXCEPT ![e] = "release"] /\ row' = row /\ faults' \in 0..MaxFaults
    BY <1>24, <2>1, <2>4 DEF TypeOK, RetryCheck, workerVars
  <2>5. CASE /\ St(e).job < MaxJob
             /\ mem' = [mem EXCEPT ![e] = [mem[e] EXCEPT !.step = Submit, !.st = new]]
             /\ SaveThen(e, [row EXCEPT !.st = new], "retrySave")
             /\ UNCHANGED faults
    <3>1. new \in States /\ Submit \in Steps
      BY <2>5, MemoryTypes, AttemptTypes, KnownSteps
    <3>2. [row EXCEPT !.st = new] \in Rows
      BY <3>1 DEF TypeOK, Rows
    <3>3. row' \in Rows /\ pc' \in [Executors -> Places]
      BY <2>1, <2>5, <3>2, SaveThenTypes
    <3>4. mem' \in [Executors -> Memories]
      BY <2>5, <3>1, MemoryUpdates
    <3> QED BY <1>24, <2>5, <3>3, <3>4 DEF TypeOK, RetryCheck, workerVars
  <2>6. Fault \/ Unanswered(e) \/ UNCHANGED faults => faults' \in 0..MaxFaults
    BY FaultTypes DEF TypeOK
  <2> QED BY <1>24, <2>3, <2>4, <2>5, <2>6 DEF RetryCheck
<1>25. ASSUME NEW e \in Executors, RetrySave(e)
       PROVE  TypeOK'
  <2>1. "running" \in Statuses /\ "loop" \in Places
    BY DEF Statuses, Open, Places, Executing
  <2>2. row' \in Rows /\ pc' \in [Executors -> Places]
    BY <1>25, <2>1, MemoryTypes, RowUpdates, SaveThenTypes DEF RetrySave
  <2>3. mem' \in [Executors -> Memories]
    BY <1>25, <2>1, MemoryUpdates DEF RetrySave
  <2> QED BY <1>25, <2>2, <2>3 DEF TypeOK, RetrySave, workerVars, budgets
<1>26. ASSUME NEW e \in Executors, Cancelling(e)
       PROVE  TypeOK'
  <2>1. "cancelled" \in Statuses /\ {"release", "remoteCancel"} \subseteq Places
    BY DEF Statuses, Final, Places
  <2>2. row' \in Rows /\ pc' \in [Executors -> Places]
    BY <1>26, <2>1, MemoryTypes, RowUpdates, SaveThenTypes DEF Cancelling
  <2> QED BY <1>26, <2>2 DEF TypeOK, Cancelling, workerVars, budgets
<1>27. ASSUME NEW e \in Executors, RemoteCancel(e) \/ CancelStatus(e)
       PROVE  TypeOK'
  <2>1. St(e).job \in 0..MaxJob
    BY MemoryTypes DEF States
  <2>2. RemoteCancel(e) \/ CancelStatus(e) =>
          /\ jobs' \in {jobs, Cancelled(St(e).job)}
          /\ confirmed' \in {confirmed, "stopped", "expired"}
          /\ pc' \in {[pc EXCEPT ![e] = "release"], [pc EXCEPT ![e] = "cancelStatus"]}
          /\ UNCHANGED <<row, lease, mem, inflight, encoded, calls>>
    BY DEF RemoteCancel, CancelStatus, CancelReturns, Answer
  <2>3. jobs' \in [Attempts -> JobStatuses]
    BY <1>27, <2>1, <2>2, JobTypes DEF TypeOK
  <2>4. faults' \in 0..MaxFaults
    BY <1>27, FaultTypes DEF RemoteCancel, CancelStatus, TypeOK
  <2> QED BY <1>27, <2>2, <2>3, <2>4 DEF TypeOK, Places
<1>28. ASSUME NEW e \in Executors, Release(e)
       PROVE  TypeOK'
  <2>1. mem' \in [Executors -> Memories]
    BY <1>28, MemoryUpdates DEF Release
  <2> QED BY <1>28, <2>1 DEF TypeOK, Release, Places, workerVars, budgets
<1>29. ASSUME NEW e \in Executors, Crash(e)
       PROVE  TypeOK'
  <2>1. mem' \in [Executors -> Memories]
    BY <1>29, MemoryUpdates DEF Crash
  <2>2. faults' \in 0..MaxFaults
    BY <1>29, FaultTypes DEF Crash
  <2> QED BY <1>29, <2>1, <2>2 DEF TypeOK, Crash, Places, workerVars
<1>30. ASSUME NEW e \in Executors, CtxEnds(e)
       PROVE  TypeOK'
  <2>1. mem' \in [Executors -> Memories]
    BY <1>30, MemoryUpdates DEF CtxEnds
  <2>2. faults' \in 0..MaxFaults
    BY <1>30, FaultTypes DEF CtxEnds, TypeOK
  <2> QED BY <1>30, <2>1, <2>2 DEF TypeOK, CtxEnds, workerVars
<1>31. CASE UNCHANGED vars
  BY <1>31 DEF TypeOK, vars
<1> QED
  BY <1>1, <1>2, <1>3, <1>4, <1>5, <1>6, <1>8, <1>9, <1>10, <1>11, <1>12, <1>14, <1>15, <1>16,
     <1>17, <1>18, <1>19, <1>20, <1>21, <1>22, <1>23, <1>24, <1>25, <1>26, <1>27, <1>28, <1>29,
     <1>30, <1>31
     DEF Next, Worker, Call, Work

LEMMA TypeInit == Init => TypeOK
<1>1. Init => row \in Rows
  BY EmptyTypes, KnownSteps DEF Init, Rows, Statuses
<1> QED BY <1>1, EmptyTypes, Constants DEF Init, TypeOK, Places, JobStatuses

\* Every variable keeps its type, whatever the calls, the faults and the worker do.
THEOREM Typing == Spec => []TypeOK
BY TypeInit, TypeStep, PTL DEF Spec

-----------------------------------------------------------------------------
(* The inductive invariant.  A step of the system is one of: an executor's    *)
(* step, which touches that executor only and the row only under its lease;   *)
(* a step of the worker; the clock's.                                         *)

\* A job that ended stays ended, a candidate stays known, and what the worker
\* learns of is an identity the row has named.
JobsMove ==
    /\ encoded \subseteq encoded'
    /\ \A j \in Attempts :
        /\ jobs[j] \in Ended => jobs'[j] = jobs[j]
        /\ jobs'[j] # "none" \/ j \in inflight' => jobs[j] # "none" \/ j \in inflight \/ j <= row.st.job
        /\ jobs'[j] \in {"completed", "retained"} => j \in encoded'

LEMMA JobsStep == IInv /\ [Next]_vars => JobsMove
<1> SUFFICES ASSUME IInv, [Next]_vars
             PROVE  JobsMove
  OBVIOUS
<1> USE Constants DEF IInv
<1>1. ASSUME UNCHANGED workerVars
      PROVE  JobsMove
  BY <1>1 DEF JobsMove, workerVars, CandidateBehind
<1>2. ASSUME NEW j \in Attempts, jobs' = Accepted(j) \/ jobs' = Cancelled(j) \/ jobs' = jobs,
             j <= row.st.job \/ j \in inflight, inflight' \subseteq inflight \cup {j}, UNCHANGED encoded
      PROVE  JobsMove
  BY <1>2 DEF JobsMove, Accepted, Cancelled, TypeOK, Ended, Running, CandidateBehind
<1>3. CASE Deliver
  <2>1. PICK j \in inflight : inflight' = inflight \ {j} /\ jobs' = Accepted(j)
    BY <1>3 DEF Deliver
  <2>2. CASE j \in Attempts
    BY <1>2, <1>3, <2>1, <2>2 DEF Deliver
  <2>3. CASE j \notin Attempts
    <3>1. jobs' = jobs
      BY <2>1, <2>3 DEF Accepted, TypeOK
    <3> QED BY <1>3, <2>1, <3>1 DEF JobsMove, Deliver, CandidateBehind
  <2> QED BY <2>2, <2>3
<1>4. ASSUME NEW j \in Attempts, WorkerEnds(j)
      PROVE  JobsMove
  BY <1>4 DEF WorkerEnds, JobsMove, TypeOK, Ended, CandidateBehind
<1>5. ASSUME NEW j \in Attempts, RetentionEnds(j)
      PROVE  JobsMove
  BY <1>5 DEF RetentionEnds, JobsMove, TypeOK, Ended, CandidateBehind
<1>6. ASSUME NEW e \in Executors, Send(e)
      PROVE  JobsMove
  <2>1. St(e).job \in Attempts /\ St(e).job <= row.st.job
    BY <1>6, MemoryTypes DEF Send, StaleKnows, Stale, St, States, Attempts
  <2> QED BY <1>2, <1>6, <2>1 DEF Send
<1>7. ASSUME NEW e \in Executors, RemoteCancel(e) \/ CancelStatus(e)
      PROVE  JobsMove
  <2>1. St(e).job \in Attempts /\ St(e).job <= row.st.job
    BY <1>7, MemoryTypes DEF RemoteCancel, CancelStatus, StaleKnows, Stale, St, States, Attempts
  <2>2. jobs' \in {jobs, Cancelled(St(e).job)} /\ UNCHANGED <<inflight, encoded>>
    BY <1>7 DEF RemoteCancel, CancelStatus
  <2> QED BY <1>2, <2>1, <2>2
<1>8. CASE Enqueue \/ Expire \/ Lapse \/ UNCHANGED vars
  BY <1>1, <1>8 DEF Enqueue, Expire, Lapse, vars, workerVars
<1>9. ASSUME NEW e \in Executors, Call(e), ~Send(e), ~RemoteCancel(e), ~CancelStatus(e)
      PROVE  UNCHANGED workerVars
  BY <1>9 DEF Call, AutoResume, User, UserResume, UserRetry, UserCancel, Claim, Work, Crash, CtxEnds,
     Resuming, Loop, AssignWorker, RunPreflight, RunSubmit, Reconcile, Admit, Record, RunWait,
     RunValidate, RunAccept, Result, RetryCheck, RetrySave, Cancelling, Release
<1> QED BY <1>1, <1>3, <1>4, <1>5, <1>6, <1>7, <1>8, <1>9 DEF Next, Worker

\* An executor's step leaves the other executors, and their leases, alone, and
\* writes the row only under its own lease.
LEMMA OnlyActor ==
    ASSUME TypeOK, NEW e \in Executors, Call(e)
    PROVE  /\ row' = row \/ Holds(e)
           /\ \A k \in Executors \ {e} :
                pc'[k] = pc[k] /\ mem'[k] = mem[k] /\ (Holds(k)' => Holds(k))
<1> USE DEF TypeOK
<1>2. CASE AutoResume(e) \/ User(e)
  <2>1. /\ row' = row /\ lease' = [owner |-> e, live |-> TRUE]
        /\ \E m \in Memories : mem' = [mem EXCEPT ![e] = m]
        /\ \E place \in Places : pc' = [pc EXCEPT ![e] = place]
    <3>1. ASSUME NEW kind \in Kinds, NEW d \in Decisions, NEW place \in Places,
                 Claim(e, kind, d, place)
          PROVE  /\ row' = row /\ lease' = [owner |-> e, live |-> TRUE]
                 /\ \E m \in Memories : mem' = [mem EXCEPT ![e] = m]
                 /\ \E p \in Places : pc' = [pc EXCEPT ![e] = p]
      <4>1. [kind |-> kind, status |-> row.status, step |-> row.step, st |-> row.st, ctx |-> TRUE,
             decision |-> d, res |-> "none", next |-> row.step] \in Memories
        BY MemoryTypes DEF Memories, Results
      <4> QED BY <3>1, <4>1 DEF Claim
    <3> QED BY <1>2, <3>1 DEF AutoResume, User, UserResume, UserRetry, UserCancel, Kinds,
         Decisions, Places
  <2> QED BY <2>1 DEF Holds
<1>3. CASE Resuming(e) \/ RetrySave(e) \/ Loop(e) \/ Result(e)
  BY <1>3 DEF Resuming, RetrySave, Loop, Result, SaveThen, Holds
<1>4. CASE Cancelling(e)
  BY <1>4 DEF Cancelling, SaveThen, Holds
<1>5. CASE AssignWorker(e)
  BY <1>5 DEF AssignWorker, Return, Persisted, Holds
<1>6. CASE RunPreflight(e) \/ RunSubmit(e) \/ RunValidate(e) \/ RunAccept(e)
  BY <1>6 DEF RunPreflight, RunSubmit, RunValidate, RunAccept, Completes, Fails, AsksUser,
     Unreachable, Return, Holds
<1>7. CASE RunWait(e)
  BY <1>7 DEF RunWait, Completes, Fails, AsksUser, WaitsForWorker, Unreachable, StatusRefused,
     Return, Holds
<1>8. CASE Reconcile(e)
  BY <1>8 DEF Reconcile, Unreachable, StatusRefused, Return, Persisted, Holds
<1>9. CASE Admit(e) \/ Record(e)
  BY <1>9 DEF Admit, Record, Unreachable, Fails, Return, Persisted, Holds
<1>10. CASE Send(e)
  BY <1>10 DEF Send, Holds
<1>11. CASE RetryCheck(e)
  BY <1>11 DEF RetryCheck, SaveThen, Holds
<1>12. CASE RemoteCancel(e) \/ CancelStatus(e)
  BY <1>12 DEF RemoteCancel, CancelStatus, CancelReturns, Holds
<1>13. CASE Release(e) \/ Crash(e) \/ CtxEnds(e)
  BY <1>13 DEF Release, Crash, CtxEnds, Holds
<1> QED BY <1>2, <1>3, <1>4, <1>5, <1>6, <1>7, <1>8, <1>9, <1>10, <1>11, <1>12, <1>13 DEF Call, Work

\* How the row can change: it goes on to the next identity only when the last
\* job ended, and a completed or cancelled row is never written over.
RowMoves ==
    /\ \/ row'.st.job = row.st.job
       \/ /\ row'.st.job = row.st.job + 1
          /\ row.st.job # 0 => jobs[row.st.job] \in Ended
    /\ row.status \in {"completed", "cancelled"} => row' = row
    /\ row'.status = "none" => row' = row
    /\ row.status = "none" => row' = row \/ (row'.status = "pending" /\ row'.st.job = row.st.job)
    /\ row.status = "failed" => row'.status \in {"failed", "running", "cancelled"}
    /\ row'.st.job # row.st.job =>
        \/ row.status = "failed" /\ row'.status = "failed"
        \/ row.status \in Open /\ row'.status \in Open

LEMMA RowStep == IInv /\ [Next]_vars => RowMoves
<1> SUFFICES ASSUME IInv, [Next]_vars
             PROVE  RowMoves
  OBVIOUS
<1>1. ASSUME row' = row
      PROVE  RowMoves
  BY <1>1 DEF RowMoves
<1>2. CASE Enqueue
  BY <1>2 DEF Enqueue, EmptyState, RowMoves, IInv, EarlierJobsEnded
<1>3. ASSUME NEW e \in Executors, Call(e)
      PROVE  RowMoves
  <2> SUFFICES ASSUME Holds(e)
               PROVE  RowMoves
    BY <1>1, <1>3, OnlyActor DEF IInv
  <2>1. TypeOK /\ InSync(e) /\ Stale(e)
    BY DEF IInv, HolderInSync, StaleKnows
  <2>2. ASSUME NEW s \in States, row' = [row EXCEPT !.st = s], s.job = Job(e),
               pc[e] \in Executing \ {"result"}
        PROVE  RowMoves
    <3>1. row.status = "running" /\ row.st.job = St(e).job
      BY <2>1, <2>2 DEF InSync, St, Executing
    <3>2. row'.st = s /\ row'.status = row.status
      BY <2>1, <2>2 DEF TypeOK, Rows
    <3> QED BY <2>1, <2>2, <3>1, <3>2, MemoryTypes DEF RowMoves, Job, States, Open
  <2>4. CASE Resuming(e)
    BY <2>1, <2>4 DEF Resuming, SaveThen, InSync, RowOf, RowMoves, Open
  <2>5. CASE Loop(e)
    BY <2>1, <2>5 DEF Loop, SaveThen, InSync, Executing, RowOf, RowMoves
  <2>6. CASE AssignWorker(e)
    <3> DEFINE s == [St(e) EXCEPT !.worker = TRUE]
    <3>1. s.job = mem[e].st.job
      BY MemoryTypes DEF States, St
    <3>2. row.status = "running" /\ row.st.job = mem[e].st.job
      BY <2>1, <2>6 DEF AssignWorker, InSync, Executing
    <3>3. row' = row \/ row' = [row EXCEPT !.st = s]
      BY <2>6 DEF AssignWorker, Persisted
    <3>4. row' = row \/ (row'.status = "running" /\ row'.st.job = row.st.job)
      BY <2>1, <3>1, <3>2, <3>3 DEF TypeOK, Rows
    <3> QED BY <1>1, <3>2, <3>4 DEF RowMoves
  <2>7. CASE Reconcile(e)
    <3>1. row' = row \/ \E s \in States : row' = [row EXCEPT !.st = s] /\ s.job = Job(e)
      <4>1. [St(e) EXCEPT !.job = Job(e), !.submitted = TRUE, !.reconcile = FALSE, !.rejected = FALSE] \in States
        BY <2>1, MemoryTypes, SubmitTypes
      <4> QED BY <2>7, <4>1, MemoryTypes, <2>1 DEF Reconcile, Persisted, States
    <3> QED BY <1>1, <2>2, <2>7, <3>1 DEF Reconcile, Executing
  <2>8. CASE Admit(e)
    <3>1. row' = row \/ \E s \in States : row' = [row EXCEPT !.st = s] /\ s.job = Job(e)
      <4>1. [St(e) EXCEPT !.job = Job(e), !.reconcile = TRUE, !.rejected = FALSE] \in States
        BY <2>1, MemoryTypes, SubmitTypes
      <4> QED BY <2>8, <4>1, MemoryTypes, <2>1 DEF Admit, Persisted, States
    <3> QED BY <1>1, <2>2, <2>8, <3>1 DEF Admit, Executing
  <2>9. CASE Record(e)
    BY <2>1, <2>9, MemoryTypes DEF Record, Persisted, InSync, Executing, RowMoves, St, Rows, TypeOK
  <2>10. CASE Result(e)
    <3>1. row.status = "running"
      BY <2>1, <2>10 DEF Result, InSync, Executing
    <3>2. row' = row \/ row'.st = mem[e].st
      BY <2>10 DEF Result, SaveThen
    <3>3. row' = row \/ row'.status \in {"running", "failed", "waiting_decision", "waiting_external"}
      BY <2>10 DEF Result, SaveThen
    <3>4. row' # row /\ row'.status \notin Open => ~(mem[e].res = "completed")
      BY <2>10 DEF Result, SaveThen, Open
    <3> QED BY <2>1, <2>10, <3>1, <3>2, <3>3, <3>4 DEF Result, InSync, RowMoves, Executing, Open
  <2>11. CASE RetryCheck(e)
    <3>1. CASE row' = [row EXCEPT !.st = NextEncode(St(e))] /\ jobs[St(e).job] \in Ended
      <4>1. row.status = "failed" /\ row.st = St(e) /\ St(e) \in States
        BY <2>1, <2>11, MemoryTypes DEF RetryCheck, InSync, RowOf, St
      <4>2. NextEncode(St(e)).job = St(e).job + 1
        BY <4>1, AttemptTypes DEF NextEncode, ClearAttempt, States
      <4>3. row'.st = NextEncode(St(e)) /\ row'.status = row.status
        BY <2>1, <3>1 DEF TypeOK, Rows
      <4> QED BY <3>1, <4>1, <4>2, <4>3 DEF RowMoves
    <3> QED BY <1>1, <2>11, <3>1 DEF RetryCheck, SaveThen, Ended
  <2>12. CASE RetrySave(e)
    BY <2>1, <2>12 DEF RetrySave, SaveThen, InSync, RowOf, RowMoves
  <2>13. CASE Cancelling(e)
    BY <2>1, <2>13, MemoryTypes DEF Cancelling, SaveThen, InSync, RowOf, RowMoves, St, Rows, TypeOK
  <2>14. CASE UNCHANGED row
    BY <1>1, <2>14
  <2> QED
    BY <1>3, <2>4, <2>5, <2>6, <2>7, <2>8, <2>9, <2>10, <2>11, <2>12, <2>13, <2>14
       DEF Call, Work, AutoResume, User, UserResume, UserRetry, UserCancel, Claim, RunPreflight,
           RunSubmit, RunWait, RunValidate, RunAccept, Send, RemoteCancel, CancelStatus, Release,
           Crash, CtxEnds
<1>4. CASE Expire \/ Lapse \/ Worker \/ UNCHANGED vars
  BY <1>1, <1>4 DEF Expire, Lapse, Worker, Deliver, WorkerEnds, RetentionEnds, vars
<1> QED BY <1>2, <1>3, <1>4 DEF Next

\* A send changes what the executor remembers of the outcome, not the identity.
LEMMA SendKeeps ==
    ASSUME TypeOK, NEW e \in Executors, Send(e)
    PROVE  /\ mem'[e].step = mem[e].step /\ mem'[e].st.job = mem[e].st.job
           /\ mem'[e].st.expiries = mem[e].st.expiries
           /\ mem'[e].res = "completed" => mem'[e].next = Wait /\ mem'[e].st.submitted
           /\ pc'[e] = "record" /\ row' = row
<1> DEFINE outcomes == {St(e), [St(e) EXCEPT !.submitted = TRUE, !.reconcile = FALSE, !.rejected = FALSE],
                        [St(e) EXCEPT !.reconcile = FALSE, !.rejected = TRUE]}
<1>1. \A s \in outcomes : s.job = St(e).job /\ s.expiries = St(e).expiries
  BY MemoryTypes DEF States
<1>2. PICK s \in outcomes, out \in Results :
        /\ out = "completed" => s.submitted
        /\ mem' = [mem EXCEPT ![e] = [mem[e] EXCEPT !.st = s, !.res = out,
                              !.next = IF out = "completed" THEN Wait ELSE Submit]]
  BY MemoryTypes DEF Send, Results, States
<1>3. /\ mem'[e].step = mem[e].step /\ mem'[e].st = s /\ mem'[e].res = out
      /\ mem'[e].next = IF out = "completed" THEN Wait ELSE Submit
  BY <1>2, MemoryTypes DEF TypeOK, Memories
<1>4. pc'[e] = "record" /\ row' = row
  BY DEF Send, TypeOK
<1> QED BY <1>1, <1>2, <1>3, <1>4 DEF St

\* What an executor knows whether or not it still holds its lease: its own steps
\* keep it.
LEMMA ActorStale ==
    ASSUME IInv, NEW e \in Executors, Call(e)
    PROVE  Stale(e)'
<1> USE DEF IInv
<1>1. Stale(e) /\ TypeOK /\ pc[e] \in Places
  BY DEF StaleKnows, TypeOK
<1>2. ASSUME pc'[e] \in {"idle", "release", "resuming", "retrySave", "cancelling", "loop", "assign",
                         "run", "result"}
      PROVE  Stale(e)'
  BY <1>2 DEF Stale
<1>3. CASE AutoResume(e) \/ UserResume(e) \/ UserCancel(e)
  BY <1>1, <1>2, <1>3 DEF AutoResume, UserResume, UserCancel, Claim, TypeOK
<1>4. CASE UserRetry(e)
  <2>1. CASE row.st.job # 0 /\ ~row.st.done
    BY <1>1, <1>4, <2>1 DEF UserRetry, Claim, Stale, TypeOK
  <2>2. CASE ~(row.st.job # 0 /\ ~row.st.done)
    BY <1>1, <1>2, <1>4, <2>2 DEF UserRetry, Claim, TypeOK
  <2> QED BY <2>1, <2>2
<1>5. CASE Resuming(e) \/ RetrySave(e) \/ Loop(e) \/ Result(e)
  BY <1>1, <1>2, <1>5 DEF Resuming, RetrySave, Loop, Result, SaveThen, TypeOK
<1>6. CASE AssignWorker(e) \/ RunPreflight(e) \/ RunValidate(e) \/ RunAccept(e)
  BY <1>1, <1>2, <1>6 DEF AssignWorker, RunPreflight, RunValidate, RunAccept, Completes, Fails,
     AsksUser, Unreachable, Return, TypeOK
<1>7. CASE RunWait(e)
  BY <1>1, <1>2, <1>7 DEF RunWait, Completes, Fails, AsksUser, WaitsForWorker, Unreachable,
     StatusRefused, Return, TypeOK
<1>8. CASE RunSubmit(e)
  BY <1>1, <1>2, <1>8 DEF RunSubmit, Completes, Return, Stale, TypeOK
<1>9. CASE Reconcile(e)
  <2>1. CASE pc'[e] = "result"
    BY <1>2, <2>1
  <2>2. CASE pc'[e] = "admit" /\ mem'[e].step = mem[e].step
    BY <1>1, <1>9, <2>2 DEF Reconcile, Stale
  <2> QED BY <1>1, <1>9, <2>1, <2>2 DEF Reconcile, Unreachable, StatusRefused, Return, TypeOK, Memories
<1>10. CASE Admit(e)
  <2> DEFINE id == [St(e) EXCEPT !.job = Job(e), !.reconcile = TRUE, !.rejected = FALSE]
  <2>1. CASE pc'[e] = "result"
    BY <1>2, <2>1
  <2>2. CASE /\ Holds(e) /\ row' = Persisted(e, id)
             /\ mem' = [mem EXCEPT ![e].st = id] /\ pc' = [pc EXCEPT ![e] = "send"]
    <3>1. id \in States
      BY MemoryTypes, SubmitTypes
    <3>3. id.job = Job(e) /\ Job(e) \in 1..Job(e)
      BY MemoryTypes, Constants DEF States, Attempts
    <3>2. mem'[e].step = Submit /\ mem'[e].st = id /\ row'.st = id
      BY <1>1, <1>10, <2>2 DEF Admit, Stale, TypeOK, Memories, Persisted, Rows
    <3>4. pc'[e] = "send"
      BY <1>1, <2>2 DEF TypeOK
    <3> QED BY <3>2, <3>3, <3>4 DEF Stale
  <2> QED BY <1>1, <1>10, <2>1, <2>2 DEF Admit, Unreachable, Fails, Return, TypeOK
<1>11. CASE Send(e)
  <2>1. /\ mem'[e].step = mem[e].step /\ mem'[e].st.job = mem[e].st.job /\ pc'[e] = "record" /\ row' = row
    BY <1>11, SendKeeps
  <2> QED BY <1>1, <1>11, <2>1 DEF Send, Stale, St
<1>12. CASE Record(e)
  BY <1>1, <1>2, <1>12 DEF Record, TypeOK
<1>13. CASE RetryCheck(e)
  BY <1>1, <1>2, <1>13 DEF RetryCheck, SaveThen, TypeOK
<1>14. CASE Cancelling(e)
  <2>1. CASE pc'[e] = "release"
    BY <1>2, <2>1
  <2>2. CASE pc'[e] = "remoteCancel"
    <3>1. Holds(e) /\ St(e).job # 0 /\ mem' = mem
      BY <1>1, <1>14, <2>2 DEF Cancelling, SaveThen, TypeOK
    <3>2. row'.status = "cancelled" /\ row'.st = mem[e].st
      BY <1>14, <3>1 DEF Cancelling, SaveThen, RowOf
    <3> QED BY <2>2, <3>1, <3>2 DEF Stale, St
  <2> QED BY <1>1, <1>14, <2>1, <2>2 DEF Cancelling, SaveThen, TypeOK
<1>15. CASE RemoteCancel(e)
  <2>1. pc'[e] \in {"release", "cancelStatus"} /\ mem' = mem /\ row' = row
    BY <1>1, <1>15 DEF RemoteCancel, CancelReturns, TypeOK
  <2> QED BY <1>1, <1>2, <1>15, <2>1 DEF RemoteCancel, Stale
<1>16. CASE CancelStatus(e) \/ Release(e) \/ Crash(e)
  BY <1>1, <1>2, <1>16 DEF CancelStatus, CancelReturns, Release, Crash, TypeOK
<1>17. CASE CtxEnds(e)
  <2>1. pc' = pc /\ row' = row /\ mem'[e].step = mem[e].step /\ mem'[e].st = mem[e].st
    BY <1>1, <1>17 DEF CtxEnds, TypeOK, Memories
  <2> QED BY <1>1, <2>1 DEF Stale
<1> QED
  BY <1>3, <1>4, <1>5, <1>6, <1>7, <1>8, <1>9, <1>10, <1>11, <1>12, <1>13, <1>14, <1>15, <1>16, <1>17
     DEF Call, User, Work

\* What an executor returns from a step keeps it in step with the row, as long
\* as the step did not change the job's identity.
LEMMA ReturnInSync ==
    ASSUME TypeOK, NEW e \in Executors, InSync(e), pc[e] \in Executing \ {"result"},
           NEW out, NEW s \in States, NEW next, s.job = mem[e].st.job,
           Return(e, out, s, next), UNCHANGED row
    PROVE  InSync(e)'
<1>1. pc'[e] = "result" /\ mem'[e].step = mem[e].step /\ mem'[e].st = s
  BY DEF Return, TypeOK, Memories
<1> QED BY <1>1 DEF InSync, Executing

LEMMA ActorInSync ==
    ASSUME IInv, NEW e \in Executors, Call(e), Holds(e)'
    PROVE  InSync(e)'
<1> USE DEF IInv
<1>1. TypeOK /\ Stale(e) /\ (Holds(e) => InSync(e))
  BY DEF HolderInSync, StaleKnows
<1>2. ASSUME pc'[e] \in {"idle", "release", "remoteCancel", "cancelStatus"}
      PROVE  InSync(e)'
  BY <1>2 DEF InSync, Executing
<1>3. ASSUME NEW kind, NEW d, NEW place, Claim(e, kind, d, place)
      PROVE  /\ row' = row /\ row = RowOf(mem[e])' /\ pc'[e] = place /\ row.status # "none"
  <2>1. row = [status |-> row.status, step |-> row.step, st |-> row.st]
    BY <1>1 DEF TypeOK, Rows
  <2> QED BY <1>1, <1>3, <2>1 DEF Claim, TypeOK, RowOf
<1>4. CASE AutoResume(e)
  <2>1. row' = row /\ row = RowOf(mem[e])' /\ pc'[e] = "resuming" /\ row.status \in Open
    BY <1>3, <1>4 DEF AutoResume, ShouldReconcile, Open
  <2> QED BY <2>1 DEF InSync, Executing
<1>5. CASE UserResume(e)
  <2>1. /\ row' = row /\ row = RowOf(mem[e])' /\ row.status # "none"
        /\ pc'[e] = IF row.status \in Final THEN "release" ELSE "resuming"
    BY <1>3, <1>5 DEF UserResume
  <2>2. row.status \notin Final => row.status \in Open
    BY <1>1, <2>1 DEF TypeOK, Rows, Statuses
  <2> QED BY <2>1, <2>2 DEF InSync, Executing
<1>6. CASE UserRetry(e)
  <2>1. /\ row' = row /\ row = RowOf(mem[e])'
        /\ pc'[e] \in {"release", "retryCheck", "retrySave"}
        /\ pc'[e] # "release" => row.status = "failed"
    BY <1>3, <1>6 DEF UserRetry
  <2>2. row.st = mem'[e].st
    BY <2>1 DEF RowOf
  <2> QED BY <2>1, <2>2 DEF InSync, Executing
<1>7. CASE UserCancel(e)
  <2>1. /\ row' = row /\ row = RowOf(mem[e])' /\ row.status # "none"
        /\ pc'[e] = IF row.status = "completed" THEN "release" ELSE "cancelling"
    BY <1>3, <1>7 DEF UserCancel
  <2> QED BY <2>1 DEF InSync, Executing
<1>8. CASE Work(e) \/ Crash(e) \/ CtxEnds(e)
  <2>1. CASE Release(e) \/ Crash(e)
    BY <1>1, <1>2, <2>1 DEF Release, Crash, TypeOK
  <2>2. Holds(e) /\ InSync(e)
    BY <1>1, <1>8, <2>1 DEF Work, Holds, Resuming, Loop, AssignWorker, RunPreflight, RunSubmit,
       Reconcile, Admit, Send, Record, RunWait, RunValidate, RunAccept, Result, RetryCheck, RetrySave,
       Cancelling, RemoteCancel, CancelStatus, Release, Crash, CtxEnds, SaveThen
  <2>3. CASE Resuming(e)
    BY <1>1, <2>2, <2>3 DEF Resuming, SaveThen, InSync, Executing, RowOf, TypeOK, Memories
  <2>4. CASE Loop(e)
    <3>1. CASE pc'[e] = "release"
      BY <1>2, <3>1
    <3>2. CASE /\ mem' = [mem EXCEPT ![e].status = "running"] /\ pc' = [pc EXCEPT ![e] = "assign"]
               /\ row' = [RowOf(mem[e]) EXCEPT !.status = "running"]
      BY <1>1, <3>2 DEF InSync, Executing, RowOf, TypeOK, Memories
    <3> QED BY <1>1, <2>2, <2>4, <3>1, <3>2 DEF Loop, SaveThen, TypeOK
  <2>5. CASE AssignWorker(e)
    <3> DEFINE s == [St(e) EXCEPT !.worker = TRUE]
    <3>1. s \in States /\ s.job = mem[e].st.job
      BY MemoryTypes DEF States, St
    <3>2. CASE UNCHANGED <<row, mem>> /\ pc' = [pc EXCEPT ![e] = "run"]
      BY <1>1, <2>2, <2>5, <3>2 DEF AssignWorker, InSync, Executing, TypeOK
    <3>3. CASE row' = Persisted(e, s) /\ mem' = [mem EXCEPT ![e].st = s] /\ pc' = [pc EXCEPT ![e] = "run"]
      <4>1. /\ row'.status = row.status /\ row'.step = row.step /\ row'.st = s
            /\ mem'[e].step = mem[e].step /\ mem'[e].st = s /\ pc'[e] = "run"
        BY <1>1, <2>2, <3>3 DEF Persisted, TypeOK, Rows, Memories
      <4> QED BY <2>2, <2>5, <3>1, <4>1 DEF AssignWorker, InSync, Executing
    <3>4. CASE Return(e, "external", St(e), mem[e].step) /\ UNCHANGED row
      BY <1>1, <2>2, <2>5, <3>4, MemoryTypes, ReturnInSync DEF AssignWorker, Executing, St
    <3> QED BY <2>5, <3>2, <3>3, <3>4 DEF AssignWorker
  <2>6. ASSUME NEW s \in States, s.job = mem[e].st.job, pc[e] \in Executing \ {"result"}, UNCHANGED row,
               \/ Completes(e, s) \/ Fails(e, s) \/ AsksUser(e, s) \/ WaitsForWorker(e, s)
               \/ Unreachable(e, s) \/ StatusRefused(e, s)
        PROVE  InSync(e)'
    <3>1. PICK out, next : Return(e, out, s, next)
      BY <2>6 DEF Completes, Fails, AsksUser, WaitsForWorker, Unreachable, StatusRefused
    <3> QED BY <1>1, <2>2, <2>6, <3>1, ReturnInSync
  <2>7. /\ St(e) \in States /\ St(e).job = mem[e].st.job
        /\ [St(e) EXCEPT !.skip = TRUE] \in States /\ [St(e) EXCEPT !.skip = TRUE].job = mem[e].st.job
        /\ [St(e) EXCEPT !.done = TRUE] \in States /\ [St(e) EXCEPT !.done = TRUE].job = mem[e].st.job
    BY MemoryTypes DEF States, St
  <2>8. CASE RunPreflight(e) \/ RunValidate(e) \/ RunAccept(e)
    BY <2>6, <2>7, <2>8 DEF RunPreflight, RunValidate, RunAccept, Executing
  <2>9. CASE RunSubmit(e)
    <3>1. CASE Completes(e, St(e))
      BY <2>6, <2>7, <2>9, <3>1 DEF RunSubmit, Executing
    <3>2. CASE mem' = mem /\ pc'[e] \in {"reconcile", "admit"}
      BY <2>2, <2>9, <3>2 DEF RunSubmit, InSync, Executing
    <3> QED BY <1>1, <2>9, <3>1, <3>2 DEF RunSubmit, TypeOK
  <2>10. CASE Reconcile(e)
    <3> DEFINE found == [St(e) EXCEPT !.job = Job(e), !.submitted = TRUE, !.reconcile = FALSE, !.rejected = FALSE]
               lost == [St(e) EXCEPT !.reconcile = FALSE]
    <3>1. CASE UNCHANGED row /\ (Unreachable(e, St(e)) \/ StatusRefused(e, St(e)))
      BY <2>6, <2>7, <2>10, <3>1 DEF Reconcile, Executing
    <3>2. CASE mem' = [mem EXCEPT ![e].st = lost] /\ pc' = [pc EXCEPT ![e] = "admit"] /\ UNCHANGED row
      <4>1. lost.job = mem[e].st.job
        BY MemoryTypes DEF States, St
      <4>2. mem'[e].step = mem[e].step /\ mem'[e].st = lost /\ pc'[e] = "admit"
        BY <1>1, <3>2 DEF TypeOK, Memories
      <4> QED BY <2>2, <2>10, <3>2, <4>1, <4>2 DEF Reconcile, InSync, Executing
    <3>3. CASE row' = Persisted(e, found) /\ \E out \in Results, next \in Steps : Return(e, out, found, next)
      <4>1. /\ row'.status = row.status /\ row'.step = row.step /\ row'.st = found
            /\ mem'[e].step = mem[e].step /\ mem'[e].st = found /\ pc'[e] = "result"
        BY <1>1, <2>2, <3>3 DEF Persisted, Return, TypeOK, Rows, Memories
      <4> QED BY <2>2, <2>10, <4>1 DEF Reconcile, InSync, Executing
    <3> QED BY <2>2, <2>10, <3>1, <3>2, <3>3, KnownSteps DEF Reconcile, Results
  <2>11. CASE Admit(e)
    <3> DEFINE id == [St(e) EXCEPT !.job = Job(e), !.reconcile = TRUE, !.rejected = FALSE]
    <3>1. CASE UNCHANGED row /\ (Unreachable(e, St(e)) \/ Fails(e, St(e)))
      BY <2>6, <2>7, <2>11, <3>1 DEF Admit, Executing
    <3>2. CASE row' = Persisted(e, id) /\ mem' = [mem EXCEPT ![e].st = id] /\ pc' = [pc EXCEPT ![e] = "send"]
      <4>1. /\ row'.status = row.status /\ row'.step = row.step /\ row'.st = id
            /\ mem'[e].step = mem[e].step /\ mem'[e].st = id /\ pc'[e] = "send"
        BY <1>1, <2>2, <3>2 DEF Persisted, TypeOK, Rows, Memories
      <4> QED BY <2>2, <2>11, <4>1 DEF Admit, InSync, Executing
    <3> QED BY <2>2, <2>11, <3>1, <3>2 DEF Admit
  <2>12. CASE Send(e)
    <3>1. mem'[e].st.job = mem[e].st.job /\ mem'[e].step = mem[e].step /\ pc'[e] = "record" /\ row' = row
      BY <2>12, SendKeeps
    <3> QED BY <2>2, <2>12, <3>1 DEF Send, InSync, Executing
  <2>13. CASE Record(e)
    <3>1. /\ row'.status = row.status /\ row'.step = row.step /\ row'.st = mem[e].st
          /\ mem' = mem /\ pc'[e] = "result"
      BY <1>1, <2>2, <2>13 DEF Record, Persisted, TypeOK, Rows, St
    <3> QED BY <2>2, <2>13, <3>1 DEF Record, InSync, Executing
  <2>14. CASE RunWait(e)
    <3>1. pc[e] \in Executing \ {"result"} /\ row' = row /\ jobs' = jobs
      BY <2>14 DEF RunWait, Executing, workerVars
    <3>2. CASE \E s \in {St(e), [St(e) EXCEPT !.skip = TRUE], [St(e) EXCEPT !.done = TRUE]} :
                  \/ Completes(e, s) \/ Fails(e, s) \/ AsksUser(e, s) \/ WaitsForWorker(e, s)
                  \/ Unreachable(e, s) \/ StatusRefused(e, s)
      BY <2>6, <2>7, <3>1, <3>2
    <3>3. CASE /\ St(e).expiries < MaxExpiries
               /\ Return(e, "completed", [ClearAttempt(St(e)) EXCEPT !.expiries = @ + 1], Submit)
      <4> DEFINE s == [ClearAttempt(St(e)) EXCEPT !.expiries = @ + 1]
      <4>1. s \in States
        BY <3>3, <2>7, AttemptTypes
      <4>2. s.job = mem[e].st.job
        BY <2>7 DEF ClearAttempt, States
      <4> QED BY <1>1, <2>2, <3>1, <3>3, <4>1, <4>2, ReturnInSync
    <3>4. CASE /\ St(e).job # 0 /\ jobs[St(e).job] = "missed"
               /\ Return(e, "completed", NextEncode(St(e)), Submit)
      <4>1. NextEncode(St(e)).job = mem[e].st.job + 1
        BY <2>7 DEF NextEncode, ClearAttempt, States
      <4>2. /\ pc'[e] = "result" /\ mem'[e].step = mem[e].step /\ mem'[e].st = NextEncode(St(e))
            /\ mem'[e].res = "completed" /\ mem'[e].next = Submit
        BY <1>1, <3>4 DEF Return, TypeOK, Memories
      <4> QED BY <2>2, <2>7, <3>1, <3>4, <4>1, <4>2 DEF InSync, Executing, Ended
    <3> QED BY <2>14, <3>2, <3>3, <3>4 DEF RunWait
  <2>15. CASE Result(e)
    <3>1. CASE pc'[e] = "release"
      BY <1>2, <3>1
    <3>2. CASE /\ row' = [status |-> "running", step |-> mem[e].next, st |-> mem[e].st]
               /\ pc' = [pc EXCEPT ![e] = "loop"]
               /\ mem' = [mem EXCEPT ![e] = [mem[e] EXCEPT !.step = mem[e].next, !.res = "none"]]
      <4>1. mem'[e].step = mem[e].next /\ mem'[e].st = mem[e].st /\ pc'[e] = "loop"
        BY <1>1, <3>2 DEF TypeOK, Memories
      <4> QED BY <3>2, <4>1 DEF InSync, Executing
    <3> QED BY <1>1, <2>2, <2>15, <3>1, <3>2 DEF Result, SaveThen, TypeOK
  <2>16. CASE RetryCheck(e)
    <3>1. row.status = "failed" /\ row.st.job = mem[e].st.job
      BY <2>2, <2>16 DEF RetryCheck, InSync, RowOf
    <3>2. CASE pc'[e] = "release"
      BY <1>2, <3>2
    <3>3. CASE /\ mem' = [mem EXCEPT ![e] = [mem[e] EXCEPT !.step = Submit, !.st.reconcile = TRUE]]
               /\ pc' = [pc EXCEPT ![e] = "retrySave"] /\ UNCHANGED row
      <4>1. mem'[e].st.job = mem[e].st.job /\ pc'[e] = "retrySave"
        BY <1>1, <3>3, MemoryTypes DEF TypeOK, Memories, States
      <4> QED BY <3>1, <3>3, <4>1 DEF InSync, Executing
    <3>4. CASE /\ mem' = [mem EXCEPT ![e] = [mem[e] EXCEPT !.step = Submit, !.st = NextEncode(St(e))]]
               /\ row' = [row EXCEPT !.st = NextEncode(St(e))] /\ pc' = [pc EXCEPT ![e] = "retrySave"]
      <4>1. /\ mem'[e].st = NextEncode(St(e)) /\ pc'[e] = "retrySave"
            /\ row'.st = NextEncode(St(e)) /\ row'.status = row.status
        BY <1>1, <3>4 DEF TypeOK, Memories, Rows
      <4> QED BY <3>1, <4>1 DEF InSync, Executing
    <3> QED BY <1>1, <2>2, <2>16, <3>2, <3>3, <3>4 DEF RetryCheck, SaveThen, TypeOK
  <2>17. CASE RetrySave(e)
    BY <1>1, <2>2, <2>17 DEF RetrySave, SaveThen, InSync, Executing, RowOf, TypeOK, Memories
  <2>18. CASE Cancelling(e) \/ RemoteCancel(e) \/ CancelStatus(e)
    BY <1>1, <1>2, <2>2, <2>18 DEF Cancelling, SaveThen, RemoteCancel, CancelStatus, CancelReturns, TypeOK
  <2>19. CASE CtxEnds(e)
    <3>1. /\ row' = row /\ pc' = pc /\ jobs' = jobs
          /\ mem'[e] = [mem[e] EXCEPT !.ctx = FALSE]
      BY <1>1, <2>19 DEF CtxEnds, TypeOK, workerVars
    <3>2. /\ RowOf(mem[e])' = RowOf(mem[e]) /\ mem'[e].st = mem[e].st /\ mem'[e].step = mem[e].step
          /\ mem'[e].res = mem[e].res /\ mem'[e].next = mem[e].next
      BY <1>1, <3>1 DEF RowOf, TypeOK, Memories
    <3> QED BY <2>2, <3>1, <3>2 DEF InSync
  <2> QED
    BY <1>8, <2>1, <2>3, <2>4, <2>5, <2>8, <2>9, <2>10, <2>11, <2>12, <2>13, <2>14, <2>15, <2>16,
       <2>17, <2>18, <2>19 DEF Work
<1> QED BY <1>4, <1>5, <1>6, <1>7, <1>8 DEF Call, User

\* A candidate is behind an executor that is past the wait, or about to be.
CandidateFor(e) ==
    /\ HasCandidate(mem[e].step, mem[e].st)
    /\ pc[e] \in {"record", "result"} /\ mem[e].res = "completed" =>
        HasCandidate(mem[e].next, mem[e].st)

CandidateInRow ==
    /\ HasCandidate(row.step, row.st)
    /\ row.status = "completed" => row.step = Done

LEMMA ActorCandidate ==
    ASSUME IInv, NEW e \in Executors, Call(e)
    PROVE  CandidateFor(e)' /\ CandidateInRow'
<1> USE DEF IInv
<1>1. TypeOK /\ Stale(e) /\ (Holds(e) => InSync(e)) /\ CandidateFor(e) /\ CandidateInRow
  BY DEF HolderInSync, StaleKnows, CandidateBehind, CandidateFor, CandidateInRow
<1>2. encoded' = encoded
  BY DEF Call, AutoResume, User, UserResume, UserRetry, UserCancel, Claim, Work, Crash, CtxEnds,
     Resuming, Loop, AssignWorker, RunPreflight, RunSubmit, Reconcile, Admit, Send, Record, RunWait,
     RunValidate, RunAccept, Result, RetryCheck, RetrySave, Cancelling, RemoteCancel, CancelStatus,
     Release, workerVars
<1>3. /\ mem[e] \in Memories /\ mem[e].st \in States /\ mem[e].step \in Nat /\ mem[e].next \in Nat
      /\ row.step \in Nat
  BY MemoryTypes DEF Steps
<1>4. ASSUME row' = row
      PROVE  CandidateInRow'
  BY <1>1, <1>2, <1>4 DEF CandidateInRow, HasCandidate
<1>5. ASSUME NEW status, row' = [RowOf(mem[e]) EXCEPT !.status = status],
             status = "completed" => mem[e].step = Done
      PROVE  CandidateInRow'
  <2>1. row'.status = status /\ row'.step = mem[e].step /\ row'.st = mem[e].st
    BY <1>5 DEF RowOf
  <2> QED BY <1>1, <1>2, <1>5, <2>1 DEF CandidateInRow, CandidateFor, HasCandidate
<1>6. ASSUME NEW s \in States, row' = Persisted(e, s), Holds(e), pc[e] \in Executing,
             mem[e].step < Validate \/ (s.job = mem[e].st.job /\ s.skip = mem[e].st.skip /\ s.done = mem[e].st.done)
      PROVE  CandidateInRow'
  <2>1. row'.status = row.status /\ row'.step = row.step /\ row'.st = s
    BY <1>1, <1>6 DEF Persisted, TypeOK, Rows
  <2>2. row.status = "running" /\ row.step = mem[e].step
    BY <1>1, <1>6 DEF InSync
  <2> QED BY <1>1, <1>2, <1>3, <1>6, <2>1, <2>2 DEF CandidateInRow, CandidateFor, HasCandidate
<1>7. ASSUME mem'[e].step < Validate, mem'[e].step \in Nat, mem'[e].next \in Nat,
             pc'[e] \notin {"record", "result"} \/ mem'[e].next < Validate
      PROVE  CandidateFor(e)'
  BY <1>7 DEF CandidateFor, HasCandidate
<1>8. ASSUME mem'[e].step = mem[e].step, mem'[e].st = mem[e].st, pc'[e] \notin {"record", "result"}
      PROVE  CandidateFor(e)'
  BY <1>1, <1>2, <1>8 DEF CandidateFor, HasCandidate
<1>9. CASE AutoResume(e) \/ User(e)
  <2>1. /\ row' = row /\ mem'[e].step = row.step /\ mem'[e].st = row.st
        /\ pc'[e] \notin {"record", "result"}
    BY <1>1, <1>9 DEF AutoResume, User, UserResume, UserRetry, UserCancel, Claim, TypeOK
  <2> QED BY <1>1, <1>2, <1>4, <2>1 DEF CandidateInRow, CandidateFor, HasCandidate
<1>10. CASE Resuming(e) \/ RetrySave(e)
  <2>1. row' = row \/ row' = [RowOf(mem[e]) EXCEPT !.status = "running"]
    BY <1>10 DEF Resuming, RetrySave, SaveThen
  <2>2. /\ mem'[e].step = mem[e].step /\ mem'[e].st = mem[e].st /\ pc'[e] \notin {"record", "result"}
    BY <1>1, <1>10 DEF Resuming, RetrySave, SaveThen, TypeOK, Memories
  <2> QED BY <1>4, <1>5, <1>8, <2>1, <2>2
<1>11. CASE Loop(e)
  <2>1. \/ row' = row
        \/ \E status \in {"failed", "waiting_external", "running", "completed"} :
              /\ row' = [RowOf(mem[e]) EXCEPT !.status = status]
              /\ status = "completed" => mem[e].step = Done
    <3>1. \A status : [status |-> status, step |-> mem[e].step, st |-> mem[e].st]
                        = [RowOf(mem[e]) EXCEPT !.status = status]
      BY DEF RowOf
    <3> QED BY <1>11, <3>1 DEF Loop, SaveThen
  <2>2. mem'[e].step = mem[e].step /\ mem'[e].st = mem[e].st /\ pc'[e] \notin {"record", "result"}
    BY <1>1, <1>11 DEF Loop, SaveThen, TypeOK, Memories
  <2> QED BY <1>4, <1>5, <1>8, <2>1, <2>2
<1>12. CASE AssignWorker(e)
  <2> DEFINE s == [St(e) EXCEPT !.worker = TRUE]
  <2>1. s \in States /\ s.job = mem[e].st.job /\ s.skip = mem[e].st.skip /\ s.done = mem[e].st.done
    BY <1>3 DEF States, St
  <2>2. CASE UNCHANGED <<row, mem>> /\ pc' = [pc EXCEPT ![e] = "run"]
    BY <1>1, <1>4, <1>8, <2>2 DEF TypeOK
  <2>3. CASE /\ Holds(e) /\ row' = Persisted(e, s) /\ mem' = [mem EXCEPT ![e].st = s]
             /\ pc' = [pc EXCEPT ![e] = "run"]
    <3>1. mem'[e].step = mem[e].step /\ mem'[e].st = s /\ pc'[e] = "run"
      BY <1>1, <2>3 DEF TypeOK, Memories
    <3>2. CandidateInRow'
      BY <1>6, <1>12, <2>1, <2>3 DEF AssignWorker, Executing
    <3> QED BY <1>1, <1>2, <2>1, <3>1, <3>2 DEF CandidateFor, HasCandidate
  <2>4. CASE Return(e, "external", St(e), mem[e].step) /\ UNCHANGED row
    <3>1. mem'[e].step = mem[e].step /\ mem'[e].st = mem[e].st /\ mem'[e].res = "external"
      BY <1>1, <2>4 DEF Return, TypeOK, Memories, St
    <3> QED BY <1>1, <1>2, <1>4, <2>4, <3>1 DEF CandidateFor, HasCandidate
  <2> QED BY <1>12, <2>2, <2>3, <2>4 DEF AssignWorker
<1>13. ASSUME NEW s \in States, NEW out, NEW next \in Nat, Return(e, out, s, next),
              HasCandidate(mem[e].step, s), out = "completed" => HasCandidate(next, s)
       PROVE  CandidateFor(e)'
  <2>1. mem'[e].step = mem[e].step /\ mem'[e].st = s /\ mem'[e].res = out /\ mem'[e].next = next
    BY <1>1, <1>13 DEF Return, TypeOK, Memories
  <2> QED BY <1>2, <1>13, <2>1 DEF CandidateFor, HasCandidate
<1>14. ASSUME NEW s \in States, HasCandidate(mem[e].step, s), HasCandidate(mem[e].step + 1, s),
              \/ Completes(e, s) \/ Fails(e, s) \/ AsksUser(e, s) \/ WaitsForWorker(e, s)
              \/ Unreachable(e, s) \/ StatusRefused(e, s)
       PROVE  CandidateFor(e)'
  BY <1>3, <1>13, <1>14 DEF Completes, Fails, AsksUser, WaitsForWorker, Unreachable, StatusRefused
<1>15. /\ St(e) = mem[e].st
       /\ [St(e) EXCEPT !.skip = TRUE] \in States /\ [St(e) EXCEPT !.skip = TRUE].skip
       /\ [St(e) EXCEPT !.done = TRUE] \in States
       /\ [St(e) EXCEPT !.done = TRUE].done
       /\ [St(e) EXCEPT !.done = TRUE].job = mem[e].st.job
  BY <1>3 DEF States, St
<1>16. CASE RunPreflight(e) \/ RunSubmit(e)
  <2>1. mem[e].step < Wait /\ row' = row
    BY <1>16 DEF RunPreflight, RunSubmit
  <2>2. \A s \in States : HasCandidate(mem[e].step, s) /\ HasCandidate(mem[e].step + 1, s)
    BY <1>3, <2>1 DEF HasCandidate
  <2>3. CASE mem' = mem /\ pc'[e] \in {"reconcile", "admit"}
    BY <1>1, <1>4, <1>8, <2>1, <2>3
  <2> QED
    BY <1>1, <1>3, <1>4, <1>14, <1>15, <1>16, <2>1, <2>2, <2>3 DEF RunPreflight, RunSubmit, TypeOK
<1>17. CASE RunValidate(e) \/ RunAccept(e)
  <2>1. mem[e].step \in {Validate, Accept} /\ row' = row
    BY <1>17 DEF RunValidate, RunAccept
  <2>2. \A s \in {St(e), [St(e) EXCEPT !.skip = TRUE]} :
          HasCandidate(mem[e].step, s) /\ HasCandidate(mem[e].step + 1, s)
    <3>1. HasCandidate(mem[e].step, St(e)) /\ HasCandidate(mem[e].step + 1, St(e))
      BY <1>1, <1>3, <1>15, <2>1 DEF CandidateFor, HasCandidate
    <3>2. \A n : HasCandidate(n, [St(e) EXCEPT !.skip = TRUE])
      BY <1>15 DEF HasCandidate
    <3> QED BY <3>1, <3>2
  <2> QED BY <1>3, <1>4, <1>14, <1>15, <1>17, <2>1, <2>2 DEF RunValidate, RunAccept
<1>18. CASE RunWait(e)
  <2>1. mem[e].step = Wait /\ row' = row
    BY <1>18 DEF RunWait
  <2> SUFFICES CandidateFor(e)'
    BY <1>4, <2>1
  <2>2. \A s \in States : HasCandidate(Wait, s) /\ HasCandidate(Submit, s)
    BY DEF HasCandidate
  <2>3. \A s \in States : \A out : Return(e, out, s, Wait) \/ Return(e, out, s, Submit) => CandidateFor(e)'
    BY <1>13, <2>1, <2>2
  <2>4. CASE St(e).skip /\ Completes(e, St(e))
    BY <1>3, <1>14, <1>15, <2>1, <2>2, <2>4 DEF HasCandidate
  <2>5. CASE Completes(e, [St(e) EXCEPT !.skip = TRUE])
    BY <1>14, <1>15, <2>1, <2>2, <2>5 DEF HasCandidate
  <2>6. CASE /\ jobs[St(e).job] \in {"completed", "retained"} /\ St(e).job # 0
             /\ Completes(e, [St(e) EXCEPT !.done = TRUE])
    <3>1. St(e).job \in Attempts
      BY <1>3, <1>15, <2>6 DEF States, Attempts
    <3>2. St(e).job \in encoded
      BY <2>6, <3>1 DEF CandidateBehind
    <3> QED BY <1>14, <1>15, <2>1, <2>2, <2>6, <3>2 DEF HasCandidate
  <2>7. CASE \/ Fails(e, St(e)) \/ AsksUser(e, St(e)) \/ WaitsForWorker(e, St(e))
             \/ Unreachable(e, St(e)) \/ StatusRefused(e, St(e))
    BY <1>3, <1>15, <2>1, <2>3, <2>7 DEF Fails, AsksUser, WaitsForWorker, Unreachable, StatusRefused
  <2>8. CASE /\ St(e).expiries < MaxExpiries
             /\ Return(e, "completed", [ClearAttempt(St(e)) EXCEPT !.expiries = @ + 1], Submit)
    BY <1>3, <1>15, <2>3, <2>8, AttemptTypes
  <2>9. CASE St(e).job < MaxJob /\ Return(e, "completed", NextEncode(St(e)), Submit)
    BY <1>3, <1>15, <2>3, <2>9, AttemptTypes
  <2> QED BY <1>4, <1>18, <2>1, <2>4, <2>5, <2>6, <2>7, <2>8, <2>9 DEF RunWait
<1>19. CASE Reconcile(e) \/ Admit(e)
  <2> DEFINE found == [St(e) EXCEPT !.job = Job(e), !.submitted = TRUE, !.reconcile = FALSE, !.rejected = FALSE]
             lost == [St(e) EXCEPT !.reconcile = FALSE]
             id == [St(e) EXCEPT !.job = Job(e), !.reconcile = TRUE, !.rejected = FALSE]
  <2>1. mem[e].step = Submit /\ pc[e] \in Executing
    BY <1>1, <1>19 DEF Reconcile, Admit, Stale, Executing
  <2>2. found \in States /\ lost \in States /\ id \in States /\ St(e) \in States
    BY MemoryTypes, SubmitTypes
  <2>3. \A s \in States : \A out : Return(e, out, s, Wait) \/ Return(e, out, s, Submit) => CandidateFor(e)'
    BY <1>13, <2>1 DEF HasCandidate
  <2>4. CandidateFor(e)'
    <3>1. CASE \/ mem' = [mem EXCEPT ![e].st = lost] /\ pc' = [pc EXCEPT ![e] = "admit"]
               \/ mem' = [mem EXCEPT ![e].st = id] /\ pc' = [pc EXCEPT ![e] = "send"]
      <4>1. mem'[e].step = Submit /\ mem'[e].next = mem[e].next /\ pc'[e] \in {"admit", "send"}
        BY <1>1, <2>1, <3>1 DEF TypeOK, Memories
      <4> QED BY <4>1 DEF CandidateFor, HasCandidate
    <3>2. CASE \E s \in {found, id, St(e)}, out \in Results :
                  Return(e, out, s, Wait) \/ Return(e, out, s, Submit)
      BY <2>2, <2>3, <3>2
    <3> QED BY <1>19, <2>1, <3>1, <3>2 DEF Reconcile, Admit, Unreachable, Fails, StatusRefused, Results
  <2>5. CandidateInRow'
    <3>1. row' = row \/ (Holds(e) /\ \E s \in {found, id} : row' = Persisted(e, s))
      BY <1>19 DEF Reconcile, Admit, Persisted
    <3> QED BY <1>4, <1>6, <2>1, <2>2, <3>1
  <2> QED BY <2>4, <2>5
<1>20. CASE Send(e)
  <2>1. /\ mem'[e].step = Submit /\ row' = row
        /\ mem'[e].res = "completed" => mem'[e].next = Wait
    BY <1>1, <1>20, SendKeeps DEF Send, Stale
  <2> QED BY <1>4, <2>1 DEF CandidateFor, HasCandidate
<1>21. CASE Record(e)
  <2>1. mem[e].step = Submit /\ pc[e] = "record"
    BY <1>1, <1>21 DEF Record, Stale
  <2>2. CandidateInRow'
    BY <1>3, <1>4, <1>6, <1>21, <2>1 DEF Record, Persisted, St, Executing
  <2>3. CASE mem' = mem
    BY <1>1, <1>2, <2>1, <2>2, <2>3 DEF CandidateFor, HasCandidate
  <2>4. CASE mem' = [mem EXCEPT ![e] = [mem[e] EXCEPT !.res = "failed", !.next = Submit]]
    <3>1. mem'[e].step = Submit /\ mem'[e].res = "failed"
      BY <1>1, <2>1, <2>4 DEF TypeOK, Memories
    <3> QED BY <2>2, <3>1 DEF CandidateFor, HasCandidate
  <2> QED BY <1>21, <2>3, <2>4 DEF Record
<1>22. CASE Result(e)
  <2>1. /\ pc[e] = "result" /\ pc'[e] \in {"loop", "release"}
    BY <1>1, <1>22 DEF Result, SaveThen, TypeOK
  <2>2. CASE mem[e].ctx /\ mem[e].res = "completed"
    <3>1. HasCandidate(mem[e].next, mem[e].st)
      BY <1>1, <2>1, <2>2 DEF CandidateFor
    <3>2. mem'[e].step = mem[e].next /\ mem'[e].st = mem[e].st
      <4>1. mem' = [mem EXCEPT ![e] = [mem[e] EXCEPT !.step = mem[e].next, !.res = "none"]]
        BY <1>22, <2>2 DEF Result
      <4> QED BY <1>1, <4>1 DEF TypeOK, Memories
    <3>3. \/ row' = row
          \/ row' = [status |-> "running", step |-> mem[e].next, st |-> mem[e].st]
      BY <1>22, <2>2 DEF Result, SaveThen
    <3> QED BY <1>2, <1>4, <2>1, <3>1, <3>2, <3>3 DEF CandidateFor, CandidateInRow, HasCandidate
  <2>3. CASE ~(mem[e].ctx /\ mem[e].res = "completed")
    <3>1. mem' = mem
      BY <1>22, <2>3 DEF Result
    <3>2. \/ row' = row
          \/ \E status \in {"failed", "waiting_decision", "waiting_external"} :
                row' = [status |-> status, step |-> mem[e].step, st |-> mem[e].st]
      BY <1>22, <2>3 DEF Result, SaveThen
    <3> QED BY <1>1, <1>2, <1>4, <2>1, <3>1, <3>2 DEF CandidateFor, CandidateInRow, HasCandidate
  <2> QED BY <2>2, <2>3
<1>23. CASE RetryCheck(e)
  <2>1. /\ pc'[e] \in {"release", "retrySave"} /\ ~mem[e].st.done
        /\ Holds(e) => row.st = mem[e].st /\ row.status = "failed"
    BY <1>1, <1>23 DEF RetryCheck, SaveThen, TypeOK, Stale, InSync, RowOf
  <2>2. CASE mem' = mem /\ row' = row
    BY <1>1, <1>2, <1>4, <2>1, <2>2 DEF CandidateFor, HasCandidate
  <2>3. CASE mem' = [mem EXCEPT ![e] = [mem[e] EXCEPT !.step = Submit, !.st.reconcile = TRUE]] /\ row' = row
    <3>1. mem'[e].step = Submit
      BY <1>1, <2>3 DEF TypeOK, Memories
    <3> QED BY <1>4, <2>1, <2>3, <3>1 DEF CandidateFor, HasCandidate
  <2>4. CASE /\ St(e).job < MaxJob
             /\ mem' = [mem EXCEPT ![e] = [mem[e] EXCEPT !.step = Submit, !.st = NextEncode(St(e))]]
             /\ SaveThen(e, [row EXCEPT !.st = NextEncode(St(e))], "retrySave")
    <3>1. mem'[e].step = Submit
      BY <1>1, <2>4 DEF TypeOK, Memories
    <3>2. NextEncode(St(e)).skip = mem[e].st.skip
      BY <1>3, <1>15 DEF NextEncode, ClearAttempt, States
    <3>3. CandidateInRow'
      <4>1. CASE ~Holds(e)
        BY <1>4, <2>4, <4>1 DEF SaveThen
      <4>2. CASE Holds(e)
        <5>1. /\ row'.step = row.step /\ row'.status = row.status /\ row'.st.skip = mem[e].st.skip
          BY <1>1, <2>4, <3>2, <4>2 DEF SaveThen, TypeOK, Rows
        <5> QED BY <1>1, <2>1, <4>2, <5>1 DEF CandidateInRow, HasCandidate
      <4> QED BY <4>1, <4>2
    <3> QED BY <2>1, <3>1, <3>3 DEF CandidateFor, HasCandidate
  <2> QED BY <1>23, <2>2, <2>3, <2>4 DEF RetryCheck
<1>24. CASE Cancelling(e)
  <2>1. row' = row \/ row' = [RowOf(mem[e]) EXCEPT !.status = "cancelled"]
    BY <1>24 DEF Cancelling, SaveThen
  <2>2. mem' = mem /\ pc'[e] \notin {"record", "result"}
    BY <1>1, <1>24 DEF Cancelling, SaveThen, TypeOK
  <2> QED BY <1>4, <1>5, <1>8, <2>1, <2>2
<1>25. CASE RemoteCancel(e) \/ CancelStatus(e)
  <2>1. row' = row /\ mem' = mem /\ pc'[e] \in {"release", "cancelStatus"}
    BY <1>1, <1>25 DEF RemoteCancel, CancelStatus, CancelReturns, TypeOK
  <2> QED BY <1>4, <1>8, <2>1
<1>26. CASE Release(e) \/ Crash(e)
  <2>1. row' = row /\ mem'[e] = NoMemory /\ pc'[e] = "idle"
    BY <1>1, <1>26 DEF Release, Crash, TypeOK
  <2> QED BY <1>4, <2>1 DEF NoMemory, CandidateFor, HasCandidate
<1>27. CASE CtxEnds(e)
  <2>1. row' = row /\ pc' = pc /\ mem'[e] = [mem[e] EXCEPT !.ctx = FALSE]
    BY <1>1, <1>27 DEF CtxEnds, TypeOK
  <2>2. /\ mem'[e].step = mem[e].step /\ mem'[e].st = mem[e].st
        /\ mem'[e].res = mem[e].res /\ mem'[e].next = mem[e].next
    BY <1>3, <2>1 DEF Memories
  <2> QED BY <1>1, <1>2, <1>4, <2>1, <2>2 DEF CandidateFor, HasCandidate
<1> QED
  BY <1>9, <1>10, <1>11, <1>12, <1>16, <1>17, <1>18, <1>19, <1>20, <1>21, <1>22, <1>23, <1>24,
     <1>25, <1>26, <1>27
     DEF Call, Work

\* A call reaches the worker in three places only.
QuietWork(e) ==
    \/ Resuming(e) \/ Loop(e) \/ AssignWorker(e)
    \/ RunPreflight(e) \/ RunSubmit(e) \/ Reconcile(e) \/ Admit(e) \/ Record(e)
    \/ RunWait(e) \/ RunValidate(e) \/ RunAccept(e) \/ Result(e)
    \/ RetryCheck(e) \/ RetrySave(e) \/ Cancelling(e) \/ Release(e)

LEMMA WorkSplits ==
    ASSUME NEW e \in Executors, Work(e)
    PROVE  QuietWork(e) \/ Send(e) \/ RemoteCancel(e) \/ CancelStatus(e)
BY DEF Work, QuietWork

LEMMA QuietWorkKeepsWorker ==
    ASSUME NEW e \in Executors, QuietWork(e)
    PROVE  /\ jobs' = jobs /\ inflight' = inflight /\ encoded' = encoded
           /\ confirmed' \in {confirmed, "skipped"}
<1>1. CASE Resuming(e)
  BY <1>1 DEF Resuming, workerVars
<1>2. CASE Loop(e)
  BY <1>2 DEF Loop, workerVars
<1>3. CASE AssignWorker(e)
  BY <1>3 DEF AssignWorker, workerVars
<1>4. CASE RunPreflight(e)
  BY <1>4 DEF RunPreflight, workerVars
<1>5. CASE RunSubmit(e)
  BY <1>5 DEF RunSubmit, workerVars
<1>6. CASE Reconcile(e)
  BY <1>6 DEF Reconcile, workerVars
<1>7. CASE Admit(e)
  BY <1>7 DEF Admit, workerVars
<1>8. CASE Record(e)
  BY <1>8 DEF Record, workerVars
<1>9. CASE RunWait(e)
  BY <1>9 DEF RunWait, workerVars
<1>10. CASE RunValidate(e)
  BY <1>10 DEF RunValidate, workerVars
<1>11. CASE RunAccept(e)
  BY <1>11 DEF RunAccept, workerVars
<1>12. CASE Result(e)
  BY <1>12 DEF Result, workerVars
<1>13. CASE RetryCheck(e)
  BY <1>13 DEF RetryCheck, workerVars
<1>14. CASE RetrySave(e)
  BY <1>14 DEF RetrySave, workerVars
<1>15. CASE Cancelling(e)
  BY <1>15 DEF Cancelling, workerVars
<1>16. CASE Release(e)
  BY <1>16 DEF Release, workerVars
<1> QED
  BY <1>1, <1>2, <1>3, <1>4, <1>5, <1>6, <1>7, <1>8, <1>9, <1>10, <1>11, <1>12, <1>13, <1>14, <1>15, <1>16 DEF QuietWork

LEMMA CallKeepsWorker ==
    ASSUME NEW e \in Executors, Call(e)
    PROVE  \/ /\ jobs' = jobs /\ inflight' = inflight /\ encoded' = encoded
              /\ confirmed' \in {confirmed, "skipped"}
           \/ Send(e) \/ RemoteCancel(e) \/ CancelStatus(e)
<1> USE DEF workerVars
<1>1. ASSUME NEW kind, NEW decision, NEW place, Claim(e, kind, decision, place)
      PROVE  UNCHANGED workerVars /\ confirmed' = confirmed
  BY <1>1 DEF Claim
<1>2. CASE AutoResume(e)
  BY <1>1, <1>2 DEF AutoResume
<1>3. CASE UserResume(e)
  BY <1>1, <1>3 DEF UserResume
<1>4. CASE UserRetry(e)
  BY <1>1, <1>4 DEF UserRetry
<1>5. CASE UserCancel(e)
  BY <1>1, <1>5 DEF UserCancel
<1>6. CASE Work(e)
  BY <1>6, WorkSplits, QuietWorkKeepsWorker
<1>7. CASE Crash(e)
  BY <1>7 DEF Crash
<1>8. CASE CtxEnds(e)
  BY <1>8 DEF CtxEnds
<1> QED BY <1>2, <1>3, <1>4, <1>5, <1>6, <1>7, <1>8 DEF Call, User

\* A confirmed stop is of the cancelled row's own job, which has ended.
LEMMA StoppedStep == IInv /\ [Next]_vars => StoppedStays'
<1> SUFFICES ASSUME IInv, [Next]_vars
             PROVE  StoppedStays'
  OBVIOUS
<1> USE DEF IInv
<1>1. JobsMove /\ RowMoves
  BY JobsStep, RowStep
<1>2. ASSUME confirmed' = confirmed \/ confirmed' # "stopped"
      PROVE  StoppedStays'
  <2> SUFFICES ASSUME confirmed = "stopped"
               PROVE  row'.status = "cancelled" /\ row'.st.job # 0 /\ jobs'[row'.st.job] \in Ended
    BY <1>2 DEF StoppedStays
  <2>1. row.status = "cancelled" /\ row.st.job \in Attempts /\ jobs[row.st.job] \in Ended
    BY DEF StoppedStays, TypeOK, Rows, States, Attempts
  <2>2. row' = row /\ jobs'[row.st.job] = jobs[row.st.job]
    BY <1>1, <2>1 DEF JobsMove, RowMoves
  <2> QED BY <2>1, <2>2, Constants DEF Attempts
<1>3. ASSUME NEW e \in Executors, RemoteCancel(e) \/ CancelStatus(e), confirmed' = "stopped",
             confirmed' # confirmed
      PROVE  StoppedStays'
  <2>1. row.status = "cancelled" /\ row.st.job = St(e).job /\ St(e).job # 0 /\ row' = row
    BY <1>3 DEF RemoteCancel, CancelStatus, StaleKnows, Stale, St
  <2>2. St(e).job \in Attempts
    BY <2>1, MemoryTypes DEF States, Attempts
  <2>3. jobs' = Cancelled(St(e).job) /\ jobs[St(e).job] \notin {"none", "expired"}
    BY <1>3 DEF RemoteCancel, CancelStatus, Answer, Ended, Running
  <2>4. jobs'[St(e).job] \in Ended
    BY <2>2, <2>3 DEF Cancelled, TypeOK, JobStatuses, Ended, Running
  <2> QED BY <2>1, <2>4 DEF StoppedStays
<1>4. CASE \E e \in Executors : RemoteCancel(e) \/ CancelStatus(e)
  BY <1>2, <1>3, <1>4
<1>5. CASE ~ \E e \in Executors : RemoteCancel(e) \/ CancelStatus(e)
  <2>1. CASE Enqueue \/ Expire \/ Lapse \/ UNCHANGED vars
    BY <1>2, <2>1 DEF Enqueue, Expire, Lapse, vars
  <2>2. CASE Worker
    BY <1>2, <2>2 DEF Worker, Deliver, WorkerEnds, RetentionEnds
  <2>3. ASSUME NEW e \in Executors, Call(e)
        PROVE  StoppedStays'
    <3>1. CASE Send(e)
      BY <1>2, <3>1 DEF Send
    <3> QED BY <1>2, <1>5, <2>3, <3>1, CallKeepsWorker
  <2> QED BY <2>1, <2>2, <2>3 DEF Next
<1> QED BY <1>4, <1>5

LEMMA EarlierStep == IInv /\ [Next]_vars => EarlierJobsEnded'
<1> SUFFICES ASSUME IInv, [Next]_vars
             PROVE  EarlierJobsEnded'
  OBVIOUS
<1>1. JobsMove /\ RowMoves /\ TypeOK /\ EarlierJobsEnded
  BY JobsStep, RowStep DEF IInv
<1>2. row.st.job \in 0..MaxJob /\ Attempts = 1..MaxJob
  BY <1>1 DEF TypeOK, Rows, States, Attempts
<1>3. row'.status = "none" => row'.st.job = 0
  BY <1>1 DEF RowMoves, EarlierJobsEnded
<1>4. ASSUME NEW j \in Attempts
      PROVE  /\ jobs'[j] # "none" \/ j \in inflight' => j <= row'.st.job
             /\ j < row'.st.job => jobs'[j] \in Ended
  <2>1. /\ jobs[j] \in Ended => jobs'[j] = jobs[j]
        /\ jobs'[j] # "none" \/ j \in inflight' => jobs[j] # "none" \/ j \in inflight \/ j <= row.st.job
        /\ jobs[j] # "none" \/ j \in inflight => j <= row.st.job
        /\ j < row.st.job => jobs[j] \in Ended
    BY <1>1 DEF JobsMove, EarlierJobsEnded
  <2>2. CASE row'.st.job = row.st.job
    BY <2>1, <2>2
  <2>3. CASE row'.st.job = row.st.job + 1 /\ (row.st.job # 0 => jobs[row.st.job] \in Ended)
    <3>1. j <= row.st.job => j < row.st.job \/ j = row.st.job
      BY <1>2, Constants
    <3>2. j < row'.st.job => j <= row.st.job
      BY <1>2, <2>3, Constants
    <3>3. j <= row.st.job => jobs[j] \in Ended
      BY <1>2, <2>1, <2>3, <3>1, Constants
    <3> QED BY <1>2, <2>1, <2>3, <3>2, <3>3, Constants
  <2> QED BY <1>1, <2>2, <2>3 DEF RowMoves
<1> QED BY <1>3, <1>4 DEF EarlierJobsEnded

\* What a step returns that goes on to the next one, or does not complete.
LEMMA ReturnGoesOn ==
    ASSUME TypeOK, NEW e \in Executors, NEW s,
           \/ Completes(e, s) \/ Fails(e, s) \/ AsksUser(e, s) \/ WaitsForWorker(e, s)
           \/ Unreachable(e, s) \/ StatusRefused(e, s)
    PROVE  KnowsWayBack(e)'
<1>1. mem[e].step \in Nat
  BY MemoryTypes DEF Steps, Preflight, Done
<1>2. PICK out, next : Return(e, out, s, next) /\ (out = "completed" => next = mem[e].step + 1)
  BY DEF Completes, Fails, AsksUser, WaitsForWorker, Unreachable, StatusRefused
<1>3. /\ pc'[e] = "result" /\ mem'[e].step = mem[e].step
      /\ mem'[e].res = "completed" => mem'[e].next = mem[e].step + 1
  BY <1>2 DEF Return, TypeOK, Memories
<1> QED BY <1>1, <1>3 DEF KnowsWayBack, Executing

\* A call knows of its own step where that puts the checkpoint.
LEMMA ActorWayBack ==
    ASSUME IInv, NEW e \in Executors, Call(e), Holds(e)'
    PROVE  KnowsWayBack(e)'
<1> USE DEF IInv
<1>1. TypeOK /\ Stale(e) /\ (Holds(e) => InSync(e) /\ KnowsWayBack(e))
  BY DEF HolderInSync, StaleKnows, WayBackKnown
<1>2. ASSUME pc'[e] \in Places \ (Executing \cup {"retrySave"})
      PROVE  KnowsWayBack(e)'
  BY <1>2 DEF KnowsWayBack, Executing
<1>3. CASE AutoResume(e) \/ User(e)
  <2>1. ASSUME NEW kind, NEW d, NEW place, Claim(e, kind, d, place)
        PROVE  row' = row /\ mem'[e].step = row.step /\ pc'[e] = place
    BY <1>1, <2>1 DEF Claim, TypeOK
  <2>2. /\ row' = row /\ mem'[e].step = row.step
        /\ pc'[e] \in {"resuming", "release", "retryCheck", "retrySave", "cancelling"}
    BY <1>3, <2>1 DEF AutoResume, User, UserResume, UserRetry, UserCancel
  <2> QED BY <2>2 DEF KnowsWayBack, Executing
<1>4. CASE Work(e) \/ Crash(e) \/ CtxEnds(e)
  <2>1. CASE Release(e) \/ Crash(e)
    BY <1>1, <1>2, <2>1 DEF Release, Crash, TypeOK, Places, Executing
  <2>2. Holds(e) /\ InSync(e) /\ KnowsWayBack(e)
    BY <1>1, <1>4, <2>1 DEF Work, Holds, Resuming, Loop, AssignWorker, RunPreflight, RunSubmit,
       Reconcile, Admit, Send, Record, RunWait, RunValidate, RunAccept, Result, RetryCheck, RetrySave,
       Cancelling, RemoteCancel, CancelStatus, Release, Crash, CtxEnds, SaveThen
  <2>3. ASSUME pc'[e] \in Executing \ {"result", "record"}, row'.st.expiries = mem'[e].st.expiries
        PROVE  KnowsWayBack(e)'
    BY <2>3 DEF KnowsWayBack, Executing
  <2>4. CASE Resuming(e) \/ RetrySave(e)
    <3>1. pc'[e] = "loop" /\ row'.st = mem[e].st /\ mem'[e].st = mem[e].st
      BY <1>1, <2>2, <2>4 DEF Resuming, RetrySave, SaveThen, RowOf, TypeOK, Memories
    <3> QED BY <2>3, <3>1 DEF Executing
  <2>5. CASE Loop(e)
    <3>1. \/ pc'[e] = "release"
          \/ pc'[e] = "assign" /\ row'.st = mem[e].st /\ mem'[e].st = mem[e].st
      BY <1>1, <2>2, <2>5 DEF Loop, SaveThen, RowOf, TypeOK, Memories
    <3> QED BY <1>2, <2>3, <3>1 DEF Executing, Places
  <2>6. CASE AssignWorker(e)
    <3> DEFINE s == [St(e) EXCEPT !.worker = TRUE]
    <3>1. row.st.expiries = mem[e].st.expiries
      BY <2>2, <2>6 DEF AssignWorker, KnowsWayBack, Executing
    <3>2. CASE UNCHANGED <<row, mem>> /\ pc' = [pc EXCEPT ![e] = "run"]
      BY <1>1, <2>3, <3>1, <3>2 DEF TypeOK, Executing
    <3>3. CASE row' = Persisted(e, s) /\ mem' = [mem EXCEPT ![e].st = s] /\ pc' = [pc EXCEPT ![e] = "run"]
      <4>1. row'.st = s /\ mem'[e].st = s /\ pc'[e] = "run"
        BY <1>1, <2>2, <3>3 DEF Persisted, TypeOK, Rows, Memories
      <4> QED BY <2>3, <4>1 DEF Executing
    <3>4. CASE Return(e, "external", St(e), mem[e].step)
      <4>1. pc'[e] = "result" /\ mem'[e].res = "external"
        BY <1>1, <3>4 DEF Return, TypeOK, Memories
      <4> QED BY <4>1 DEF KnowsWayBack, Executing
    <3> QED BY <2>6, <3>2, <3>3, <3>4 DEF AssignWorker
  <2>7. CASE RunPreflight(e) \/ RunValidate(e) \/ RunAccept(e)
    BY <1>1, <2>7, ReturnGoesOn DEF RunPreflight, RunValidate, RunAccept
  <2>8. CASE RunSubmit(e)
    <3>1. CASE Completes(e, St(e))
      BY <1>1, <3>1, ReturnGoesOn
    <3>2. CASE UNCHANGED <<row, mem>> /\ pc'[e] \in {"reconcile", "admit"}
      BY <2>2, <2>3, <2>8, <3>2 DEF RunSubmit, KnowsWayBack, Executing
    <3> QED BY <1>1, <2>8, <3>1, <3>2 DEF RunSubmit, TypeOK
  <2>9. CASE Reconcile(e)
    <3> DEFINE found == [St(e) EXCEPT !.job = Job(e), !.submitted = TRUE, !.reconcile = FALSE, !.rejected = FALSE]
               lost == [St(e) EXCEPT !.reconcile = FALSE]
    <3>1. CASE Unreachable(e, St(e)) \/ StatusRefused(e, St(e))
      BY <1>1, <3>1, ReturnGoesOn
    <3>2. CASE UNCHANGED row /\ mem' = [mem EXCEPT ![e].st = lost] /\ pc' = [pc EXCEPT ![e] = "admit"]
      <4>1. lost.expiries = mem[e].st.expiries
        BY MemoryTypes DEF States, St
      <4>2. mem'[e].st = lost /\ pc'[e] = "admit"
        BY <1>1, <3>2 DEF TypeOK, Memories
      <4> QED BY <2>2, <2>3, <2>9, <3>2, <4>1, <4>2 DEF Reconcile, KnowsWayBack, Executing
    <3>3. CASE Return(e, "completed", found, Wait)
      <4>1. pc'[e] = "result" /\ mem'[e].step = mem[e].step /\ mem'[e].next = Wait
        BY <1>1, <3>3 DEF Return, TypeOK, Memories
      <4>2. mem[e].step = Submit
        BY <1>1, <2>9 DEF Reconcile, Stale
      <4> QED BY <4>1, <4>2 DEF KnowsWayBack, Executing, Wait, Submit
    <3> QED BY <2>2, <2>9, <3>1, <3>2, <3>3 DEF Reconcile
  <2>10. CASE Admit(e)
    <3> DEFINE id == [St(e) EXCEPT !.job = Job(e), !.reconcile = TRUE, !.rejected = FALSE]
    <3>1. CASE Unreachable(e, St(e)) \/ Fails(e, St(e))
      BY <1>1, <3>1, ReturnGoesOn
    <3>2. CASE row' = Persisted(e, id) /\ mem' = [mem EXCEPT ![e].st = id] /\ pc' = [pc EXCEPT ![e] = "send"]
      <4>1. row'.st = id /\ mem'[e].st = id /\ pc'[e] = "send"
        BY <1>1, <2>2, <3>2 DEF Persisted, TypeOK, Rows, Memories
      <4> QED BY <2>3, <4>1 DEF Executing
    <3> QED BY <2>2, <2>10, <3>1, <3>2 DEF Admit
  <2>11. CASE Send(e)
    <3>1. /\ mem'[e].res = "completed" => mem'[e].next = Wait
          /\ pc'[e] = "record" /\ row' = row /\ mem'[e].st.expiries = mem[e].st.expiries
      BY <1>1, <2>11, SendKeeps
    <3>2. row.st.expiries = mem[e].st.expiries
      BY <2>2, <2>11 DEF Send, KnowsWayBack, Executing
    <3> QED BY <3>1, <3>2 DEF KnowsWayBack, Executing
  <2>12. CASE Record(e)
    <3>1. mem' = mem /\ pc'[e] = "result"
      BY <1>1, <2>2, <2>12 DEF Record, TypeOK
    <3>2. mem[e].step = Submit /\ (mem[e].res = "completed" => mem[e].next = Wait)
      BY <1>1, <2>2, <2>12 DEF Record, Stale, KnowsWayBack
    <3> QED BY <3>1, <3>2 DEF KnowsWayBack, Executing, Submit, Wait
  <2>13. CASE RunWait(e)
    <3>1. /\ row' = row /\ row.st.job = mem[e].st.job /\ row.st.expiries = mem[e].st.expiries
          /\ St(e) \in States /\ St(e) = mem[e].st
      BY <2>2, <2>13, MemoryTypes DEF RunWait, InSync, KnowsWayBack, Executing, St
    <3>2. CASE \E s : \/ Completes(e, s) \/ Fails(e, s) \/ AsksUser(e, s) \/ WaitsForWorker(e, s)
                      \/ Unreachable(e, s) \/ StatusRefused(e, s)
      BY <1>1, <3>2, ReturnGoesOn
    <3>3. ASSUME NEW s, Return(e, "completed", s, Submit),
                 s.job > row.st.job \/ s.expiries > row.st.expiries
          PROVE  KnowsWayBack(e)'
      <4>1. pc'[e] = "result" /\ mem'[e].st = s /\ mem'[e].next = Submit
        BY <1>1, <3>3 DEF Return, TypeOK, Memories
      <4> QED BY <3>1, <3>3, <4>1 DEF KnowsWayBack, Executing
    <3>4. CASE Return(e, "completed", [ClearAttempt(St(e)) EXCEPT !.expiries = @ + 1], Submit)
      <4> DEFINE s == [ClearAttempt(St(e)) EXCEPT !.expiries = @ + 1]
      <4>1. St(e).expiries \in Nat
        BY <3>1, Constants DEF States
      <4>2. s.expiries = St(e).expiries + 1
        BY <3>1 DEF ClearAttempt, States
      <4>3. s.expiries > row.st.expiries
        BY <3>1, <4>1, <4>2
      <4>4. Return(e, "completed", s, Submit)
        BY <3>4
      <4> HIDE DEF s
      <4> QED BY <3>3, <4>3, <4>4
    <3>5. CASE Return(e, "completed", NextEncode(St(e)), Submit)
      <4>1. St(e).job \in Nat
        BY <3>1, Constants DEF States
      <4>2. NextEncode(St(e)).job = St(e).job + 1
        BY <3>1 DEF NextEncode, ClearAttempt, States
      <4> QED BY <3>1, <3>3, <3>5, <4>1, <4>2
    <3> QED BY <2>13, <3>2, <3>4, <3>5 DEF RunWait
  <2>14. CASE Result(e)
    <3>1. CASE pc'[e] = "release"
      BY <1>2, <3>1 DEF Executing, Places
    <3>2. CASE /\ row' = [status |-> "running", step |-> mem[e].next, st |-> mem[e].st]
               /\ pc' = [pc EXCEPT ![e] = "loop"]
               /\ mem' = [mem EXCEPT ![e] = [mem[e] EXCEPT !.step = mem[e].next, !.res = "none"]]
      <4>1. mem'[e].st = mem[e].st /\ pc'[e] = "loop" /\ row'.st = mem[e].st
        BY <1>1, <3>2 DEF TypeOK, Memories
      <4> QED BY <2>3, <4>1 DEF Executing
    <3> QED BY <1>1, <2>2, <2>14, <3>1, <3>2 DEF Result, SaveThen, TypeOK
  <2>15. CASE RetryCheck(e)
    <3>1. CASE pc'[e] = "release"
      BY <1>2, <3>1 DEF Executing, Places
    <3>2. ASSUME NEW s, mem' = [mem EXCEPT ![e] = [mem[e] EXCEPT !.step = Submit, !.st = s]],
                 pc' = [pc EXCEPT ![e] = "retrySave"]
          PROVE  KnowsWayBack(e)'
      <4>1. mem'[e].step = Submit /\ pc'[e] = "retrySave"
        BY <1>1, <3>2 DEF TypeOK, Memories
      <4> QED BY <4>1 DEF KnowsWayBack, Executing
    <3>3. CASE /\ mem' = [mem EXCEPT ![e] = [mem[e] EXCEPT !.step = Submit, !.st.reconcile = TRUE]]
               /\ pc' = [pc EXCEPT ![e] = "retrySave"]
      <4>1. mem'[e].step = Submit /\ pc'[e] = "retrySave"
        BY <1>1, <3>3 DEF TypeOK, Memories
      <4> QED BY <4>1 DEF KnowsWayBack, Executing
    <3> QED BY <1>1, <2>2, <2>15, <3>1, <3>2, <3>3 DEF RetryCheck, SaveThen, TypeOK
  <2>16. CASE Cancelling(e) \/ RemoteCancel(e) \/ CancelStatus(e)
    BY <1>1, <1>2, <2>16
       DEF Cancelling, SaveThen, RemoteCancel, CancelStatus, CancelReturns, TypeOK, Places, Executing
  <2>17. CASE CtxEnds(e)
    <3>1. /\ row' = row /\ pc' = pc
          /\ mem'[e].st = mem[e].st /\ mem'[e].step = mem[e].step
          /\ mem'[e].res = mem[e].res /\ mem'[e].next = mem[e].next
      BY <1>1, <2>17 DEF CtxEnds, TypeOK, Memories
    <3> QED BY <2>2, <3>1 DEF KnowsWayBack
  <2> QED
    BY <1>4, <2>1, <2>4, <2>5, <2>6, <2>7, <2>8, <2>9, <2>10, <2>11, <2>12, <2>13, <2>14, <2>15,
       <2>16, <2>17 DEF Work
<1> QED BY <1>3, <1>4 DEF Call

\* An executor that does not act keeps what it knew.
LEMMA BystanderKnows ==
    ASSUME IInv, [Next]_vars, NEW k \in Executors, pc'[k] = pc[k], mem'[k] = mem[k]
    PROVE  /\ Stale(k)'
           /\ CandidateFor(k)'
           /\ InSync(k) /\ (row' = row \/ row.status = "none") => InSync(k)'
           /\ InSync(k) /\ KnowsWayBack(k) /\ (row' = row \/ row.status = "none") => KnowsWayBack(k)'
<1>1. JobsMove /\ RowMoves /\ TypeOK /\ Stale(k) /\ CandidateFor(k)
  BY JobsStep, RowStep DEF IInv, StaleKnows, CandidateBehind, CandidateFor
<1>2. /\ row.st.job \in 0..MaxJob /\ row'.st.job \in 0..(MaxJob + 1) /\ row'.st.job >= row.st.job
      /\ Attempts = 1..MaxJob /\ mem[k].st.job \in 0..MaxJob
  <2>1. row.st \in States /\ mem[k].st \in States
    BY <1>1, MemoryTypes
  <2>2. row.st.job \in 0..MaxJob /\ mem[k].st.job \in 0..MaxJob
    BY <2>1 DEF States
  <2> QED BY <1>1, <2>2, Constants DEF Attempts, RowMoves
<1>3. Stale(k)'
  <2>1. mem[k].st.job \in 1..row.st.job => mem[k].st.job \in 1..row'.st.job
    BY <1>2, Constants
  <2>2. row.status = "cancelled" => row' = row
    BY <1>1 DEF RowMoves
  <2> QED BY <1>1, <2>1, <2>2 DEF Stale
<1>4. CandidateFor(k)'
  BY <1>1 DEF CandidateFor, HasCandidate, JobsMove
<1>5. ASSUME InSync(k), row' = row
      PROVE  InSync(k)'
  <2>1. row.st.job # 0 /\ jobs[row.st.job] \in Ended => jobs'[row.st.job] \in Ended
    BY <1>1, <1>2, Constants DEF JobsMove
  <2> QED BY <1>5, <2>1 DEF InSync, RowOf
<1>6. ASSUME InSync(k), row.status = "none"
      PROVE  InSync(k)'
  BY <1>6 DEF InSync, Open, Executing
<1>7. ASSUME InSync(k), KnowsWayBack(k), row' = row \/ row.status = "none"
      PROVE  KnowsWayBack(k)'
  BY <1>7 DEF InSync, KnowsWayBack, Executing
<1> QED BY <1>3, <1>4, <1>5, <1>6, <1>7

-----------------------------------------------------------------------------
(* A wait for a job that was not sent is for one the worker never heard of:   *)
(* only an identity that was just taken is waited for unsent, and a call goes *)
(* on to send one only while the row stands at the submit.                    *)

\* The identity after the row's is one the worker never heard of.
LEMMA NextIsUnheard ==
    ASSUME IInv, row.st.job < MaxJob
    PROVE  Unheard(row.st.job + 1)
<1>1. /\ row.st.job \in 0..MaxJob /\ Attempts = 1..MaxJob /\ row.st.job + 1 \in Attempts
      /\ ~(row.st.job + 1 <= row.st.job)
  BY Constants DEF IInv, TypeOK, Rows, States, Attempts
<1>2. jobs[row.st.job + 1] = "none" /\ row.st.job + 1 \notin inflight
  BY <1>1 DEF IInv, EarlierJobsEnded
<1>3. ASSUME NEW e \in Executors, pc[e] = "send"
      PROVE  mem[e].st.job # row.st.job + 1
  <2>1. mem[e].st.job \in 1..row.st.job
    BY <1>3 DEF IInv, StaleKnows, Stale
  <2> QED BY <1>1, <2>1
<1> QED BY <1>2, <1>3 DEF Unheard

\* A call that is about to send was so before, or has just stored the identity
\* under its lease.
LEMMA SendEntered ==
    ASSUME IInv, NEW e \in Executors, Call(e), pc'[e] = "send"
    PROVE  \/ pc[e] = "send" /\ mem'[e].st = mem[e].st
           \/ /\ Holds(e) /\ lease' = lease
              /\ row'.step = Submit /\ mem'[e].step = Submit
<1>1. TypeOK /\ Stale(e) /\ (Holds(e) => InSync(e))
  BY DEF IInv, HolderInSync, StaleKnows
<1>2. CASE Admit(e)
  <2>1. /\ Holds(e) /\ row'.step = row.step /\ mem'[e].step = mem[e].step /\ lease' = lease
    BY <1>1, <1>2 DEF Admit, Unreachable, Fails, Return, Persisted, TypeOK, Rows, Memories
  <2>2. mem[e].step = Submit /\ row.step = Submit
    BY <1>1, <1>2, <2>1 DEF Admit, Stale, InSync, Executing
  <2> QED BY <2>1, <2>2
<1>3. CASE CtxEnds(e)
  BY <1>1, <1>3 DEF CtxEnds, TypeOK, Memories
<1>4. CASE AutoResume(e) \/ User(e) \/ Crash(e)
  BY <1>1, <1>4 DEF AutoResume, User, UserResume, UserRetry, UserCancel, Claim, Crash, TypeOK
<1>5. CASE Resuming(e) \/ Loop(e) \/ AssignWorker(e) \/ Result(e) \/ RetryCheck(e) \/ RetrySave(e)
           \/ Cancelling(e) \/ RemoteCancel(e) \/ CancelStatus(e) \/ Release(e)
  BY <1>1, <1>5 DEF Resuming, Loop, AssignWorker, Result, RetryCheck, RetrySave, Cancelling,
     RemoteCancel, CancelStatus, CancelReturns, Release, SaveThen, Return, TypeOK
<1>6. CASE RunPreflight(e) \/ RunSubmit(e) \/ Reconcile(e) \/ Send(e) \/ Record(e) \/ RunWait(e)
           \/ RunValidate(e) \/ RunAccept(e)
  BY <1>1, <1>6 DEF RunPreflight, RunSubmit, Reconcile, Send, Record, RunWait, RunValidate, RunAccept,
     Completes, Fails, AsksUser, WaitsForWorker, Unreachable, StatusRefused, Return, TypeOK
<1> QED BY <1>2, <1>3, <1>4, <1>5, <1>6 DEF Call, Work

\* The worker hears of an identity only from who is about to send it.
LEMMA UnheardStays ==
    ASSUME IInv, [Next]_vars, NEW j \in Attempts, Unheard(j),
           \A e \in Executors : pc'[e] = "send" => pc[e] = "send" /\ mem'[e].st = mem[e].st
    PROVE  Unheard(j)'
<1>1. TypeOK /\ jobs[j] = "none" /\ j \notin inflight
      /\ \A e \in Executors : pc[e] = "send" => mem[e].st.job # j
  BY DEF IInv, Unheard
<1>2. \A e \in Executors : pc'[e] = "send" => mem'[e].st.job # j
  BY <1>1
<1>3. SUFFICES jobs'[j] = "none" /\ j \notin inflight'
  BY <1>2 DEF Unheard
<1>4. ASSUME UNCHANGED <<jobs, inflight>>
      PROVE  jobs'[j] = "none" /\ j \notin inflight'
  BY <1>1, <1>4
<1>5. CASE Worker
  BY <1>1, <1>5 DEF Worker, Deliver, WorkerEnds, RetentionEnds, Accepted, TypeOK
<1>6. ASSUME NEW e \in Executors, Send(e)
      PROVE  jobs'[j] = "none" /\ j \notin inflight'
  BY <1>1, <1>6 DEF Send, St, Accepted, TypeOK
<1>7. ASSUME NEW e \in Executors, RemoteCancel(e) \/ CancelStatus(e)
      PROVE  jobs'[j] = "none" /\ j \notin inflight'
  BY <1>1, <1>7 DEF RemoteCancel, CancelStatus, Cancelled, Running, TypeOK
<1>8. ASSUME NEW e \in Executors, Call(e), ~Send(e), ~RemoteCancel(e), ~CancelStatus(e)
      PROVE  jobs'[j] = "none" /\ j \notin inflight'
  BY <1>4, <1>8, CallKeepsWorker DEF workerVars
<1>9. CASE Enqueue \/ Expire \/ Lapse \/ UNCHANGED vars
  BY <1>4, <1>9 DEF Enqueue, Expire, Lapse, vars, workerVars
<1> QED BY <1>5, <1>6, <1>7, <1>8, <1>9 DEF Next

\* What a call leaves in the row and keeps in memory, about what was heard so far.
RowWaits == UnsentWait(row'.step, row'.st) => Unheard(row'.st.job)
MemoryWaits(e) == UnsentWait(mem'[e].step, mem'[e].st) => Unheard(mem'[e].st.job)
GoesOnSent(e) ==
    pc[e] \in {"record", "result"} /\ mem[e].res = "completed" => ~UnsentWait(mem[e].next, mem[e].st)

\* A step's return: nothing is saved yet.
LEMMA ReturnWaits ==
    ASSUME IInv, NEW e \in Executors, NEW out, NEW s, NEW next, Return(e, out, s, next), row' = row,
           UnsentWait(mem[e].step, s) => Unheard(s.job),
           out = "completed" => ~UnsentWait(next, s)
    PROVE  RowWaits /\ MemoryWaits(e) /\ GoesOnSent(e)'
<1>1. pc'[e] = "result" /\ mem'[e].st = s /\ mem'[e].step = mem[e].step
      /\ mem'[e].res = out /\ mem'[e].next = next
  BY DEF Return, IInv, TypeOK, Memories
<1> QED BY <1>1 DEF RowWaits, MemoryWaits, GoesOnSent, IInv, UnsentUnheard

LEMMA ActorWaits ==
    ASSUME IInv, NEW e \in Executors, Call(e)
    PROVE  RowWaits /\ (Holds(e)' => MemoryWaits(e) /\ GoesOnSent(e)')
<1>1. /\ TypeOK /\ Stale(e) /\ (Holds(e) => InSync(e) /\ KnowsWayBack(e))
      /\ UnsentWait(row.step, row.st) => Unheard(row.st.job)
      /\ Holds(e) => UnsentFor(e)
  BY DEF IInv, HolderInSync, StaleKnows, WayBackKnown, UnsentUnheard
<1>2. ASSUME row' = row \/ (row'.step = mem[e].step /\ row'.st = mem[e].st /\ Holds(e)),
             mem'[e].step = mem[e].step, mem'[e].st = mem[e].st,
             pc'[e] \notin {"record", "result"} \/ (pc'[e] = pc[e] /\ mem'[e].res = mem[e].res
                                                     /\ mem'[e].next = mem[e].next),
             Holds(e)' => Holds(e)
      PROVE  RowWaits /\ (Holds(e)' => MemoryWaits(e) /\ GoesOnSent(e)')
  BY <1>1, <1>2 DEF RowWaits, MemoryWaits, GoesOnSent, UnsentFor
<1>3. CASE AutoResume(e) \/ User(e)
  <2>1. ASSUME NEW kind, NEW d, NEW place, Claim(e, kind, d, place)
        PROVE  row' = row /\ mem'[e].step = row.step /\ mem'[e].st = row.st /\ pc'[e] = place
    BY <1>1, <2>1 DEF Claim, TypeOK
  <2>2. /\ row' = row /\ mem'[e].step = row.step /\ mem'[e].st = row.st
        /\ pc'[e] \in {"resuming", "release", "retryCheck", "retrySave", "cancelling"}
    BY <1>3, <2>1 DEF AutoResume, User, UserResume, UserRetry, UserCancel
  <2> QED BY <1>1, <2>2 DEF RowWaits, MemoryWaits, GoesOnSent
<1>4. CASE Release(e) \/ Crash(e)
  <2>1. row' = row /\ mem'[e] = NoMemory /\ pc'[e] = "idle"
    BY <1>1, <1>4 DEF Release, Crash, TypeOK
  <2> QED BY <1>1, <2>1 DEF RowWaits, MemoryWaits, GoesOnSent, UnsentWait, NoMemory
<1>5. ASSUME Work(e) \/ CtxEnds(e), ~Release(e)
      PROVE  RowWaits /\ (Holds(e)' => MemoryWaits(e) /\ GoesOnSent(e)')
  <2>1. lease' = lease
    BY <1>5 DEF Work, Resuming, Loop, AssignWorker, RunPreflight, RunSubmit, Reconcile, Admit, Send,
       Record, RunWait, RunValidate, RunAccept, Result, RetryCheck, RetrySave, Cancelling, RemoteCancel,
       CancelStatus, CtxEnds
  <2>2. CASE ~Holds(e)
    BY <1>1, <2>1, <2>2, OnlyActor DEF Call, Holds, RowWaits
  <2>3. CASE Holds(e)
    <3>1. /\ InSync(e) /\ KnowsWayBack(e) /\ St(e) = mem[e].st /\ St(e) \in States /\ row.st \in States
          /\ UnsentWait(mem[e].step, St(e)) => Unheard(St(e).job)
          /\ GoesOnSent(e)
      BY <1>1, <2>3, MemoryTypes DEF UnsentFor, GoesOnSent, St
    <3>2. ASSUME NEW out, NEW s, NEW next, Return(e, out, s, next), row' = row,
                 UnsentWait(mem[e].step, s) => Unheard(s.job),
                 out = "completed" => ~UnsentWait(next, s)
          PROVE  RowWaits /\ (Holds(e)' => MemoryWaits(e) /\ GoesOnSent(e)')
      BY <3>2, ReturnWaits
    <3>3. ASSUME NEW s, row' = row, mem[e].step \in Steps,
                 UnsentWait(mem[e].step, s) => Unheard(s.job),
                 \/ Completes(e, s) /\ ~UnsentWait(mem[e].step + 1, s)
                 \/ Fails(e, s) \/ AsksUser(e, s) \/ WaitsForWorker(e, s)
                 \/ Unreachable(e, s) \/ StatusRefused(e, s)
          PROVE  RowWaits /\ (Holds(e)' => MemoryWaits(e) /\ GoesOnSent(e)')
      BY <3>2, <3>3 DEF Completes, Fails, AsksUser, WaitsForWorker, Unreachable, StatusRefused
    <3>4. mem[e].step \in Steps
      BY <1>1, MemoryTypes
    <3>5. CASE Resuming(e) \/ RetrySave(e) \/ Loop(e)
      <4>1. /\ row' = row \/ (row'.step = mem[e].step /\ row'.st = mem[e].st)
            /\ mem'[e].step = mem[e].step /\ mem'[e].st = mem[e].st
            /\ pc'[e] \notin {"record", "result"}
        BY <1>1, <2>3, <3>5 DEF Resuming, RetrySave, Loop, SaveThen, RowOf, TypeOK, Memories
      <4> QED BY <1>2, <2>1, <2>3, <4>1 DEF Holds
    <3>6. CASE AssignWorker(e)
      <4> DEFINE s == [St(e) EXCEPT !.worker = TRUE]
      <4>1. CASE UNCHANGED <<row, mem>> /\ pc' = [pc EXCEPT ![e] = "run"]
        BY <1>1, <1>2, <2>1, <2>3, <4>1 DEF Holds, TypeOK
      <4>2. CASE row' = Persisted(e, s) /\ mem' = [mem EXCEPT ![e].st = s] /\ pc' = [pc EXCEPT ![e] = "run"]
        <5>1. row.step = mem[e].step
          BY <3>1, <3>6 DEF AssignWorker, InSync, Executing
        <5>2. /\ row'.step = mem[e].step /\ row'.st = s
              /\ mem'[e].step = mem[e].step /\ mem'[e].st = s /\ pc'[e] = "run"
          BY <1>1, <2>3, <4>2, <5>1 DEF Persisted, TypeOK, Rows, Memories
        <5>3. s.skip = St(e).skip /\ s.submitted = St(e).submitted /\ s.job = St(e).job /\ s.expiries = St(e).expiries
          BY <3>1 DEF States
        <5> HIDE DEF s
        <5> QED BY <3>1, <5>2, <5>3 DEF RowWaits, MemoryWaits, GoesOnSent, UnsentWait
      <4>3. CASE Return(e, "external", St(e), mem[e].step) /\ row' = row
        BY <3>1, <3>2, <4>3
      <4> QED BY <3>6, <4>1, <4>2, <4>3 DEF AssignWorker
    <3>7. CASE RunPreflight(e)
      <4>1. mem[e].step = Preflight /\ row' = row
        BY <3>7 DEF RunPreflight
      <4>2. \A s : ~UnsentWait(mem[e].step, s) /\ ~UnsentWait(mem[e].step + 1, s)
        BY <4>1 DEF UnsentWait
      <4> QED BY <3>3, <3>4, <3>7, <4>1, <4>2 DEF RunPreflight
    <3>8. CASE RunSubmit(e)
      <4>1. CASE Completes(e, St(e)) /\ (St(e).skip \/ St(e).submitted)
        BY <3>1, <3>3, <3>4, <3>8, <4>1 DEF RunSubmit, UnsentWait
      <4>2. CASE UNCHANGED <<row, mem>> /\ pc'[e] \in {"reconcile", "admit"}
        BY <1>2, <2>1, <2>3, <4>2 DEF Holds
      <4> QED BY <1>1, <3>8, <4>1, <4>2 DEF RunSubmit, TypeOK
    <3>9. CASE Reconcile(e)
      <4> DEFINE found == [St(e) EXCEPT !.job = Job(e), !.submitted = TRUE, !.reconcile = FALSE, !.rejected = FALSE]
                 lost == [St(e) EXCEPT !.reconcile = FALSE]
      <4>1. mem[e].step = Submit /\ \A s : ~UnsentWait(mem[e].step, s)
        BY <1>1, <3>9 DEF Reconcile, Stale, UnsentWait
      <4>2. CASE (Unreachable(e, St(e)) \/ StatusRefused(e, St(e))) /\ row' = row
        BY <3>3, <3>4, <4>1, <4>2
      <4>3. CASE UNCHANGED row /\ mem' = [mem EXCEPT ![e].st = lost] /\ pc' = [pc EXCEPT ![e] = "admit"]
        <5>1. mem'[e].step = mem[e].step /\ pc'[e] = "admit" /\ row' = row
          BY <1>1, <4>3 DEF TypeOK, Memories
        <5> QED BY <1>1, <4>1, <5>1 DEF RowWaits, MemoryWaits, GoesOnSent
      <4>4. CASE row' = Persisted(e, found) /\ Return(e, "completed", found, Wait)
        <5>1. found.submitted
          BY <3>1 DEF States
        <5>2. row'.st = found
          BY <1>1, <2>3, <4>4 DEF Persisted, TypeOK, Rows
        <5>3. pc'[e] = "result" /\ mem'[e].st = found
          BY <1>1, <4>4 DEF Return, TypeOK, Memories
        <5> QED BY <5>1, <5>2, <5>3 DEF RowWaits, MemoryWaits, GoesOnSent, UnsentWait
      <4> QED BY <2>3, <3>9, <4>2, <4>3, <4>4 DEF Reconcile
    <3>10. CASE Admit(e)
      <4> DEFINE id == [St(e) EXCEPT !.job = Job(e), !.reconcile = TRUE, !.rejected = FALSE]
      <4>1. mem[e].step = Submit /\ row.step = Submit /\ \A s : ~UnsentWait(mem[e].step, s)
        BY <1>1, <3>1, <3>10 DEF Admit, Stale, InSync, Executing, UnsentWait
      <4>2. CASE (Unreachable(e, St(e)) \/ Fails(e, St(e))) /\ row' = row
        BY <3>3, <3>4, <4>1, <4>2
      <4>3. CASE row' = Persisted(e, id) /\ mem' = [mem EXCEPT ![e].st = id] /\ pc' = [pc EXCEPT ![e] = "send"]
        <5>1. row'.step = Submit /\ mem'[e].step = mem[e].step /\ pc'[e] = "send"
          BY <1>1, <2>3, <4>1, <4>3 DEF Persisted, TypeOK, Rows, Memories
        <5> QED BY <4>1, <5>1 DEF RowWaits, MemoryWaits, GoesOnSent
      <4> QED BY <2>3, <3>10, <4>2, <4>3 DEF Admit
    <3>11. CASE Send(e)
      <4>1. mem[e].step = Submit /\ \A s : ~UnsentWait(mem[e].step, s)
        BY <1>1, <3>11 DEF Send, Stale, UnsentWait
      <4>2. /\ mem'[e].step = mem[e].step /\ pc'[e] = "record" /\ row' = row
            /\ mem'[e].res = "completed" => mem'[e].st.submitted
        BY <1>1, <3>11, SendKeeps
      <4> QED BY <1>1, <4>1, <4>2 DEF RowWaits, MemoryWaits, GoesOnSent, UnsentWait
    <3>12. CASE Record(e)
      <4>1. mem[e].step = Submit /\ row.step = Submit
        BY <1>1, <3>1, <3>12 DEF Record, Stale, InSync, Executing
      <4>2. row'.step = Submit /\ mem' = mem /\ pc'[e] = "result" /\ pc[e] = "record"
        BY <1>1, <2>3, <3>12, <4>1 DEF Record, Persisted, TypeOK, Rows
      <4> QED BY <3>1, <4>1, <4>2 DEF RowWaits, MemoryWaits, GoesOnSent, UnsentWait
    <3>13. CASE RunWait(e)
      <4> DEFINE rewind == [ClearAttempt(St(e)) EXCEPT !.expiries = @ + 1]
                 skipped == [St(e) EXCEPT !.skip = TRUE]
                 done == [St(e) EXCEPT !.done = TRUE]
      <4>1. /\ mem[e].step = Wait /\ row' = row /\ row.st.job = St(e).job
            /\ \A s : ~UnsentWait(mem[e].step + 1, s) /\ ~UnsentWait(Submit, s)
        BY <3>1, <3>13 DEF RunWait, InSync, Executing, UnsentWait
      <4>2. CASE \/ Completes(e, St(e)) \/ Fails(e, St(e)) \/ AsksUser(e, St(e))
                 \/ WaitsForWorker(e, St(e)) \/ Unreachable(e, St(e)) \/ StatusRefused(e, St(e))
        BY <3>1, <3>3, <3>4, <4>1, <4>2
      <4>3. CASE Completes(e, done)
        <5>1. /\ done.skip = St(e).skip /\ done.submitted = St(e).submitted
              /\ done.job = St(e).job /\ done.expiries = St(e).expiries
          BY <3>1 DEF States
        <5>2. UnsentWait(mem[e].step, done) => Unheard(done.job)
          BY <3>1, <5>1 DEF UnsentWait
        <5> HIDE DEF done
        <5> QED BY <3>3, <3>4, <4>1, <4>3, <5>2
      <4>4. CASE Completes(e, skipped)
        <5>1. skipped.skip
          BY <3>1 DEF States
        <5> HIDE DEF skipped
        <5> QED BY <3>3, <3>4, <4>1, <4>4, <5>1 DEF UnsentWait
      <4>5. CASE Return(e, "completed", rewind, Submit)
        <5>1. rewind.expiries # 0
          BY <3>1, Constants DEF ClearAttempt, States
        <5> HIDE DEF rewind
        <5> QED BY <3>2, <4>1, <4>5, <5>1 DEF UnsentWait
      <4>6. CASE Return(e, "completed", NextEncode(St(e)), Submit) /\ St(e).job < MaxJob
        <5>1. NextEncode(St(e)).job = row.st.job + 1
          BY <3>1, <4>1 DEF NextEncode, ClearAttempt, States
        <5>2. Unheard(NextEncode(St(e)).job)
          BY <4>1, <4>6, <5>1, NextIsUnheard
        <5> QED BY <3>2, <4>1, <4>6, <5>2
      <4> QED BY <3>13, <4>2, <4>3, <4>4, <4>5, <4>6 DEF RunWait
    <3>14. CASE RunValidate(e) \/ RunAccept(e)
      <4>1. /\ row' = row
            /\ \A s : ~UnsentWait(mem[e].step, s) /\ ~UnsentWait(mem[e].step + 1, s)
        BY <3>14 DEF RunValidate, RunAccept, UnsentWait
      <4> QED BY <3>3, <3>4, <3>14, <4>1 DEF RunValidate, RunAccept
    <3>15. CASE Result(e)
      <4>1. CASE /\ row' = [status |-> "running", step |-> mem[e].next, st |-> mem[e].st]
                 /\ pc' = [pc EXCEPT ![e] = "loop"] /\ mem[e].res = "completed"
                 /\ mem' = [mem EXCEPT ![e] = [mem[e] EXCEPT !.step = mem[e].next, !.res = "none"]]
        <5>1. mem'[e].st = mem[e].st /\ mem'[e].step = mem[e].next /\ pc'[e] = "loop"
              /\ row'.st = mem[e].st /\ row'.step = mem[e].next
          BY <1>1, <4>1 DEF TypeOK, Memories
        <5>2. ~UnsentWait(mem[e].next, mem[e].st)
          BY <3>1, <3>15, <4>1 DEF Result, GoesOnSent
        <5> QED BY <5>1, <5>2 DEF RowWaits, MemoryWaits, GoesOnSent
      <4>2. CASE /\ row'.step = mem[e].step /\ row'.st = mem[e].st
                 /\ mem' = mem /\ pc' = [pc EXCEPT ![e] = "release"]
        <5>1. pc'[e] = "release"
          BY <1>1, <4>2 DEF TypeOK
        <5> QED BY <1>2, <2>1, <2>3, <4>2, <5>1 DEF Holds
      <4> QED BY <2>3, <3>15, <4>1, <4>2 DEF Result, SaveThen
    <3>16. CASE RetryCheck(e)
      <4>1. CASE row' = row /\ mem'[e].step = Submit /\ pc'[e] = "retrySave"
        BY <1>1, <3>1, <4>1 DEF RowWaits, MemoryWaits, GoesOnSent, UnsentWait, St
      <4>2. CASE /\ row' = [row EXCEPT !.st = NextEncode(St(e))] /\ St(e).job < MaxJob
                 /\ mem'[e].step = Submit /\ pc'[e] = "retrySave"
        <5>1. row.st.job = St(e).job
          BY <3>1, <3>16 DEF RetryCheck, InSync, RowOf
        <5>2. row'.st = NextEncode(St(e)) /\ NextEncode(St(e)).job = row.st.job + 1
          BY <1>1, <3>1, <4>2, <5>1 DEF NextEncode, ClearAttempt, States, TypeOK, Rows
        <5>3. Unheard(row'.st.job)
          BY <4>2, <5>1, <5>2, NextIsUnheard
        <5> QED BY <4>2, <5>3 DEF RowWaits, MemoryWaits, GoesOnSent, UnsentWait
      <4> DEFINE new == NextEncode(St(e))
      <4>3. CASE /\ mem' = [mem EXCEPT ![e] = [mem[e] EXCEPT !.step = Submit, !.st.reconcile = TRUE]]
                 /\ pc' = [pc EXCEPT ![e] = "retrySave"] /\ row' = row
        <5>1. mem'[e].step = Submit /\ pc'[e] = "retrySave"
          BY <1>1, <4>3 DEF TypeOK, Memories
        <5> QED BY <4>1, <4>3, <5>1
      <4>4. CASE pc' = [pc EXCEPT ![e] = "release"] /\ UNCHANGED <<mem, row>>
        <5>1. pc'[e] = "release" /\ mem' = mem /\ row' = row
          BY <1>1, <4>4 DEF TypeOK
        <5> QED BY <1>2, <2>1, <2>3, <5>1 DEF Holds
      <4>5. CASE /\ mem' = [mem EXCEPT ![e] = [mem[e] EXCEPT !.step = Submit, !.st = new]]
                 /\ St(e).job < MaxJob
                 /\ row' = [row EXCEPT !.st = new] /\ pc' = [pc EXCEPT ![e] = "retrySave"]
        <5>1. mem'[e].step = Submit /\ pc'[e] = "retrySave"
          BY <1>1, <4>5 DEF TypeOK, Memories
        <5> QED BY <4>2, <4>5, <5>1
      <4> HIDE DEF new
      <4> QED BY <2>3, <3>16, <4>3, <4>4, <4>5 DEF RetryCheck, SaveThen, new
    <3>17. CASE Cancelling(e) \/ RemoteCancel(e) \/ CancelStatus(e)
      <4>1. /\ row' = row \/ (row'.step = mem[e].step /\ row'.st = mem[e].st)
            /\ mem' = mem /\ pc'[e] \notin {"record", "result"}
        BY <1>1, <2>3, <3>17
           DEF Cancelling, RemoteCancel, CancelStatus, CancelReturns, SaveThen, RowOf, TypeOK
      <4> QED BY <1>2, <2>1, <2>3, <4>1 DEF Holds
    <3>18. CASE CtxEnds(e)
      <4>1. /\ row' = row /\ pc' = pc
            /\ mem'[e].st = mem[e].st /\ mem'[e].step = mem[e].step
            /\ mem'[e].res = mem[e].res /\ mem'[e].next = mem[e].next
        BY <1>1, <3>18 DEF CtxEnds, TypeOK, Memories
      <4> QED BY <1>2, <2>1, <2>3, <4>1 DEF Holds
    <3> QED BY <1>5, <3>5, <3>6, <3>7, <3>8, <3>9, <3>10, <3>11, <3>12, <3>13, <3>14, <3>15, <3>16,
               <3>17, <3>18 DEF Work
  <2> QED BY <2>2, <2>3
<1> QED BY <1>3, <1>4, <1>5 DEF Call, Work

LEMMA UnsentStep == IInv /\ [Next]_vars => UnsentUnheard'
<1> SUFFICES ASSUME IInv, [Next]_vars
             PROVE  UnsentUnheard'
  OBVIOUS
<1>1. TypeOK /\ TypeOK' /\ UnsentUnheard
  BY TypeStep DEF IInv
<1>2. ASSUME NEW step \in Steps, NEW s \in States, UnsentWait(step, s)
      PROVE  s.job \in Attempts
  BY <1>2, Constants DEF UnsentWait, States, Attempts
<1>3. ASSUME NEW e \in Executors, Call(e), pc'[e] = "send",
             ~(pc[e] = "send" /\ mem'[e].st = mem[e].st)
      PROVE  UnsentUnheard'
  <2>1. Holds(e) /\ lease' = lease /\ row'.step = Submit /\ mem'[e].step = Submit
    BY <1>3, SendEntered
  <2>2. \A k \in Executors : Holds(k)' => k = e
    BY <2>1 DEF Holds
  <2> QED BY <1>3, <2>1, <2>2 DEF UnsentUnheard, UnsentFor, UnsentWait
<1>4. ASSUME NEW j \in Attempts, Unheard(j),
             \A e \in Executors : pc'[e] = "send" => pc[e] = "send" /\ mem'[e].st = mem[e].st
      PROVE  Unheard(j)'
  BY <1>4, UnheardStays
<1>5. ASSUME \A e \in Executors : pc'[e] = "send" => pc[e] = "send" /\ mem'[e].st = mem[e].st,
             RowWaits,
             \A k \in Executors : Holds(k)' => MemoryWaits(k) /\ GoesOnSent(k)'
      PROVE  UnsentUnheard'
  <2>1. ASSUME UnsentWait(row'.step, row'.st)
        PROVE  Unheard(row.st.job)'
    <3>1. row'.step \in Steps /\ row'.st \in States
      BY <1>1 DEF TypeOK, Rows
    <3>2. PICK j \in Attempts : j = row'.st.job
      BY <1>2, <2>1, <3>1
    <3>3. Unheard(j)
      BY <1>5, <2>1, <3>2 DEF RowWaits
    <3> QED BY <1>4, <1>5, <3>2, <3>3 DEF Unheard
  <2>2. ASSUME NEW k \in Executors, Holds(k)', UnsentWait(mem'[k].step, mem'[k].st)
        PROVE  Unheard(mem[k].st.job)'
    <3>1. mem'[k].step \in Steps /\ mem'[k].st \in States
      BY <1>1 DEF TypeOK, Memories
    <3>2. PICK j \in Attempts : j = mem'[k].st.job
      BY <1>2, <2>2, <3>1
    <3>3. Unheard(j)
      BY <1>5, <2>2, <3>2 DEF MemoryWaits
    <3> QED BY <1>4, <1>5, <3>2, <3>3 DEF Unheard
  <2> QED BY <1>5, <2>1, <2>2 DEF UnsentUnheard, UnsentFor, GoesOnSent
<1>6. ASSUME NEW e \in Executors, Call(e), pc'[e] = "send" => pc[e] = "send" /\ mem'[e].st = mem[e].st
      PROVE  UnsentUnheard'
  <2>1. RowWaits /\ (Holds(e)' => MemoryWaits(e) /\ GoesOnSent(e)')
    BY <1>6, ActorWaits
  <2>2. \A k \in Executors \ {e} : pc'[k] = pc[k] /\ mem'[k] = mem[k] /\ (Holds(k)' => Holds(k))
    BY <1>1, <1>6, OnlyActor
  <2>3. ASSUME NEW k \in Executors \ {e}, Holds(k)'
        PROVE  MemoryWaits(k) /\ GoesOnSent(k)'
    BY <1>1, <2>2, <2>3 DEF UnsentUnheard, UnsentFor, MemoryWaits, GoesOnSent
  <2> QED BY <1>5, <1>6, <2>1, <2>2, <2>3
<1>7. CASE Enqueue \/ Expire \/ Lapse \/ Worker \/ UNCHANGED vars
  <2>1. /\ pc' = pc /\ mem' = mem
        /\ row' = row \/ row'.step = Preflight
        /\ \A k \in Executors : Holds(k)' => Holds(k)
    BY <1>1, <1>7 DEF Enqueue, Expire, Lapse, Worker, Deliver, WorkerEnds, RetentionEnds, vars, Holds,
       TypeOK
  <2>2. RowWaits
    BY <1>1, <2>1 DEF UnsentUnheard, RowWaits, UnsentWait
  <2>3. \A k \in Executors : Holds(k)' => MemoryWaits(k) /\ GoesOnSent(k)'
    BY <1>1, <2>1 DEF UnsentUnheard, UnsentFor, MemoryWaits, GoesOnSent
  <2> QED BY <1>5, <2>1, <2>2, <2>3
<1> QED BY <1>3, <1>6, <1>7 DEF Next

-----------------------------------------------------------------------------
\* The conjunction is inductive.
LEMMA InvariantStep == IInv /\ [Next]_vars => IInv'
<1> SUFFICES ASSUME IInv, [Next]_vars
             PROVE  IInv'
  OBVIOUS
<1> DEFINE HoldersKnowWayBack == \A k \in Executors : Holds(k) => KnowsWayBack(k)
<1>1. TypeOK /\ TypeOK' /\ EarlierJobsEnded' /\ StoppedStays' /\ JobsMove /\ RowMoves
  BY TypeStep, EarlierStep, StoppedStep, JobsStep, RowStep DEF IInv
<1>2. ASSUME NEW k \in Executors, Holds(k)
      PROVE  InSync(k) /\ KnowsWayBack(k)
  BY <1>2 DEF IInv, HolderInSync, WayBackKnown
<1>3. ASSUME NEW e \in Executors, Call(e)
      PROVE  /\ HolderInSync' /\ StaleKnows' /\ HoldersKnowWayBack' /\ CandidateInRow'
             /\ \A k \in Executors : CandidateFor(k)'
  <2>1. \A k \in Executors \ {e} : Stale(k)' /\ CandidateFor(k)'
    BY <1>1, <1>3, OnlyActor, BystanderKnows
  <2>2. ASSUME NEW k \in Executors \ {e}, Holds(k)'
        PROVE  InSync(k)' /\ KnowsWayBack(k)'
    <3>1. Holds(k) /\ row' = row
      BY <1>1, <1>3, <2>2, OnlyActor DEF Holds
    <3> QED BY <1>1, <1>2, <1>3, <3>1, OnlyActor, BystanderKnows
  <2>3. Holds(e)' => InSync(e)' /\ KnowsWayBack(e)'
    BY <1>3, ActorInSync, ActorWayBack
  <2> QED BY <1>3, <2>1, <2>2, <2>3, ActorStale, ActorCandidate DEF HolderInSync, StaleKnows
<1>4. ASSUME Enqueue \/ Expire \/ Lapse \/ Worker \/ UNCHANGED vars
      PROVE  /\ HolderInSync' /\ StaleKnows' /\ HoldersKnowWayBack' /\ CandidateInRow'
             /\ \A k \in Executors : CandidateFor(k)'
  <2>1. pc' = pc /\ mem' = mem
    BY <1>4 DEF Enqueue, Expire, Lapse, Worker, Deliver, WorkerEnds, RetentionEnds, vars
  <2>2. \A k \in Executors : Stale(k)' /\ CandidateFor(k)'
    BY <2>1, BystanderKnows
  <2>3. ASSUME NEW k \in Executors, Holds(k)'
        PROVE  InSync(k)' /\ KnowsWayBack(k)'
    <3>1. Holds(k) /\ (row' = row \/ row.status = "none")
      BY <1>1, <1>4, <2>3 DEF Enqueue, Expire, Lapse, Worker, Deliver, WorkerEnds, RetentionEnds, vars,
         Holds, TypeOK
    <3> QED BY <1>2, <2>1, <3>1, BystanderKnows
  <2>4. CandidateInRow'
    <3>1. CASE row' = row
      BY <1>1, <3>1 DEF IInv, CandidateBehind, CandidateInRow, HasCandidate, JobsMove
    <3>2. CASE Enqueue
      BY <3>2 DEF Enqueue, CandidateInRow, HasCandidate
    <3> QED BY <1>4, <3>1, <3>2 DEF Expire, Lapse, Worker, Deliver, WorkerEnds, RetentionEnds, vars
  <2> QED BY <2>2, <2>3, <2>4 DEF HolderInSync, StaleKnows
<1>5. /\ HolderInSync' /\ StaleKnows' /\ HoldersKnowWayBack' /\ CandidateInRow'
      /\ \A k \in Executors : CandidateFor(k)'
  BY <1>3, <1>4 DEF Next
<1>6. CandidateBehind'
  BY <1>1, <1>5 DEF JobsMove, CandidateBehind, CandidateInRow, CandidateFor
<1>7. WayBackKnown'
  BY <1>1, <1>5 DEF IInv, RowMoves, WayBackKnown
<1>8. UnsentUnheard'
  BY UnsentStep
<1> QED BY <1>1, <1>5, <1>6, <1>7, <1>8 DEF IInv

LEMMA InvariantInit == Init => IInv
<1> SUFFICES ASSUME Init
             PROVE  IInv
  OBVIOUS
<1>1. /\ row.status = "none" /\ row.step = Preflight /\ row.st.job = 0
      /\ \A e \in Executors : pc[e] = "idle" /\ mem[e].step = Preflight
      /\ \A j \in Attempts : jobs[j] = "none"
      /\ inflight = {} /\ confirmed = "no" /\ ~lease.live
  BY DEF Init, NoMemory, EmptyState
<1>2. HolderInSync /\ StaleKnows /\ StoppedStays /\ WayBackKnown
  BY <1>1 DEF HolderInSync, Holds, StaleKnows, Stale, StoppedStays, WayBackKnown
<1>3. EarlierJobsEnded
  BY <1>1, Constants DEF EarlierJobsEnded
<1>4. CandidateBehind
  BY <1>1 DEF CandidateBehind, HasCandidate
<1>5. UnsentUnheard
  BY <1>1 DEF UnsentUnheard, UnsentWait, Holds
<1> QED BY <1>2, <1>3, <1>4, <1>5, TypeInit DEF IInv

\* The invariant the safety properties follow from.
THEOREM Invariance == Spec => []IInv
BY InvariantInit, InvariantStep, PTL DEF Spec

\* At most one job of an action runs on the worker, and it is the one its row
\* names, whatever is lost, delayed or repeated.
THEOREM OneTrackedJob == Spec => []OnlyTrackedJobRuns
<1>1. IInv => OnlyTrackedJobRuns
  <2> SUFFICES ASSUME IInv, NEW j \in Attempts, jobs[j] \in Running \/ j \in inflight
               PROVE  j <= row.st.job /\ (jobs[j] \in Running => j = row.st.job)
    BY DEF OnlyTrackedJobRuns
  <2>1. j <= row.st.job /\ (j < row.st.job => jobs[j] \in Ended)
    BY DEF IInv, EarlierJobsEnded, Running
  <2>2. j \in Nat /\ row.st.job \in Nat
    BY Constants DEF IInv, TypeOK, Rows, States
  <2> QED BY <2>1, <2>2 DEF Running, Ended
<1> QED BY <1>1, Invariance, PTL

\* A completed action has its candidate or says that it was skipped.
THEOREM CompletionIsEarned == Spec => []CompletedHasCandidate
<1>1. IInv => CompletedHasCandidate
  BY DEF IInv, CandidateBehind, HasCandidate, CompletedHasCandidate
<1> QED BY <1>1, Invariance, PTL

\* What a cancel reported as stopped does not run again.
THEOREM CancelIsLasting == Spec => []ConfirmedCancelHolds
<1>1. IInv => ConfirmedCancelHolds
  BY DEF IInv, StoppedStays, ConfirmedCancelHolds, Ended, Running
<1> QED BY <1>1, Invariance, PTL

\* Completed and cancelled rows are never written over.
THEOREM FinalityHolds == Spec => FinalIsFinal
<1>1. IInv /\ [Next]_vars =>
        [ /\ row.status = "completed" => row'.status = "completed"
          /\ row.status = "cancelled" => row' = row ]_row
  BY RowStep DEF RowMoves
<1> QED BY <1>1, Invariance, PTL DEF Spec, FinalIsFinal

\* The promise of cancel, that its save closes admission, holds of everything that
\* resumes a queued action; only Run's claim of its own row breaks it.
THEOREM QueuedCancelIsFinal == Spec => CancelClosesAdmission
<1>1. IInv /\ [Next]_vars => [row.status = "cancelled" => row'.status # "running"]_row
  BY RowStep DEF RowMoves
<1> QED BY <1>1, Invariance, PTL DEF Spec, CancelClosesAdmission

\* A row that waits for a job it did not send hides no encode on the worker.
THEOREM UnsentWaitIsEmpty == Spec => []UnsentWaitHidesNothing
<1>1. IInv => UnsentWaitHidesNothing
  BY DEF IInv, UnsentUnheard, UnsentWait, Unheard, UnsentWaitHidesNothing
<1> QED BY <1>1, Invariance, PTL

\* The reasons for which the checkpoint may move back.
MayGoBack ==
    \/ row.status = "failed"
    \/ row'.st.job > row.st.job
    \/ row'.st.expiries > row.st.expiries

\* Where a step leaves the checkpoint.
LEMMA CheckpointStep ==
    ASSUME IInv, [Next]_vars
    PROVE  row'.step >= row.step \/ (row'.step = Submit /\ MayGoBack)
<1> DEFINE Goal == row'.step >= row.step \/ (row'.step = Submit /\ MayGoBack)
<1>0. TypeOK /\ row.step \in Nat
  BY DEF IInv, TypeOK, Rows, Steps, Preflight, Done
<1>1. ASSUME row'.step = row.step PROVE Goal
  BY <1>0, <1>1
<1>2. ASSUME NEW e \in Executors, Call(e) PROVE Goal
  <2> SUFFICES ASSUME Holds(e) PROVE Goal
    BY <1>0, <1>1, <1>2, OnlyActor
  <2>1. InSync(e) /\ KnowsWayBack(e)
    BY DEF IInv, HolderInSync, WayBackKnown
  <2>2. mem[e].step \in Nat /\ mem[e].next \in Nat
    BY <1>0, MemoryTypes DEF Steps, Preflight, Done
  <2> HIDE DEF Goal
  <2>3. ASSUME NEW s, row' = [row EXCEPT !.st = s] PROVE Goal
    <3>1. row'.step = row.step
      BY <1>0, <2>3 DEF TypeOK, Rows
    <3> QED BY <1>1, <3>1
  <2>4. CASE AssignWorker(e) \/ Reconcile(e) \/ Admit(e) \/ Record(e) \/ RetryCheck(e)
    <3>1. row' = row \/ \E s : row' = [row EXCEPT !.st = s]
      BY <2>4 DEF AssignWorker, Reconcile, Admit, Record, RetryCheck, Persisted, SaveThen
    <3> QED BY <1>1, <2>3, <3>1
  <2>5. CASE Resuming(e) \/ Cancelling(e)
    <3>1. row'.step = mem[e].step /\ row = RowOf(mem[e])
      BY <2>1, <2>5 DEF Resuming, Cancelling, SaveThen, InSync, RowOf
    <3> QED BY <1>1, <3>1 DEF RowOf
  <2>6. CASE Loop(e)
    <3>1. row'.step = mem[e].step /\ row.step = mem[e].step
      BY <2>1, <2>6 DEF Loop, SaveThen, InSync, Executing, RowOf
    <3> QED BY <1>1, <3>1
  <2>7. CASE Result(e)
    <3>1. row.step = mem[e].step
      BY <2>1, <2>7 DEF Result, InSync, Executing
    <3>2. \/ row'.step = mem[e].step
          \/ mem[e].res = "completed" /\ row'.step = mem[e].next /\ row'.st = mem[e].st
      BY <2>7 DEF Result, SaveThen
    <3>3. CASE mem[e].res = "completed" /\ row'.step = mem[e].next /\ row'.st = mem[e].st
      BY <2>1, <2>7, <3>1, <3>3 DEF Result, KnowsWayBack, Executing, MayGoBack, Goal
    <3> QED BY <1>1, <3>1, <3>2, <3>3
  <2>8. CASE RetrySave(e)
    <3>1. row.status = "failed" /\ mem[e].step \in {Submit, row.step} /\ row'.step = mem[e].step
      BY <2>1, <2>8 DEF RetrySave, SaveThen, InSync, KnowsWayBack, RowOf
    <3> QED BY <1>0, <3>1 DEF MayGoBack, Goal
  <2>9. CASE UNCHANGED row
    BY <1>1, <2>9
  <2> QED
    BY <1>2, <2>4, <2>5, <2>6, <2>7, <2>8, <2>9
       DEF Call, Work, AutoResume, User, UserResume, UserRetry, UserCancel, Claim, RunPreflight,
           RunSubmit, RunWait, RunValidate, RunAccept, Send, RemoteCancel, CancelStatus, Release,
           Crash, CtxEnds
<1>3. CASE Enqueue \/ Expire \/ Lapse \/ Worker \/ UNCHANGED vars
  BY <1>1, <1>3 DEF IInv, WayBackKnown, Enqueue, Expire, Lapse, Worker, Deliver, WorkerEnds, RetentionEnds, vars
<1> QED BY <1>2, <1>3 DEF Next

\* The checkpoint moves back only to submit again, when the row failed or when
\* its job gave no candidate, and never to an earlier job.
THEOREM CheckpointHolds == Spec => CheckpointMovesOn
<1>1. IInv /\ [Next]_vars =>
        [ /\ row'.st.job >= row.st.job
          /\ row'.step < row.step =>
              /\ row'.step = Submit
              /\ \/ row.status = "failed"
                 \/ row'.st.job > row.st.job
                 \/ row'.st.expiries > row.st.expiries ]_row
  <2> SUFFICES ASSUME IInv, [Next]_vars
               PROVE  /\ row'.st.job >= row.st.job
                      /\ row'.step < row.step => row'.step = Submit /\ MayGoBack
    BY DEF MayGoBack
  <2>1. row.st.job \in Nat /\ row.step \in Nat /\ row'.step \in Nat
    BY TypeStep, Constants DEF IInv, TypeOK, Rows, States, Steps, Preflight, Done
  <2>2. row'.st.job = row.st.job \/ row'.st.job = row.st.job + 1
    BY RowStep DEF RowMoves
  <2>3. row'.step >= row.step \/ (row'.step = Submit /\ MayGoBack)
    BY CheckpointStep
  <2> QED BY <2>1, <2>2, <2>3
<1> QED BY <1>1, Invariance, PTL DEF Spec, CheckpointMovesOn

-----------------------------------------------------------------------------
(* The engine implements ActionLifecycle.  No step changes both the row and    *)
(* the worker: one that changes the row is a move of the phase or the next     *)
(* attempt, one that changes the worker starts or ends an encode.              *)

\* Only the current attempt can be encoding.
LEMMA EncodingCurrent ==
    ASSUME IInv
    PROVE  /\ Encoding \subseteq {row.st.job}
           /\ \A j \in Attempts : jobs[j] \in {"none", "expired"} /\ j <= row.st.job =>
                j = row.st.job /\ Encoding = {}
<1>1. /\ row.st.job \in Nat /\ Attempts \subseteq Nat
      /\ \A j \in Attempts : (jobs[j] # "none" => j <= row.st.job) /\ (j < row.st.job => jobs[j] \in Ended)
  BY Constants DEF IInv, TypeOK, Rows, States, EarlierJobsEnded
<1>2. Encoding \subseteq {row.st.job}
  <2> SUFFICES ASSUME NEW j \in Attempts, jobs[j] = "active"
               PROVE  j = row.st.job
    BY DEF Encoding
  <2> QED BY <1>1 DEF Ended
<1>3. ASSUME NEW j \in Attempts, jobs[j] \in {"none", "expired"}, j <= row.st.job
      PROVE  j = row.st.job /\ Encoding = {}
  BY <1>1, <1>2, <1>3 DEF Encoding, Ended
<1> QED BY <1>2, <1>3

LEMMA LifecycleInit == Init => Lifecycle!Init
<1> SUFFICES ASSUME Init
             PROVE  Lifecycle!Init
  OBVIOUS
<1>1. row.status = "none" /\ row.st.job = 0 /\ encoded = {} /\ \A j \in Attempts : jobs[j] = "none"
  BY DEF Init, EmptyState
<1>2. Phase = "absent"
  BY <1>1 DEF Phase, Open
<1>3. Encoding = {}
  BY <1>1 DEF Encoding
<1> QED BY <1>1, <1>2, <1>3 DEF Lifecycle!Init

\* A step that leaves the row alone starts or ends an encode, or is not seen.
LEMMA WorkerImplements ==
    ASSUME IInv, row' = row,
           \/ /\ encoded' = encoded
              /\ \E j \in 0..MaxJob : jobs' \in {jobs, Accepted(j), Cancelled(j)} /\ j <= row.st.job
           \/ \E j \in Attempts : WorkerEnds(j) \/ RetentionEnds(j)
    PROVE  Lifecycle!StartEncode \/ Lifecycle!EndEncode \/ UNCHANGED Lifecycle!vars
<1>1. Phase' = Phase /\ jobs \in [Attempts -> JobStatuses] /\ Attempts = 1..MaxJob
  BY DEF Phase, IInv, TypeOK, Attempts
<1>2. ASSUME Encoding' = Encoding, encoded' = encoded
      PROVE  UNCHANGED Lifecycle!vars
  BY <1>1, <1>2 DEF Lifecycle!vars
<1>3. ASSUME NEW j \in 0..MaxJob, jobs' = Accepted(j), j <= row.st.job, encoded' = encoded
      PROVE  Lifecycle!StartEncode \/ UNCHANGED Lifecycle!vars
  <2>1. CASE j \in Attempts /\ jobs[j] \in {"none", "expired"}
    <3>1. j = row.st.job /\ Encoding = {} /\ row.st.job > 0
      BY <1>3, <2>1, EncodingCurrent, Constants DEF Attempts
    <3>2. Encoding' = {row.st.job}
      BY <1>1, <1>3, <2>1, <3>1 DEF Accepted, Encoding
    <3> QED BY <1>1, <1>3, <3>1, <3>2 DEF Lifecycle!StartEncode
  <2>2. CASE ~(j \in Attempts /\ jobs[j] \in {"none", "expired"})
    <3>1. jobs' = jobs
      BY <1>1, <1>3, <2>2 DEF Accepted
    <3> QED BY <1>2, <1>3, <3>1 DEF Encoding
  <2> QED BY <2>1, <2>2
<1>4. ASSUME NEW j \in Attempts, jobs[j] = "active", jobs' = [jobs EXCEPT ![j] = jobs'[j]],
             jobs'[j] # "active", encoded' \in {encoded, encoded \cup {j}}
      PROVE  Lifecycle!EndEncode
  <2>1. Encoding = {j}
    BY <1>4, EncodingCurrent DEF Encoding
  <2>2. Encoding' = {}
    BY <1>1, <1>4, <2>1 DEF Encoding
  <2> QED BY <1>1, <1>4, <2>1, <2>2 DEF Lifecycle!EndEncode
<1>5. ASSUME NEW j \in 0..MaxJob, jobs' = Cancelled(j), encoded' = encoded
      PROVE  Lifecycle!EndEncode \/ UNCHANGED Lifecycle!vars
  <2>1. CASE j \in Attempts /\ jobs[j] = "active"
    BY <1>1, <1>4, <1>5, <2>1 DEF Cancelled, Running
  <2>2. CASE ~(j \in Attempts /\ jobs[j] = "active")
    <3>1. Encoding' = Encoding
      BY <1>1, <1>5, <2>2 DEF Cancelled, Encoding, Running
    <3> QED BY <1>2, <1>5, <3>1
  <2> QED BY <2>1, <2>2
<1>6. ASSUME NEW j \in Attempts, WorkerEnds(j)
      PROVE  Lifecycle!EndEncode
  BY <1>1, <1>4, <1>6 DEF WorkerEnds
<1>7. ASSUME NEW j \in Attempts, RetentionEnds(j)
      PROVE  UNCHANGED Lifecycle!vars
  <2>1. Encoding' = Encoding /\ encoded' = encoded
    BY <1>1, <1>7 DEF RetentionEnds, Encoding
  <2> QED BY <1>2, <2>1
<1>8. ASSUME jobs' = jobs, encoded' = encoded
      PROVE  UNCHANGED Lifecycle!vars
  BY <1>2, <1>8 DEF Encoding
<1> QED BY <1>3, <1>5, <1>6, <1>7, <1>8

\* A step that leaves the worker alone moves the phase, begins the next attempt,
\* or is not seen.
LEMMA RowImplements ==
    ASSUME IInv, IInv', RowMoves, jobs' = jobs, encoded' = encoded
    PROVE  [Lifecycle!Next]_(Lifecycle!vars)
<1>1. /\ Encoding' = Encoding /\ row.status \in Statuses /\ row'.status \in Statuses
      /\ row.st.job \in 0..MaxJob /\ row'.st.job \in 0..MaxJob
  BY MemoryTypes DEF Encoding, IInv, TypeOK, Rows, States
<1>2. CASE row'.st.job # row.st.job
  <2>1. row'.st.job = row.st.job + 1 /\ row.st.job < MaxJob
    BY <1>1, <1>2, Constants DEF RowMoves
  <2>2. Phase' = Phase /\ Phase \in {"open", "failed"}
    BY <1>2 DEF RowMoves, Phase, Open
  <2>3. Encoding = {}
    <3>1. \A j \in Encoding : j = row.st.job /\ j \in Attempts /\ jobs[j] = "active"
      BY EncodingCurrent DEF Encoding
    <3>2. row.st.job # 0 => jobs[row.st.job] \in Ended
      BY <1>1, <1>2 DEF RowMoves
    <3> QED BY <3>1, <3>2 DEF Ended, Attempts
  <2>4. Lifecycle!NextAttempt
    BY <1>1, <2>1, <2>2, <2>3 DEF Lifecycle!NextAttempt
  <2> QED BY <2>4 DEF Lifecycle!Next
<1>3. CASE row'.st.job = row.st.job
  <2>1. CASE Phase' = Phase
    BY <1>1, <1>3, <2>1 DEF Lifecycle!vars
  <2>2. CASE Phase' # Phase
    <3>1. row' # row /\ row.status \in {"none", "failed"} \cup Open
      BY <1>1, <2>2 DEF Phase, RowMoves, Statuses, Final
    <3>2. CASE row.status = "none"
      <4>1. Lifecycle!Admit
        BY <1>1, <1>3, <3>1, <3>2 DEF RowMoves, Phase, Open, Lifecycle!Admit, Lifecycle!Move
      <4> QED BY <4>1 DEF Lifecycle!Next
    <3>3. CASE row.status = "failed"
      <4>1. Lifecycle!Reopen \/ Lifecycle!Cancel
        BY <1>1, <1>3, <2>2, <3>1, <3>3
           DEF RowMoves, Phase, Open, Lifecycle!Reopen, Lifecycle!Cancel, Lifecycle!Move
      <4> QED BY <4>1 DEF Lifecycle!Next
    <3>4. CASE row.status \in Open
      <4>1. Phase = "open" /\ row'.status \in Final
        BY <1>1, <2>2, <3>1, <3>4 DEF Phase, RowMoves, Statuses, Open
      <4>2. row'.status = "completed" => row'.st.skip \/ row.st.job \in encoded
        BY <1>3 DEF IInv, CandidateBehind, HasCandidate
      <4>3. Lifecycle!Fail \/ Lifecycle!Cancel \/ Lifecycle!Skip \/ Lifecycle!Complete
        BY <1>1, <1>3, <4>1, <4>2
           DEF Phase, Open, Final, Lifecycle!Fail, Lifecycle!Cancel, Lifecycle!Skip,
               Lifecycle!Complete, Lifecycle!Move
      <4> QED BY <4>3 DEF Lifecycle!Next
    <3> QED BY <3>1, <3>2, <3>3, <3>4
  <2> QED BY <2>1, <2>2
<1> QED BY <1>2, <1>3

\* The engine does what the abstract life of a conversion allows.
THEOREM Implementation == Spec => ImplementsLifecycle
<1>1. ASSUME IInv, IInv', [Next]_vars
      PROVE  [Lifecycle!Next]_(Lifecycle!vars)
  <2>1. RowMoves
    BY <1>1, RowStep
  <2>2. CASE row' = row /\ Deliver
    <3>1. \E j \in 0..MaxJob : jobs' = Accepted(j) /\ j <= row.st.job /\ encoded' = encoded
      <4>1. PICK j \in inflight : jobs' = Accepted(j)
        BY <2>2 DEF Deliver
      <4>2. j \in 0..MaxJob /\ row.st.job \in Nat
        BY <1>1 DEF IInv, TypeOK, Rows, States
      <4>3. j <= row.st.job
        BY <1>1, <4>1, <4>2, Constants DEF IInv, EarlierJobsEnded, Attempts
      <4> QED BY <2>2, <4>1, <4>2, <4>3 DEF Deliver
    <3> QED BY <1>1, <2>2, <3>1, WorkerImplements DEF Lifecycle!Next
  <2>3. CASE \E j \in Attempts : WorkerEnds(j) \/ RetentionEnds(j)
    BY <1>1, <2>3, WorkerImplements DEF Lifecycle!Next, WorkerEnds, RetentionEnds
  <2>4. ASSUME NEW e \in Executors, Send(e) \/ RemoteCancel(e) \/ CancelStatus(e)
        PROVE  [Lifecycle!Next]_(Lifecycle!vars)
    <3>1. jobs' \in {jobs, Accepted(St(e).job), Cancelled(St(e).job)} /\ row' = row /\ encoded' = encoded
      BY <2>4 DEF Send, RemoteCancel, CancelStatus
    <3>2. St(e).job \in 0..MaxJob /\ row.st.job \in 0..MaxJob
      BY <1>1, MemoryTypes DEF IInv, States
    <3>3. St(e).job <= row.st.job
      BY <1>1, <2>4, <3>2 DEF IInv, StaleKnows, Stale, Send, RemoteCancel, CancelStatus, St
    <3> QED BY <1>1, <3>1, <3>2, <3>3, WorkerImplements DEF Lifecycle!Next
  <2>5. CASE jobs' = jobs /\ encoded' = encoded
    BY <1>1, <2>1, <2>5, RowImplements
  <2>6. CASE Enqueue
    BY <2>5, <2>6 DEF Enqueue, workerVars
  <2>7. CASE Expire
    BY <2>5, <2>7 DEF Expire, workerVars
  <2>8. CASE Lapse
    BY <2>5, <2>8 DEF Lapse, workerVars
  <2>9. CASE Deliver
    <3>1. row' = row
      BY <2>9 DEF Deliver
    <3> QED BY <2>2, <2>9, <3>1
  <2>10. CASE Worker
    BY <2>3, <2>9, <2>10 DEF Worker
  <2>11. ASSUME NEW e \in Executors, Call(e)
         PROVE  [Lifecycle!Next]_(Lifecycle!vars)
    BY <2>4, <2>5, <2>11, CallKeepsWorker
  <2>12. CASE UNCHANGED vars
    BY <2>5, <2>12 DEF vars
  <2> QED BY <1>1, <2>6, <2>7, <2>8, <2>10, <2>11, <2>12 DEF Next
<1> QED BY <1>1, LifecycleInit, Invariance, PTL DEF Spec, Lifecycle!Spec, ImplementsLifecycle

\* What the abstract life promises, the engine keeps: encodes follow one another,
\* each of the attempt the row is at, and what ended for good stays ended.
THEOREM EncodesFollow == Spec => Lifecycle!EncodesInTurn
<1> DEFINE InTurn ==
        /\ Encoding' # Encoding => Encoding = {} \/ Encoding' = {}
        /\ Encoding' \subseteq Encoding \cup {(row.st.job)'}
        /\ encoded \subseteq encoded' /\ encoded' \subseteq encoded \cup Encoding
        /\ (row.st.job)' # row.st.job =>
            (row.st.job)' = row.st.job + 1 /\ Encoding = {} /\ Phase \in {"open", "failed"}
        /\ Phase \in {"completed", "skipped", "cancelled"} => Phase' = Phase
<1>1. [Lifecycle!Next]_(Lifecycle!vars) => [InTurn]_(Lifecycle!vars)
  BY DEF Lifecycle!Next, Lifecycle!vars, Lifecycle!Admit, Lifecycle!Fail, Lifecycle!Reopen,
     Lifecycle!Cancel, Lifecycle!Skip, Lifecycle!Complete, Lifecycle!Move, Lifecycle!NextAttempt,
     Lifecycle!StartEncode, Lifecycle!EndEncode
<1> QED BY <1>1, Implementation, PTL DEF ImplementsLifecycle, Lifecycle!Spec, Lifecycle!EncodesInTurn

=============================================================================
