----------------------------- MODULE NodePause -----------------------------
(***************************************************************************)
(* One conversion among several worker nodes that an operator pauses,      *)
(* drains and resumes (src/action/worker_pause.go, worker_drain.go,        *)
(* worker_hold.go, the admission of transcode_submit.go).                  *)
(*                                                                         *)
(* A pause holds new jobs for its node and sends the conversion back to    *)
(* the queue: always when it was not sent or waits in the node's queue,    *)
(* and when it is encoding only under an immediate pause.  Each attempt    *)
(* has a job identity of its own.  Three parties act on the conversion,    *)
(* one at a time under its execution lease (pc): the reconciler's resume,  *)
(* the sweep of the paused nodes and a cancel by the operator.             *)
(*                                                                         *)
(* Requests are messages.  A submit or a cancel that was not answered may  *)
(* still arrive.  Leases and checkpoints are ActionEngine's subject, the   *)
(* queue of a node is WorkerQueue's: here a lease ends with its holder,    *)
(* and of a job's life stays what the server can read: a spawned process   *)
(* that did not claim its job yet, an encode, a publication and its retry. *)
(***************************************************************************)
EXTENDS Naturals

CONSTANTS
    Nodes,      \* the configured workers
    NoNode,     \* no worker assigned
    MaxMoves,   \* bound: attempts that were moved
    MaxCalls,   \* bound: pauses, drains, resumes and cancels by the operator
    MaxFaults   \* bound: lost answers, refusals, unreachable nodes, crashes

ASSUME NodesAssumption == NoNode \notin Nodes
ASSUME BoundsAssumption == MaxMoves \in Nat /\ MaxCalls \in Nat /\ MaxFaults \in Nat

VARIABLES
    drain,      \* the worker_drain row
    pause,      \* the worker_pauses rows, by node
    row,        \* the conversion's row
    pc,         \* what the holder of its lease does
    swept,      \* the sweep has the conversion on its list
    job,        \* the jobs on each node, by attempt
    submits,    \* submits on their way, by node and attempt
    cancels,    \* cancels on their way, by node and attempt
    hold,       \* nodes that hold their queue (worker-hold.json)
    quiet,      \* workerHoldState: nodes that confirmed the hold and ran nothing
    lateSubmits,    \* history: attempts whose node denied a job that was sent to it
    lateCancels,    \* history: attempts whose move was given up with a cancel unanswered
    cleared,    \* history: held nodes that were reported idle or ready since
    calls,      \* calls made
    faults      \* faults used up

operator == <<drain, pause>>
nodes == <<job, submits, cancels>>
holds == <<hold, quiet>>
history == <<lateSubmits, lateCancels>>
system == <<operator, row, pc, swept, nodes, holds, history, calls, faults>>
vars == <<system, cleared>>

-----------------------------------------------------------------------------
(* Data *)

Attempts == 0..MaxMoves

\* The node says "queued" also of a job whose process did not claim it yet, and
\* "running", with EncodeComplete, of one that publishes, one whose publication
\* lost its process and one that publishes again.
Waiting == {"queued", "starting"}
Encoding == {"running", "encoded"}
Live == Waiting \cup Encoding \cup {"parked", "retried"}
Ended == {"completed", "failed", "cancelled"}

Rows == [ status: {"active"} \cup Ended,
          held: BOOLEAN,            \* it waits for worker_drain or worker_paused
          worker: Nodes \cup {NoNode},
          attempt: Attempts,        \* manual_retry_count, part of the job identity
          named: BOOLEAN,           \* job_id is set
          submitted: BOOLEAN,       \* transcode_submitted
          reconcile: BOOLEAN,       \* transcode_reconcile
          rejected: BOOLEAN,        \* transcode_submit_rejected
          queued: BOOLEAN,          \* transcode_status was "queued" at the last poll
          moving: BOOLEAN ]         \* pause_requeue_pending names the job

Fresh(attempt) == [ status |-> "active", held |-> FALSE, worker |-> NoNode,
                    attempt |-> attempt, named |-> FALSE, submitted |-> FALSE,
                    reconcile |-> FALSE, rejected |-> FALSE, queued |-> FALSE,
                    moving |-> FALSE ]

\* Where the holder of the lease is.  "graceful" and "immediate" are the modes
\* finishPauseRequeue was called with.
Places == { "idle", "resume", "gate", "admit", "answer",
            "graceful", "immediate", "moving", "stopping" }

Mine == <<row.worker, row.attempt>>
MyJob == job[row.worker][row.attempt]

Paused(n) == pause[n] # "no"

Fault == faults < MaxFaults /\ faults' = faults + 1
Call == calls < MaxCalls /\ calls' = calls + 1

Saves(place, new) == row' = new /\ pc' = place
Goes(place) == pc' = place /\ UNCHANGED row

-----------------------------------------------------------------------------
(* What the server reads of the row *)

\* Mutant of ToSweep: only a conversion that was sent is of interest.
SentToSweep ==
    /\ row.status = "active" /\ row.named
    /\ Paused(row.worker)
    /\ pause[row.worker] = "immediate" \/ row.queued

\* sweepPausedNodes: the rows it hands to requeueForPause.
ToSweep ==
    /\ row.status = "active" /\ row.worker # NoNode
    /\ Paused(row.worker)
    /\ row.named => pause[row.worker] = "immediate" \/ row.queued

\* noRemoteJob
NoRemoteJob == row.rejected /\ ~row.submitted /\ ~row.reconcile

\* classifyDrainRow says "running".
OpenOnWorker ==
    /\ row.status = "active" /\ ~row.held
    /\ row.reconcile \/ (row.named /\ ~NoRemoteJob)

\* Mutant of HeldBack: a job that waited at the last poll still does.
HeldBackUnasked == row.queued

\* The job waits in a queue its node said it holds, and the node counted no
\* running job more than the database does, which is none.
HeldBack == row.queued /\ row.worker \in quiet

Counted(n) == row.worker = n /\ OpenOnWorker /\ ~HeldBack

\* The settle windows of drain and pause outlast an admission that passed the
\* gate before: it saves the job's identity next.
Settled(n) == ~(pc = "admit" /\ row.worker = n)

\* DrainStatus.ReadyForDeploy, and NodePauseStatus.Idle of a node.
ReadyForDeploy == drain /\ \A n \in Nodes : Settled(n) /\ ~Counted(n)
NodeIdle(n) == Paused(n) /\ Settled(n) /\ ~Counted(n)

\* workerHoldWanted
HoldWanted(n) == drain \/ Paused(n)

-----------------------------------------------------------------------------
(* The reconciler's resume *)

Init ==
    /\ drain = FALSE /\ pause = [n \in Nodes |-> "no"]
    /\ row = Fresh(0) /\ pc = "idle" /\ swept = FALSE
    /\ job = [n \in Nodes |-> [a \in Attempts |-> "none"]]
    /\ submits = {} /\ cancels = {}
    /\ hold = {} /\ quiet = {}
    /\ lateSubmits = {} /\ lateCancels = {}
    /\ cleared = {} /\ calls = 0 /\ faults = 0

\* Mutant of Resume: a move that was begun is not completed first.
ResumeAnyway ==
    /\ pc = "idle" /\ row.status = "active"
    /\ Saves("resume", [row EXCEPT !.held = FALSE])
    /\ UNCHANGED <<operator, swept, nodes, holds, history, calls, faults>>

\* resume claims the lease.  A move that was begun is completed before
\* anything else, even if the pause was lifted.
Resume ==
    /\ pc = "idle" /\ row.status = "active"
    /\ IF row.moving THEN Goes("immediate")
                     ELSE Saves("resume", [row EXCEPT !.held = FALSE])
    /\ UNCHANGED <<operator, swept, nodes, holds, history, calls, faults>>

\* ensureWorkerAssigned: a paused node has no capacity.
Assign ==
    /\ pc = "resume" /\ row.worker = NoNode
    /\ \/ \E n \in Nodes : ~Paused(n) /\ Saves("resume", [row EXCEPT !.worker = n])
       \/ (\A n \in Nodes : Paused(n)) /\ Goes("idle")
    /\ UNCHANGED <<operator, swept, nodes, holds, history, calls, faults>>

\* stepTranscodeWait reads the job's status.
Poll ==
    /\ pc = "resume" /\ row.submitted
    /\ Saves("idle", [row EXCEPT
            !.queued = MyJob \in Waiting,
            !.status = CASE MyJob \in Live -> "active"
                         [] MyJob = "completed" -> "completed"
                         [] OTHER -> "failed"])
    /\ UNCHANGED <<operator, swept, nodes, holds, history, calls, faults>>

\* stepTranscodeSubmit: a submit that was not answered is looked up first.  A
\* job the node does not have clears the flag, in memory so far.
Reconcile ==
    /\ pc = "resume" /\ row.reconcile
    /\ IF MyJob = "none"
       THEN Goes("gate") /\ lateSubmits' = lateSubmits \cup {row.attempt}
       ELSE /\ Saves("resume", [row EXCEPT !.submitted = TRUE, !.reconcile = FALSE,
                                           !.queued = MyJob \in Waiting])
            /\ lateSubmits' = lateSubmits \ {row.attempt}
    /\ UNCHANGED <<operator, swept, nodes, holds, lateCancels, calls, faults>>

\* beginAdmission: drain, then the pause of the node.  What a step that waits
\* has in memory is saved, the cleared flag with it.
AtGate ==
    \/ pc = "gate"
    \/ pc = "resume" /\ row.worker # NoNode /\ ~row.submitted /\ ~row.reconcile
Admission ==
    /\ AtGate
    /\ IF drain \/ Paused(row.worker)
       THEN Saves("idle", [row EXCEPT !.reconcile = FALSE, !.held = TRUE])
       ELSE Goes("admit")
    /\ UNCHANGED <<operator, swept, nodes, holds, history, calls, faults>>

\* The identity is saved before the job is sent.  Nothing is read in between;
\* a crash there is a request that is lost.
Submit ==
    /\ pc = "admit"
    /\ Saves("answer", [row EXCEPT !.named = TRUE, !.reconcile = TRUE, !.rejected = FALSE])
    /\ submits' = submits \cup {Mine}
    /\ UNCHANGED <<operator, swept, job, cancels, holds, history, calls, faults>>

Accepted ==
    /\ pc = "answer" /\ MyJob # "none"
    /\ Saves("resume", [row EXCEPT !.submitted = TRUE, !.reconcile = FALSE])
    /\ lateSubmits' = lateSubmits \ {row.attempt}
    /\ UNCHANGED <<operator, swept, nodes, holds, lateCancels, calls, faults>>

\* No answer: the request may be lost, or arrive later.
Unanswered ==
    /\ pc = "answer"
    /\ Goes("idle")
    /\ submits' \in {submits, submits \ {Mine}}
    /\ Fault
    /\ UNCHANGED <<operator, swept, job, cancels, holds, history, calls>>

\* A definitive refusal is retried with the same identity, or is final.  An
\* earlier request with this identity may still be on its way.
Refused ==
    /\ pc = "answer" /\ MyJob = "none"
    /\ \E status \in {"active", "failed"} :
        Saves("idle", [row EXCEPT !.reconcile = FALSE, !.rejected = TRUE, !.status = status])
    /\ submits' \in {submits \ {Mine}} \cup IF row.attempt \in lateSubmits THEN {submits} ELSE {}
    /\ Fault
    /\ UNCHANGED <<operator, swept, job, cancels, holds, history, calls>>

\* The node, or a node to be assigned, cannot be reached.
Unreachable ==
    /\ pc \in {"resume", "graceful", "immediate"}
    /\ Goes("idle")
    /\ Fault
    /\ UNCHANGED <<operator, swept, nodes, holds, history, calls>>

-----------------------------------------------------------------------------
(* The sweep of the paused nodes, and the completion of a move *)

SweepLists ==
    /\ ~swept /\ ToSweep
    /\ swept' = TRUE
    /\ UNCHANGED <<operator, row, pc, nodes, holds, history, calls, faults>>

\* requeueForPause takes the lease if nobody has it and reads the pause and
\* the row again: both may have changed since the list was made.
SweepClaims ==
    /\ swept /\ pc = "idle"
    /\ swept' = FALSE
    /\ IF row.status = "active" /\ row.worker # NoNode /\ Paused(row.worker)
       THEN Goes(pause[row.worker])
       ELSE Goes("idle")
    /\ UNCHANGED <<operator, nodes, holds, history, calls, faults>>

Immediate == pc = "immediate" \/ row.moving

\* Mutant of Denied: a job the node does not have is gone.
DeniedAnyway == MyJob = "none"

\* The node does not have the job and no submit of it is in doubt.
Denied == MyJob = "none" /\ ~row.reconcile

\* What cancelForPause may move: a job that is over or was never there, and,
\* after a cancel, one that waits or (under an immediate pause) encodes.
Gone == Denied \/ MyJob \in {"failed", "cancelled"}
ToCancel == MyJob \in Waiting \/ (MyJob = "running" /\ Immediate)

\* Mutant of Reset: the row keeps the job of the attempt it gives up.
ResetNodeOnly == Saves("idle", [row EXCEPT !.worker = NoNode])

\* resetForRequeue: the state of a conversion that was just asked for; what
\* had a job gets an identity of its own for the next attempt.
Reset ==
    \/ ~row.named /\ Saves("idle", Fresh(row.attempt))
    \/ row.named /\ row.attempt < MaxMoves /\ Saves("idle", Fresh(row.attempt + 1))

\* finishPauseRequeue, where no cancel is needed or none is allowed.
Release ==
    /\ pc \in {"graceful", "immediate"} /\ (row.named => Gone)
    /\ Reset
    /\ UNCHANGED <<operator, swept, nodes, holds, history, calls, faults>>

Keep ==
    /\ pc \in {"graceful", "immediate"} /\ row.named /\ ~Gone /\ ~ToCancel
    /\ Saves("idle", [row EXCEPT !.moving = FALSE])
    /\ lateCancels' = IF row.moving THEN lateCancels \cup {row.attempt} ELSE lateCancels
    /\ UNCHANGED <<operator, swept, nodes, holds, lateSubmits, calls, faults>>

\* cancelForPause: the intent is saved before the cancel is sent.
Move ==
    /\ pc \in {"graceful", "immediate"} /\ row.named /\ ToCancel
    /\ Saves("moving", [row EXCEPT !.moving = TRUE])
    /\ cancels' = cancels \cup {Mine}
    /\ UNCHANGED <<operator, swept, job, submits, holds, history, calls, faults>>

\* cancelTranscodeJobConfirmed: the answer, or the status that is read when
\* there is none, says that the job is over.
Confirmed ==
    /\ pc \in {"moving", "stopping"} /\ MyJob \in Ended
    /\ IF pc = "moving" THEN Reset ELSE Goes("idle")
    /\ UNCHANGED <<operator, swept, nodes, holds, history, calls, faults>>

\* No answer and no status; or the node does not know the job.
Unconfirmed ==
    /\ pc \in {"moving", "stopping"}
    /\ Goes("idle")
    /\ cancels' \in {cancels, cancels \ {Mine}}
    /\ \/ Fault
       \/ MyJob = "none" /\ Mine \notin cancels /\ UNCHANGED faults
    /\ UNCHANGED <<operator, swept, job, submits, holds, history, calls>>

-----------------------------------------------------------------------------
(* The operator *)

\* SetWorkerDrain
SetDrain ==
    /\ drain' = ~drain
    /\ Call
    /\ UNCHANGED <<pause, row, pc, swept, nodes, holds, history, faults>>

\* SetNodePause.  The hold that these two tell the node is SyncHold, which
\* every observation repeats.
SetPause(n, mode) ==
    /\ mode # pause[n]
    /\ pause' = [pause EXCEPT ![n] = mode]
    /\ Call
    /\ UNCHANGED <<drain, row, pc, swept, nodes, holds, history, faults>>

\* cancel: the row first, then the node.
Cancel ==
    /\ pc = "idle" /\ row.status # "completed"
    /\ LET remote == row.named /\ ~NoRemoteJob IN
       /\ Saves(IF remote THEN "stopping" ELSE "idle",
                [row EXCEPT !.status = "cancelled", !.held = FALSE])
       /\ cancels' = IF remote THEN cancels \cup {Mine} ELSE cancels
    /\ Call
    /\ UNCHANGED <<operator, swept, job, submits, holds, history, faults>>

-----------------------------------------------------------------------------
(* The nodes *)

SetJob(n, a, status) == job' = [job EXCEPT ![n][a] = status]

\* A second submit with the same identity finds the job.
SubmitArrives(n, a) ==
    /\ <<n, a>> \in submits
    /\ submits' = submits \ {<<n, a>>}
    /\ IF job[n][a] = "none" THEN SetJob(n, a, "queued") ELSE UNCHANGED job
    /\ UNCHANGED <<operator, row, pc, swept, cancels, holds, history, calls, faults>>

CancelArrives(n, a) ==
    /\ <<n, a>> \in cancels
    /\ cancels' = cancels \ {<<n, a>>}
    /\ IF job[n][a] \in Live THEN SetJob(n, a, "cancelled") ELSE UNCHANGED job
    /\ UNCHANGED <<operator, row, pc, swept, submits, holds, history, calls, faults>>

\* What countActiveJobs counts: a parked job has no process.
Busy(n) == \E a \in Attempts : job[n][a] \in Encoding \cup {"starting", "retried"}

\* A node has one slot, and starts no job while it holds its queue.
Starts(n, a) ==
    /\ job[n][a] = "queued" /\ n \notin hold /\ ~Busy(n)
    /\ SetJob(n, a, "starting")
    /\ UNCHANGED <<operator, row, pc, swept, submits, cancels, holds, history, calls, faults>>

\* claimRunner.  The hold is not asked again.
Claims(n, a) ==
    /\ job[n][a] = "starting"
    /\ SetJob(n, a, "running")
    /\ UNCHANGED <<operator, row, pc, swept, submits, cancels, holds, history, calls, faults>>

Encodes(n, a) ==
    /\ job[n][a] = "running"
    /\ \E status \in {"encoded", "failed"} : SetJob(n, a, status)
    /\ UNCHANGED <<operator, row, pc, swept, submits, cancels, holds, history, calls, faults>>

Publishes(n, a) ==
    /\ job[n][a] \in {"encoded", "retried"}
    /\ SetJob(n, a, "completed")
    /\ UNCHANGED <<operator, row, pc, swept, submits, cancels, holds, history, calls, faults>>

\* A publication fails or loses its process, or the process dies before its claim.
Breaks(n, a) ==
    /\ \/ job[n][a] \in {"encoded", "retried"} /\ SetJob(n, a, "parked")
       \/ job[n][a] = "starting" /\ SetJob(n, a, "queued")
    /\ Fault
    /\ UNCHANGED <<operator, row, pc, swept, submits, cancels, holds, history, calls>>

\* ResumePostEncode: "a job past its encode still finalizes and publishes", also
\* while the node holds its queue.
Retries(n, a) ==
    /\ job[n][a] = "parked" /\ ~Busy(n)
    /\ SetJob(n, a, "retried")
    /\ UNCHANGED <<operator, row, pc, swept, submits, cancels, holds, history, calls, faults>>

Told(n) == IF HoldWanted(n) THEN hold \cup {n} ELSE hold \ {n}

\* syncWorkerHold: the answer carries the number of running jobs.
SyncHold(n) ==
    /\ hold' = Told(n)
    /\ quiet' = IF HoldWanted(n) /\ ~Busy(n) THEN quiet \cup {n} ELSE quiet \ {n}
    /\ UNCHANGED <<operator, row, pc, swept, nodes, history, calls, faults>>

\* The node does not answer; it may have heard.
SyncFails(n) ==
    /\ hold' \in {hold, Told(n)}
    /\ quiet' = quiet \ {n}
    /\ Fault
    /\ UNCHANGED <<operator, row, pc, swept, nodes, history, calls>>

\* The server dies.  Its rows stay, and so does what the nodes have.  What it
\* was about to send is lost.
Crash ==
    /\ pc' = "idle" /\ swept' = FALSE /\ quiet' = {}
    /\ submits' \in {submits, IF pc = "answer" THEN submits \ {Mine} ELSE submits}
    /\ cancels' \in {cancels, IF pc \in {"moving", "stopping"} THEN cancels \ {Mine} ELSE cancels}
    /\ Fault
    /\ UNCHANGED <<operator, row, job, hold, history, calls>>

-----------------------------------------------------------------------------
(* What the holder of the lease does next. *)
Works ==
    \/ Assign \/ Poll \/ Reconcile \/ Admission
    \/ Submit \/ Accepted \/ Unanswered \/ Refused \/ Unreachable
    \/ Release \/ Keep \/ Move \/ Confirmed \/ Unconfirmed

Operates ==
    \/ SetDrain \/ Cancel
    \/ \E n \in Nodes, mode \in {"no", "graceful", "immediate"} : SetPause(n, mode)

NodeWorks(n, a) ==
    \/ SubmitArrives(n, a) \/ CancelArrives(n, a)
    \/ Starts(n, a) \/ Claims(n, a) \/ Encodes(n, a) \/ Publishes(n, a) \/ Retries(n, a)

Step ==
    \/ Resume \/ Works \/ SweepLists \/ SweepClaims
    \/ Operates \/ Crash
    \/ \E n \in Nodes : SyncHold(n) \/ SyncFails(n)
    \/ \E n \in Nodes, a \in Attempts : NodeWorks(n, a) \/ Breaks(n, a)

\* A node is cleared from the moment its pause is reported idle, or the drain
\* ready, for as long as it is held.
Clear(n) == HoldWanted(n) /\ (ReadyForDeploy \/ NodeIdle(n))
Observes ==
    cleared' = {n \in Nodes : Clear(n)' \/ (n \in cleared /\ HoldWanted(n)')}

Next == Step /\ Observes

Spec == Init /\ [][Next]_vars

\* The reconciler ticks for ever and neither the resume nor the sweep is kept
\* from the lease for ever; holders of the lease go on; requests arrive; a
\* node works.
Fairness ==
    /\ SF_system(Resume) /\ SF_system(SweepClaims)
    /\ WF_system(Works) /\ WF_system(SweepLists)
    /\ \A n \in Nodes :
        /\ WF_system(SyncHold(n))
        /\ \A a \in Attempts : WF_system(NodeWorks(n, a))

FairSpec == Spec /\ Fairness

-----------------------------------------------------------------------------
(* Properties *)

\* What names a job names its node.
RowOK == /\ row \in Rows
         /\ row.submitted \/ row.reconcile \/ row.rejected \/ row.moving => row.named
         /\ row.named => row.worker \in Nodes

\* Every variable has its type.
TypeOK ==
    /\ drain \in BOOLEAN
    /\ pause \in [Nodes -> {"no", "graceful", "immediate"}]
    /\ RowOK
    /\ pc \in Places
    /\ swept \in BOOLEAN
    /\ job \in [Nodes -> [Attempts -> {"none"} \cup Live \cup Ended]]
    /\ submits \subseteq Nodes \X Attempts
    /\ cancels \subseteq Nodes \X Attempts
    /\ hold \subseteq Nodes
    /\ quiet \subseteq Nodes
    /\ lateSubmits \subseteq Attempts
    /\ lateCancels \subseteq Attempts
    /\ cleared \subseteq Nodes
    /\ calls \in 0..MaxCalls
    /\ faults \in 0..MaxFaults

\* At every moment, whatever pauses, moves, crashes and lost answers came
\* before, a job that can still encode the file, and a submit that can still
\* make one, is the one the row names.  The exception is a submit its node
\* denied while it was on its way (see NeverTwice).
OneEncode ==
    \A n \in Nodes, a \in Attempts \ lateSubmits :
        job[n][a] \in Live \/ (job[n][a] = "none" /\ <<n, a>> \in submits)
            => row.named /\ <<n, a>> = Mine

\* The comment of cancelForPause: "A submit the server never saw answered may
\* still land on the node later; moving the file now could encode it twice.
\* Leave it until the node says what it has".  The file is encoded once at a
\* time.
NeverTwice ==
    \A n, m \in Nodes, a, b \in Attempts :
        job[n][a] \in Encoding /\ job[m][b] \in Encoding => n = m /\ a = b

\* "It is not a cancellation: the action stays active": a conversion fails
\* because its encode failed or was refused, never because a job was cancelled
\* to move it, through any crash between the recorded move, the cancel and the
\* reset.  The exception is a cancel that was not answered and arrives after
\* the move was given up.
PauseIsNotEnd ==
    row.status = "failed" =>
        row.rejected \/ MyJob = "failed" \/ row.attempt \in lateCancels

\* Once the drain was reported ready, or a paused node idle, nothing encodes
\* there until it is resumed: no admission, queued job or hold that was lost
\* meanwhile.  The exceptions are a submit that was denied, a job whose cancel
\* by the operator was not confirmed and a publication that is tried again.
ReadyStaysIdle ==
    \A n \in cleared, a \in Attempts \ lateSubmits :
        job[n][a] \in Encoding => row.status = "cancelled" /\ <<n, a>> = Mine

\* A conversion ends, whatever was paused and moved before, once drain is off,
\* a node is free and no graceful pause may keep it.  The exception is a job
\* its node denied and then received.
Finishes ==
    <>[](/\ ~drain
         /\ \E n \in Nodes : ~Paused(n)
         /\ \A n \in Nodes : pause[n] # "graceful")
        => <>( \/ row.status # "active"
               \/ row.attempt \in lateSubmits /\ row.named /\ MyJob # "none")

-----------------------------------------------------------------------------
(* What makes them inductive *)

\* What the holder of the lease is at.
Place ==
    /\ pc \in {"resume", "gate", "admit", "answer", "graceful", "immediate", "moving"}
        => row.status = "active"
    /\ pc \in {"gate", "admit", "answer", "graceful", "immediate"} => row.worker \in Nodes
    /\ pc \in {"resume", "gate", "admit", "answer"} => ~row.moving /\ ~row.held
    /\ pc \in {"gate", "admit", "answer"} => ~row.submitted
    /\ pc = "gate" => row.attempt \in lateSubmits
    /\ pc = "admit" /\ row.reconcile => row.attempt \in lateSubmits
    /\ pc = "answer" => row.reconcile
    /\ pc = "moving" => row.named /\ row.moving
    /\ pc = "stopping" => row.named /\ row.status = "cancelled"

\* The row's flags.
Flags ==
    /\ row.submitted => MyJob # "none" /\ ~row.reconcile
    /\ row.rejected => ~row.submitted /\ ~row.reconcile
    /\ row.held => ~row.submitted /\ ~row.reconcile
    /\ row.queued => row.submitted
    /\ row.status = "completed" => row.named /\ MyJob = "completed"
    /\ row.status = "failed" => row.named /\ ~row.moving /\
                                (row.rejected \/ MyJob \in {"failed", "cancelled"})

\* Nothing was ever sent for a later attempt, or for this one elsewhere.
Sent(n, a) == job[n][a] # "none" \/ <<n, a>> \in submits \cup cancels
Known ==
    \A n \in Nodes, a \in Attempts : Sent(n, a) =>
        a <= row.attempt /\ (a = row.attempt => row.named /\ n = row.worker)

\* A job that is not there and not in doubt is not on its way.
Unsent ==
    row.named /\ ~row.submitted /\ ~row.reconcile /\ row.attempt \notin lateSubmits
        => MyJob = "none" /\ Mine \notin submits

\* A job is cancelled to move it, or by the operator.
CancelledFor ==
    row.named /\ (MyJob = "cancelled" \/ Mine \in cancels) =>
        row.moving \/ row.attempt \in lateCancels \/ row.status = "cancelled"

\* Nothing encodes, or is about to, where the hold was confirmed quiet.
Quiet == \A n \in quiet : n \in hold /\ \A a \in Attempts : job[n][a] \notin Encoding \cup {"starting"}

\* What may still be on a node that was cleared.
ClearedAt(n) ==
    /\ HoldWanted(n)
    /\ row.worker = n /\ row.status = "active" => pc \notin {"admit", "answer"} /\ ~row.reconcile
    /\ \A a \in Attempts \ lateSubmits : job[n][a] \in Encoding \cup Waiting =>
        <<n, a>> = Mine /\ (row.status = "cancelled" \/ (job[n][a] = "queued" /\ n \in hold))
Cleared == \A n \in cleared : ClearedAt(n)

IInv ==
    /\ TypeOK /\ Place /\ Flags /\ Known /\ Unsent
    /\ CancelledFor /\ Quiet /\ Cleared /\ OneEncode

=============================================================================
