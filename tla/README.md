# navigatorr: a formal model of the conversion coordinator

TLA+ modules, TLC configurations and TLAPS proofs for
[navigatorr](../src/README.md), a service that finds media files worth converting,
sends them to conversion workers, checks the results and replaces the originals.
The core of it is a durable workflow engine (`src/action`), its SQLite store
(`src/store`) and the worker that runs the encodes (`src/internal/transcodeworker`).

Everything here is read from the source. `PROJECT.json` says, for every
definition, which lines it stands for.

## 1. The system and its parts

| Part | State it keeps | Operations | Hard because |
|---|---|---|---|
| Durable workflow engine (`action/engine.go`, `reconcile.go`, `enqueue.go`; `store/actions.go`, `action_reconcile.go`) | one row per action (status, current step, `state_json`), one lease row per action | Enqueue, Run, resume, retry, cancel, execute, reconcile tick | leases that lapse under a live call, crashes between any two writes, several callers of one action, an admission that must be idempotent |
| `transcode_media` workflow (`action/transcode_*.go`, `candidate_location.go`, `worker_affinity.go`) | keys of `state_json`: worker, job identity, submitted / reconcile / rejected / done | preflight, benchmark, submit, wait, validate, accept; rewinds down the quality and size ladders | HTTP submits whose answer is lost, identities that must never be mixed, worker answers that change between two reads |
| Goal planning (`transcode_modes.go`, `transcode_size_budget*.go`, `transcode/*_policy.go`) | none, pure | plan, next rung | arithmetic at boundaries |
| Batch parent and child admission (`transcode_batch.go`, `parent_admission.go`, `batch_revision.go`) | plan revisions, children, parent lease | create, resume children, stop, admit | a child holds its lease and wants its parent's |
| Drain, pause, slot queue (`worker_drain.go`, `worker_pause.go`, `worker_slot_queue.go`) | drain and pause rows, queue keys in `state_json` | drain, pause, requeue a running job, take a turn | a sweep cancels a job which is finishing |
| Promotion, move aside, cleanup, replace when done (`promote_*.go`, `candidate_cleanup.go`, `replace_when_done.go`) | intents in `state_json`, ownership claims in the store, files | claim, move aside, adopt, remove | a crash between intent, rename and checkpoint |
| Worker queue and runners (`transcodeworker/worker.go`, `scheduler*.go`, `slots.go`) | `job.json` per job, terminal marker, capacity lock, per-job lock, runner processes | submit, schedule, runner, cancel, status, startup reconcile | several processes, runners that outlive the server |
| Worker publication and retention (`operational_execute.go`, `publication_retry.go`, `retained.go`) | finished encodes, retained candidates, tombstones | finalize, retry, publish, release, sweep | restart after the encode and before the publication |
| Source cache, storage leases (`source_cache*.go`, `storage_lease.go`) | cache entries and pins, mount records | populate, link, evict; ensure healthy | space and sharing |
| Store: maintenance items, request queue (`store/store.go`, `maintenance_queue.go`, `queue/queue.go`) | item rows with a lease; a JSON file | claim, resolve, restore | expired claims |
| Clients, probes, console, tools (`httpclient`, `arrservice`, `qbit`, `maintenanceui`, `tools`, ...) | little or none | requests and their answers | seen by the models as the network and as user calls |

How they interact. The reconciler and users call the engine; each call takes the
action's lease in the store, works on its own copy of the row and writes it back
under a fence (the lease must still be the writer's). Steps talk to the worker
over HTTP: Submit, Status, Cancel. The worker runs each job as a detached
process and keeps what it knows in files. Promotion is a second action, which
uses the candidate of the first.

The properties that make each part correct:

* engine and workflow: at most one job of an action runs and the row names it; a
  confirmed cancel holds; final rows are never written over by a stale call;
  checkpoints only go back where the code says; a completed action has a
  candidate; an action never hangs;
* worker queue: slot limits, one runner per job, a terminal state is final, a
  cancelled job is not revived, a finished encode is not repeated, a queued job
  is eventually started;
* publication and retention: a candidate is published once, never after it
  was released, and never lost to a sweep that races its publication;
* promotion: an original is removed only when its recovery copy or its
  replacement is in place, and one candidate at a time owns an original;
* batch, drain and pause: no submit passes a closed admission, no deadlock
  between parent and children, a moved job runs in one place;
* caches, leases and items: nothing in use is evicted, one owner at a time.

## 2. Plan

The most important behaviour comes first: what happens to one conversion between
the engine and the worker.

| # | Module | State | Composition, abstract specification | Status |
|---|---|---|---|---|
| 1 | `ActionEngine` | row, lease, executors, worker jobs of one action | implements `ActionLifecycle`, the life of a conversion as its user sees it | done |
| 2 | `WorkerQueue` | records, markers, processes, passes, locks of a worker | `EngineWorker`: the worker's jobs of `ActionEngine` refined, each by one job of `WorkerQueue` | done for publish on encode |
| 3 | `Publication` | the files of a publication, retained candidates, release, sweep | refines the places finalize .. complete of `WorkerQueue` | planned |
| 4 | `SourceCache` | entries, pins, space | - | planned |
| 5 | `StorageLease` | mounts, flights | - | planned |
| 6 | `Promotion` | checkpoints of a promotion, the files, what the library knows, the reservation | implements `Replacement`: where an original may be, and what may take it away | done from approval on |
| 7 | `NodePause` | drain, pauses, holds, the sweep and the moves of one conversion among several nodes | takes the leases of `ActionEngine` and the queue of `WorkerQueue` as given | done |
| 8 | `BatchAdmission` | parent, children, slot queue | uses the claim of `ActionEngine` | planned |
| 9 | `MaintenanceItems` | item rows with a lease, the console, the queue file | - | planned |
| 10 | `Resilience` | retry loop, semaphores, circuit of a service pool | - | planned |

Every module is written for both tools: constants with named assumptions, one
action per operation, invariants as conjunctions of named parts and no recursive
operator, safety and liveness of a module in one run where the instance allows. Theorems worth
proving next: that a candidate is published once (`Publication`) and that a parent and
its children never wait for each other (`BatchAdmission`).

## 3. The modules and the code

### ActionEngine, ActionLifecycle

One action of the `transcode_media` workflow and every call that can work on it.

| State | Code |
|---|---|
| `row` | the action's row: status, current step and the keys of `state_json` that steer the steps |
| `lease` | the row of `action_leases`; `live` turns false when it expires |
| `pc`, `mem` | where each call stands in `claimExecution`, `execute`, a step, `retry` or `cancel`, and its copy of the row |
| `jobs` | the worker's answer per job identity |
| `inflight` | submits whose answer was lost and that may still arrive |
| `encoded`, `confirmed` | history: jobs that ran; cancels that were confirmed |

The calls are `AutoResume` (the reconciler), `UserResume`, `UserRetry` and
`UserCancel`; they all go through `Claim`. A call then moves through `Resuming`,
`Loop` and the steps (`AssignWorker`, `RunPreflight`, `RunSubmit` with
`Reconcile`, `Admit`, `Send`, `Record`, then `RunWait`, `RunValidate`,
`RunAccept`) and ends in `Result`, which is the save after a step, and `Release`.
`RetryCheck`, `RetrySave`, `Cancelling`, `RemoteCancel` and `CancelStatus` are the
two other operations. Each save is fenced by the lease (`SaveThen`,
`Persisted`). The environment crashes calls, ends their contexts, lets leases
lapse and expire, delivers late submits and ends jobs. `SyncSpec` adds `Run`,
which inserts the row before it has a lease.

Two reads or writes are one step only where the code makes them one statement of
the store or where nothing else can see the difference. Plans, ladders and
evidence are nondeterministic choices over what the step can do next. A lapsed
lease cannot be renewed; its holder learns of it when its context ends. The
decision "none" of `UserResume` stands for a recheck.

`ActionLifecycle` is what a user is promised, without leases, calls, retries or lost
replies: attempts follow one another and a new one begins only when nothing of
the last runs, at most one encode runs, a completed action has a finished
attempt, a failed one can be reopened, a completed or cancelled one cannot.
`ImplementsLifecycle` is the refinement.

### WorkerQueue

The server and the runners of one worker, which share only files.

| State | Code |
|---|---|
| `rec` | `job.json`: status, PID, `EncodeComplete`, `FinalizationState`, retry count, whether the last error forbids a retry, the operator's request |
| `marker` | `terminal.json` |
| `asr` | podcast jobs with a durable transcript or match report |
| `run` | the processes: place in `InternalRun`, job, own copy of the record |
| `sched` | the pass that holds the capacity lock: kind, the job it looks at, the counted slots, a process started and not yet recorded |
| `cancelling` | a cancel between its kill, its save and its marker |
| `server`, `todo` | down, reconciling, resuming publications, up; jobs still to reconcile |
| `held` | `worker-hold.json` |
| `stray`, `attempts` | history: jobs whose server died between spawn and save of the PID; publications started since the operator's last retry |

Requests are `SubmitNew`, `SubmitAgain`, `Status`, `CancelKills/Saves/Marks`,
`RetryPublication` and `Hold`; passes are `QueueStarts` and `ResumeStarts`, then
per job `QueueTakes` and `QueueRecords`, `ResumeSkips`, `ResumeTakes` and
`ResumeRecords`; `Crash`, `Restart`, `StartupReconciles`, `StartupResumes` and
`StartupEnds` are the daemon's life; `Load`, `ClaimRunner`, `Encode`,
`Checkpoint`, `Finalize`, `Publish`, `Complete`, `Mark` a runner's; `Dies` and
`Refuse` its ends. The job lock (`flock`) makes a read-modify-write one step, so
it appears only where its holder does two durable things that a crash can part:
the spawn and its record, the cancel's three writes, the terminal record and its
marker (`Locked`). A lock dies with its holder.

Abstractions. A record that ended forgets its PID, which no code reads again.
Staging, probing, planning and encoding are one place, `encode`, with saves,
failures and the podcast checkpoint. The repetition of a queue pass until it
starts nothing more is a new pass. Time is a choice: an attempt is due or it is
skipped; the delay between attempts is not a number. Retained candidates, the
x265 cap, the publication lane and the retention room at start are not there.
Submit's own repair of a dead job lacks the podcast checkpoint that the other
two repairs have (`worker.go` 953-975 against `telemetry.go` 40 and `worker.go`
1993): the model has it as it is.

### EngineWorker

The seam between the two modules above. `ActionEngine` takes for granted what the
worker does to a job (`Accepted`, `Cancelled`, `WorkerEnds`); `EngineWorker` shows that
each job of `WorkerQueue` does only that. It adds no state: `Shown` is what
`stepTranscodeWait` makes of a record's status, `Fetchable` says that the job ended
completed with its result published, and `Engine(j)` is an instance of `ActionEngine`
in which job `j` is the only attempt. `ImplementsEngineWorker` is the
refinement: to the engine a job never reopens, is completed only with a result, and a
result stays. So the theorems about the engine's use of the worker do not rest on a
worker that is better than the real one.

It is the safety part only: an encode that waits for an operator's retry of its
publication stays open, so the engine's fairness of `WorkerEnds` is no more than the
assumption that somebody retries. Jobs that a crash orphaned (`stray`) are excepted,
and since the jobs of `WorkerQueue` publish on encode, the instance has no retention.

### Promotion, Replacement

One approved promotion, from `preserve_original` to the end.

| State | Code |
|---|---|
| `kind` | the service (a library, or plain files) and whether the candidate takes the original's name; constant |
| `row`, `step` | the action's status and `current_step` |
| `pc` | where the call that holds the lease is between two durable effects |
| `p` | `state_json.promotion`, with `filesystem_publish_started` and `filesystem_published` |
| `files` | what the library path, the recovery path, its partial, the candidate's path and the new path hold |
| `arr` | Sonarr or Radarr: the active file, the records, the commands it was sent |
| `claim`, `original`, `rival` | `promotion_series_claims`, `promotion_original_claims`, another promotion that wants them |
| `discarded`, `taken` | history: a user gave the recovery of a placed candidate up; the library removed the original itself |
| `late` | history: a rescan took the original back when a removal had read the library for the last time |

`Enter` is `promotionMutation`, with which every step begins; then each step of
the code is one to four actions, cut where it saves, renames, copies, unlinks or
sends: `Preserve` with `MakeRecoveryCopy .. RecordCopy`; `Publish` (its intent), then
`MoveAside`, `RenameAside`, `ConfirmAside`, then `TakeName` and `Published`; `Import`,
`SendImport`, `ReconcileImport`; `LocalRemove`, `Unlink`, `Removed`; for a library
`StillAdopted`, `OldRecordRead`, then `RemoveOld`, `RecordDelete`, `SendDelete` or
`RemoveOrphan`; `Rename`; `Finalize`, `DropRecovery`, `Finalized`.
`StepFails` is any check or call that fails, with the deferred move back of a
publish (`MoveBack`, `RenameBack`, `FinishMoveBack`), which can fail itself at each of
its parts: the recovery cannot be verified, the intent or the record not saved, the
rename refused for whatever reason. `Crash` is the death of the
process or the end of the context, possible at each of these places. Users retry,
cancel, restore (`RestoreTranscodeBackup`) and discard (`DiscardTranscodeBackup`).
The library imports late or not at all, with or without removing the original's
record or file, deletes, scans and renames, and reports an old path for a while.
As `promote_retry.go:15-18` and `:85-89` say, a rescan can also readopt the original at
any moment, under its old record or a new one, and discard the candidate's
(`LibraryReadopts`). So each read of the library in `stepPromoteRemoveOld` is an action
of its own: the candidate is still adopted (`StillAdopted`), the old record exists and no
episode uses it, or no record owns the original's path (`OldRecordRead`), and once more no
episode uses it (`promotionNoOldReferences`, in `RemoveOld`). After the last of these
the code cannot see a readoption any more; `late` marks the one that comes then, until
`RetryImport` starts over from it. Such an original is removed like one that was not readopted, and
`ActiveFileThere` says that this is the only way for the episodes to lose their file.
Somebody puts files where none are. The rival takes the reservation when the
store's rule lets it (`promotionSeriesTakeoverSQL`).

`Replacement` is what an owner is promised: at which of the two places the
original is, whether the candidate has its place, that the last copy goes
only when it has, and that it loses this place only in a library, to an original that is
whole at its library path. `ImplementsReplacement` is the refinement; a candidate that
lost its place to a `late` readoption counts as placed there (`Replaced`), since no
removal can know better.

Abstractions. A file is what its content is: the original, the candidate, a
partial copy, an emptied file, or a foreign one; hashes, fingerprints, sizes,
samples and the NAS helper are a test of that, and the last checks of a file before its
rename or unlink are one step with it; reads of the library are not. A fallback copy
that a removal makes (`CopyingOn`) goes on with that removal. A foreign file has not the size of the
candidate. The paths are five; candidate and recovery directories are left out.
Not modelled: planning and approval, `preparePromotionRetry`'s discovery of the
adopted candidate under another id, a library that adopts a foreign file or drops the
record of a candidate without readopting the original, the rescan command, the approvals a batch can
withdraw (a refusal of `Enter`), claims owned by a batch (the owner is the
promotion), retired siblings, ambiguous matches among the commands of the library.

### NodePause

One conversion among several nodes, which an operator drains, pauses and resumes.

| State | Code |
|---|---|
| `drain`, `pause` | the rows `worker_drain` and `worker_pauses` |
| `row` | the action: open or not, whether the gate holds it, worker, job identity, submitted / reconcile / rejected, the status of the last poll, `pause_requeue_pending` |
| `pc` | what the holder of the action's lease does: a resume, a sweep, a move, a cancel |
| `swept` | the sweep's list, read before the lease is taken |
| `job` | on each node, the job of each attempt |
| `submits`, `cancels` | requests that were sent and may still arrive |
| `hold`, `quiet` | `worker-hold.json` of the nodes; what the server last heard of them (`workerHoldState`) |
| `lateSubmits`, `lateCancels`, `cleared` | history: attempts whose node denied a job that was sent; moves given up with a cancel unanswered; held nodes that were reported idle or ready |

`Resume` goes on with the move that was begun, or to `Assign`, `Reconcile`, `Admission`
(the gate of `beginAdmission`), `Submit` with `Accepted`, `Unanswered` or `Refused`, and
`Poll`. `SweepLists` and `SweepClaims` are the two halves of `sweepPausedNodes`, which lists
without a lease; then `Release` (nothing to cancel), `Keep` (not its to move) or `Move`,
which saves the intent and sends the cancel, and `Confirmed` or `Unconfirmed`. `Reset` is
`resetForRequeue`. `SyncHold` is one step since the code reads and sets the hold
under a mutex per node and each observation repeats it. The nodes receive and start a
job (`Starts` spawns, `Claims` is `claimRunner`; in between the node still says "queued" but
counts it), encode and publish it; `Breaks` is a process that dies before its claim or while it
publishes, and `Retries` is `ResumePostEncode`, which asks for a slot and not for the hold. Its
budget of three attempts is `WorkerQueue`'s, the faults of the run do not use it
up. `Crash` ends the server with what it was about to send.

The settle windows of drain and pause (15 s) are the assumption that an admission
which passed the gate has saved the job's identity when they end (`Settled`).
`ReadyForDeploy` and `NodeIdle` are what `drainStatus` and `nodePauseStatuses` report, without
the condition that the node is reachable, so more states count as ready here than there.
`ReadyStaysIdle` leaves out the retry of a publication: it needs no admission and is not held,
and between two attempts nothing counts it, so a row that still says "queued" from the last poll
can let its node be reported idle and the publication go on afterwards. The worker's
`hold.go` allows that ("a job past its encode still finalizes and publishes"); no encode starts.

Abstractions. Other conversions, podcast jobs, the slot queue and a node's capacity
are left out: a node that is not paused can always be assigned. A quality ladder's
encodes are one job. A finished encode that cannot be saved (`recovery_required`,
retained) is an `encoded` job, which a move keeps in the same way. Not there: a hold
that arrives late, restarts of a node, stores that fail, the removal of what a moved
job left behind.

## 4. Runs

| Run | Instance | What it shows |
|---|---|---|
| `engine` | 2 executors, 2 jobs, 1 re-encode of a dropped candidate, 1 fault, 1 user call, a worker that keeps its candidates, fairness | the inductive invariant, one tracked job, lasting cancels, final rows, forward checkpoints, earned completion, the refinement; an open action ends or asks its user |
| `engine_rejected`, `engine_checkpoint`, `engine_run_race` | smallest instances | three disagreements, section 7 |
| `worker_queue` | a video and a podcast job, 2 processes, every limit 1, 2 faults, states with a stray process not extended | slots, single runners, cancels, checkpoints, markers, true copies, final records, the refinement of the engine's worker |
| `worker_retries` | a podcast job, 2 processes, a budget of 2, 1 fault, 1 hold or retry, fairness | the inductive invariant, the budget, the hold, lasting cancels beside strays too, queued jobs start, finished encodes settle |
| `worker_published`, `worker_double_spawn` | 1 job, 2 processes, 1 fault | two disagreements, section 7 |
| `promotion` | a promotion of each of the four kinds, one rival, no bound on crashes, retries, cancels, restores, readoptions | the inductive invariant, the fate of the original and of the active file, single requests, the reservation, foreign files, stops that move back, the refinement, the end of an undisturbed promotion |
| `promotion_early_stop` | the same | a disagreement, section 7 |
| `node_pause` | 2 nodes, 1 move, 2 calls of the operator, 1 fault, fairness | one encode and the row names it, no failure by a move, an idle node stays idle, a conversion ends |
| `node_pause_twice` | 2 nodes, 1 move, 1 call, 1 fault | a disagreement, section 7 |

Why the bounds are enough for what they claim. Two executors suffice for every
overlap the lease arbitrates: a stale holder and its successor. Two job
identities make a rewind and the reuse of the wrong one possible; one fault is a lost
answer, a stall, a crash or an ended context at each place, one user call meets the
reconciler's at each. Instances with two faults or two user calls pass too, without
liveness; they are not kept because the theorems cover them. In the worker, two jobs with one slot
make every claim on a slot a conflict, of one kind and of both; two processes
make a second runner of a job possible; one fault is a crash of the server, of a
runner, of a spawn or of a save at each place, and a second one falls on the recovery
from the first. `worker_queue` has the constraint `NoStray`: a state in which a server
died between a spawn and the save of the PID is still checked but not extended, since a
stray process beside a second job multiplies the states by eight and says nothing new. The
behaviours after that are in `worker_retries`, with one job, and in an instance of two
jobs and one fault without the constraint, which passes (3.9 million states) and takes
too long to keep. A constraint may hide states from an invariant, and here
the theorems of section 6, which know no constraint, close that gap. A budget of two separates
"less than" from "at most" and leaves an attempt after a failed one. What the
bounds cannot show, the theorems of section 6 do: they hold for every number of
jobs, calls and faults. The bounds `MaxJob`, `MaxFaults` and `MaxCalls` are guards of the actions
that count; `MaxExpiries` and `MaxRetries` are budgets of the code itself, made small.

In `NodePause` two nodes make a move possible and the second node's job the one to
fear. Two calls are a pause and a resume, a pause of each, a graceful pause made
immediate, a drain with a pause, or a cancel after one; the one fault falls anywhere
between. More than one move needs a pause for each. `Spec` was also checked with 3
calls, 2 moves and 2 faults (8 million states up to the order of the nodes), where everything including the
inductive invariant holds.

`Promotion` needs no bound: files, checkpoints and requests are finite, and crashes,
retries, readoptions and late requests are not counted (900 thousand states). One rival suffices for the reservation,
which has one owner.

No run with a liveness property uses symmetry. The worker never stops and its runs check for deadlock. An action does stop:
when it has ended and its user has no call left nothing is enabled, so the engine's
cfgs switch that check off, and so do those of `NodePause`, where a fault that is used up
and a conversion that ended leave nothing to do; that they do not stop earlier is
what `Settles` and `Finishes` say.

## 5. Fairness

`ActionEngine`: the reconciler's ticker looks at every open action (weak fairness
of some `AutoResume`), a call goes on working (`Work(e)`), a lease of a dead
holder expires, a job of the worker ends. User calls, crashes, lost answers and
the loss of a candidate are never forced.

`WorkerQueue`: the supervisor restarts the daemon and startup goes on
(`Startup`), a pass goes on, a cancel that holds a lock goes on, a runner goes on.
The two passes have strong fairness: one ticker runs both in turn
(`runSchedulerSweeps`), the capacity lock is released between, so neither can be
kept out for ever by the other or by requests. `ResumeTakes(j)` has strong
fairness since an attempt's delay passes. Submits, cancels, retries, holds and
faults are never forced. An encode that runs for ever would contradict
the fairness of its runner; the code has no limit on it beyond ffmpeg's end.

`NodePause`: the reconciler's ticker starts a resume and a sweep for ever, each takes the
lease only if it is free (`claimExecution` without waiting), and neither holds it for long,
so both have strong fairness. The holder goes on, requests that were not lost arrive, nodes work,
and `SyncHold` is repeated by the ticker. The operator, faults and crashes are never
forced. `Finishes` speaks of a drain that ends, a node that is free in the end and no
graceful pause that lasts: such a pause keeps what it keeps. In particular it never
gives back a conversion whose submit was refused, or denied with the answer lost,
since the sweep takes a row that has a `job_id` for one that was sent.

`Promotion`: an open promotion is called again until it ends (`Work`) and the library
works off what it accepted. Nobody forces a request that never arrived or a rival
that keeps its reservation, so `Settles` excludes them (`Stuck`); nor does anybody force a
library to readopt an original (`LibraryReadopts` is outside `Library`). And it speaks of runs
that are interrupted finitely often.

## 6. Proofs

Every theorem is about the safety specification `Spec` and every value of the
constants that satisfies the named assumptions (`JobsAssumption`,
`RunnersAssumption`, `LimitsAssumption`, `NodesAssumption`, `BoundsAssumption` and those of
`ActionEngine`).

**ActionEngineProofs.** `Typing`, `Invariance`, `OneTrackedJob`,
`CompletionIsEarned`, `CancelIsLasting`, `FinalityHolds`, `CheckpointHolds`,
`QueuedCancelIsFinal`, `UnsentWaitIsEmpty`, `Implementation`, `EncodesFollow`. The
inductive invariant `IInv` is `TypeOK` with: the holder of a live lease has a copy
in step with the row (`HolderInSync`); earlier identities ended for good
(`EarlierJobsEnded`); what a call that lost its lease still knows (`StaleKnows`);
a candidate behind each checkpoint past the wait (`CandidateBehind`); stopped
stays stopped (`StoppedStays`); a rewind that a call has decided on, which it
holds in memory until `Result` saves it, is one the row explains (`WayBackKnown`),
from which `CheckpointMovesOn` follows; and a wait for a job that was not sent is for
an identity the worker never heard of (`UnsentUnheard`): it was just taken, and a call goes on to
send one only while the row stands at the submit. `OnlyTrackedJobRuns` alone is not inductive: a
stale call could be about to send, and only `StaleKnows` says what. Lemmas say
what a move of the jobs and a move of the row preserve; then there is one lemma
per actor, and one for the calls that stand by. `EncodesFollow` is not proved of the engine
at all: it is what every step of `ActionLifecycle` keeps (`EncodesInTurn`), and the
refinement carries it over.

**PromotionProofs.** `Invariance`, `TypeCorrect`, `OriginalIsKept`, `RestoreIsOffered`,
`ActiveFileStays`, `OneChangerAtATime`, `ImportIsSentOnce`, `DeleteIsSentSafely`,
`CompletedIsReplaced`, the action properties `ForeignFilesAreKept` and
`StopsTryToMoveBack`, and `Implementation`: every safety property of the run, for every set of kinds.
`PromotionIsSafe` is what `Replacement` promises (`ReplacesSafely`), carried over by the refinement.
`NothingLost` alone is not inductive: a crash leaves the original anywhere, and what saves it
is that each removal stands on a copy known to be there at that place
(`RemovalInv`), that the checkpoints never claim more than was done (`StateInv`,
`FilesInv`), that a request still on its way was sent under the right conditions
(`LibraryInv`, `RequestInv`), that an original which a library readopts is still there or
its readoption came too late to be seen (`LibraryInv`, `FilesInv`) and that nobody works without the reservation
(`ClaimInv`). There is one lemma per action, and in it one step per conjunct that
the action can disturb.

**WorkerQueueProofs.** `Typing`, `Invariance`, `OneProcess`, `CancelEndsWork`,
`MarkersAgree`, `EncodesOnce`, `BudgetIsKept` and the action properties
`EndIsFinal`, `CancelIsFinal` and `HoldIsObeyed`. `OneRunnerKept` alone is not inductive: a pass
may start a job that a process already has unless each process is known.
`IInv` adds that who holds a job's lock excludes the others and knows its
record (`LocksExclude`), and that a process of a kept job is behind its record's
PID or in the hands of the pass that started it (`OwnersKnown`). These are `JobsInv`,
about jobs and processes, and `JobsInvariance` proves them first; the rest of `IInv`
is about the passes: a resume pass counts the slots once and knows every process
that works while it runs (`PassCounts`), and no queue pass is under way while the queue
is held (`HeldIsIdle`), which is what `HoldStopsQueue` needs: turning the hold on
waits for the capacity lock. Four lemmas carry all actions of `JobsInv`: `ServerMoves` (the server changes only unlocked jobs without a
process, or nothing a process relies on), `RunnerMoves` (a runner changes its own
job), `SpawnMoves` and `RecordMoves`. `EndedMoves` says that an ended record is
written by its own process only, and the two action properties follow from it.

A job is *kept* unless its server died between a spawn and the save of the PID.
`worker_double_spawn` shows why the promises need that condition.

**WorkerSlotsProofs.** `SlotsAreRespected`: processes, not records, respect the ceiling
and both pools, for any limits and any number of jobs and processes. It needs no more
state than `IInv` but another argument: different processes at work have different
jobs (`OneRunnerKept`), each of these jobs holds a counted slot (`OwnersKnown`,
`PassCounts`, which count kept jobs beside strays too), so their number is at most that of the slots (an injection, with the facts
of `FiniteSetTheorems`). A step starts at most one process, and that one only if
`HasRoom` left a slot.

**EngineWorkerProofs.** `CopiesAreTrue` and `Implementation`. The refinement is not
inductive by itself: a runner's terminal save writes the runner's own copy of the record,
and it could complete a job without a result if that copy were out of date.
`PublishedInv` says that it is not: the server leaves the record of a job at work
alone (`ServerKeepsWork`: it has a live process, so no repair, pass or restart has
anything to do; a cancel kills the process first), and a runner goes on with what it
saved (`SaveLeaves`). Then `StatusMoves` says what one step can do to a status and
`MoveIsSeen` what the engine sees of it.

**NodePauseProofs.** `Invariant`, `TypeCorrect`, `EncodedOnce`, `PausesEndNothing`,
`ReadyMeansIdle`: every safety property of the run, for any number of nodes, moves, calls and
faults; and `OnlyADeniedSubmitEncodesTwice`, what is left of the claim that the run
`node_pause_twice` refutes. `OneEncode` alone is not inductive: a move is safe only if the job it gives
up is known to be over, and a row that names a job neither submitted nor in doubt
must have none and none on its way (`Unsent`); nothing may have been sent for a later
attempt or another node (`Known`). `PauseIsNotEnd` follows from what a cancelled job was
cancelled for (`CancelledFor`), `ReadyStaysIdle` from what may still be on a cleared node
(`Cleared`), which needs that nothing starts where a hold was confirmed (`Quiet`; the count of
running jobs that confirms it includes the spawned job its node still calls queued). `ClearIsQuiet` shows
that what is reported idle is: the counts of the row include every job there is.

Only model-checked: liveness (`Settles` of both modules, `QueuedStarts`, `EncodedSettles`,
`Finishes`), which is out of the prover's reach, and what is about `SyncSpec`, whose one
run refutes a claim of the code. Every safety invariant and action property of the passing
runs is stated by a theorem.

TLC evaluates the invariants that the proofs use: `PublishedInv` and the `IInv` of
`ActionEngine`, `Promotion` and `WorkerQueue`, which contain `TypeOK`, in the runs
above, and the `IInv` of `NodePause` in the larger instance of section 4. The
strengthened `IInv` of `ActionEngine` was also checked with two faults (13 million states)
and that of `WorkerQueue` on two jobs (18 million), without liveness; these
instances take too long to keep.

## 7. Findings

* `engine_rejected`. After a refused send the action takes it that the worker has no
  job of it (`noRemoteJob`), though an earlier submit, whose answer was lost, may
  still arrive or have been accepted.
* `engine_checkpoint`. A context that ends while `wait_transcode` rewinds to the next
  encode leaves a row that waits for a job nobody submitted. `UnsentWaitIsEmpty` says what that
  costs: the wait ends with a 404 and a failed action, but it hides no encode.
* `engine_run_race`. A cancel between `Run`'s insert of the row and its claim is
  written over. `QueuedCancelIsFinal`: no call that resumes a queued action does that.
* `worker_published`. A runner that dies after `FinalizationState=completed` is saved
  and before the terminal record makes its published job `failed/runner_killed`;
  the case of `finalizeOperational` that would resume it is never reached.
* `worker_double_spawn`. A server that dies between the spawn and the save of the PID
  starts a second runner of the same job after its restart, and `claimRunner` lets
  both work.

* `promotion_early_stop`. The move back that `localPromotionPublish` promises for every
  failure is registered after `localPromotionState`, which can fail first: a publish
  that crashed with the original moved aside and is refused when it resumes ends
  with nothing at the library path, and nothing tried to move the original back. A failure in
  the publish itself does try (`StopTriesToMoveBack`): where that fails too, the code says
  so (`promote_filesystem.go:344`) and keeps what a retry needs. `RestoreOffered` holds: the
  user can bring the original back.
* `node_pause_twice`. `cancelForPause` will not move a job whose submit was not answered, since
  it may still land. But a resume that asks the node clears the mark at its 404, the gate
  of the paused node stops the resume, and the cleared mark is saved; the next sweep
  moves the file, the submit lands, and two nodes encode it. `OneEncode` says that this is
  the only way (`OnlyADeniedSubmitEncodesTwice`). The same late job has two more effects, for which `Finishes` and
  `PauseIsNotEnd` make exceptions: one that completes on its paused node leaves the row held until
  the node is resumed, and an unanswered cancel that arrives after its move was given up fails the action.

## 8. Not modelled

Section 2 lists what is planned. Beyond it: the arithmetic of size budgets and
quality (only the choice of the next rung matters to the workflow), signal
processing of podcasts, the maintenance templates (sequences of requests to media
services), probes, file inspection, SMB and NAS transfers, configuration, the
console's pages and the MCP tools, which hold no state that the models' actions
would not show. Batches are not modelled: a parent's plan revisions, its lease in the admission of a child, and the
slot queue of an older worker. In `ActionEngine`: cascades to batch children, and the retries of podcast actions. In `Promotion`: see section 3.
