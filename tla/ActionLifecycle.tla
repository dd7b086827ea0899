-------------------------- MODULE ActionLifecycle --------------------------
(***************************************************************************)
(* What a conversion promises whoever started it, without leases, calls,   *)
(* retries or lost replies: attempts follow one another, each is encoded   *)
(* under its own identity, at most one encode runs, and the action ends    *)
(* with a candidate, with a reason to need none, failed or cancelled.      *)
(***************************************************************************)
EXTENDS Naturals

CONSTANT MaxJob     \* bound: attempts one action makes

VARIABLES
    phase,      \* where the action is, for its user
    attempt,    \* the attempt it is at, 0 before the first
    encoding,   \* the attempts the worker encodes now
    finished    \* the attempts whose encode gave a candidate

vars == <<phase, attempt, encoding, finished>>

Phases == {"absent", "open", "completed", "skipped", "failed", "cancelled"}

Init ==
    /\ phase = "absent"
    /\ attempt = 0
    /\ encoding = {}
    /\ finished = {}

Move(from, to) ==
    /\ phase \in from
    /\ phase' = to
    /\ UNCHANGED <<attempt, encoding, finished>>

\* A failed action can be opened again; a cancelled or completed one cannot.
Admit == Move({"absent"}, "open")
Fail == Move({"open"}, "failed")
Reopen == Move({"failed"}, "open")
Cancel == Move({"open", "failed"}, "cancelled")
Skip == Move({"open"}, "skipped")
Complete == attempt \in finished /\ Move({"open"}, "completed")

\* A new attempt begins only when nothing of the last one runs.
NextAttempt ==
    /\ phase \in {"open", "failed"}
    /\ attempt < MaxJob
    /\ encoding = {}
    /\ attempt' = attempt + 1
    /\ UNCHANGED <<phase, encoding, finished>>

\* A request that was on its way can start the encode whatever became of the
\* action since.
StartEncode ==
    /\ attempt > 0
    /\ encoding = {}
    /\ encoding' = {attempt}
    /\ UNCHANGED <<phase, attempt, finished>>

EndEncode ==
    /\ encoding # {}
    /\ encoding' = {}
    /\ finished' \in {finished, finished \cup encoding}
    /\ UNCHANGED <<phase, attempt>>

Next ==
    \/ Admit \/ Fail \/ Reopen \/ Cancel \/ Skip \/ Complete
    \/ NextAttempt \/ StartEncode \/ EndEncode

Spec == Init /\ [][Next]_vars

\* So every encode follows the end of the last one and is of the attempt the action
\* is at, a candidate comes from an encode that ran, a new attempt waits for the
\* end of the last one, and what ended well or was cancelled has ended.
EncodesInTurn ==
    [][ /\ encoding' # encoding => encoding = {} \/ encoding' = {}
        /\ encoding' \subseteq encoding \cup {attempt'}
        /\ finished \subseteq finished' /\ finished' \subseteq finished \cup encoding
        /\ attempt' # attempt => attempt' = attempt + 1 /\ encoding = {} /\ phase \in {"open", "failed"}
        /\ phase \in {"completed", "skipped", "cancelled"} => phase' = phase ]_vars

=============================================================================
