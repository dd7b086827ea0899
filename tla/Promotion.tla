----------------------------- MODULE Promotion -----------------------------
(***************************************************************************)
(* promote_transcode_candidate (src/action/promote_*.go): an approved      *)
(* candidate takes the place of its original, which stays recoverable      *)
(* until the replacement is proven.                                        *)
(*                                                                         *)
(* A promotion is a row of the store worked on by one call at a time (the  *)
(* lease is ActionEngine's subject).  It changes files on a share and, for *)
(* a library promotion, asks Sonarr or Radarr over HTTP.  Every action     *)
(* below ends at a durable save, at one change of a file or at one         *)
(* request; a call can die, or its context can end, between any two of     *)
(* them, and p is what it finds again.  Reading a file and comparing it    *)
(* with its digest, its fingerprint or the NAS helper's sample is a test   *)
(* of its content here.                                                    *)
(***************************************************************************)
EXTENDS Naturals

CONSTANT Kinds      \* the promotions considered

ASSUME KindsAssumption ==
    Kinds \subseteq [service: {"filesystem", "library"}, same: BOOLEAN]

VARIABLES
    kind,       \* who owns the name, and whether the candidate takes the original's
    row,        \* the action's status
    step,       \* current_step
    pc,         \* where the call that holds the lease is; idle: no call
    p,          \* state_json's promotion, with the two filesystem_* keys
    files,      \* what each path of the share holds
    arr,        \* what the library knows, and the commands it was sent
    claim,      \* promotion_series_claims: who holds the series or destination
    original,   \* promotion_original_claims: who holds the original
    rival,      \* another promotion that wants the same reservation
    discarded,  \* history: a user gave the recovery of a placed candidate up
    taken,      \* history: the library removed the original itself
    late        \* history: it took the original back when a removal had read it for the last time

vars == <<kind, row, step, pc, p, files, arr, claim, original, rival, discarded, taken, late>>
claims == <<claim, original, rival>>
history == <<discarded, taken, late>>
outside == <<kind, arr, claims, history>>

-----------------------------------------------------------------------------
(* Data *)

\* OriginalPath, BackupPath, its .partial, CandidatePath, and a NewPath that is
\* not OriginalPath.
Paths == {"LIB", "REC", "PART", "CAND", "NEW"}
Contents == {"none", "orig", "cand", "short", "empty", "alien"}

Fs == kind.service = "filesystem"
Same == kind.same
FinalPath == IF Same THEN "LIB" ELSE "NEW"

Commands == {"none", "sent", "known", "done", "failed"}
Promotions == [ mode: {"none", "move", "copy"},   \* recovery_mode
                refused: BOOLEAN,       \* move_aside_refused
                verified: BOOLEAN,      \* backup_verified
                moving: BOOLEAN,        \* move_aside_started_at
                moved: BOOLEAN,         \* moved_aside
                back: BOOLEAN,          \* move_back_started_at
                started: BOOLEAN,       \* filesystem_publish_started
                published: BOOLEAN,     \* filesystem_published
                imp: Commands,          \* commands.import
                ren: Commands,          \* commands.rename
                newPath: {"none", "temporary", "final"},  \* new_path, once adopted
                deleteSent: BOOLEAN,    \* delete_sent_at
                emptyOrig: BOOLEAN,     \* original_empty_started
                reimport: BOOLEAN,      \* promotion_reimport_history is not empty
                removed: BOOLEAN,       \* old_removed
                cleanup: BOOLEAN,       \* recovery_cleanup_started
                emptyRec: BOOLEAN ]     \* recovery_empty_started

Approved == [ mode |-> "none", refused |-> FALSE, verified |-> FALSE, moving |-> FALSE,
              moved |-> FALSE, back |-> FALSE, started |-> FALSE, published |-> FALSE,
              imp |-> "none", ren |-> "none", newPath |-> "none", deleteSent |-> FALSE,
              emptyOrig |-> FALSE, reimport |-> FALSE, removed |-> FALSE, cleanup |-> FALSE, emptyRec |-> FALSE ]

\* A command or a DELETE at the library: accepted, or still on its way.
Remote == {"none", "flying", "queued", "completed", "failed"}
Libraries == [ active: {"old", "new"},      \* the file of every approved episode
               oldRec: {"none", "own", "other"},  \* the original's episodeFile: under OriginalFileID or not
               newRec: {"none", "temporary", "final"},  \* where the new one is said to be
               imp: Remote, ren: Remote,
               del: {"none", "flying"} ]

Steps == {"preserve", "import", "remove", "rename", "finalize"}
Statuses == {"open", "failed", "cancelled", "completed"}
Rivals == {"none", "open", "changing", "clean", "dirty", "done"}
Copying == {"copy", "copying", "publishPart", "recordCopy"}
\* The same in a library step whose move was refused: it goes on from copied.
CopyingOn == {"copyOn", "copyingOn", "publishPartOn", "recordCopyOn"}
MovingBack == {"back", "renameBack", "finishBack"}
Places == {"idle", "in", "aside", "renameAside", "confirmAside", "kept", "take", "placed",
           "unlink", "unlinked", "drop", "dropped", "sendImport", "sendDelete",
           "sendRename", "discard", "adopted", "owned", "orphan", "copied"}
          \cup Copying \cup CopyingOn \cup MovingBack

-----------------------------------------------------------------------------
(* What the code reads *)

MovesAside == p.mode = "move"
Holds(path, content) == files[path] = content
Free(path) == files[path] = "none"

\* Mutant of Recovered: the flag is believed and the copy is not read.
RecoveredByFlag ==
    IF MovesAside /\ ~p.moved
    THEN IF p.moving /\ Free("LIB") THEN Holds("REC", "orig")
                                    ELSE Holds("LIB", "orig") /\ (p.moving \/ Free("REC"))
    ELSE p.verified

\* promotionVerifyRecovered: the original is still recoverable.
Recovered ==
    IF MovesAside /\ ~p.moved
    THEN IF p.moving /\ Free("LIB") THEN Holds("REC", "orig")
                                    ELSE Holds("LIB", "orig") /\ (p.moving \/ Free("REC"))
    ELSE p.verified /\ Holds("REC", "orig")

\* promotionAdoptedFile; and promotionAdopted, which reads the file as well.
AdoptedFile == arr.active = "new" /\ arr.newRec # "none"

FileOf(rec) == IF rec = "final" THEN FinalPath ELSE "CAND"
Adopted == AdoptedFile /\ Holds(FileOf(arr.newRec), "cand")

\* promotionInspectAdopted of the path at which the candidate was adopted.
CandidateInspected == Holds(FileOf(p.newPath), "cand")

\* Mutant of NoOldReferences: the episodes are not read a second time.
OldReferencesNotRead == TRUE

\* promotionNoOldReferences: no episode uses the original, all use the candidate.
NoOldReferences == arr.active = "new"

\* Mutant of OriginalPathUnowned: only the original's own record is looked for.
OnlyOwnRecord == arr.oldRec # "own"

\* Nor is the original's path that of another episodeFile.
OriginalPathUnowned == arr.oldRec = "none"

\* promotionResumeFallbackCopy: a refused move left a copy to be made.
NeedsCopy ==
    /\ p.mode = "copy" /\ p.refused
    /\ ~p.verified /\ ~p.moved /\ ~p.moving /\ ~p.deleteSent /\ ~p.removed

\* Mutant of SideEffectFree: the publish intent is not looked at.
SideEffectFreeBlind ==
    /\ p.imp = "none" /\ p.newPath = "none"
    /\ ~p.deleteSent /\ ~p.removed /\ ~p.published /\ ~p.reimport

\* promotionSideEffectFreeSQL.
SideEffectFree ==
    /\ p.imp = "none" /\ p.newPath = "none"
    /\ ~p.deleteSent /\ ~p.removed /\ ~p.started /\ ~p.published /\ ~p.reimport

\* promotionSeriesTakeoverSQL, for each of the two as the owner.
SelfReleases == row = "completed" \/ (row \in {"failed", "cancelled"} /\ SideEffectFree)
RivalReleases == rival \in {"done", "clean"}

\* claimPromotionSeries by this promotion succeeds.
CanClaim == claim # "rival" \/ RivalReleases

\* Mutant of OnlyOriginal: a move that was never checkpointed does not count.
OnlyMovedOriginal ==
    /\ p.moved
    /\ \A path \in {"LIB"} \cup (IF Fs THEN {FinalPath} ELSE {}) : ~Holds(path, "cand")

\* promotionRecoveryIsOnlyOriginal refuses to drop the recovery: nothing the
\* size of the candidate is at original_path or at new_path.
NewPaths == IF Fs THEN {FinalPath} ELSE IF p.newPath = "none" THEN {} ELSE {FileOf(p.newPath)}
OnlyOriginal ==
    /\ p.moved \/ p.moving \/ p.back
    /\ \A path \in {"LIB"} \cup NewPaths : ~Holds(path, "cand")

\* The candidate has its place; Replaced, as far as a removal could know.
Placed == IF Fs THEN Holds(FinalPath, "cand") ELSE arr.active = "new"
Replaced == Placed \/ late

-----------------------------------------------------------------------------
(* Building blocks *)

Goes(place) == pc' = place /\ UNCHANGED <<row, step>>
Waits == Goes("idle")
Completes(next) == pc' = "idle" /\ step' = next /\ UNCHANGED row

Moves(from, to) == files' = [files EXCEPT ![to] = files[from], ![from] = "none"]
Puts(path, content) == files' = [files EXCEPT ![path] = content]

MovedBack(q) == [q EXCEPT !.moved = FALSE, !.verified = FALSE, !.moving = FALSE, !.back = FALSE]
MovedAside(q) == [q EXCEPT !.moved = TRUE, !.verified = TRUE]

\* Mutant of MustMoveBack: only a checkpointed move is undone.
MustMoveBackIfMoved ==
    /\ Fs /\ Same /\ step = "import" /\ MovesAside /\ p.moved
    /\ Free("LIB") /\ ~p.published

\* promotionMoveBackAfterFailedPublish has something to undo.
MustMoveBack ==
    /\ Fs /\ Same /\ step = "import" /\ MovesAside /\ (p.moved \/ p.moving)
    /\ Free("LIB") /\ ~p.published

-----------------------------------------------------------------------------
(* Every step *)

Init ==
    /\ kind \in Kinds
    /\ row = "open" /\ step = "preserve" /\ pc = "idle"
    /\ p = Approved
    /\ files = [path \in Paths |-> CASE path = "LIB" -> "orig"
                                     [] path = "CAND" -> "cand"
                                     [] OTHER -> "none"]
    /\ arr = [active |-> "old", oldRec |-> "own", newRec |-> "none",
              imp |-> "none", ren |-> "none", del |-> "none"]
    /\ claim = "none" /\ original \in {"none", "rival"} /\ rival = "none"
    /\ discarded = FALSE /\ taken = FALSE /\ late = FALSE

\* promotionMutation, which every step begins with: it is refused (destructive
\* work is switched off, the batch no longer approves it), or the reservation
\* is held or taken over.  While another promotion holds it the step waits.
Enter ==
    /\ pc = "idle" /\ row = "open"
    /\ \/ CanClaim /\ claim' = "self" /\ Goes("in")
       \/ row' = "failed" /\ UNCHANGED <<pc, step, claim>>
    /\ UNCHANGED <<kind, p, files, arr, original, rival, history>>

\* A check of a running step does not pass, or a file cannot be read or
\* changed.  A publish that took the original away puts it back first.
StepPlaces == Places \ ({"idle", "sendImport", "sendDelete", "sendRename", "discard"} \cup MovingBack)
StepFails ==
    /\ pc \in StepPlaces
    /\ IF MustMoveBack THEN Goes("back")
                       ELSE pc' = "idle" /\ row' = "failed" /\ UNCHANGED step
    /\ UNCHANGED <<p, files, outside>>

\* The process dies, or the call's context ends where nothing is undone.
Crash ==
    /\ pc # "idle"
    /\ Goes("idle")
    /\ UNCHANGED <<p, files, outside>>

-----------------------------------------------------------------------------
(* preserve_original *)

\* stepPromotePreserve: the original is verified and reserved.  It stays where
\* it is until it would be removed (move), unless something rules that out and
\* a copy is made now.  The choice of a copy is not saved before it exists.
Preserve ==
    /\ pc = "in" /\ step = "preserve"
    /\ Holds("LIB", "orig") /\ Holds("CAND", "cand")
    /\ Fs \/ (arr.active = "old" /\ arr.oldRec = "own")
    /\ original # "rival" /\ original' = "self"
    /\ \/ /\ MovesAside \/ (p.mode = "none" /\ Free("REC") /\ Free("PART"))
          /\ p' = [p EXCEPT !.mode = "move"]
          /\ Completes("import")
       \/ /\ ~MovesAside
          /\ p' \in {p, [p EXCEPT !.mode = "copy"]}
          /\ Goes("copy")
    /\ UNCHANGED <<kind, files, arr, claim, rival, history>>

CopyGoes(place, on) == Goes(IF pc \in CopyingOn THEN on ELSE place)

\* promotionMakeRecoveryCopy: what an earlier attempt left is used or removed.
MakeRecoveryCopy ==
    /\ pc \in {"copy", "copyOn"}
    /\ \/ /\ Holds("REC", "orig") /\ files["PART"] \in {"none", "orig"}
          /\ Puts("PART", "none") /\ CopyGoes("recordCopy", "recordCopyOn") /\ UNCHANGED p
       \/ /\ Free("REC") /\ Holds("PART", "orig")
          /\ p' = [p EXCEPT !.mode = "copy"]
          /\ CopyGoes("publishPart", "publishPartOn") /\ UNCHANGED files
       \/ /\ Free("REC") /\ ~Holds("PART", "orig")
          /\ Puts("PART", "short") /\ CopyGoes("copying", "copyingOn") /\ UNCHANGED p
    /\ UNCHANGED outside

CopyToPartial ==
    /\ pc \in {"copying", "copyingOn"} /\ Holds("LIB", "orig")
    /\ Puts("PART", "orig")
    /\ p' = [p EXCEPT !.mode = "copy"]
    /\ CopyGoes("publishPart", "publishPartOn")
    /\ UNCHANGED outside

PublishPartial ==
    /\ pc \in {"publishPart", "publishPartOn"} /\ Free("REC")
    /\ Moves("PART", "REC")
    /\ CopyGoes("recordCopy", "recordCopyOn")
    /\ UNCHANGED <<p, outside>>

\* Where a step goes on.  The library steps look at the library no more; a
\* publish or a local removal makes checks again that have just passed.
AfterCopy == IF pc = "recordCopy" THEN "in"
             ELSE IF arr.oldRec = "own" THEN "copied" ELSE "orphan"

\* Mutant of RecordCopy: the copy is made but not recorded as verified.
RecordCopyUnverified ==
    /\ pc \in {"recordCopy", "recordCopyOn"}
    /\ p' = [p EXCEPT !.mode = "copy"]
    /\ IF step = "preserve" THEN Completes("import") ELSE Goes(AfterCopy)
    /\ UNCHANGED <<files, outside>>

\* promotionRecordBackup.
RecordCopy ==
    /\ pc \in {"recordCopy", "recordCopyOn"}
    /\ p' = [p EXCEPT !.mode = "copy", !.verified = TRUE]
    /\ IF step = "preserve" THEN Completes("import") ELSE Goes(AfterCopy)
    /\ UNCHANGED <<files, outside>>

\* promotionResumeFallbackCopy, first in the steps that take the original away.
ResumeFallbackCopy ==
    /\ pc = "in" /\ (step = "remove" \/ (step = "import" /\ Fs))
    /\ NeedsCopy /\ Holds("LIB", "orig")
    /\ Goes("copy")
    /\ UNCHANGED <<p, files, outside>>

-----------------------------------------------------------------------------
(* Moving the original aside, and back *)

\* promotionMoveAside.  An original that is gone before any intent stops the
\* step, unless the library still has its record and may be about to drop it.
MoveAside ==
    /\ pc = "aside"
    /\ \/ p.moved /\ Recovered /\ Goes("kept") /\ UNCHANGED p
       \/ /\ ~p.moved /\ Free("PART") /\ Holds("LIB", "orig") /\ Free("REC")
          /\ p' = [p EXCEPT !.moving = TRUE]
          /\ Goes("renameAside")
       \/ /\ ~p.moved /\ Free("PART") /\ Free("LIB") /\ p.moving /\ Holds("REC", "orig")
          /\ p' = MovedAside(p)
          /\ Goes("kept")
       \/ /\ ~p.moved /\ Free("PART") /\ Free("LIB") /\ ~p.moving /\ Free("REC")
          /\ ~Fs /\ arr.oldRec = "own"
          /\ Waits /\ UNCHANGED p
    /\ UNCHANGED <<files, outside>>

\* The no-replace rename; refused outright, the promotion copies for good.
RenameAside ==
    /\ pc = "renameAside" /\ ~Free("LIB") /\ Free("REC")
    /\ \/ Moves("LIB", "REC") /\ Goes("confirmAside") /\ UNCHANGED p
       \/ /\ Holds("LIB", "orig")
          /\ p' = [p EXCEPT !.mode = "copy", !.refused = TRUE, !.moving = FALSE]
          /\ Goes(IF Fs THEN "copy" ELSE "copyOn") /\ UNCHANGED files
    /\ UNCHANGED outside

ConfirmAside ==
    /\ pc = "confirmAside" /\ Holds("REC", "orig")
    /\ p' = MovedAside(p)
    /\ Goes("kept")
    /\ UNCHANGED <<files, outside>>

\* How a move back ends: the publish it undoes has failed, or stays open when
\* its context ended; a row a user restores keeps its status.
BackAgain == pc' = "idle" /\ row' \in {row, IF row = "open" THEN "failed" ELSE row} /\ UNCHANGED step

\* promotionMoveBack: the intent, then the no-replace rename, then its record.
\* It also gives up with the path empty: the recovery cannot be verified or the
\* intent not saved (the failed step's row may carry it all the same) ...
MoveBack ==
    /\ pc = "back"
    /\ \/ Free("LIB") /\ Holds("REC", "orig")
          /\ p' = [p EXCEPT !.back = TRUE] /\ Goes("renameBack")
       \/ UNCHANGED p /\ BackAgain
       \/ Free("LIB") /\ Holds("REC", "orig")
          /\ p' = [p EXCEPT !.back = TRUE] /\ BackAgain
    /\ UNCHANGED <<files, outside>>

\* ... or the rename fails, be the name taken or not; only a taken one withdraws
\* the intent.
RenameBack ==
    /\ pc = "renameBack"
    /\ \/ Free("LIB") /\ Moves("REC", "LIB") /\ Goes("finishBack") /\ UNCHANGED p
       \/ ~Free("LIB") /\ p' = [p EXCEPT !.back = FALSE] /\ BackAgain /\ UNCHANGED files
       \/ UNCHANGED <<p, files>> /\ BackAgain
    /\ UNCHANGED outside

\* promotionFinishMoveBack, which can fail to read the file or to save.
FinishMoveBack ==
    /\ pc = "finishBack"
    /\ \/ Holds("LIB", "orig") /\ p' = MovedBack(p)
       \/ UNCHANGED p
    /\ BackAgain
    /\ UNCHANGED <<files, outside>>

\* promotionResumeMoveBack, first in a publish and in a restore.
ResumedMoveBack ==
    \/ Holds("LIB", "orig") /\ Free("REC") /\ p' = MovedBack(p)
    \/ Free("LIB") /\ ~Free("REC") /\ p' = [p EXCEPT !.back = FALSE]

ResumeMoveBack ==
    /\ pc = "in" /\ step = "import" /\ Fs /\ ~NeedsCopy /\ p.back
    /\ ResumedMoveBack
    /\ Goes("in")
    /\ UNCHANGED <<files, outside>>

-----------------------------------------------------------------------------
(* import_candidate *)

\* Mutant of Publish: the intent is not saved before the files change.
PublishNoIntent ==
    /\ pc = "in" /\ step = "import" /\ Fs /\ ~NeedsCopy /\ ~p.back /\ Recovered
    /\ p.moved \/ p.moving \/ Holds("LIB", "orig")
    /\ Holds("CAND", "cand")
    /\ Same \/ Free("NEW")
    /\ Goes(IF Same /\ MovesAside THEN "aside" ELSE "take")
    /\ UNCHANGED <<p, files, outside>>

\* localPromotionPublish up to its intent.  Only the candidate's bytes at the
\* recorded destination prove that an earlier attempt published it.
PublishProved == p.started /\ Holds(FinalPath, "cand")

Publish ==
    /\ pc = "in" /\ step = "import" /\ Fs /\ ~NeedsCopy /\ ~p.back /\ Recovered
    /\ \/ /\ PublishProved
          /\ p' = [p EXCEPT !.published = TRUE]
          /\ Completes("remove")
       \/ /\ ~PublishProved
          /\ p.moved \/ p.moving \/ Holds("LIB", "orig")
          /\ Holds("CAND", "cand")
          /\ Same \/ Free("NEW")
          /\ p' = [p EXCEPT !.started = TRUE]
          /\ Goes(IF Same /\ MovesAside THEN "aside" ELSE "take")
    /\ UNCHANGED <<files, outside>>

\* Mutant of TakeName: the rename replaces whatever has the name.
TakeNameOver ==
    /\ pc = "take" \/ (pc = "kept" /\ step = "import")
    /\ Holds("CAND", "cand")
    /\ Moves("CAND", FinalPath)
    /\ Goes("placed")
    /\ UNCHANGED <<p, outside>>

\* The candidate takes its name: over the original whose copy is kept, or where
\* nothing has the name.
TakeName ==
    /\ pc = "take" \/ (pc = "kept" /\ step = "import")
    /\ Holds("CAND", "cand")
    /\ IF Same /\ ~MovesAside THEN Holds("LIB", "orig") ELSE Free(FinalPath)
    /\ Moves("CAND", FinalPath)
    /\ Goes("placed")
    /\ UNCHANGED <<p, outside>>

Published ==
    /\ pc = "placed" /\ Holds(FinalPath, "cand")
    /\ p' = [p EXCEPT !.published = TRUE]
    /\ Completes("remove")
    /\ UNCHANGED <<files, outside>>

\* Mutant of Import: the request is sent before it is recorded.
ImportSendsFirst ==
    /\ pc = "in" /\ step = "import" /\ ~Fs
    /\ \/ /\ Adopted
          /\ p' = [p EXCEPT !.imp = "done", !.newPath = arr.newRec]
          /\ Completes("remove")
       \/ /\ p.imp = "none"
          /\ Recovered /\ Holds("LIB", "orig") /\ Holds("CAND", "cand")
          /\ arr.active = "old" /\ arr.oldRec = "own"
          /\ Goes("sendImport") /\ UNCHANGED p
    /\ UNCHANGED <<files, outside>>

\* stepPromoteImport: the candidate is already the active file, or the request
\* is recorded before it is sent.
Import ==
    /\ pc = "in" /\ step = "import" /\ ~Fs
    /\ \/ /\ p.imp # "none" /\ Adopted
          /\ p' = [p EXCEPT !.imp = "done", !.newPath = arr.newRec]
          /\ Completes("remove")
       \/ /\ p.imp = "none"
          /\ Recovered /\ Holds("LIB", "orig") /\ Holds("CAND", "cand")
          /\ arr.active = "old" /\ arr.oldRec = "own"
          /\ p' = [p EXCEPT !.imp = "sent"]
          /\ Goes("sendImport")
    /\ UNCHANGED <<files, outside>>

\* promotionCommand for a command whose request is recorded: it is looked up by
\* its payload, then by its id.
Reconcile(cmd, queried) ==
    \/ p[cmd] = "sent" /\ queried \in {"queued", "completed", "failed"}
       /\ p' = [p EXCEPT ![cmd] = "known"] /\ Goes("in")
    \/ p[cmd] = "sent" /\ queried \in {"none", "flying"} /\ Waits /\ UNCHANGED p
    \/ p[cmd] = "known" /\ queried \in {"none", "flying", "queued"} /\ Waits /\ UNCHANGED p
    \/ p[cmd] = "known" /\ queried = "completed"
       /\ p' = [p EXCEPT ![cmd] = "done"] /\ Goes("in")
    \/ p[cmd] = "known" /\ queried = "failed"
       /\ p' = [p EXCEPT ![cmd] = "failed"]
       /\ pc' = "idle" /\ row' = "failed" /\ UNCHANGED step

ReconcileImport ==
    /\ pc = "in" /\ step = "import" /\ ~Fs /\ ~Adopted
    /\ Reconcile("imp", arr.imp)
    /\ UNCHANGED <<files, outside>>

\* A request is accepted and answered, accepted with its answer lost, or given
\* up while it is on its way.
SendCommand(cmd) ==
    /\ \/ arr' = [arr EXCEPT ![cmd] = "queued"] /\ p' \in {p, [p EXCEPT ![cmd] = "known"]}
       \/ arr' = [arr EXCEPT ![cmd] = "flying"] /\ UNCHANGED p
    /\ Waits
    /\ UNCHANGED <<kind, files, claims, history>>

SendImport == pc = "sendImport" /\ SendCommand("imp")

-----------------------------------------------------------------------------
(* remove_original *)

AfterRemoval == IF Fs THEN "finalize" ELSE "rename"
Emptied == p.emptyOrig /\ Holds("LIB", "empty")

\* planOriginalEmptying may record that the original is emptied before its
\* unlink.
PlanEmptying(q) == {q} \cup (IF Holds("LIB", "orig") THEN {[q EXCEPT !.emptyOrig = TRUE]} ELSE {})

\* localPromotionRemoveOriginal.
LocalRemove ==
    /\ pc = "in" /\ step = "remove" /\ Fs /\ ~NeedsCopy
    /\ p.published /\ Recovered /\ Holds(FinalPath, "cand")
    /\ \/ ~Same /\ MovesAside /\ Goes("aside") /\ UNCHANGED p
       \/ /\ ~Same /\ ~MovesAside /\ (Holds("LIB", "orig") \/ Emptied)
          /\ p' \in PlanEmptying([p EXCEPT !.deleteSent = TRUE])
          /\ Goes("unlink")
       \/ /\ Same \/ (~MovesAside /\ Free("LIB") /\ p.deleteSent)
          /\ p' = [p EXCEPT !.removed = TRUE]
          /\ Completes("finalize")
    /\ UNCHANGED <<files, outside>>

\* removeOriginal: emptied first where that was planned.
Unlink ==
    /\ pc = "unlink"
    /\ \/ p.emptyOrig /\ Holds("LIB", "orig") /\ Puts("LIB", "empty") /\ Goes("unlink")
       \/ files["LIB"] \in {"orig", "empty"} /\ Puts("LIB", "none") /\ Goes("unlinked")
    /\ UNCHANGED <<p, outside>>

Removed ==
    /\ \/ pc = "unlinked"
       \/ pc = "kept" /\ step = "remove" /\ (Fs \/ arr.oldRec # "own")
    /\ p' = [p EXCEPT !.removed = TRUE]
    /\ Completes(AfterRemoval)
    /\ UNCHANGED <<files, outside>>

\* stepPromoteRemoveOld for a library: the episodes use the candidate ...
StillAdopted ==
    /\ pc = "in" /\ step = "remove" /\ ~Fs /\ ~NeedsCopy
    /\ AdoptedFile /\ p.newPath # "none"
    /\ Goes("adopted")
    /\ UNCHANGED <<p, files, outside>>

\* Mutant of OldRecordRead: a DELETE without an effect yet is sent again.
OldRecordReadAgain ==
    /\ pc = "adopted"
    /\ \/ arr.oldRec = "own" /\ arr.active = "new" /\ Goes("owned")
       \/ arr.oldRec # "own" /\ OriginalPathUnowned /\ Goes("orphan")
    /\ UNCHANGED <<p, files, outside>>

\* ... and a second read tells whether the original has its record still, which
\* no episode uses then, or no record at all.
OldRecordRead ==
    /\ pc = "adopted"
    /\ \/ arr.oldRec = "own" /\ arr.active = "new" /\ IF p.deleteSent THEN Waits ELSE Goes("owned")
       \/ arr.oldRec # "own" /\ OriginalPathUnowned /\ Goes("orphan")
    /\ UNCHANGED <<p, files, outside>>

\* Once the original is safe the DELETE of its record is recorded, then sent,
\* and never again.
RemoveOld ==
    /\ pc = "owned"
    /\ \/ arr.oldRec # "own" /\ Waits /\ UNCHANGED p
       \/ /\ arr.oldRec = "own" /\ NoOldReferences /\ CandidateInspected
          /\ IF MovesAside THEN Goes("aside") /\ UNCHANGED p
             ELSE /\ Recovered /\ files["LIB"] \in {"none", "orig"}
                  /\ p' = [p EXCEPT !.deleteSent = TRUE]
                  /\ Goes("sendDelete")
    /\ UNCHANGED <<files, outside>>

\* After the move, or after the copy a refused move fell back to.  The record
\* can be gone by the time of the request, which then finds none.
RecordDelete ==
    /\ \/ pc = "kept" /\ step = "remove" /\ ~Fs /\ Free("LIB")
       \/ pc = "copied"
    /\ p' = [p EXCEPT !.deleteSent = TRUE]
    /\ Goes("sendDelete")
    /\ UNCHANGED <<files, outside>>

SendDelete ==
    /\ pc = "sendDelete"
    /\ arr' = [arr EXCEPT !.del = "flying"]
    /\ Waits
    /\ UNCHANGED <<kind, p, files, claims, history>>

\* stepPromoteRemoveOld once the record is gone.  An original the library
\* removed before it could be moved aside is no success.
RemoveOrphan ==
    /\ pc = "orphan"
    /\ \/ /\ MovesAside /\ ~p.moved /\ (~Free("LIB") \/ p.moving) /\ CandidateInspected
          /\ Goes("aside") /\ UNCHANGED p
       \/ /\ ~MovesAside /\ Recovered /\ CandidateInspected /\ (Holds("LIB", "orig") \/ Emptied)
          /\ p' \in PlanEmptying(p)
          /\ Goes("unlink")
       \/ /\ IF MovesAside THEN p.moved /\ Recovered ELSE Free("LIB")
          /\ p' = [p EXCEPT !.removed = TRUE]
          /\ Completes("rename")
    /\ UNCHANGED <<files, outside>>

-----------------------------------------------------------------------------
(* rename_candidate and finalize *)

\* stepPromoteRename: the library gives the file its final name.  The path it
\* reports can be the one before the rename for a while.
Rename ==
    /\ pc = "in" /\ step = "rename" /\ p.removed /\ AdoptedFile
    /\ \/ /\ arr.newRec = "final" /\ Holds(FinalPath, "cand")
          /\ p' = [p EXCEPT !.newPath = "final"]
          /\ Completes("finalize")
       \/ /\ arr.newRec = "temporary" /\ p.ren \in {"none", "failed"}
          /\ Recovered /\ Holds("CAND", "cand")
          /\ p' = [p EXCEPT !.ren = "sent"]
          /\ Goes("sendRename")
       \/ arr.newRec = "temporary" /\ p.ren = "done" /\ Waits /\ UNCHANGED p
    /\ UNCHANGED <<files, outside>>

ReconcileRename ==
    /\ pc = "in" /\ step = "rename" /\ p.removed /\ AdoptedFile /\ arr.newRec = "temporary"
    /\ Reconcile("ren", arr.ren)
    /\ UNCHANGED <<files, outside>>

SendRename == pc = "sendRename" /\ SendCommand("ren")

\* localPromotionVerifyFinal; and stepPromoteFinalize up to its cleanup.
FinalProved ==
    /\ p.removed /\ Holds(FinalPath, "cand")
    /\ Same \/ Free("LIB")
    /\ IF Fs THEN p.published ELSE AdoptedFile /\ p.newPath = "final" /\ arr.oldRec = "none"

\* localPromotionFinalize and stepPromoteFinalize: only a proven final file lets
\* the candidate's leftover and then the recovery go.
Finalize ==
    /\ pc = "in" /\ step = "finalize" /\ FinalProved
    /\ \/ /\ ~Fs /\ Holds("CAND", "cand") /\ arr.newRec = "final"
          /\ Puts("CAND", "none") /\ Goes("in") /\ UNCHANGED p
       \/ /\ Fs \/ Free("CAND")
          /\ Free("PART") /\ UNCHANGED files
          /\ \/ /\ (p.emptyRec /\ Holds("REC", "empty")) \/ (~Free("REC") /\ Recovered)
                /\ \/ p' = [p EXCEPT !.cleanup = TRUE]
                   \/ Holds("REC", "orig") /\ p' = [p EXCEPT !.cleanup = TRUE, !.emptyRec = TRUE]
                /\ Goes("drop")
             \/ Free("REC") /\ p.cleanup /\ Goes("dropped") /\ UNCHANGED p
    /\ UNCHANGED outside

\* Mutant of DropRecovery: an emptied recovery counts as removed.
DropRecoveryEarly ==
    /\ pc = "drop"
    /\ \/ p.emptyRec /\ Holds("REC", "orig") /\ Puts("REC", "empty") /\ Goes("dropped")
       \/ ~Free("REC") /\ Puts("REC", "none") /\ Goes("dropped")
    /\ UNCHANGED <<p, outside>>

\* removeRecoveryFile.
DropRecovery ==
    /\ pc = "drop"
    /\ \/ p.emptyRec /\ Holds("REC", "orig") /\ Puts("REC", "empty") /\ Goes("drop")
       \/ ~Free("REC") /\ Puts("REC", "none") /\ Goes("dropped")
    /\ UNCHANGED <<p, outside>>

Finalized ==
    /\ pc = "dropped"
    /\ p' = [p EXCEPT !.verified = FALSE]
    /\ pc' = "idle" /\ row' = "completed" /\ UNCHANGED step
    /\ UNCHANGED <<files, outside>>

-----------------------------------------------------------------------------
(* Users *)

\* Retry of a failed promotion.  A library promotion whose import is not seen
\* adopted goes on only if its removal began; preparePromotionRetry.
Retry ==
    /\ pc = "idle" /\ row = "failed"
    /\ \/ Fs \/ step \notin {"import", "remove", "rename"}
       \/ CanClaim /\ (p.imp = "none" \/ AdoptedFile \/ p.removed \/ p.deleteSent)
    /\ claim' = IF Fs \/ step \notin {"import", "remove", "rename"} THEN claim ELSE "self"
    /\ row' = "open"
    /\ UNCHANGED <<kind, step, pc, p, files, arr, original, rival, history>>

\* prepareRestoredOriginalRetry: an import that verifiably completed can be made
\* again when the episodes use the original, under whichever id, as it was.  A
\* rediscovered one is this promotion's from now on, unless its claim is refused.
RetryImport ==
    /\ pc = "idle" /\ row = "failed" /\ ~Fs /\ step \in {"import", "remove", "rename"} /\ CanClaim
    /\ ~p.removed /\ ~p.deleteSent /\ ~p.cleanup /\ ~p.moved /\ ~p.moving
    /\ p.imp = "done" /\ arr.imp = "completed"
    /\ arr.active = "old" /\ arr.oldRec # "none" /\ arr.newRec = "none"
    /\ Recovered /\ Holds("LIB", "orig") /\ Holds("CAND", "cand")
    /\ p' = [p EXCEPT !.imp = "none", !.newPath = "none", !.emptyOrig = FALSE, !.reimport = TRUE]
    /\ arr' = [arr EXCEPT !.oldRec = "own"] /\ late' = FALSE /\ discarded' = FALSE
    /\ claim' = "self" /\ row' = "open" /\ step' = "import"
    /\ UNCHANGED <<kind, pc, files, original, rival, taken>>

Cancel ==
    /\ pc = "idle" /\ row \in {"open", "failed"}
    /\ row' = "cancelled"
    /\ UNCHANGED <<step, pc, p, files, outside>>

\* RestoreTranscodeBackup.
Restore ==
    /\ pc = "idle" /\ row \in {"failed", "cancelled"}
    /\ Fs /\ Same /\ MovesAside /\ (p.moved \/ p.moving \/ p.back)
    /\ \/ p.back /\ Holds("LIB", "orig") /\ Free("REC") /\ p' = MovedBack(p) /\ UNCHANGED pc
       \/ Free("LIB") /\ ~Free("REC") /\ p' = [p EXCEPT !.back = FALSE] /\ pc' = "back"
    /\ UNCHANGED <<row, step, files, outside>>

\* DiscardTranscodeBackup: the partial and then the copy, each rechecked.
Discard ==
    /\ pc = "idle" /\ row # "open" /\ ~OnlyOriginal
    /\ Goes("discard")
    /\ UNCHANGED <<p, files, outside>>

OtherCopyInPlace == Holds("LIB", "orig") \/ \E path \in NewPaths : Holds(path, "cand")

DiscardRemoves(path) ==
    /\ pc = "discard" /\ ~OnlyOriginal
    /\ ~Free(path) /\ (path = "PART" \/ Free("PART"))
    /\ \/ Puts(path, "none")
       \/ OtherCopyInPlace /\ Puts(path, "empty")
    /\ discarded' = (discarded \/ (path = "REC" /\ Replaced))
    /\ UNCHANGED <<kind, row, step, pc, p, arr, claims, taken, late>>

Discarded ==
    /\ pc = "discard" /\ Free("PART") /\ Free("REC")
    /\ p' = [p EXCEPT !.verified = FALSE]
    /\ Waits
    /\ UNCHANGED <<files, outside>>

User == Retry \/ RetryImport \/ Cancel \/ Restore \/ Discard

-----------------------------------------------------------------------------
(* The world outside *)

world == <<kind, row, step, pc, p>>

\* Somebody puts a file where none is.
Outsider ==
    /\ \E path \in {"LIB", FinalPath} : Free(path) /\ Puts(path, "alien")
    /\ UNCHANGED <<row, step, pc, p, outside>>

\* A request that was given up arrives, or does not.
Arrives(cmd) ==
    /\ arr[cmd] = "flying"
    /\ arr' \in {[arr EXCEPT ![cmd] = s] : s \in {"queued", "none"}}
    /\ UNCHANGED <<world, files, claims, history>>

\* ManualImport: it ends with or without the candidate's file record, with or
\* without the approved episodes using it; some versions then remove the old
\* record, the old file or both.
LibraryImports ==
    /\ arr.imp = "queued"
    /\ \E end \in {"completed", "failed"} :
       \/ /\ \/ arr' = [arr EXCEPT !.imp = end]
             \/ Holds("CAND", "cand") /\ arr' = [arr EXCEPT !.imp = end, !.newRec = "temporary"]
          /\ UNCHANGED <<files, taken>>
       \/ \E record, file \in BOOLEAN :
          /\ Holds("CAND", "cand")
          /\ arr' = [arr EXCEPT !.imp = end, !.newRec = "temporary", !.active = "new",
                                !.oldRec = IF record THEN "none" ELSE @]
          /\ IF file /\ ~Free("LIB") THEN Puts("LIB", "none") ELSE UNCHANGED files
          /\ taken' = (taken \/ (file /\ Holds("LIB", "orig")))
    /\ UNCHANGED <<world, claims, discarded, late>>

\* DELETE of the old record removes the file at its path as well.
LibraryDeletes ==
    /\ arr.del = "flying"
    /\ \/ /\ arr.oldRec = "own"
          /\ arr' = [arr EXCEPT !.del = "none", !.oldRec = "none"]
          /\ Puts("LIB", "none")
       \/ arr' = [arr EXCEPT !.del = "none"] /\ UNCHANGED files
    /\ UNCHANGED <<world, claims, history>>

\* It notices that a file nobody uses is gone.
LibraryDrops ==
    /\ arr.active = "new" /\ arr.oldRec # "none" /\ Free("LIB")
    /\ arr' = [arr EXCEPT !.oldRec = "none"]
    /\ UNCHANGED <<world, files, claims, history>>

\* Where a removal has read the library for the last time, its DELETE included.
Removing ==
    \/ pc \in {"orphan", "aside", "renameAside", "confirmAside", "kept", "copied",
              "unlink", "unlinked", "sendDelete"} \cup CopyingOn
    \/ arr.del = "flying"

\* A rescan readopts the unchanged original, under its old record or rediscovered
\* under another id; the candidate's record can be discarded.
LibraryReadopts ==
    /\ ~Fs /\ arr.active = "new" /\ Holds("LIB", "orig")
    /\ \E rec \in {"none", arr.newRec} :
          arr' = [arr EXCEPT !.active = "old", !.newRec = rec,
                             !.oldRec = IF @ = "own" THEN "own" ELSE "other"]
    /\ late' = (late \/ Removing)
    /\ UNCHANGED <<world, files, claims, discarded, taken>>

\* RenameFiles moves the file, or copies it; its path follows at once or later.
LibraryRenames ==
    /\ arr.ren = "queued"
    /\ \/ arr' = [arr EXCEPT !.ren = "failed"] /\ UNCHANGED files
       \/ /\ Holds("CAND", "cand") /\ Free(FinalPath)
          /\ \/ Moves("CAND", FinalPath)
             \/ Puts(FinalPath, "cand")
          /\ arr' \in {[arr EXCEPT !.ren = "completed", !.newRec = path] : path \in {"temporary", "final"}}
    /\ UNCHANGED <<world, claims, history>>

LibraryPublishes ==
    /\ arr.ren = "completed" /\ arr.newRec = "temporary"
    /\ arr' = [arr EXCEPT !.newRec = "final"]
    /\ UNCHANGED <<world, files, claims, history>>

Library ==
    \/ Arrives("imp") \/ Arrives("ren") \/ LibraryImports \/ LibraryDeletes
    \/ LibraryDrops \/ LibraryRenames \/ LibraryPublishes

\* The other promotion takes the reservation when it can, changes files or the
\* library only while it holds it, and stops with or without side effects.
RivalClaims ==
    /\ rival \in {"none", "clean"}
    /\ claim \in {"none", "rival"} \/ SelfReleases
    /\ claim' = "rival" /\ rival' = "open"
    /\ UNCHANGED <<world, files, arr, original, history>>

RivalMoves ==
    /\ \/ rival = "open" /\ rival' \in {"changing", "clean"}
       \/ rival = "changing" /\ rival' \in {"dirty", "done"}
       \/ rival = "dirty" /\ rival' = "changing"
    /\ UNCHANGED <<world, files, arr, claim, original, history>>

Rival == RivalClaims \/ RivalMoves

-----------------------------------------------------------------------------

Work ==
    \/ Enter \/ StepFails
    \/ Preserve \/ MakeRecoveryCopy \/ CopyToPartial \/ PublishPartial \/ RecordCopy
    \/ ResumeFallbackCopy
    \/ MoveAside \/ RenameAside \/ ConfirmAside
    \/ MoveBack \/ RenameBack \/ FinishMoveBack \/ ResumeMoveBack
    \/ Publish \/ TakeName \/ Published
    \/ Import \/ ReconcileImport \/ SendImport
    \/ LocalRemove \/ Unlink \/ Removed
    \/ StillAdopted \/ OldRecordRead \/ RemoveOld \/ RecordDelete \/ SendDelete \/ RemoveOrphan
    \/ Rename \/ ReconcileRename \/ SendRename
    \/ Finalize \/ DropRecovery \/ Finalized

Next ==
    \/ Work \/ Crash \/ User
    \/ DiscardRemoves("PART") \/ DiscardRemoves("REC") \/ Discarded
    \/ Outsider \/ Library \/ LibraryReadopts \/ Rival

\* A promotion that is open is continued until it ends (the reconciler calls it
\* again after a wait), and the library works off what it has accepted.  That it
\* readopts an original is possible and never certain.
Fairness == WF_vars(Work) /\ WF_vars(Library)

Spec == Init /\ [][Next]_vars /\ Fairness

-----------------------------------------------------------------------------
(* Properties *)

TypeOK ==
    /\ kind \in Kinds
    /\ row \in Statuses /\ step \in Steps /\ pc \in Places
    /\ p \in Promotions
    /\ files \in [Paths -> Contents]
    /\ arr \in Libraries
    /\ claim \in {"none", "self", "rival"} /\ original \in {"none", "self", "rival"}
    /\ rival \in Rivals
    /\ discarded \in BOOLEAN /\ taken \in BOOLEAN /\ late \in BOOLEAN

OriginalAt == {place \in {"library", "recovery"} :
                 Holds(IF place = "library" THEN "LIB" ELSE "REC", "orig")}

\* The original is at its library path or its recovery path until the
\* candidate has its place and either the cleanup of a proven replacement
\* began, a user gave the recovery up or the library removed the original
\* itself: promote_workflow.go removes it behind every one of these proofs.  A
\* candidate that lost its place to a readoption no removal could see counts
\* as placed, and even then the recovery goes only as the user's doing.
NothingLost ==
    \/ OriginalAt # {}
    \/ Replaced /\ (p.cleanup \/ discarded \/ taken)

\* A same-name replacement that ended with nothing at the library path can
\* always be undone: RestoreTranscodeBackup finds its flags and the original.
RestoreOffered ==
    Fs /\ Same /\ Free("LIB") /\ row \in {"failed", "cancelled"}
        => MovesAside /\ (p.moved \/ p.moving \/ p.back) /\ Holds("REC", "orig")

\* What a library, or a replacement under a new name, plays exists at every
\* moment: the original while the episodes use it, then the candidate, then the
\* original again if a rescan readopts it.  Every removal reads the library
\* first (promote_workflow.go:242 and :331); only a readoption between that
\* read and the removal it allowed can leave the episodes without their file.
ActiveFileThere ==
    /\ ~Fs => IF arr.active = "old" THEN Holds("LIB", "orig") \/ late
                                    ELSE Holds("CAND", "cand") \/ Holds(FinalPath, "cand")
    /\ Fs /\ ~Same => Holds("LIB", "orig") \/ Holds("NEW", "cand")

\* While another promotion changes the files or the library entries of this
\* series or destination, or has failed half-way, this one has not touched them
\* or has completed: the reservation of a stopped owner is taken over only if
\* its stored state shows no side effect, and a crash can hide none.
Untouched == Holds("LIB", "orig") /\ Holds("CAND", "cand") /\ arr.imp = "none"
OneChanger == rival \in {"changing", "dirty"} => Untouched \/ row = "completed"

\* No second ManualImport is sent while an earlier one may still act, and none
\* once the episodes have left the original.
OneImport ==
    pc = "sendImport" => arr.imp \notin {"flying", "queued"} /\ arr.active = "old"

\* The DELETE, which removes the file at the original's path too, is sent once,
\* when its recovery exists and no episode uses the original, or none did when
\* the library was read for the last time.
DeleteIsSafe ==
    pc = "sendDelete" => arr.del = "none" /\ Replaced /\ Holds("REC", "orig")

\* A promotion reports success only with the candidate at its final path, and
\* leaves no copy of the original behind.
CompletedReplaces ==
    row = "completed" => /\ Holds(FinalPath, "cand") /\ OriginalAt = {}
                         /\ Free("REC") /\ Free("PART")

\* A file of somebody else that a filesystem promotion finds at the library
\* path or at its destination is neither replaced nor removed.
ForeignFilesKept ==
    [][Fs => \A path \in Paths : Holds(path, "alien") => files'[path] = "alien"]_vars

\* A publish step that reports failure with nothing at the library path has
\* tried to move the original back and could not (promote_filesystem.go:343 says
\* so in its message): the original is whole at its recovery path, under flags
\* that a retry or a restore starts from.
StopTriesToMoveBack ==
    [][pc # "idle" /\ row = "open" /\ row' = "failed" /\ step = "import" /\ Fs /\ Same
         /\ files'["LIB"] = "none"
        => pc \in MovingBack /\ (p.moved \/ p.moving)' /\ Holds("REC", "orig")']_vars

\* The comment at promote_filesystem.go:65 promises the attempt for every failure,
\* "any later retry that stops early" included.
EveryStopTriesToMoveBack ==
    [][row = "open" /\ row' = "failed" /\ step = "import" /\ Fs /\ Same /\ files'["LIB"] = "none"
        => pc \in MovingBack]_vars

-----------------------------------------------------------------------------
(* Why: the inductive invariant *)

\* What the library can still do, by what was asked of it.
LibraryInv ==
    /\ Fs => /\ arr.imp = "none" /\ arr.ren = "none" /\ arr.del = "none"
             /\ arr.active = "old" /\ ~late
    /\ p.imp = "none" => arr.imp \notin {"flying", "queued"}
    /\ p.imp = "none" /\ ~p.reimport => arr.imp = "none"
    /\ arr.active = "new" => arr.imp \in {"completed", "failed"} /\ p.imp # "none"
    /\ ~Fs /\ step \notin {"preserve", "import"} => arr.imp \in {"completed", "failed"}
    /\ arr.active = "old" /\ arr.oldRec = "none" => late
    /\ late => arr.imp \in {"completed", "failed"} /\ p.imp # "none"
    /\ arr.ren # "none" => step \in {"rename", "finalize"}
    /\ arr.del = "flying" => p.deleteSent /\ (arr.active = "new" \/ late)
    /\ arr.del = "flying" /\ arr.oldRec = "own" => Holds("REC", "orig") \/ discarded \/ p.cleanup

\* What the state says of the steps already taken.
StateInv ==
    /\ step = "preserve" => ~p.started /\ ~p.moved /\ ~p.moving /\ ~p.deleteSent /\ p.imp = "none"
    /\ step \in {"preserve", "import"} => ~p.published /\ ~p.removed
    /\ step \in {"rename", "finalize"} => p.removed
    /\ step = "rename" => ~Fs
    /\ p.published => Fs /\ p.started
    /\ p.removed /\ ~Fs => arr.oldRec # "own"
    /\ p.deleteSent /\ MovesAside => ~Fs /\ p.moved
    /\ p.moved \/ p.moving => MovesAside
    /\ p.back => Fs /\ Same /\ (p.moved \/ p.moving)
    /\ p.cleanup => p.removed

\* Where the files are.
FilesInv ==
    /\ files["CAND"] \in {"cand", "none"} /\ files["PART"] \notin {"alien", "cand"}
    /\ Fs => files["REC"] \notin {"alien", "cand"}
    /\ Fs /\ ~p.started => Holds("LIB", "orig") /\ Holds("CAND", "cand")
    /\ ~Fs /\ arr.active = "old" => Holds("LIB", "orig") \/ late
    /\ ~Fs /\ (p.moved \/ p.removed) => ~Holds("LIB", "orig")
    /\ ~Fs /\ step \in {"preserve", "import", "remove"} => Holds("CAND", "cand")
    /\ ~Fs => Holds("CAND", "cand") \/ Holds(FinalPath, "cand")
    /\ Fs /\ ~Same => Holds("LIB", "orig") \/ Holds("NEW", "cand")
    /\ Holds("LIB", "orig") \/ p.moved \/ p.moving \/ Replaced
    /\ Fs /\ Same /\ Free("LIB") => (p.moved \/ p.moving) /\ Holds("REC", "orig")
    /\ p.cleanup => Placed
    /\ taken => Placed /\ ~Holds("LIB", "orig")

\* The original is removed from one place only while the other is known good.
RemovalInv ==
    /\ pc \in {"aside", "renameAside", "confirmAside", "kept"} =>
          /\ MovesAside /\ ~p.back
          /\ IF Fs THEN /\ p.started
                        /\ \/ step = "import" /\ Same
                           \/ step = "remove" /\ ~Same /\ Holds("NEW", "cand")
                   ELSE step = "remove" /\ Replaced /\ ~p.deleteSent
    /\ pc \in {"renameAside", "confirmAside"} => p.moving /\ ~p.moved
    /\ pc = "renameAside" /\ Fs => Holds("LIB", "orig")
    /\ pc = "confirmAside" /\ ~Fs => ~Holds("LIB", "orig")
    /\ pc = "kept" => p.moved /\ Holds("REC", "orig")
    /\ pc = "take" => /\ Fs /\ step = "import" /\ p.started
                      /\ Same => ~MovesAside /\ Holds("REC", "orig")
    /\ pc = "placed" => Fs /\ step = "import" /\ p.started
    /\ pc \in Copying => /\ Holds("LIB", "orig") /\ ~MovesAside /\ ~p.deleteSent
                         /\ step \in {"preserve", "remove"} \/ (step = "import" /\ Fs)
    /\ pc \in CopyingOn \cup {"copied"} =>
          Holds("LIB", "orig") /\ ~MovesAside /\ ~p.deleteSent
    /\ pc \in {"adopted", "owned", "orphan", "copied"} \cup CopyingOn => ~Fs /\ step = "remove"
    /\ pc = "owned" => ~p.deleteSent
    /\ pc = "orphan" => arr.oldRec # "own"
    /\ pc \in {"orphan", "copied"} \cup CopyingOn => Replaced
    /\ pc \in {"publishPart", "publishPartOn"} => Holds("PART", "orig")
    /\ pc \in {"recordCopyOn", "copied"} => Holds("REC", "orig")
    /\ pc \in {"unlink", "unlinked"} =>
          /\ step = "remove" /\ ~MovesAside
          /\ IF Fs THEN ~Same /\ p.started /\ Holds("NEW", "cand")
                   ELSE Replaced /\ arr.oldRec # "own"
    /\ pc = "unlink" => Holds("REC", "orig")
    /\ pc = "unlinked" => ~Holds("LIB", "orig")
    /\ pc \in {"drop", "dropped"} \/ row = "completed" =>
          /\ step = "finalize" /\ Holds(FinalPath, "cand") /\ Free("PART")
          /\ ~Same => ~Holds("LIB", "orig")
    /\ pc \in {"drop", "dropped"} => p.cleanup
    /\ pc = "dropped" \/ row = "completed" => Free("REC")
    /\ pc \in MovingBack => Fs /\ Same /\ (p.moved \/ p.moving) /\ row # "completed"
    /\ pc = "renameBack" => Holds("REC", "orig")

\* What is sent, and when.
RequestInv ==
    /\ pc = "sendImport" => /\ ~Fs /\ step = "import" /\ p.imp = "sent"
                            /\ arr.imp \notin {"flying", "queued"} /\ arr.active = "old" /\ ~late
    /\ pc = "sendDelete" => /\ ~Fs /\ step = "remove" /\ p.deleteSent
                            /\ arr.del = "none" /\ Replaced /\ Holds("REC", "orig")
    /\ pc = "sendRename" => ~Fs /\ step = "rename"

\* Who may change anything.
ClaimInv ==
    /\ pc \in StepPlaces \cup {"sendImport", "sendDelete", "sendRename"} =>
          row = "open" /\ claim = "self"
    /\ pc = "discard" => row # "open"
    /\ rival \in {"open", "changing", "dirty"} => claim = "rival"
    /\ SideEffectFree \/ row = "completed" \/ claim = "self"

\* Every step of a promotion keeps it, and the safety properties follow from it.
IInv ==
    /\ TypeOK /\ LibraryInv /\ StateInv /\ FilesInv /\ RemovalInv /\ RequestInv /\ ClaimInv
    /\ NothingLost

-----------------------------------------------------------------------------
(* Refinement and liveness *)

Abstract == INSTANCE Replacement
    WITH kept <- OriginalAt, placed <- Replaced, byLibrary <- ~Fs

\* A promotion implements Replacement.
ImplementsReplacement == Abstract!Spec

\* Nobody answers any more: the reservation is not given back, or a request
\* that was recorded never reached the library.
Stuck ==
    \/ claim = "rival" /\ ~RivalReleases
    \/ ~Fs /\ step = "import" /\ p.imp = "sent" /\ arr.imp = "none"
    \/ ~Fs /\ step = "rename" /\ p.ren = "sent" /\ arr.ren = "none"
    \/ ~Fs /\ step = "remove" /\ p.deleteSent /\ arr.oldRec = "own" /\ arr.del = "none"

Interrupted == Crash \/ (pc \in MovingBack /\ row = "open" /\ BackAgain /\ row' = "open")

\* An open promotion ends, or waits for an answer that does not come, unless
\* it is interrupted for ever: no combination of what it finds makes it go
\* round its steps.
Settles == <>[][~Interrupted]_vars => (row = "open" ~> (row # "open" \/ Stuck))

=============================================================================
