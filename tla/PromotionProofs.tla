-------------------------- MODULE PromotionProofs --------------------------
(***************************************************************************)
(* IInv is an invariant of Promotion: one lemma for each action.  From it  *)
(* follow the safety properties, and that a promotion implements           *)
(* Replacement.                                                            *)
(***************************************************************************)
EXTENDS Promotion, TLAPS

\* The module's vocabulary, and the sets its variables range over, are expanded
\* in every step below.
USE DEF Fs, Same, FinalPath, MovesAside, Holds, Free, Placed, Replaced, OriginalAt, Goes,
        Waits, Completes, Moves, Puts, CopyGoes, Copying, CopyingOn, MovingBack, StepPlaces,
        Places, outside, claims, history, world, Statuses, Steps, Contents, Paths, Commands,
        Remote, Rivals

LEMMA InitEstablishes == Init => IInv
<1> SUFFICES ASSUME Init PROVE IInv
  OBVIOUS
<1>1. TypeOK
  <2>1. kind \in Kinds /\ p \in Promotions /\ arr \in Libraries
    BY DEF Init, Promotions, Libraries, Approved
  <2>2. files \in [Paths -> Contents]
    BY DEF Init
  <2> QED BY <2>1, <2>2 DEF Init, TypeOK
<1>2. LibraryInv /\ StateInv /\ FilesInv /\ RemovalInv /\ RequestInv /\ ClaimInv /\ NothingLost
  BY DEF Init, Approved, LibraryInv, StateInv, FilesInv, RemovalInv, RequestInv, ClaimInv,
         NothingLost, SideEffectFree
<1> QED BY <1>1, <1>2 DEF IInv
-----------------------------------------------------------------------------
(* A promotion's steps *)

LEMMA EnterKeeps ==
  ASSUME IInv, Enter
  PROVE  IInv'
<1>0. pc = "idle" /\ row = "open" /\ UNCHANGED <<kind, p, files, arr, original, rival, history>>
  BY DEF Enter
<1>1. ASSUME CanClaim /\ claim' = "self" /\ Goes("in")
      PROVE  IInv'
  <2>1. TypeOK'
    BY <1>0, <1>1 DEF IInv, TypeOK, Promotions, Libraries
  <2>2. (LibraryInv /\ StateInv /\ FilesInv /\ RemovalInv /\ RequestInv /\ ClaimInv /\
        NothingLost)'
    BY <1>0, <1>1, <2>1 DEF IInv, TypeOK, LibraryInv, StateInv, FilesInv, RemovalInv,
       RequestInv, ClaimInv, NothingLost, Promotions, Libraries, CanClaim, RivalReleases,
       SideEffectFree
  <2> QED BY <2>1, <2>2 DEF IInv
<1>2. ASSUME row' = "failed" /\ UNCHANGED <<pc, step, claim>>
      PROVE  IInv'
  <2>1. TypeOK'
    BY <1>0, <1>2 DEF IInv, TypeOK, Promotions, Libraries
  <2>2. (LibraryInv /\ StateInv /\ FilesInv /\ RemovalInv /\ RequestInv /\ ClaimInv /\
        NothingLost)'
    BY <1>0, <1>2, <2>1 DEF IInv, TypeOK, LibraryInv, StateInv, FilesInv, RemovalInv,
       RequestInv, ClaimInv, NothingLost, Promotions, Libraries, SideEffectFree
  <2> QED BY <2>1, <2>2 DEF IInv
<1> QED BY <1>1, <1>2 DEF Enter

LEMMA StepFailsKeeps ==
  ASSUME IInv, StepFails
  PROVE  IInv'
<1>0. /\ pc \in StepPlaces
      /\ (IF MustMoveBack THEN Goes("back") ELSE pc' = "idle" /\ row' = "failed" /\ UNCHANGED step)
      /\ UNCHANGED <<p, files, outside>>
  BY DEF StepFails
<1>1. IInv'
  <2>1. TypeOK'
    BY <1>0 DEF IInv, TypeOK, Promotions, Libraries
  <2>2. (LibraryInv /\ StateInv /\ FilesInv /\ RemovalInv /\ RequestInv /\ ClaimInv /\
        NothingLost)'
    BY <1>0, <2>1 DEF IInv, TypeOK, LibraryInv, StateInv, FilesInv, RemovalInv, RequestInv,
       ClaimInv, NothingLost, Promotions, Libraries, MustMoveBack, SideEffectFree
  <2> QED BY <2>1, <2>2 DEF IInv
<1> QED BY <1>1 DEF StepFails

LEMMA CrashKeeps ==
  ASSUME IInv, Crash
  PROVE  IInv'
<1>0. pc # "idle" /\ Goes("idle") /\ UNCHANGED <<p, files, outside>>
  BY DEF Crash
<1>1. IInv'
  <2>1. TypeOK'
    BY <1>0 DEF IInv, TypeOK, Promotions, Libraries
  <2>2. (LibraryInv /\ StateInv /\ FilesInv /\ RemovalInv /\ RequestInv /\ ClaimInv /\
        NothingLost)'
    BY <1>0, <2>1 DEF IInv, TypeOK, LibraryInv, StateInv, FilesInv, RemovalInv, RequestInv,
       ClaimInv, NothingLost, Promotions, Libraries, SideEffectFree
  <2> QED BY <2>1, <2>2 DEF IInv
<1> QED BY <1>1 DEF Crash

LEMMA PreserveKeeps ==
  ASSUME IInv, Preserve
  PROVE  IInv'
<1>0. /\ pc = "in"
      /\ step = "preserve"
      /\ Holds("LIB", "orig")
      /\ Holds("CAND", "cand")
      /\ (Fs \/ (arr.active = "old" /\ arr.oldRec = "own"))
      /\ original # "rival"
      /\ original' = "self"
      /\ UNCHANGED <<kind, files, arr, claim, rival, history>>
  BY DEF Preserve
<1>1. ASSUME /\ (MovesAside \/ (p.mode = "none" /\ Free("REC") /\ Free("PART")))
             /\ p' = [p EXCEPT !.mode = "move"]
             /\ Completes("import")
      PROVE  IInv'
  <2>1. p' \in Promotions
    BY <1>0, <1>1 DEF IInv, TypeOK, Promotions
  <2>2. TypeOK'
    BY <1>0, <1>1, <2>1 DEF IInv, TypeOK, Libraries
  <2>3. (LibraryInv /\ StateInv /\ FilesInv /\ RemovalInv /\ RequestInv /\ ClaimInv /\
        NothingLost)'
    BY <1>0, <1>1, <2>1, <2>2 DEF IInv, TypeOK, LibraryInv, StateInv, FilesInv, RemovalInv,
       RequestInv, ClaimInv, NothingLost, Promotions, Libraries, SideEffectFree
  <2> QED BY <2>2, <2>3 DEF IInv
<1>2. ASSUME ~MovesAside /\ p' \in {p, [p EXCEPT !.mode = "copy"]} /\ Goes("copy")
      PROVE  IInv'
  <2>1. p' \in Promotions
    BY <1>0, <1>2 DEF IInv, TypeOK, Promotions
  <2>2. TypeOK'
    BY <1>0, <1>2, <2>1 DEF IInv, TypeOK, Libraries
  <2>3. (LibraryInv /\ StateInv /\ FilesInv /\ RemovalInv /\ RequestInv /\ ClaimInv /\
        NothingLost)'
    BY <1>0, <1>2, <2>1, <2>2 DEF IInv, TypeOK, LibraryInv, StateInv, FilesInv, RemovalInv,
       RequestInv, ClaimInv, NothingLost, Promotions, Libraries, SideEffectFree
  <2> QED BY <2>2, <2>3 DEF IInv
<1> QED BY <1>1, <1>2 DEF Preserve

LEMMA MakeRecoveryCopyKeeps ==
  ASSUME IInv, MakeRecoveryCopy
  PROVE  IInv'
<1>0. pc \in {"copy", "copyOn"} /\ UNCHANGED outside
  BY DEF MakeRecoveryCopy
<1>1. ASSUME /\ Holds("REC", "orig")
             /\ files["PART"] \in {"none", "orig"}
             /\ Puts("PART", "none")
             /\ CopyGoes("recordCopy", "recordCopyOn")
             /\ UNCHANGED p
      PROVE  IInv'
  <2>1. TypeOK'
    BY <1>0, <1>1 DEF IInv, TypeOK, Promotions, Libraries
  <2>2. (LibraryInv /\ StateInv /\ FilesInv /\ RemovalInv /\ RequestInv /\ ClaimInv /\
        NothingLost)'
    BY <1>0, <1>1, <2>1 DEF IInv, TypeOK, LibraryInv, StateInv, FilesInv, RemovalInv,
       RequestInv, ClaimInv, NothingLost, Promotions, Libraries, SideEffectFree
  <2> QED BY <2>1, <2>2 DEF IInv
<1>2. ASSUME /\ Free("REC")
             /\ Holds("PART", "orig")
             /\ p' = [p EXCEPT !.mode = "copy"]
             /\ CopyGoes("publishPart", "publishPartOn")
             /\ UNCHANGED files
      PROVE  IInv'
  <2>1. p' \in Promotions
    BY <1>0, <1>2 DEF IInv, TypeOK, Promotions
  <2>2. TypeOK'
    BY <1>0, <1>2, <2>1 DEF IInv, TypeOK, Libraries
  <2>3. (LibraryInv /\ StateInv /\ FilesInv /\ RemovalInv /\ RequestInv /\ ClaimInv /\
        NothingLost)'
    BY <1>0, <1>2, <2>1, <2>2 DEF IInv, TypeOK, LibraryInv, StateInv, FilesInv, RemovalInv,
       RequestInv, ClaimInv, NothingLost, Promotions, Libraries, SideEffectFree
  <2> QED BY <2>2, <2>3 DEF IInv
<1>3. ASSUME /\ Free("REC")
             /\ ~Holds("PART", "orig")
             /\ Puts("PART", "short")
             /\ CopyGoes("copying", "copyingOn")
             /\ UNCHANGED p
      PROVE  IInv'
  <2>1. TypeOK'
    BY <1>0, <1>3 DEF IInv, TypeOK, Promotions, Libraries
  <2>2. (LibraryInv /\ StateInv /\ FilesInv /\ RemovalInv /\ RequestInv /\ ClaimInv /\
        NothingLost)'
    BY <1>0, <1>3, <2>1 DEF IInv, TypeOK, LibraryInv, StateInv, FilesInv, RemovalInv,
       RequestInv, ClaimInv, NothingLost, Promotions, Libraries, SideEffectFree
  <2> QED BY <2>1, <2>2 DEF IInv
<1> QED BY <1>1, <1>2, <1>3 DEF MakeRecoveryCopy

LEMMA CopyToPartialKeeps ==
  ASSUME IInv, CopyToPartial
  PROVE  IInv'
<1>0. /\ pc \in {"copying", "copyingOn"}
      /\ Holds("LIB", "orig")
      /\ Puts("PART", "orig")
      /\ p' = [p EXCEPT !.mode = "copy"]
      /\ CopyGoes("publishPart", "publishPartOn")
      /\ UNCHANGED outside
  BY DEF CopyToPartial
<1>1. IInv'
  <2>1. p' \in Promotions
    BY <1>0 DEF IInv, TypeOK, Promotions
  <2>2. TypeOK'
    BY <1>0, <2>1 DEF IInv, TypeOK, Libraries
  <2>3. (LibraryInv /\ StateInv /\ FilesInv /\ RemovalInv /\ RequestInv /\ ClaimInv /\
        NothingLost)'
    BY <1>0, <2>1, <2>2 DEF IInv, TypeOK, LibraryInv, StateInv, FilesInv, RemovalInv,
       RequestInv, ClaimInv, NothingLost, Promotions, Libraries, SideEffectFree
  <2> QED BY <2>2, <2>3 DEF IInv
<1> QED BY <1>1 DEF CopyToPartial

LEMMA PublishPartialKeeps ==
  ASSUME IInv, PublishPartial
  PROVE  IInv'
<1>0. /\ pc \in {"publishPart", "publishPartOn"}
      /\ Free("REC")
      /\ Moves("PART", "REC")
      /\ CopyGoes("recordCopy", "recordCopyOn")
      /\ UNCHANGED <<p, outside>>
  BY DEF PublishPartial
<1>1. IInv'
  <2>1. TypeOK'
    BY <1>0 DEF IInv, TypeOK, Promotions, Libraries
  <2>2. (LibraryInv /\ StateInv /\ FilesInv /\ RemovalInv /\ RequestInv /\ ClaimInv /\
        NothingLost)'
    BY <1>0, <2>1 DEF IInv, TypeOK, LibraryInv, StateInv, FilesInv, RemovalInv, RequestInv,
       ClaimInv, NothingLost, Promotions, Libraries, SideEffectFree
  <2> QED BY <2>1, <2>2 DEF IInv
<1> QED BY <1>1 DEF PublishPartial

LEMMA RecordCopyKeeps ==
  ASSUME IInv, RecordCopy
  PROVE  IInv'
<1>0. /\ pc \in {"recordCopy", "recordCopyOn"}
      /\ p' = [p EXCEPT !.mode = "copy", !.verified = TRUE]
      /\ UNCHANGED <<files, outside>>
  BY DEF RecordCopy
<1>1. ASSUME step = "preserve" /\ Completes("import")
      PROVE  IInv'
  <2>1. p' \in Promotions
    BY <1>0, <1>1 DEF IInv, TypeOK, Promotions
  <2>2. TypeOK'
    BY <1>0, <1>1, <2>1 DEF IInv, TypeOK, Libraries
  <2>3. (LibraryInv /\ StateInv /\ FilesInv /\ RemovalInv /\ RequestInv /\ ClaimInv /\
        NothingLost)'
    BY <1>0, <1>1, <2>1, <2>2 DEF IInv, TypeOK, LibraryInv, StateInv, FilesInv, RemovalInv,
       RequestInv, ClaimInv, NothingLost, Promotions, Libraries, SideEffectFree
  <2> QED BY <2>2, <2>3 DEF IInv
<1>2. ASSUME step # "preserve" /\ Goes(AfterCopy)
      PROVE  IInv'
  <2>1. p' \in Promotions
    BY <1>0, <1>2 DEF IInv, TypeOK, Promotions
  <2>2. TypeOK'
    BY <1>0, <1>2, <2>1 DEF IInv, TypeOK, Libraries, AfterCopy
  <2>3. (LibraryInv /\ StateInv /\ FilesInv /\ RemovalInv /\ RequestInv /\ ClaimInv /\
        NothingLost)'
    BY <1>0, <1>2, <2>1, <2>2 DEF IInv, TypeOK, LibraryInv, StateInv, FilesInv, RemovalInv,
       RequestInv, ClaimInv, NothingLost, Promotions, Libraries, AfterCopy, SideEffectFree
  <2> QED BY <2>2, <2>3 DEF IInv
<1> QED BY <1>1, <1>2 DEF RecordCopy

LEMMA ResumeFallbackCopyKeeps ==
  ASSUME IInv, ResumeFallbackCopy
  PROVE  IInv'
<1>0. /\ (pc = "in" /\ (step = "remove" \/ (step = "import" /\ Fs)))
      /\ NeedsCopy
      /\ Holds("LIB", "orig")
      /\ Goes("copy")
      /\ UNCHANGED <<p, files, outside>>
  BY DEF ResumeFallbackCopy
<1>1. IInv'
  <2>1. TypeOK'
    BY <1>0 DEF IInv, TypeOK, Promotions, Libraries
  <2>2. (LibraryInv /\ StateInv /\ FilesInv /\ RemovalInv /\ RequestInv /\ ClaimInv /\
        NothingLost)'
    BY <1>0, <2>1 DEF IInv, TypeOK, LibraryInv, StateInv, FilesInv, RemovalInv, RequestInv,
       ClaimInv, NothingLost, Promotions, Libraries, NeedsCopy, SideEffectFree
  <2> QED BY <2>1, <2>2 DEF IInv
<1> QED BY <1>1 DEF ResumeFallbackCopy

-----------------------------------------------------------------------------
(* Moving aside and back *)

LEMMA MoveAsideKeeps ==
  ASSUME IInv, MoveAside
  PROVE  IInv'
<1>0. pc = "aside" /\ UNCHANGED <<files, outside>>
  BY DEF MoveAside
<1>1. ASSUME p.moved /\ Recovered /\ Goes("kept") /\ UNCHANGED p
      PROVE  IInv'
  <2>1. TypeOK'
    BY <1>0, <1>1 DEF IInv, TypeOK, Promotions, Libraries
  <2>2. (LibraryInv /\ StateInv /\ FilesInv /\ RemovalInv /\ RequestInv /\ ClaimInv /\
        NothingLost)'
    BY <1>0, <1>1, <2>1 DEF IInv, TypeOK, LibraryInv, StateInv, FilesInv, RemovalInv,
       RequestInv, ClaimInv, NothingLost, Promotions, Libraries, Recovered, SideEffectFree
  <2> QED BY <2>1, <2>2 DEF IInv
<1>2. ASSUME /\ ~p.moved
             /\ Free("PART")
             /\ Holds("LIB", "orig")
             /\ Free("REC")
             /\ p' = [p EXCEPT !.moving = TRUE]
             /\ Goes("renameAside")
      PROVE  IInv'
  <2>1. p' \in Promotions
    BY <1>0, <1>2 DEF IInv, TypeOK, Promotions
  <2>2. TypeOK'
    BY <1>0, <1>2, <2>1 DEF IInv, TypeOK, Libraries
  <2>3. (LibraryInv /\ StateInv /\ FilesInv /\ RemovalInv /\ RequestInv /\ ClaimInv /\
        NothingLost)'
    BY <1>0, <1>2, <2>1, <2>2 DEF IInv, TypeOK, LibraryInv, StateInv, FilesInv, RemovalInv,
       RequestInv, ClaimInv, NothingLost, Promotions, Libraries, SideEffectFree
  <2> QED BY <2>2, <2>3 DEF IInv
<1>3. ASSUME /\ ~p.moved
             /\ Free("PART")
             /\ Free("LIB")
             /\ p.moving
             /\ Holds("REC", "orig")
             /\ p' = MovedAside(p)
             /\ Goes("kept")
      PROVE  IInv'
  <2>1. p' \in Promotions
    BY <1>0, <1>3 DEF IInv, TypeOK, Promotions, MovedAside
  <2>2. TypeOK'
    BY <1>0, <1>3, <2>1 DEF IInv, TypeOK, Libraries, MovedAside
  <2>3. (LibraryInv /\ StateInv /\ FilesInv /\ RemovalInv /\ RequestInv /\ ClaimInv /\
        NothingLost)'
    BY <1>0, <1>3, <2>1, <2>2 DEF IInv, TypeOK, LibraryInv, StateInv, FilesInv, RemovalInv,
       RequestInv, ClaimInv, NothingLost, Promotions, Libraries, MovedAside, SideEffectFree
  <2> QED BY <2>2, <2>3 DEF IInv
<1>4. ASSUME /\ ~p.moved
             /\ Free("PART")
             /\ Free("LIB")
             /\ ~p.moving
             /\ Free("REC")
             /\ ~Fs
             /\ arr.oldRec = "own"
             /\ Waits
             /\ UNCHANGED p
      PROVE  IInv'
  <2>1. TypeOK'
    BY <1>0, <1>4 DEF IInv, TypeOK, Promotions, Libraries
  <2>2. (LibraryInv /\ StateInv /\ FilesInv /\ RemovalInv /\ RequestInv /\ ClaimInv /\
        NothingLost)'
    BY <1>0, <1>4, <2>1 DEF IInv, TypeOK, LibraryInv, StateInv, FilesInv, RemovalInv,
       RequestInv, ClaimInv, NothingLost, Promotions, Libraries, SideEffectFree
  <2> QED BY <2>1, <2>2 DEF IInv
<1> QED BY <1>1, <1>2, <1>3, <1>4 DEF MoveAside

LEMMA RenameAsideKeeps ==
  ASSUME IInv, RenameAside
  PROVE  IInv'
<1>0. pc = "renameAside" /\ ~Free("LIB") /\ Free("REC") /\ UNCHANGED outside
  BY DEF RenameAside
<1>1. ASSUME Moves("LIB", "REC") /\ Goes("confirmAside") /\ UNCHANGED p
      PROVE  IInv'
  <2>1. TypeOK'
    BY <1>0, <1>1 DEF IInv, TypeOK, Promotions, Libraries
  <2>2. (LibraryInv /\ StateInv /\ FilesInv /\ RemovalInv /\ RequestInv /\ ClaimInv /\
        NothingLost)'
    BY <1>0, <1>1, <2>1 DEF IInv, TypeOK, LibraryInv, StateInv, FilesInv, RemovalInv,
       RequestInv, ClaimInv, NothingLost, Promotions, Libraries, SideEffectFree
  <2> QED BY <2>1, <2>2 DEF IInv
<1>2. ASSUME /\ Holds("LIB", "orig")
             /\ p' = [p EXCEPT !.mode = "copy", !.refused = TRUE, !.moving = FALSE]
             /\ Goes(IF Fs THEN "copy" ELSE "copyOn")
             /\ UNCHANGED files
      PROVE  IInv'
  <2>1. p' \in Promotions
    BY <1>0, <1>2 DEF IInv, TypeOK, Promotions
  <2>2. TypeOK'
    BY <1>0, <1>2, <2>1 DEF IInv, TypeOK, Libraries
  <2>3. LibraryInv'
    BY <1>0, <1>2, <2>1, <2>2 DEF IInv, TypeOK, LibraryInv, StateInv, FilesInv, RemovalInv,
       RequestInv, ClaimInv, NothingLost, Promotions, Libraries
  <2>4. StateInv'
    BY <1>0, <1>2, <2>1, <2>2 DEF IInv, TypeOK, LibraryInv, StateInv, FilesInv, RemovalInv,
       RequestInv, ClaimInv, NothingLost, Promotions, Libraries
  <2>5. FilesInv'
    BY <1>0, <1>2, <2>1, <2>2 DEF IInv, TypeOK, LibraryInv, StateInv, FilesInv, RemovalInv,
       RequestInv, ClaimInv, NothingLost, Promotions, Libraries
  <2>6. RemovalInv'
    BY <1>0, <1>2, <2>1, <2>2 DEF IInv, TypeOK, LibraryInv, StateInv, FilesInv, RemovalInv,
       RequestInv, ClaimInv, NothingLost, Promotions, Libraries
  <2>7. RequestInv'
    BY <1>0, <1>2, <2>1, <2>2 DEF IInv, TypeOK, LibraryInv, StateInv, FilesInv, RemovalInv,
       RequestInv, ClaimInv, NothingLost, Promotions, Libraries
  <2>8. ClaimInv'
    BY <1>0, <1>2, <2>1, <2>2 DEF IInv, TypeOK, LibraryInv, StateInv, FilesInv, RemovalInv,
       RequestInv, ClaimInv, NothingLost, Promotions, Libraries, SideEffectFree
  <2>9. NothingLost'
    BY <1>0, <1>2, <2>1, <2>2 DEF IInv, TypeOK, LibraryInv, StateInv, FilesInv, RemovalInv,
       RequestInv, ClaimInv, NothingLost, Promotions, Libraries
  <2> QED BY <2>2, <2>3, <2>4, <2>5, <2>6, <2>7, <2>8, <2>9 DEF IInv
<1> QED BY <1>1, <1>2 DEF RenameAside

LEMMA ConfirmAsideKeeps ==
  ASSUME IInv, ConfirmAside
  PROVE  IInv'
<1>0. /\ pc = "confirmAside"
      /\ Holds("REC", "orig")
      /\ p' = MovedAside(p)
      /\ Goes("kept")
      /\ UNCHANGED <<files, outside>>
  BY DEF ConfirmAside
<1>1. IInv'
  <2>1. p' \in Promotions
    BY <1>0 DEF IInv, TypeOK, Promotions, MovedAside
  <2>2. TypeOK'
    BY <1>0, <2>1 DEF IInv, TypeOK, Libraries, MovedAside
  <2>3. (LibraryInv /\ StateInv /\ FilesInv /\ RemovalInv /\ RequestInv /\ ClaimInv /\
        NothingLost)'
    BY <1>0, <2>1, <2>2 DEF IInv, TypeOK, LibraryInv, StateInv, FilesInv, RemovalInv,
       RequestInv, ClaimInv, NothingLost, Promotions, Libraries, MovedAside, SideEffectFree
  <2> QED BY <2>2, <2>3 DEF IInv
<1> QED BY <1>1 DEF ConfirmAside

LEMMA MoveBackKeeps ==
  ASSUME IInv, MoveBack
  PROVE  IInv'
<1>0. pc = "back" /\ UNCHANGED <<files, outside>>
  BY DEF MoveBack
<1>1. ASSUME /\ Free("LIB")
             /\ Holds("REC", "orig")
             /\ p' = [p EXCEPT !.back = TRUE]
             /\ Goes("renameBack")
      PROVE  IInv'
  <2>1. p' \in Promotions
    BY <1>0, <1>1 DEF IInv, TypeOK, Promotions
  <2>2. TypeOK'
    BY <1>0, <1>1, <2>1 DEF IInv, TypeOK, Libraries
  <2>3. (LibraryInv /\ StateInv /\ FilesInv /\ RemovalInv /\ RequestInv /\ ClaimInv /\
        NothingLost)'
    BY <1>0, <1>1, <2>1, <2>2 DEF IInv, TypeOK, LibraryInv, StateInv, FilesInv, RemovalInv,
       RequestInv, ClaimInv, NothingLost, Promotions, Libraries, SideEffectFree
  <2> QED BY <2>2, <2>3 DEF IInv
<1>2. ASSUME UNCHANGED p /\ BackAgain
      PROVE  IInv'
  <2>1. TypeOK'
    BY <1>0, <1>2 DEF IInv, TypeOK, Promotions, Libraries, BackAgain
  <2>2. (LibraryInv /\ StateInv /\ FilesInv /\ RemovalInv /\ RequestInv /\ ClaimInv /\
        NothingLost)'
    BY <1>0, <1>2, <2>1 DEF IInv, TypeOK, LibraryInv, StateInv, FilesInv, RemovalInv,
       RequestInv, ClaimInv, NothingLost, Promotions, Libraries, BackAgain, SideEffectFree
  <2> QED BY <2>1, <2>2 DEF IInv
<1>3. ASSUME /\ Free("LIB")
             /\ Holds("REC", "orig")
             /\ p' = [p EXCEPT !.back = TRUE]
             /\ BackAgain
      PROVE  IInv'
  <2>1. p' \in Promotions
    BY <1>0, <1>3 DEF IInv, TypeOK, Promotions
  <2>2. TypeOK'
    BY <1>0, <1>3, <2>1 DEF IInv, TypeOK, Libraries, BackAgain
  <2>3. (LibraryInv /\ StateInv /\ FilesInv /\ RemovalInv /\ RequestInv /\ ClaimInv /\
        NothingLost)'
    BY <1>0, <1>3, <2>1, <2>2 DEF IInv, TypeOK, LibraryInv, StateInv, FilesInv, RemovalInv,
       RequestInv, ClaimInv, NothingLost, Promotions, Libraries, BackAgain, SideEffectFree
  <2> QED BY <2>2, <2>3 DEF IInv
<1> QED BY <1>1, <1>2, <1>3 DEF MoveBack

LEMMA RenameBackKeeps ==
  ASSUME IInv, RenameBack
  PROVE  IInv'
<1>0. pc = "renameBack" /\ UNCHANGED outside
  BY DEF RenameBack
<1>1. ASSUME Free("LIB") /\ Moves("REC", "LIB") /\ Goes("finishBack") /\ UNCHANGED p
      PROVE  IInv'
  <2>1. TypeOK'
    BY <1>0, <1>1 DEF IInv, TypeOK, Promotions, Libraries
  <2>2. (LibraryInv /\ StateInv /\ FilesInv /\ RemovalInv /\ RequestInv /\ ClaimInv /\
        NothingLost)'
    BY <1>0, <1>1, <2>1 DEF IInv, TypeOK, LibraryInv, StateInv, FilesInv, RemovalInv,
       RequestInv, ClaimInv, NothingLost, Promotions, Libraries, SideEffectFree
  <2> QED BY <2>1, <2>2 DEF IInv
<1>2. ASSUME /\ ~Free("LIB")
             /\ p' = [p EXCEPT !.back = FALSE]
             /\ BackAgain
             /\ UNCHANGED files
      PROVE  IInv'
  <2>1. p' \in Promotions
    BY <1>0, <1>2 DEF IInv, TypeOK, Promotions
  <2>2. TypeOK'
    BY <1>0, <1>2, <2>1 DEF IInv, TypeOK, Libraries, BackAgain
  <2>3. (LibraryInv /\ StateInv /\ FilesInv /\ RemovalInv /\ RequestInv /\ ClaimInv /\
        NothingLost)'
    BY <1>0, <1>2, <2>1, <2>2 DEF IInv, TypeOK, LibraryInv, StateInv, FilesInv, RemovalInv,
       RequestInv, ClaimInv, NothingLost, Promotions, Libraries, BackAgain, SideEffectFree
  <2> QED BY <2>2, <2>3 DEF IInv
<1>3. ASSUME UNCHANGED <<p, files>> /\ BackAgain
      PROVE  IInv'
  <2>1. TypeOK'
    BY <1>0, <1>3 DEF IInv, TypeOK, Promotions, Libraries, BackAgain
  <2>2. (LibraryInv /\ StateInv /\ FilesInv /\ RemovalInv /\ RequestInv /\ ClaimInv /\
        NothingLost)'
    BY <1>0, <1>3, <2>1 DEF IInv, TypeOK, LibraryInv, StateInv, FilesInv, RemovalInv,
       RequestInv, ClaimInv, NothingLost, Promotions, Libraries, BackAgain, SideEffectFree
  <2> QED BY <2>1, <2>2 DEF IInv
<1> QED BY <1>1, <1>2, <1>3 DEF RenameBack

LEMMA FinishMoveBackKeeps ==
  ASSUME IInv, FinishMoveBack
  PROVE  IInv'
<1>0. pc = "finishBack" /\ BackAgain /\ UNCHANGED <<files, outside>>
  BY DEF FinishMoveBack
<1>1. ASSUME Holds("LIB", "orig") /\ p' = MovedBack(p)
      PROVE  IInv'
  <2>1. p' \in Promotions
    BY <1>0, <1>1 DEF IInv, TypeOK, Promotions, MovedBack
  <2>2. TypeOK'
    BY <1>0, <1>1, <2>1 DEF IInv, TypeOK, Libraries, MovedBack, BackAgain
  <2>3. (LibraryInv /\ StateInv /\ FilesInv /\ RemovalInv /\ RequestInv /\ ClaimInv /\
        NothingLost)'
    BY <1>0, <1>1, <2>1, <2>2 DEF IInv, TypeOK, LibraryInv, StateInv, FilesInv, RemovalInv,
       RequestInv, ClaimInv, NothingLost, Promotions, Libraries, MovedBack, BackAgain,
       SideEffectFree
  <2> QED BY <2>2, <2>3 DEF IInv
<1>2. ASSUME UNCHANGED p
      PROVE  IInv'
  <2>1. TypeOK'
    BY <1>0, <1>2 DEF IInv, TypeOK, Promotions, Libraries, BackAgain
  <2>2. (LibraryInv /\ StateInv /\ FilesInv /\ RemovalInv /\ RequestInv /\ ClaimInv /\
        NothingLost)'
    BY <1>0, <1>2, <2>1 DEF IInv, TypeOK, LibraryInv, StateInv, FilesInv, RemovalInv,
       RequestInv, ClaimInv, NothingLost, Promotions, Libraries, BackAgain, SideEffectFree
  <2> QED BY <2>1, <2>2 DEF IInv
<1> QED BY <1>1, <1>2 DEF FinishMoveBack

LEMMA ResumeMoveBackKeeps ==
  ASSUME IInv, ResumeMoveBack
  PROVE  IInv'
<1>0. pc = "in" /\ step = "import" /\ Fs /\ p.back /\ Goes("in") /\ UNCHANGED <<files, outside>>
  BY DEF ResumeMoveBack, ResumedMoveBack
<1>1. ASSUME Holds("LIB", "orig") /\ p' = MovedBack(p)
      PROVE  IInv'
  <2>1. p' \in Promotions
    <3>1. p \in Promotions
      BY DEF IInv, TypeOK
    <3> QED BY <1>1, <3>1 DEF Promotions, MovedBack
  <2>2. TypeOK'
    BY <1>0, <1>1, <2>1 DEF IInv, TypeOK, Libraries, MovedBack
  <2>3. (LibraryInv /\ StateInv /\ FilesInv /\ RemovalInv /\ RequestInv /\ ClaimInv /\
        NothingLost)'
    BY <1>0, <1>1, <2>1, <2>2 DEF IInv, TypeOK, LibraryInv, StateInv, FilesInv, RemovalInv,
       RequestInv, ClaimInv, NothingLost, Promotions, Libraries, MovedBack, SideEffectFree
  <2> QED BY <2>2, <2>3 DEF IInv
<1>2. ASSUME Free("LIB") /\ p' = [p EXCEPT !.back = FALSE]
      PROVE  IInv'
  <2>1. p' \in Promotions
    BY <1>0, <1>2 DEF IInv, TypeOK, Promotions
  <2>2. TypeOK'
    BY <1>0, <1>2, <2>1 DEF IInv, TypeOK, Libraries
  <2>3. (LibraryInv /\ StateInv /\ FilesInv /\ RemovalInv /\ RequestInv /\ ClaimInv /\
        NothingLost)'
    BY <1>0, <1>2, <2>1, <2>2 DEF IInv, TypeOK, LibraryInv, StateInv, FilesInv, RemovalInv,
       RequestInv, ClaimInv, NothingLost, Promotions, Libraries, SideEffectFree
  <2> QED BY <2>2, <2>3 DEF IInv
<1> QED BY <1>1, <1>2 DEF ResumeMoveBack, ResumedMoveBack

-----------------------------------------------------------------------------
(* Taking the place *)

LEMMA PublishKeeps ==
  ASSUME IInv, Publish
  PROVE  IInv'
<1>0. /\ pc = "in"
      /\ step = "import"
      /\ Fs
      /\ ~NeedsCopy
      /\ ~p.back
      /\ Recovered
      /\ UNCHANGED <<files, outside>>
  BY DEF Publish
<1>1. ASSUME PublishProved /\ p' = [p EXCEPT !.published = TRUE] /\ Completes("remove")
      PROVE  IInv'
  <2>1. p' \in Promotions
    BY <1>0, <1>1 DEF IInv, TypeOK, Promotions
  <2>2. TypeOK'
    BY <1>0, <1>1, <2>1 DEF IInv, TypeOK, Libraries
  <2>3. (LibraryInv /\ StateInv /\ FilesInv /\ RemovalInv /\ RequestInv /\ ClaimInv /\
        NothingLost)'
    BY <1>0, <1>1, <2>1, <2>2 DEF IInv, TypeOK, LibraryInv, StateInv, FilesInv, RemovalInv,
       RequestInv, ClaimInv, NothingLost, Promotions, Libraries, Recovered, NeedsCopy,
       PublishProved, SideEffectFree
  <2> QED BY <2>2, <2>3 DEF IInv
<1>2. ASSUME /\ ~PublishProved
             /\ (p.moved \/ p.moving \/ Holds("LIB", "orig"))
             /\ Holds("CAND", "cand")
             /\ (Same \/ Free("NEW"))
             /\ p' = [p EXCEPT !.started = TRUE]
             /\ (Goes(IF Same /\ MovesAside THEN "aside" ELSE "take"))
      PROVE  IInv'
  <2>1. p' \in Promotions
    BY <1>0, <1>2 DEF IInv, TypeOK, Promotions
  <2>2. TypeOK'
    BY <1>0, <1>2, <2>1 DEF IInv, TypeOK, Libraries
  <2>3. (LibraryInv /\ StateInv /\ FilesInv /\ RemovalInv /\ RequestInv /\ ClaimInv /\
        NothingLost)'
    BY <1>0, <1>2, <2>1, <2>2 DEF IInv, TypeOK, LibraryInv, StateInv, FilesInv, RemovalInv,
       RequestInv, ClaimInv, NothingLost, Promotions, Libraries, Recovered, NeedsCopy,
       PublishProved, SideEffectFree
  <2> QED BY <2>2, <2>3 DEF IInv
<1> QED BY <1>1, <1>2 DEF Publish

LEMMA TakeNameKeeps ==
  ASSUME IInv, TakeName
  PROVE  IInv'
<1>0. /\ (pc = "take" \/ (pc = "kept" /\ step = "import"))
      /\ Holds("CAND", "cand")
      /\ (IF Same /\ ~MovesAside THEN Holds("LIB", "orig") ELSE Free(FinalPath))
      /\ Moves("CAND", FinalPath)
      /\ Goes("placed")
      /\ UNCHANGED <<p, outside>>
  BY DEF TakeName
<1>1. IInv'
  <2>1. TypeOK'
    BY <1>0 DEF IInv, TypeOK, Promotions, Libraries
  <2>2. (LibraryInv /\ StateInv /\ FilesInv /\ RemovalInv /\ RequestInv /\ ClaimInv /\
        NothingLost)'
    BY <1>0, <2>1 DEF IInv, TypeOK, LibraryInv, StateInv, FilesInv, RemovalInv, RequestInv,
       ClaimInv, NothingLost, Promotions, Libraries, SideEffectFree
  <2> QED BY <2>1, <2>2 DEF IInv
<1> QED BY <1>1 DEF TakeName

LEMMA PublishedKeeps ==
  ASSUME IInv, Published
  PROVE  IInv'
<1>0. /\ pc = "placed"
      /\ Holds(FinalPath, "cand")
      /\ p' = [p EXCEPT !.published = TRUE]
      /\ Completes("remove")
      /\ UNCHANGED <<files, outside>>
  BY DEF Published
<1>1. IInv'
  <2>1. p' \in Promotions
    BY <1>0 DEF IInv, TypeOK, Promotions
  <2>2. TypeOK'
    BY <1>0, <2>1 DEF IInv, TypeOK, Libraries
  <2>3. (LibraryInv /\ StateInv /\ FilesInv /\ RemovalInv /\ RequestInv /\ ClaimInv /\
        NothingLost)'
    BY <1>0, <2>1, <2>2 DEF IInv, TypeOK, LibraryInv, StateInv, FilesInv, RemovalInv,
       RequestInv, ClaimInv, NothingLost, Promotions, Libraries, SideEffectFree
  <2> QED BY <2>2, <2>3 DEF IInv
<1> QED BY <1>1 DEF Published

LEMMA ImportKeeps ==
  ASSUME IInv, Import
  PROVE  IInv'
<1>0. pc = "in" /\ step = "import" /\ ~Fs /\ UNCHANGED <<files, outside>>
  BY DEF Import, Adopted, AdoptedFile, IInv, TypeOK, Libraries
<1>1. ASSUME NEW path \in {"temporary", "final"},
             /\ p.imp # "none"
             /\ arr.active = "new"
             /\ p' = [p EXCEPT !.imp = "done", !.newPath = path]
             /\ Completes("remove")
      PROVE  IInv'
  <2>1. p' \in Promotions
    BY <1>0, <1>1 DEF IInv, TypeOK, Promotions
  <2>2. TypeOK'
    BY <1>0, <1>1, <2>1 DEF IInv, TypeOK, Libraries
  <2>3. (LibraryInv /\ StateInv /\ FilesInv /\ RemovalInv /\ RequestInv /\ ClaimInv /\
        NothingLost)'
    BY <1>0, <1>1, <2>1, <2>2 DEF IInv, TypeOK, LibraryInv, StateInv, FilesInv, RemovalInv,
       RequestInv, ClaimInv, NothingLost, Promotions, Libraries, SideEffectFree
  <2> QED BY <2>2, <2>3 DEF IInv
<1>2. ASSUME /\ p.imp = "none"
             /\ arr.active = "old"
             /\ p' = [p EXCEPT !.imp = "sent"]
             /\ Goes("sendImport")
      PROVE  IInv'
  <2>1. p' \in Promotions
    BY <1>0, <1>2 DEF IInv, TypeOK, Promotions
  <2>2. TypeOK'
    BY <1>0, <1>2, <2>1 DEF IInv, TypeOK, Libraries
  <2>3. (LibraryInv /\ StateInv /\ FilesInv /\ RemovalInv /\ RequestInv /\ ClaimInv /\
        NothingLost)'
    BY <1>0, <1>2, <2>1, <2>2 DEF IInv, TypeOK, LibraryInv, StateInv, FilesInv, RemovalInv,
       RequestInv, ClaimInv, NothingLost, Promotions, Libraries, SideEffectFree
  <2> QED BY <2>2, <2>3 DEF IInv
<1> QED BY <1>1, <1>2 DEF Import, Adopted, AdoptedFile, IInv, TypeOK, Libraries

LEMMA ReconcileImportKeeps ==
  ASSUME IInv, ReconcileImport
  PROVE  IInv'
<1>0. pc = "in" /\ step = "import" /\ ~Fs /\ UNCHANGED <<files, outside>>
  BY DEF ReconcileImport, Reconcile
<1>1. ASSUME p.imp = "sent" /\ p' = [p EXCEPT !.imp = "known"] /\ Goes("in")
      PROVE  IInv'
  <2>1. p' \in Promotions
    BY <1>0, <1>1 DEF IInv, TypeOK, Promotions
  <2>2. TypeOK'
    BY <1>0, <1>1, <2>1 DEF IInv, TypeOK, Libraries
  <2>3. (LibraryInv /\ StateInv /\ FilesInv /\ RemovalInv /\ RequestInv /\ ClaimInv /\
        NothingLost)'
    BY <1>0, <1>1, <2>1, <2>2 DEF IInv, TypeOK, LibraryInv, StateInv, FilesInv, RemovalInv,
       RequestInv, ClaimInv, NothingLost, Promotions, Libraries, SideEffectFree
  <2> QED BY <2>2, <2>3 DEF IInv
<1>2. ASSUME p.imp \in {"sent", "known"} /\ Waits /\ UNCHANGED p
      PROVE  IInv'
  <2>1. TypeOK'
    BY <1>0, <1>2 DEF IInv, TypeOK, Promotions, Libraries
  <2>2. (LibraryInv /\ StateInv /\ FilesInv /\ RemovalInv /\ RequestInv /\ ClaimInv /\
        NothingLost)'
    BY <1>0, <1>2, <2>1 DEF IInv, TypeOK, LibraryInv, StateInv, FilesInv, RemovalInv,
       RequestInv, ClaimInv, NothingLost, Promotions, Libraries, SideEffectFree
  <2> QED BY <2>1, <2>2 DEF IInv
<1>3. ASSUME p.imp = "known" /\ p' = [p EXCEPT !.imp = "done"] /\ Goes("in")
      PROVE  IInv'
  <2>1. p' \in Promotions
    BY <1>0, <1>3 DEF IInv, TypeOK, Promotions
  <2>2. TypeOK'
    BY <1>0, <1>3, <2>1 DEF IInv, TypeOK, Libraries
  <2>3. (LibraryInv /\ StateInv /\ FilesInv /\ RemovalInv /\ RequestInv /\ ClaimInv /\
        NothingLost)'
    BY <1>0, <1>3, <2>1, <2>2 DEF IInv, TypeOK, LibraryInv, StateInv, FilesInv, RemovalInv,
       RequestInv, ClaimInv, NothingLost, Promotions, Libraries, SideEffectFree
  <2> QED BY <2>2, <2>3 DEF IInv
<1>4. ASSUME /\ p.imp = "known"
             /\ p' = [p EXCEPT !.imp = "failed"]
             /\ pc' = "idle"
             /\ row' = "failed"
             /\ UNCHANGED step
      PROVE  IInv'
  <2>1. p' \in Promotions
    BY <1>0, <1>4 DEF IInv, TypeOK, Promotions
  <2>2. TypeOK'
    BY <1>0, <1>4, <2>1 DEF IInv, TypeOK, Libraries
  <2>3. (LibraryInv /\ StateInv /\ FilesInv /\ RemovalInv /\ RequestInv /\ ClaimInv /\
        NothingLost)'
    BY <1>0, <1>4, <2>1, <2>2 DEF IInv, TypeOK, LibraryInv, StateInv, FilesInv, RemovalInv,
       RequestInv, ClaimInv, NothingLost, Promotions, Libraries, SideEffectFree
  <2> QED BY <2>2, <2>3 DEF IInv
<1> QED BY <1>1, <1>2, <1>3, <1>4 DEF ReconcileImport, Reconcile

LEMMA SendImportKeeps ==
  ASSUME IInv, SendImport
  PROVE  IInv'
<1>0. pc = "sendImport" /\ Waits /\ UNCHANGED <<kind, files, claims, history>>
  BY DEF SendImport, SendCommand
<1>1. ASSUME arr' = [arr EXCEPT !.imp = "queued"] /\ UNCHANGED p
      PROVE  IInv'
  <2>1. arr' \in Libraries
    BY <1>0, <1>1 DEF IInv, TypeOK, Libraries
  <2>2. TypeOK'
    BY <1>0, <1>1, <2>1 DEF IInv, TypeOK, Promotions
  <2>3. (LibraryInv /\ StateInv /\ FilesInv /\ RemovalInv /\ RequestInv /\ ClaimInv /\
        NothingLost)'
    BY <1>0, <1>1, <2>1, <2>2 DEF IInv, TypeOK, LibraryInv, StateInv, FilesInv, RemovalInv,
       RequestInv, ClaimInv, NothingLost, Promotions, Libraries, SideEffectFree
  <2> QED BY <2>2, <2>3 DEF IInv
<1>2. ASSUME arr' = [arr EXCEPT !.imp = "queued"] /\ p' = [p EXCEPT !.imp = "known"]
      PROVE  IInv'
  <2>1. p' \in Promotions
    BY <1>0, <1>2 DEF IInv, TypeOK, Promotions
  <2>2. arr' \in Libraries
    BY <1>0, <1>2, <2>1 DEF IInv, TypeOK, Libraries
  <2>3. TypeOK'
    BY <1>0, <1>2, <2>1, <2>2 DEF IInv, TypeOK
  <2>4. (LibraryInv /\ StateInv /\ FilesInv /\ RemovalInv /\ RequestInv /\ ClaimInv /\
        NothingLost)'
    BY <1>0, <1>2, <2>1, <2>2, <2>3 DEF IInv, TypeOK, LibraryInv, StateInv, FilesInv,
       RemovalInv, RequestInv, ClaimInv, NothingLost, Promotions, Libraries, SideEffectFree
  <2> QED BY <2>3, <2>4 DEF IInv
<1>3. ASSUME arr' = [arr EXCEPT !.imp = "flying"] /\ UNCHANGED p
      PROVE  IInv'
  <2>1. arr' \in Libraries
    BY <1>0, <1>3 DEF IInv, TypeOK, Libraries
  <2>2. TypeOK'
    BY <1>0, <1>3, <2>1 DEF IInv, TypeOK, Promotions
  <2>3. (LibraryInv /\ StateInv /\ FilesInv /\ RemovalInv /\ RequestInv /\ ClaimInv /\
        NothingLost)'
    BY <1>0, <1>3, <2>1, <2>2 DEF IInv, TypeOK, LibraryInv, StateInv, FilesInv, RemovalInv,
       RequestInv, ClaimInv, NothingLost, Promotions, Libraries, SideEffectFree
  <2> QED BY <2>2, <2>3 DEF IInv
<1> QED BY <1>1, <1>2, <1>3 DEF SendImport, SendCommand

-----------------------------------------------------------------------------
(* Removing the original, the name and the recovery *)

LEMMA LocalRemoveKeeps ==
  ASSUME IInv, LocalRemove
  PROVE  IInv'
<1>0. /\ pc = "in"
      /\ step = "remove"
      /\ Fs
      /\ p.published
      /\ Recovered
      /\ Holds(FinalPath, "cand")
      /\ UNCHANGED <<files, outside>>
  BY DEF LocalRemove, PlanEmptying
<1>1. ASSUME ~Same /\ MovesAside /\ Goes("aside") /\ UNCHANGED p
      PROVE  IInv'
  <2>1. TypeOK'
    BY <1>0, <1>1 DEF IInv, TypeOK, Promotions, Libraries
  <2>2. (LibraryInv /\ StateInv /\ FilesInv /\ RemovalInv /\ RequestInv /\ ClaimInv /\
        NothingLost)'
    BY <1>0, <1>1, <2>1 DEF IInv, TypeOK, LibraryInv, StateInv, FilesInv, RemovalInv,
       RequestInv, ClaimInv, NothingLost, Promotions, Libraries, Recovered, SideEffectFree
  <2> QED BY <2>1, <2>2 DEF IInv
<1>2. ASSUME ~Same /\ ~MovesAside /\ p' = [p EXCEPT !.deleteSent = TRUE] /\ Goes("unlink")
      PROVE  IInv'
  <2>1. p' \in Promotions
    BY <1>0, <1>2 DEF IInv, TypeOK, Promotions
  <2>2. TypeOK'
    BY <1>0, <1>2, <2>1 DEF IInv, TypeOK, Libraries
  <2>3. (LibraryInv /\ StateInv /\ FilesInv /\ RemovalInv /\ RequestInv /\ ClaimInv /\
        NothingLost)'
    BY <1>0, <1>2, <2>1, <2>2 DEF IInv, TypeOK, LibraryInv, StateInv, FilesInv, RemovalInv,
       RequestInv, ClaimInv, NothingLost, Promotions, Libraries, Recovered, SideEffectFree
  <2> QED BY <2>2, <2>3 DEF IInv
<1>3. ASSUME /\ ~Same
             /\ ~MovesAside
             /\ p' = [[p EXCEPT !.deleteSent = TRUE] EXCEPT !.emptyOrig = TRUE]
             /\ Goes("unlink")
      PROVE  IInv'
  <2>1. p' \in Promotions
    BY <1>0, <1>3 DEF IInv, TypeOK, Promotions
  <2>2. TypeOK'
    BY <1>0, <1>3, <2>1 DEF IInv, TypeOK, Libraries
  <2>3. (LibraryInv /\ StateInv /\ FilesInv /\ RemovalInv /\ RequestInv /\ ClaimInv /\
        NothingLost)'
    BY <1>0, <1>3, <2>1, <2>2 DEF IInv, TypeOK, LibraryInv, StateInv, FilesInv, RemovalInv,
       RequestInv, ClaimInv, NothingLost, Promotions, Libraries, Recovered, SideEffectFree
  <2> QED BY <2>2, <2>3 DEF IInv
<1>4. ASSUME (Same \/ ~MovesAside) /\ p' = [p EXCEPT !.removed = TRUE] /\ Completes("finalize")
      PROVE  IInv'
  <2>1. p' \in Promotions
    BY <1>0, <1>4 DEF IInv, TypeOK, Promotions
  <2>2. TypeOK'
    BY <1>0, <1>4, <2>1 DEF IInv, TypeOK, Libraries
  <2>3. (LibraryInv /\ StateInv /\ FilesInv /\ RemovalInv /\ RequestInv /\ ClaimInv /\
        NothingLost)'
    BY <1>0, <1>4, <2>1, <2>2 DEF IInv, TypeOK, LibraryInv, StateInv, FilesInv, RemovalInv,
       RequestInv, ClaimInv, NothingLost, Promotions, Libraries, Recovered, SideEffectFree
  <2> QED BY <2>2, <2>3 DEF IInv
<1> QED BY <1>1, <1>2, <1>3, <1>4 DEF LocalRemove, PlanEmptying

LEMMA UnlinkKeeps ==
  ASSUME IInv, Unlink
  PROVE  IInv'
<1>0. pc = "unlink" /\ UNCHANGED <<p, outside>>
  BY DEF Unlink
<1>1. ASSUME p.emptyOrig /\ Holds("LIB", "orig") /\ Puts("LIB", "empty") /\ Goes("unlink")
      PROVE  IInv'
  <2>1. TypeOK'
    BY <1>0, <1>1 DEF IInv, TypeOK, Promotions, Libraries
  <2>2. (LibraryInv /\ StateInv /\ FilesInv /\ RemovalInv /\ RequestInv /\ ClaimInv /\
        NothingLost)'
    BY <1>0, <1>1, <2>1 DEF IInv, TypeOK, LibraryInv, StateInv, FilesInv, RemovalInv,
       RequestInv, ClaimInv, NothingLost, Promotions, Libraries, SideEffectFree
  <2> QED BY <2>1, <2>2 DEF IInv
<1>2. ASSUME files["LIB"] \in {"orig", "empty"} /\ Puts("LIB", "none") /\ Goes("unlinked")
      PROVE  IInv'
  <2>1. TypeOK'
    BY <1>0, <1>2 DEF IInv, TypeOK, Promotions, Libraries
  <2>2. (LibraryInv /\ StateInv /\ FilesInv /\ RemovalInv /\ RequestInv /\ ClaimInv /\
        NothingLost)'
    BY <1>0, <1>2, <2>1 DEF IInv, TypeOK, LibraryInv, StateInv, FilesInv, RemovalInv,
       RequestInv, ClaimInv, NothingLost, Promotions, Libraries, SideEffectFree
  <2> QED BY <2>1, <2>2 DEF IInv
<1> QED BY <1>1, <1>2 DEF Unlink

LEMMA RemovedKeeps ==
  ASSUME IInv, Removed
  PROVE  IInv'
<1>0. /\ p' = [p EXCEPT !.removed = TRUE]
      /\ Completes(AfterRemoval)
      /\ UNCHANGED <<files, outside>>
  BY DEF Removed
<1>1. ASSUME pc = "unlinked"
      PROVE  IInv'
  <2>1. p' \in Promotions
    BY <1>0, <1>1 DEF IInv, TypeOK, Promotions
  <2>2. TypeOK'
    BY <1>0, <1>1, <2>1 DEF IInv, TypeOK, Libraries, AfterRemoval
  <2>3. (LibraryInv /\ StateInv /\ FilesInv /\ RemovalInv /\ RequestInv /\ ClaimInv /\
        NothingLost)'
    BY <1>0, <1>1, <2>1, <2>2 DEF IInv, TypeOK, LibraryInv, StateInv, FilesInv, RemovalInv,
       RequestInv, ClaimInv, NothingLost, Promotions, Libraries, AfterRemoval,
       SideEffectFree
  <2> QED BY <2>2, <2>3 DEF IInv
<1>2. ASSUME pc = "kept" /\ step = "remove" /\ (Fs \/ arr.oldRec # "own")
      PROVE  IInv'
  <2>1. p' \in Promotions
    BY <1>0, <1>2 DEF IInv, TypeOK, Promotions
  <2>2. TypeOK'
    BY <1>0, <1>2, <2>1 DEF IInv, TypeOK, Libraries, AfterRemoval
  <2>3. (LibraryInv /\ StateInv /\ FilesInv /\ RemovalInv /\ RequestInv /\ ClaimInv /\
        NothingLost)'
    BY <1>0, <1>2, <2>1, <2>2 DEF IInv, TypeOK, LibraryInv, StateInv, FilesInv, RemovalInv,
       RequestInv, ClaimInv, NothingLost, Promotions, Libraries, AfterRemoval,
       SideEffectFree
  <2> QED BY <2>2, <2>3 DEF IInv
<1> QED BY <1>1, <1>2 DEF Removed

LEMMA StillAdoptedKeeps ==
  ASSUME IInv, StillAdopted
  PROVE  IInv'
<1>0. /\ pc = "in"
      /\ step = "remove"
      /\ ~Fs
      /\ Goes("adopted")
      /\ UNCHANGED <<p, files, outside>>
  BY DEF StillAdopted
<1>1. IInv'
  <2>1. TypeOK'
    BY <1>0 DEF IInv, TypeOK, Promotions, Libraries
  <2>2. (LibraryInv /\ StateInv /\ FilesInv /\ RemovalInv /\ RequestInv /\ ClaimInv /\
        NothingLost)'
    BY <1>0, <2>1 DEF IInv, TypeOK, LibraryInv, StateInv, FilesInv, RemovalInv, RequestInv,
       ClaimInv, NothingLost, Promotions, Libraries, SideEffectFree
  <2> QED BY <2>1, <2>2 DEF IInv
<1> QED BY <1>1 DEF StillAdopted

LEMMA OldRecordReadKeeps ==
  ASSUME IInv, OldRecordRead
  PROVE  IInv'
<1>0. pc = "adopted" /\ UNCHANGED <<p, files, outside>>
  BY DEF OldRecordRead
<1>1. ASSUME Waits
      PROVE  IInv'
  <2>1. TypeOK'
    BY <1>0, <1>1 DEF IInv, TypeOK, Promotions, Libraries
  <2>2. (LibraryInv /\ StateInv /\ FilesInv /\ RemovalInv /\ RequestInv /\ ClaimInv /\
        NothingLost)'
    BY <1>0, <1>1, <2>1 DEF IInv, TypeOK, LibraryInv, StateInv, FilesInv, RemovalInv,
       RequestInv, ClaimInv, NothingLost, Promotions, Libraries, SideEffectFree
  <2> QED BY <2>1, <2>2 DEF IInv
<1>2. ASSUME arr.active = "new" /\ ~p.deleteSent /\ Goes("owned")
      PROVE  IInv'
  <2>1. TypeOK'
    BY <1>0, <1>2 DEF IInv, TypeOK, Promotions, Libraries
  <2>2. (LibraryInv /\ StateInv /\ FilesInv /\ RemovalInv /\ RequestInv /\ ClaimInv /\
        NothingLost)'
    BY <1>0, <1>2, <2>1 DEF IInv, TypeOK, LibraryInv, StateInv, FilesInv, RemovalInv,
       RequestInv, ClaimInv, NothingLost, Promotions, Libraries, SideEffectFree
  <2> QED BY <2>1, <2>2 DEF IInv
<1>3. ASSUME arr.oldRec = "none" /\ Goes("orphan")
      PROVE  IInv'
  <2>1. TypeOK'
    BY <1>0, <1>3 DEF IInv, TypeOK, Promotions, Libraries
  <2>2. (LibraryInv /\ StateInv /\ FilesInv /\ RemovalInv /\ RequestInv /\ ClaimInv /\
        NothingLost)'
    BY <1>0, <1>3, <2>1 DEF IInv, TypeOK, LibraryInv, StateInv, FilesInv, RemovalInv,
       RequestInv, ClaimInv, NothingLost, Promotions, Libraries, SideEffectFree
  <2> QED BY <2>1, <2>2 DEF IInv
<1> QED BY <1>1, <1>2, <1>3 DEF OldRecordRead, OriginalPathUnowned

LEMMA RemoveOldKeeps ==
  ASSUME IInv, RemoveOld
  PROVE  IInv'
<1>0. pc = "owned" /\ UNCHANGED <<files, outside>>
  BY DEF RemoveOld
<1>1. ASSUME Waits /\ UNCHANGED p
      PROVE  IInv'
  <2>1. TypeOK'
    BY <1>0, <1>1 DEF IInv, TypeOK, Promotions, Libraries
  <2>2. (LibraryInv /\ StateInv /\ FilesInv /\ RemovalInv /\ RequestInv /\ ClaimInv /\
        NothingLost)'
    BY <1>0, <1>1, <2>1 DEF IInv, TypeOK, LibraryInv, StateInv, FilesInv, RemovalInv,
       RequestInv, ClaimInv, NothingLost, Promotions, Libraries, SideEffectFree
  <2> QED BY <2>1, <2>2 DEF IInv
<1>2. ASSUME arr.active = "new" /\ MovesAside /\ Goes("aside") /\ UNCHANGED p
      PROVE  IInv'
  <2>1. TypeOK'
    BY <1>0, <1>2 DEF IInv, TypeOK, Promotions, Libraries
  <2>2. (LibraryInv /\ StateInv /\ FilesInv /\ RemovalInv /\ RequestInv /\ ClaimInv /\
        NothingLost)'
    BY <1>0, <1>2, <2>1 DEF IInv, TypeOK, LibraryInv, StateInv, FilesInv, RemovalInv,
       RequestInv, ClaimInv, NothingLost, Promotions, Libraries, SideEffectFree
  <2> QED BY <2>1, <2>2 DEF IInv
<1>3. ASSUME /\ arr.active = "new"
             /\ ~MovesAside
             /\ Recovered
             /\ p' = [p EXCEPT !.deleteSent = TRUE]
             /\ Goes("sendDelete")
      PROVE  IInv'
  <2>1. p' \in Promotions
    BY <1>0, <1>3 DEF IInv, TypeOK, Promotions
  <2>2. TypeOK'
    BY <1>0, <1>3, <2>1 DEF IInv, TypeOK, Libraries
  <2>3. (LibraryInv /\ StateInv /\ FilesInv /\ RemovalInv /\ RequestInv /\ ClaimInv /\
        NothingLost)'
    BY <1>0, <1>3, <2>1, <2>2 DEF IInv, TypeOK, LibraryInv, StateInv, FilesInv, RemovalInv,
       RequestInv, ClaimInv, NothingLost, Promotions, Libraries, Recovered, SideEffectFree
  <2> QED BY <2>2, <2>3 DEF IInv
<1> QED BY <1>1, <1>2, <1>3 DEF RemoveOld, NoOldReferences

LEMMA RecordDeleteKeeps ==
  ASSUME IInv, RecordDelete
  PROVE  IInv'
<1>0. /\ (pc = "kept" /\ step = "remove" /\ ~Fs) \/ pc = "copied"
      /\ p' = [p EXCEPT !.deleteSent = TRUE]
      /\ Goes("sendDelete")
      /\ UNCHANGED <<files, outside>>
  BY DEF RecordDelete
<1>1. IInv'
  <2>1. p' \in Promotions
    BY <1>0 DEF IInv, TypeOK, Promotions
  <2>2. TypeOK'
    BY <1>0, <2>1 DEF IInv, TypeOK, Libraries
  <2>3. (LibraryInv /\ StateInv /\ FilesInv /\ RemovalInv /\ RequestInv /\ ClaimInv /\
        NothingLost)'
    BY <1>0, <2>1, <2>2 DEF IInv, TypeOK, LibraryInv, StateInv, FilesInv, RemovalInv,
       RequestInv, ClaimInv, NothingLost, Promotions, Libraries, SideEffectFree
  <2> QED BY <2>2, <2>3 DEF IInv
<1> QED BY <1>1 DEF RecordDelete

LEMMA SendDeleteKeeps ==
  ASSUME IInv, SendDelete
  PROVE  IInv'
<1>0. /\ pc = "sendDelete"
      /\ arr' = [arr EXCEPT !.del = "flying"]
      /\ Waits
      /\ UNCHANGED <<kind, p, files, claims, history>>
  BY DEF SendDelete
<1>1. IInv'
  <2>1. arr' \in Libraries
    BY <1>0 DEF IInv, TypeOK, Libraries
  <2>2. TypeOK'
    BY <1>0, <2>1 DEF IInv, TypeOK, Promotions
  <2>3. (LibraryInv /\ StateInv /\ FilesInv /\ RemovalInv /\ RequestInv /\ ClaimInv /\
        NothingLost)'
    BY <1>0, <2>1, <2>2 DEF IInv, TypeOK, LibraryInv, StateInv, FilesInv, RemovalInv,
       RequestInv, ClaimInv, NothingLost, Promotions, Libraries, SideEffectFree
  <2> QED BY <2>2, <2>3 DEF IInv
<1> QED BY <1>1 DEF SendDelete

LEMMA RemoveOrphanKeeps ==
  ASSUME IInv, RemoveOrphan
  PROVE  IInv'
<1>0. pc = "orphan" /\ UNCHANGED <<files, outside>>
  BY DEF RemoveOrphan, PlanEmptying
<1>1. ASSUME MovesAside /\ ~p.moved /\ Goes("aside") /\ UNCHANGED p
      PROVE  IInv'
  <2>1. TypeOK'
    BY <1>0, <1>1 DEF IInv, TypeOK, Promotions, Libraries
  <2>2. (LibraryInv /\ StateInv /\ FilesInv /\ RemovalInv /\ RequestInv /\ ClaimInv /\
        NothingLost)'
    BY <1>0, <1>1, <2>1 DEF IInv, TypeOK, LibraryInv, StateInv, FilesInv, RemovalInv,
       RequestInv, ClaimInv, NothingLost, Promotions, Libraries, SideEffectFree
  <2> QED BY <2>1, <2>2 DEF IInv
<1>2. ASSUME ~MovesAside /\ Recovered /\ p' = p /\ Goes("unlink")
      PROVE  IInv'
  <2>1. p' \in Promotions
    BY <1>0, <1>2 DEF IInv, TypeOK, Promotions
  <2>2. TypeOK'
    BY <1>0, <1>2, <2>1 DEF IInv, TypeOK, Libraries
  <2>3. (LibraryInv /\ StateInv /\ FilesInv /\ RemovalInv /\ RequestInv /\ ClaimInv /\
        NothingLost)'
    BY <1>0, <1>2, <2>1, <2>2 DEF IInv, TypeOK, LibraryInv, StateInv, FilesInv, RemovalInv,
       RequestInv, ClaimInv, NothingLost, Promotions, Libraries, Recovered, SideEffectFree
  <2> QED BY <2>2, <2>3 DEF IInv
<1>3. ASSUME /\ ~MovesAside
             /\ Recovered
             /\ p' = [p EXCEPT !.emptyOrig = TRUE]
             /\ Goes("unlink")
      PROVE  IInv'
  <2>1. p' \in Promotions
    BY <1>0, <1>3 DEF IInv, TypeOK, Promotions
  <2>2. TypeOK'
    BY <1>0, <1>3, <2>1 DEF IInv, TypeOK, Libraries
  <2>3. (LibraryInv /\ StateInv /\ FilesInv /\ RemovalInv /\ RequestInv /\ ClaimInv /\
        NothingLost)'
    BY <1>0, <1>3, <2>1, <2>2 DEF IInv, TypeOK, LibraryInv, StateInv, FilesInv, RemovalInv,
       RequestInv, ClaimInv, NothingLost, Promotions, Libraries, Recovered, SideEffectFree
  <2> QED BY <2>2, <2>3 DEF IInv
<1>4. ASSUME /\ IF MovesAside THEN p.moved /\ Recovered ELSE Free("LIB")
             /\ p' = [p EXCEPT !.removed = TRUE]
             /\ Completes("rename")
      PROVE  IInv'
  <2>1. p' \in Promotions
    BY <1>0, <1>4 DEF IInv, TypeOK, Promotions
  <2>2. TypeOK'
    BY <1>0, <1>4, <2>1 DEF IInv, TypeOK, Libraries
  <2>3. (LibraryInv /\ StateInv /\ FilesInv /\ RemovalInv /\ RequestInv /\ ClaimInv /\
        NothingLost)'
    BY <1>0, <1>4, <2>1, <2>2 DEF IInv, TypeOK, LibraryInv, StateInv, FilesInv, RemovalInv,
       RequestInv, ClaimInv, NothingLost, Promotions, Libraries, Recovered, SideEffectFree
  <2> QED BY <2>2, <2>3 DEF IInv
<1> QED BY <1>1, <1>2, <1>3, <1>4 DEF RemoveOrphan, PlanEmptying

LEMMA RenameKeeps ==
  ASSUME IInv, Rename
  PROVE  IInv'
<1>0. pc = "in" /\ step = "rename" /\ p.removed /\ AdoptedFile /\ UNCHANGED <<files, outside>>
  BY DEF Rename
<1>1. ASSUME /\ arr.newRec = "final"
             /\ Holds(FinalPath, "cand")
             /\ p' = [p EXCEPT !.newPath = "final"]
             /\ Completes("finalize")
      PROVE  IInv'
  <2>1. p' \in Promotions
    BY <1>0, <1>1 DEF IInv, TypeOK, Promotions
  <2>2. TypeOK'
    BY <1>0, <1>1, <2>1 DEF IInv, TypeOK, Libraries
  <2>3. (LibraryInv /\ StateInv /\ FilesInv /\ RemovalInv /\ RequestInv /\ ClaimInv /\
        NothingLost)'
    BY <1>0, <1>1, <2>1, <2>2 DEF IInv, TypeOK, LibraryInv, StateInv, FilesInv, RemovalInv,
       RequestInv, ClaimInv, NothingLost, Promotions, Libraries, AdoptedFile, SideEffectFree
  <2> QED BY <2>2, <2>3 DEF IInv
<1>2. ASSUME /\ arr.newRec = "temporary"
             /\ p.ren \in {"none", "failed"}
             /\ Recovered
             /\ Holds("CAND", "cand")
             /\ p' = [p EXCEPT !.ren = "sent"]
             /\ Goes("sendRename")
      PROVE  IInv'
  <2>1. p' \in Promotions
    BY <1>0, <1>2 DEF IInv, TypeOK, Promotions
  <2>2. TypeOK'
    BY <1>0, <1>2, <2>1 DEF IInv, TypeOK, Libraries
  <2>3. (LibraryInv /\ StateInv /\ FilesInv /\ RemovalInv /\ RequestInv /\ ClaimInv /\
        NothingLost)'
    BY <1>0, <1>2, <2>1, <2>2 DEF IInv, TypeOK, LibraryInv, StateInv, FilesInv, RemovalInv,
       RequestInv, ClaimInv, NothingLost, Promotions, Libraries, Recovered, AdoptedFile,
       SideEffectFree
  <2> QED BY <2>2, <2>3 DEF IInv
<1>3. ASSUME arr.newRec = "temporary" /\ p.ren = "done" /\ Waits /\ UNCHANGED p
      PROVE  IInv'
  <2>1. TypeOK'
    BY <1>0, <1>3 DEF IInv, TypeOK, Promotions, Libraries
  <2>2. (LibraryInv /\ StateInv /\ FilesInv /\ RemovalInv /\ RequestInv /\ ClaimInv /\
        NothingLost)'
    BY <1>0, <1>3, <2>1 DEF IInv, TypeOK, LibraryInv, StateInv, FilesInv, RemovalInv,
       RequestInv, ClaimInv, NothingLost, Promotions, Libraries, AdoptedFile, SideEffectFree
  <2> QED BY <2>1, <2>2 DEF IInv
<1> QED BY <1>1, <1>2, <1>3 DEF Rename

LEMMA ReconcileRenameKeeps ==
  ASSUME IInv, ReconcileRename
  PROVE  IInv'
<1>0. pc = "in" /\ step = "rename" /\ p.removed /\ UNCHANGED <<files, outside>>
  BY DEF ReconcileRename, Reconcile
<1>1. ASSUME p.ren = "sent" /\ p' = [p EXCEPT !.ren = "known"] /\ Goes("in")
      PROVE  IInv'
  <2>1. p' \in Promotions
    BY <1>0, <1>1 DEF IInv, TypeOK, Promotions
  <2>2. TypeOK'
    BY <1>0, <1>1, <2>1 DEF IInv, TypeOK, Libraries
  <2>3. (LibraryInv /\ StateInv /\ FilesInv /\ RemovalInv /\ RequestInv /\ ClaimInv /\
        NothingLost)'
    BY <1>0, <1>1, <2>1, <2>2 DEF IInv, TypeOK, LibraryInv, StateInv, FilesInv, RemovalInv,
       RequestInv, ClaimInv, NothingLost, Promotions, Libraries, SideEffectFree
  <2> QED BY <2>2, <2>3 DEF IInv
<1>2. ASSUME p.ren \in {"sent", "known"} /\ Waits /\ UNCHANGED p
      PROVE  IInv'
  <2>1. TypeOK'
    BY <1>0, <1>2 DEF IInv, TypeOK, Promotions, Libraries
  <2>2. (LibraryInv /\ StateInv /\ FilesInv /\ RemovalInv /\ RequestInv /\ ClaimInv /\
        NothingLost)'
    BY <1>0, <1>2, <2>1 DEF IInv, TypeOK, LibraryInv, StateInv, FilesInv, RemovalInv,
       RequestInv, ClaimInv, NothingLost, Promotions, Libraries, SideEffectFree
  <2> QED BY <2>1, <2>2 DEF IInv
<1>3. ASSUME p.ren = "known" /\ p' = [p EXCEPT !.ren = "done"] /\ Goes("in")
      PROVE  IInv'
  <2>1. p' \in Promotions
    BY <1>0, <1>3 DEF IInv, TypeOK, Promotions
  <2>2. TypeOK'
    BY <1>0, <1>3, <2>1 DEF IInv, TypeOK, Libraries
  <2>3. (LibraryInv /\ StateInv /\ FilesInv /\ RemovalInv /\ RequestInv /\ ClaimInv /\
        NothingLost)'
    BY <1>0, <1>3, <2>1, <2>2 DEF IInv, TypeOK, LibraryInv, StateInv, FilesInv, RemovalInv,
       RequestInv, ClaimInv, NothingLost, Promotions, Libraries, SideEffectFree
  <2> QED BY <2>2, <2>3 DEF IInv
<1>4. ASSUME /\ p.ren = "known"
             /\ p' = [p EXCEPT !.ren = "failed"]
             /\ pc' = "idle"
             /\ row' = "failed"
             /\ UNCHANGED step
      PROVE  IInv'
  <2>1. p' \in Promotions
    BY <1>0, <1>4 DEF IInv, TypeOK, Promotions
  <2>2. TypeOK'
    BY <1>0, <1>4, <2>1 DEF IInv, TypeOK, Libraries
  <2>3. (LibraryInv /\ StateInv /\ FilesInv /\ RemovalInv /\ RequestInv /\ ClaimInv /\
        NothingLost)'
    BY <1>0, <1>4, <2>1, <2>2 DEF IInv, TypeOK, LibraryInv, StateInv, FilesInv, RemovalInv,
       RequestInv, ClaimInv, NothingLost, Promotions, Libraries, SideEffectFree
  <2> QED BY <2>2, <2>3 DEF IInv
<1> QED BY <1>1, <1>2, <1>3, <1>4 DEF ReconcileRename, Reconcile

LEMMA SendRenameKeeps ==
  ASSUME IInv, SendRename
  PROVE  IInv'
<1>0. pc = "sendRename" /\ Waits /\ UNCHANGED <<kind, files, claims, history>>
  BY DEF SendRename, SendCommand
<1>1. ASSUME arr' = [arr EXCEPT !.ren = "queued"] /\ UNCHANGED p
      PROVE  IInv'
  <2>1. arr' \in Libraries
    BY <1>0, <1>1 DEF IInv, TypeOK, Libraries
  <2>2. TypeOK'
    BY <1>0, <1>1, <2>1 DEF IInv, TypeOK, Promotions
  <2>3. (LibraryInv /\ StateInv /\ FilesInv /\ RemovalInv /\ RequestInv /\ ClaimInv /\
        NothingLost)'
    BY <1>0, <1>1, <2>1, <2>2 DEF IInv, TypeOK, LibraryInv, StateInv, FilesInv, RemovalInv,
       RequestInv, ClaimInv, NothingLost, Promotions, Libraries, SideEffectFree
  <2> QED BY <2>2, <2>3 DEF IInv
<1>2. ASSUME arr' = [arr EXCEPT !.ren = "queued"] /\ p' = [p EXCEPT !.ren = "known"]
      PROVE  IInv'
  <2>1. p' \in Promotions
    BY <1>0, <1>2 DEF IInv, TypeOK, Promotions
  <2>2. arr' \in Libraries
    BY <1>0, <1>2, <2>1 DEF IInv, TypeOK, Libraries
  <2>3. TypeOK'
    BY <1>0, <1>2, <2>1, <2>2 DEF IInv, TypeOK
  <2>4. (LibraryInv /\ StateInv /\ FilesInv /\ RemovalInv /\ RequestInv /\ ClaimInv /\
        NothingLost)'
    BY <1>0, <1>2, <2>1, <2>2, <2>3 DEF IInv, TypeOK, LibraryInv, StateInv, FilesInv,
       RemovalInv, RequestInv, ClaimInv, NothingLost, Promotions, Libraries, SideEffectFree
  <2> QED BY <2>3, <2>4 DEF IInv
<1>3. ASSUME arr' = [arr EXCEPT !.ren = "flying"] /\ UNCHANGED p
      PROVE  IInv'
  <2>1. arr' \in Libraries
    BY <1>0, <1>3 DEF IInv, TypeOK, Libraries
  <2>2. TypeOK'
    BY <1>0, <1>3, <2>1 DEF IInv, TypeOK, Promotions
  <2>3. (LibraryInv /\ StateInv /\ FilesInv /\ RemovalInv /\ RequestInv /\ ClaimInv /\
        NothingLost)'
    BY <1>0, <1>3, <2>1, <2>2 DEF IInv, TypeOK, LibraryInv, StateInv, FilesInv, RemovalInv,
       RequestInv, ClaimInv, NothingLost, Promotions, Libraries, SideEffectFree
  <2> QED BY <2>2, <2>3 DEF IInv
<1> QED BY <1>1, <1>2, <1>3 DEF SendRename, SendCommand

LEMMA FinalizeKeeps ==
  ASSUME IInv, Finalize
  PROVE  IInv'
<1>0. pc = "in" /\ step = "finalize" /\ FinalProved /\ UNCHANGED outside
  BY DEF Finalize
<1>1. ASSUME /\ ~Fs
             /\ Holds("CAND", "cand")
             /\ arr.newRec = "final"
             /\ Puts("CAND", "none")
             /\ Goes("in")
             /\ UNCHANGED p
      PROVE  IInv'
  <2>1. TypeOK'
    BY <1>0, <1>1 DEF IInv, TypeOK, Promotions, Libraries
  <2>2. (LibraryInv /\ StateInv /\ FilesInv /\ RemovalInv /\ RequestInv /\ ClaimInv /\
        NothingLost)'
    BY <1>0, <1>1, <2>1 DEF IInv, TypeOK, LibraryInv, StateInv, FilesInv, RemovalInv,
       RequestInv, ClaimInv, NothingLost, Promotions, Libraries, FinalProved, AdoptedFile,
       SideEffectFree
  <2> QED BY <2>1, <2>2 DEF IInv
<1>2. ASSUME Free("PART") /\ UNCHANGED files /\ p' = [p EXCEPT !.cleanup = TRUE] /\ Goes("drop")
      PROVE  IInv'
  <2>1. p' \in Promotions
    BY <1>0, <1>2 DEF IInv, TypeOK, Promotions
  <2>2. TypeOK'
    BY <1>0, <1>2, <2>1 DEF IInv, TypeOK, Libraries
  <2>3. (LibraryInv /\ StateInv /\ FilesInv /\ RemovalInv /\ RequestInv /\ ClaimInv /\
        NothingLost)'
    BY <1>0, <1>2, <2>1, <2>2 DEF IInv, TypeOK, LibraryInv, StateInv, FilesInv, RemovalInv,
       RequestInv, ClaimInv, NothingLost, Promotions, Libraries, FinalProved, AdoptedFile,
       SideEffectFree
  <2> QED BY <2>2, <2>3 DEF IInv
<1>3. ASSUME /\ Free("PART")
             /\ UNCHANGED files
             /\ p' = [p EXCEPT !.cleanup = TRUE, !.emptyRec = TRUE]
             /\ Goes("drop")
      PROVE  IInv'
  <2>1. p' \in Promotions
    BY <1>0, <1>3 DEF IInv, TypeOK, Promotions
  <2>2. TypeOK'
    BY <1>0, <1>3, <2>1 DEF IInv, TypeOK, Libraries
  <2>3. (LibraryInv /\ StateInv /\ FilesInv /\ RemovalInv /\ RequestInv /\ ClaimInv /\
        NothingLost)'
    BY <1>0, <1>3, <2>1, <2>2 DEF IInv, TypeOK, LibraryInv, StateInv, FilesInv, RemovalInv,
       RequestInv, ClaimInv, NothingLost, Promotions, Libraries, FinalProved, AdoptedFile,
       SideEffectFree
  <2> QED BY <2>2, <2>3 DEF IInv
<1>4. ASSUME /\ Free("PART")
             /\ UNCHANGED files
             /\ Free("REC")
             /\ p.cleanup
             /\ Goes("dropped")
             /\ UNCHANGED p
      PROVE  IInv'
  <2>1. TypeOK'
    BY <1>0, <1>4 DEF IInv, TypeOK, Promotions, Libraries
  <2>2. (LibraryInv /\ StateInv /\ FilesInv /\ RemovalInv /\ RequestInv /\ ClaimInv /\
        NothingLost)'
    BY <1>0, <1>4, <2>1 DEF IInv, TypeOK, LibraryInv, StateInv, FilesInv, RemovalInv,
       RequestInv, ClaimInv, NothingLost, Promotions, Libraries, FinalProved, AdoptedFile,
       SideEffectFree
  <2> QED BY <2>1, <2>2 DEF IInv
<1> QED BY <1>1, <1>2, <1>3, <1>4 DEF Finalize

LEMMA DropRecoveryKeeps ==
  ASSUME IInv, DropRecovery
  PROVE  IInv'
<1>0. pc = "drop" /\ UNCHANGED <<p, outside>>
  BY DEF DropRecovery
<1>1. ASSUME p.emptyRec /\ Holds("REC", "orig") /\ Puts("REC", "empty") /\ Goes("drop")
      PROVE  IInv'
  <2>1. TypeOK'
    BY <1>0, <1>1 DEF IInv, TypeOK, Promotions, Libraries
  <2>2. (LibraryInv /\ StateInv /\ FilesInv /\ RemovalInv /\ RequestInv /\ ClaimInv /\
        NothingLost)'
    BY <1>0, <1>1, <2>1 DEF IInv, TypeOK, LibraryInv, StateInv, FilesInv, RemovalInv,
       RequestInv, ClaimInv, NothingLost, Promotions, Libraries, SideEffectFree
  <2> QED BY <2>1, <2>2 DEF IInv
<1>2. ASSUME ~Free("REC") /\ Puts("REC", "none") /\ Goes("dropped")
      PROVE  IInv'
  <2>1. TypeOK'
    BY <1>0, <1>2 DEF IInv, TypeOK, Promotions, Libraries
  <2>2. (LibraryInv /\ StateInv /\ FilesInv /\ RemovalInv /\ RequestInv /\ ClaimInv /\
        NothingLost)'
    BY <1>0, <1>2, <2>1 DEF IInv, TypeOK, LibraryInv, StateInv, FilesInv, RemovalInv,
       RequestInv, ClaimInv, NothingLost, Promotions, Libraries, SideEffectFree
  <2> QED BY <2>1, <2>2 DEF IInv
<1> QED BY <1>1, <1>2 DEF DropRecovery

LEMMA FinalizedKeeps ==
  ASSUME IInv, Finalized
  PROVE  IInv'
<1>0. /\ pc = "dropped"
      /\ p' = [p EXCEPT !.verified = FALSE]
      /\ pc' = "idle"
      /\ row' = "completed"
      /\ UNCHANGED step
      /\ UNCHANGED <<files, outside>>
  BY DEF Finalized
<1>1. IInv'
  <2>1. p' \in Promotions
    BY <1>0 DEF IInv, TypeOK, Promotions
  <2>2. TypeOK'
    BY <1>0, <2>1 DEF IInv, TypeOK, Libraries
  <2>3. (LibraryInv /\ StateInv /\ FilesInv /\ RemovalInv /\ RequestInv /\ ClaimInv /\
        NothingLost)'
    BY <1>0, <2>1, <2>2 DEF IInv, TypeOK, LibraryInv, StateInv, FilesInv, RemovalInv,
       RequestInv, ClaimInv, NothingLost, Promotions, Libraries, SideEffectFree
  <2> QED BY <2>2, <2>3 DEF IInv
<1> QED BY <1>1 DEF Finalized

-----------------------------------------------------------------------------
(* Users *)

LEMMA RetryKeeps ==
  ASSUME IInv, Retry
  PROVE  IInv'
<1>0. /\ pc = "idle"
      /\ row = "failed"
      /\ (claim' = IF Fs \/ step \notin {"import", "remove", "rename"} THEN claim ELSE "self")
      /\ row' = "open"
      /\ UNCHANGED <<kind, step, pc, p, files, arr, original, rival, history>>
  BY DEF Retry
<1>1. ASSUME Fs \/ step \notin {"import", "remove", "rename"}
      PROVE  IInv'
  <2>1. TypeOK'
    BY <1>0, <1>1 DEF IInv, TypeOK, Promotions, Libraries
  <2>2. (LibraryInv /\ StateInv /\ FilesInv /\ RemovalInv /\ RequestInv /\ ClaimInv /\
        NothingLost)'
    BY <1>0, <1>1, <2>1 DEF IInv, TypeOK, LibraryInv, StateInv, FilesInv, RemovalInv,
       RequestInv, ClaimInv, NothingLost, Promotions, Libraries, SideEffectFree
  <2> QED BY <2>1, <2>2 DEF IInv
<1>2. ASSUME CanClaim /\ (p.imp = "none" \/ AdoptedFile \/ p.removed \/ p.deleteSent)
      PROVE  IInv'
  <2>1. TypeOK'
    BY <1>0, <1>2 DEF IInv, TypeOK, Promotions, Libraries
  <2>2. (LibraryInv /\ StateInv /\ FilesInv /\ RemovalInv /\ RequestInv /\ ClaimInv /\
        NothingLost)'
    BY <1>0, <1>2, <2>1 DEF IInv, TypeOK, LibraryInv, StateInv, FilesInv, RemovalInv,
       RequestInv, ClaimInv, NothingLost, Promotions, Libraries, AdoptedFile, CanClaim,
       RivalReleases, SideEffectFree
  <2> QED BY <2>1, <2>2 DEF IInv
<1> QED BY <1>1, <1>2 DEF Retry

LEMMA RetryImportKeeps ==
  ASSUME IInv, RetryImport
  PROVE  IInv'
<1>0. /\ pc = "idle"
      /\ row = "failed"
      /\ ~Fs
      /\ step \in {"import", "remove", "rename"}
      /\ CanClaim
      /\ ~p.removed
      /\ ~p.deleteSent
      /\ ~p.cleanup
      /\ ~p.moved
      /\ ~p.moving
      /\ p.imp = "done"
      /\ arr.imp = "completed"
      /\ arr.active = "old"
      /\ arr.oldRec # "none"
      /\ arr.newRec = "none"
      /\ Recovered
      /\ Holds("LIB", "orig")
      /\ Holds("CAND", "cand")
      /\ p' = [p EXCEPT !.imp = "none", !.newPath = "none", !.emptyOrig = FALSE, !.reimport = TRUE]
      /\ arr' = [arr EXCEPT !.oldRec = "own"]
      /\ late' = FALSE
      /\ discarded' = FALSE
      /\ claim' = "self"
      /\ row' = "open"
      /\ step' = "import"
      /\ UNCHANGED <<kind, pc, files, original, rival, taken>>
  BY DEF RetryImport
<1>1. IInv'
  <2>1. p' \in Promotions
    BY <1>0 DEF IInv, TypeOK, Promotions
  <2> arr' \in Libraries
    BY <1>0 DEF IInv, TypeOK, Libraries
  <2>2. TypeOK'
    BY <1>0, <2>1 DEF IInv, TypeOK
  <2>3. LibraryInv'
    BY <1>0, <2>1, <2>2 DEF IInv, TypeOK, LibraryInv, StateInv, FilesInv, RemovalInv,
       RequestInv, ClaimInv, NothingLost, Promotions, Libraries, Recovered, CanClaim,
       RivalReleases
  <2>4. StateInv'
    BY <1>0, <2>1, <2>2 DEF IInv, TypeOK, LibraryInv, StateInv, FilesInv, RemovalInv,
       RequestInv, ClaimInv, NothingLost, Promotions, Libraries, Recovered, CanClaim,
       RivalReleases
  <2>5. FilesInv'
    BY <1>0, <2>1, <2>2 DEF IInv, TypeOK, LibraryInv, StateInv, FilesInv, RemovalInv,
       RequestInv, ClaimInv, NothingLost, Promotions, Libraries, Recovered, CanClaim,
       RivalReleases
  <2>6. RemovalInv'
    BY <1>0, <2>1, <2>2 DEF IInv, TypeOK, LibraryInv, StateInv, FilesInv, RemovalInv,
       RequestInv, ClaimInv, NothingLost, Promotions, Libraries, Recovered, CanClaim,
       RivalReleases
  <2>7. RequestInv'
    BY <1>0, <2>1, <2>2 DEF IInv, TypeOK, LibraryInv, StateInv, FilesInv, RemovalInv,
       RequestInv, ClaimInv, NothingLost, Promotions, Libraries, Recovered, CanClaim,
       RivalReleases
  <2>8. ClaimInv'
    BY <1>0, <2>1, <2>2 DEF IInv, TypeOK, LibraryInv, StateInv, FilesInv, RemovalInv,
       RequestInv, ClaimInv, NothingLost, Promotions, Libraries, Recovered, CanClaim,
       RivalReleases, SideEffectFree
  <2>9. NothingLost'
    BY <1>0, <2>1, <2>2 DEF IInv, TypeOK, LibraryInv, StateInv, FilesInv, RemovalInv,
       RequestInv, ClaimInv, NothingLost, Promotions, Libraries, Recovered, CanClaim,
       RivalReleases
  <2> QED BY <2>2, <2>3, <2>4, <2>5, <2>6, <2>7, <2>8, <2>9 DEF IInv
<1> QED BY <1>1 DEF RetryImport

LEMMA CancelKeeps ==
  ASSUME IInv, Cancel
  PROVE  IInv'
<1>0. /\ pc = "idle"
      /\ row \in {"open", "failed"}
      /\ row' = "cancelled"
      /\ UNCHANGED <<step, pc, p, files, outside>>
  BY DEF Cancel
<1>1. IInv'
  <2>1. TypeOK'
    BY <1>0 DEF IInv, TypeOK, Promotions, Libraries
  <2>2. (LibraryInv /\ StateInv /\ FilesInv /\ RemovalInv /\ RequestInv /\ ClaimInv /\
        NothingLost)'
    BY <1>0, <2>1 DEF IInv, TypeOK, LibraryInv, StateInv, FilesInv, RemovalInv, RequestInv,
       ClaimInv, NothingLost, Promotions, Libraries, SideEffectFree
  <2> QED BY <2>1, <2>2 DEF IInv
<1> QED BY <1>1 DEF Cancel

LEMMA RestoreKeeps ==
  ASSUME IInv, Restore
  PROVE  IInv'
<1>0. /\ pc = "idle"
      /\ row \in {"failed", "cancelled"}
      /\ (Fs /\ Same /\ MovesAside /\ (p.moved \/ p.moving \/ p.back))
      /\ UNCHANGED <<row, step, files, outside>>
  BY DEF Restore
<1>1. ASSUME p.back /\ Holds("LIB", "orig") /\ Free("REC") /\ p' = MovedBack(p) /\ UNCHANGED pc
      PROVE  IInv'
  <2>1. p' \in Promotions
    BY <1>0, <1>1 DEF IInv, TypeOK, Promotions, MovedBack
  <2>2. TypeOK'
    BY <1>0, <1>1, <2>1 DEF IInv, TypeOK, Libraries, MovedBack
  <2>3. (LibraryInv /\ StateInv /\ FilesInv /\ RemovalInv /\ RequestInv /\ ClaimInv /\
        NothingLost)'
    BY <1>0, <1>1, <2>1, <2>2 DEF IInv, TypeOK, LibraryInv, StateInv, FilesInv, RemovalInv,
       RequestInv, ClaimInv, NothingLost, Promotions, Libraries, MovedBack, SideEffectFree
  <2> QED BY <2>2, <2>3 DEF IInv
<1>2. ASSUME Free("LIB") /\ ~Free("REC") /\ p' = [p EXCEPT !.back = FALSE] /\ pc' = "back"
      PROVE  IInv'
  <2>1. p' \in Promotions
    BY <1>0, <1>2 DEF IInv, TypeOK, Promotions
  <2>2. TypeOK'
    BY <1>0, <1>2, <2>1 DEF IInv, TypeOK, Libraries
  <2>3. (LibraryInv /\ StateInv /\ FilesInv /\ RemovalInv /\ RequestInv /\ ClaimInv /\
        NothingLost)'
    BY <1>0, <1>2, <2>1, <2>2 DEF IInv, TypeOK, LibraryInv, StateInv, FilesInv, RemovalInv,
       RequestInv, ClaimInv, NothingLost, Promotions, Libraries, SideEffectFree
  <2> QED BY <2>2, <2>3 DEF IInv
<1> QED BY <1>1, <1>2 DEF Restore

LEMMA DiscardKeeps ==
  ASSUME IInv, Discard
  PROVE  IInv'
<1>0. /\ pc = "idle"
      /\ row # "open"
      /\ ~OnlyOriginal
      /\ Goes("discard")
      /\ UNCHANGED <<p, files, outside>>
  BY DEF Discard
<1>1. IInv'
  <2>1. TypeOK'
    BY <1>0 DEF IInv, TypeOK, Promotions, Libraries
  <2>2. (LibraryInv /\ StateInv /\ FilesInv /\ RemovalInv /\ RequestInv /\ ClaimInv /\
        NothingLost)'
    BY <1>0, <2>1 DEF IInv, TypeOK, LibraryInv, StateInv, FilesInv, RemovalInv, RequestInv,
       ClaimInv, NothingLost, Promotions, Libraries, OnlyOriginal, NewPaths, FileOf,
       SideEffectFree
  <2> QED BY <2>1, <2>2 DEF IInv
<1> QED BY <1>1 DEF Discard

LEMMA DiscardRemovesPARTKeeps ==
  ASSUME IInv, DiscardRemoves("PART")
  PROVE  IInv'
<1>0. /\ pc = "discard"
      /\ ~OnlyOriginal
      /\ ~Free("PART")
      /\ (discarded' = (discarded \/ ("PART" = "REC" /\ Replaced)))
      /\ UNCHANGED <<kind, row, step, pc, p, arr, claims, taken, late>>
  BY DEF DiscardRemoves
<1>1. ASSUME Puts("PART", "none")
      PROVE  IInv'
  <2>1. TypeOK'
    BY <1>0, <1>1 DEF IInv, TypeOK, Promotions, Libraries
  <2>2. (LibraryInv /\ StateInv /\ FilesInv /\ RemovalInv /\ RequestInv /\ ClaimInv /\
        NothingLost)'
    BY <1>0, <1>1, <2>1 DEF IInv, TypeOK, LibraryInv, StateInv, FilesInv, RemovalInv,
       RequestInv, ClaimInv, NothingLost, Promotions, Libraries, OnlyOriginal, NewPaths,
       FileOf, SideEffectFree
  <2> QED BY <2>1, <2>2 DEF IInv
<1>2. ASSUME Puts("PART", "empty")
      PROVE  IInv'
  <2>1. TypeOK'
    BY <1>0, <1>2 DEF IInv, TypeOK, Promotions, Libraries
  <2>2. (LibraryInv /\ StateInv /\ FilesInv /\ RemovalInv /\ RequestInv /\ ClaimInv /\
        NothingLost)'
    BY <1>0, <1>2, <2>1 DEF IInv, TypeOK, LibraryInv, StateInv, FilesInv, RemovalInv,
       RequestInv, ClaimInv, NothingLost, Promotions, Libraries, OnlyOriginal, NewPaths,
       FileOf, SideEffectFree
  <2> QED BY <2>1, <2>2 DEF IInv
<1> QED BY <1>1, <1>2 DEF DiscardRemoves

LEMMA DiscardRemovesRECKeeps ==
  ASSUME IInv, DiscardRemoves("REC")
  PROVE  IInv'
<1>0. /\ pc = "discard"
      /\ ~OnlyOriginal
      /\ ~Free("REC")
      /\ (discarded' = (discarded \/ ("REC" = "REC" /\ Replaced)))
      /\ UNCHANGED <<kind, row, step, pc, p, arr, claims, taken, late>>
  BY DEF DiscardRemoves
<1>1. ASSUME Puts("REC", "none")
      PROVE  IInv'
  <2>1. TypeOK'
    BY <1>0, <1>1 DEF IInv, TypeOK, Promotions, Libraries
  <2>2. LibraryInv'
    BY <1>0, <1>1, <2>1 DEF IInv, TypeOK, LibraryInv, StateInv, FilesInv, RemovalInv,
       RequestInv, ClaimInv, NothingLost, Promotions, Libraries, OnlyOriginal, NewPaths,
       FileOf
  <2>3. StateInv'
    BY <1>0, <1>1, <2>1 DEF IInv, TypeOK, LibraryInv, StateInv, FilesInv, RemovalInv,
       RequestInv, ClaimInv, NothingLost, Promotions, Libraries, OnlyOriginal, NewPaths,
       FileOf
  <2>4. FilesInv'
    BY <1>0, <1>1, <2>1 DEF IInv, TypeOK, LibraryInv, StateInv, FilesInv, RemovalInv,
       RequestInv, ClaimInv, NothingLost, Promotions, Libraries, OnlyOriginal, NewPaths,
       FileOf
  <2>5. RemovalInv'
    BY <1>0, <1>1, <2>1 DEF IInv, TypeOK, LibraryInv, StateInv, FilesInv, RemovalInv,
       RequestInv, ClaimInv, NothingLost, Promotions, Libraries, OnlyOriginal, NewPaths,
       FileOf
  <2>6. RequestInv'
    BY <1>0, <1>1, <2>1 DEF IInv, TypeOK, LibraryInv, StateInv, FilesInv, RemovalInv,
       RequestInv, ClaimInv, NothingLost, Promotions, Libraries, OnlyOriginal, NewPaths,
       FileOf
  <2>7. ClaimInv'
    BY <1>0, <1>1, <2>1 DEF IInv, TypeOK, LibraryInv, StateInv, FilesInv, RemovalInv,
       RequestInv, ClaimInv, NothingLost, Promotions, Libraries, OnlyOriginal, NewPaths,
       FileOf, SideEffectFree
  <2>8. NothingLost'
    <3>1. CASE Replaced
      BY <1>0, <1>1, <3>1 DEF IInv, TypeOK, NothingLost
    <3>2. CASE ~Replaced
      <4>1. Holds("LIB", "orig") \/ p.moved \/ p.moving
        BY <3>2 DEF IInv, FilesInv
      <4>2. PICK path \in {"LIB"} \cup NewPaths : Holds(path, "cand") \/ Holds("LIB", "orig")
        BY <1>0, <4>1 DEF OnlyOriginal
      <4>3. Holds("LIB", "orig")
        BY <3>2, <4>2 DEF IInv, TypeOK, Libraries, LibraryInv, FilesInv, NewPaths, FileOf
      <4> QED BY <1>0, <1>1, <4>3 DEF IInv, TypeOK, NothingLost
    <3> QED BY <3>1, <3>2
  <2> QED BY <2>1, <2>2, <2>3, <2>4, <2>5, <2>6, <2>7, <2>8 DEF IInv
<1>2. ASSUME Puts("REC", "empty")
      PROVE  IInv'
  <2>1. TypeOK'
    BY <1>0, <1>2 DEF IInv, TypeOK, Promotions, Libraries
  <2>2. LibraryInv'
    BY <1>0, <1>2, <2>1 DEF IInv, TypeOK, LibraryInv, StateInv, FilesInv, RemovalInv,
       RequestInv, ClaimInv, NothingLost, Promotions, Libraries, OnlyOriginal, NewPaths,
       FileOf
  <2>3. StateInv'
    BY <1>0, <1>2, <2>1 DEF IInv, TypeOK, LibraryInv, StateInv, FilesInv, RemovalInv,
       RequestInv, ClaimInv, NothingLost, Promotions, Libraries, OnlyOriginal, NewPaths,
       FileOf
  <2>4. FilesInv'
    BY <1>0, <1>2, <2>1 DEF IInv, TypeOK, LibraryInv, StateInv, FilesInv, RemovalInv,
       RequestInv, ClaimInv, NothingLost, Promotions, Libraries, OnlyOriginal, NewPaths,
       FileOf
  <2>5. RemovalInv'
    BY <1>0, <1>2, <2>1 DEF IInv, TypeOK, LibraryInv, StateInv, FilesInv, RemovalInv,
       RequestInv, ClaimInv, NothingLost, Promotions, Libraries, OnlyOriginal, NewPaths,
       FileOf
  <2>6. RequestInv'
    BY <1>0, <1>2, <2>1 DEF IInv, TypeOK, LibraryInv, StateInv, FilesInv, RemovalInv,
       RequestInv, ClaimInv, NothingLost, Promotions, Libraries, OnlyOriginal, NewPaths,
       FileOf
  <2>7. ClaimInv'
    BY <1>0, <1>2, <2>1 DEF IInv, TypeOK, LibraryInv, StateInv, FilesInv, RemovalInv,
       RequestInv, ClaimInv, NothingLost, Promotions, Libraries, OnlyOriginal, NewPaths,
       FileOf, SideEffectFree
  <2>8. NothingLost'
    <3>1. CASE Replaced
      BY <1>0, <1>2, <3>1 DEF IInv, TypeOK, NothingLost
    <3>2. CASE ~Replaced
      <4>1. Holds("LIB", "orig") \/ p.moved \/ p.moving
        BY <3>2 DEF IInv, FilesInv
      <4>2. PICK path \in {"LIB"} \cup NewPaths : Holds(path, "cand") \/ Holds("LIB", "orig")
        BY <1>0, <4>1 DEF OnlyOriginal
      <4>3. Holds("LIB", "orig")
        BY <3>2, <4>2 DEF IInv, TypeOK, Libraries, LibraryInv, FilesInv, NewPaths, FileOf
      <4> QED BY <1>0, <1>2, <4>3 DEF IInv, TypeOK, NothingLost
    <3> QED BY <3>1, <3>2
  <2> QED BY <2>1, <2>2, <2>3, <2>4, <2>5, <2>6, <2>7, <2>8 DEF IInv
<1> QED BY <1>1, <1>2 DEF DiscardRemoves

LEMMA DiscardedKeeps ==
  ASSUME IInv, Discarded
  PROVE  IInv'
<1>0. /\ pc = "discard"
      /\ Free("PART")
      /\ Free("REC")
      /\ p' = [p EXCEPT !.verified = FALSE]
      /\ Waits
      /\ UNCHANGED <<files, outside>>
  BY DEF Discarded
<1>1. IInv'
  <2>1. p' \in Promotions
    BY <1>0 DEF IInv, TypeOK, Promotions
  <2>2. TypeOK'
    BY <1>0, <2>1 DEF IInv, TypeOK, Libraries
  <2>3. (LibraryInv /\ StateInv /\ FilesInv /\ RemovalInv /\ RequestInv /\ ClaimInv /\
        NothingLost)'
    BY <1>0, <2>1, <2>2 DEF IInv, TypeOK, LibraryInv, StateInv, FilesInv, RemovalInv,
       RequestInv, ClaimInv, NothingLost, Promotions, Libraries, SideEffectFree
  <2> QED BY <2>2, <2>3 DEF IInv
<1> QED BY <1>1 DEF Discarded

-----------------------------------------------------------------------------
(* The world outside *)

LEMMA OutsiderKeeps ==
  ASSUME IInv, Outsider
  PROVE  IInv'
<1>0. \E path \in {"LIB", FinalPath} : Free(path) /\ Puts(path, "alien") /\ UNCHANGED <<row,
      step, pc, p, outside>>
  BY DEF Outsider
<1>1. IInv'
  <2>1. TypeOK'
    BY <1>0 DEF IInv, TypeOK, Promotions, Libraries
  <2>2. (LibraryInv /\ StateInv /\ FilesInv /\ RemovalInv /\ RequestInv /\ ClaimInv /\
        NothingLost)'
    BY <1>0, <2>1 DEF IInv, TypeOK, LibraryInv, StateInv, FilesInv, RemovalInv, RequestInv,
       ClaimInv, NothingLost, Promotions, Libraries, SideEffectFree
  <2> QED BY <2>1, <2>2 DEF IInv
<1> QED BY <1>1 DEF Outsider

LEMMA ArrivesimpKeeps ==
  ASSUME IInv, Arrives("imp")
  PROVE  IInv'
<1>0. arr.imp = "flying" /\ UNCHANGED <<world, files, claims, history>>
  BY DEF Arrives
<1>1. ASSUME arr' = [arr EXCEPT !.imp = "queued"]
      PROVE  IInv'
  <2>1. arr' \in Libraries
    BY <1>0, <1>1 DEF IInv, TypeOK, Libraries
  <2>2. TypeOK'
    BY <1>0, <1>1, <2>1 DEF IInv, TypeOK, Promotions
  <2>3. (LibraryInv /\ StateInv /\ FilesInv /\ RemovalInv /\ RequestInv /\ ClaimInv /\
        NothingLost)'
    BY <1>0, <1>1, <2>1, <2>2 DEF IInv, TypeOK, LibraryInv, StateInv, FilesInv, RemovalInv,
       RequestInv, ClaimInv, NothingLost, Promotions, Libraries, SideEffectFree
  <2> QED BY <2>2, <2>3 DEF IInv
<1>2. ASSUME arr' = [arr EXCEPT !.imp = "none"]
      PROVE  IInv'
  <2>1. arr' \in Libraries
    BY <1>0, <1>2 DEF IInv, TypeOK, Libraries
  <2>2. TypeOK'
    BY <1>0, <1>2, <2>1 DEF IInv, TypeOK, Promotions
  <2>3. (LibraryInv /\ StateInv /\ FilesInv /\ RemovalInv /\ RequestInv /\ ClaimInv /\
        NothingLost)'
    BY <1>0, <1>2, <2>1, <2>2 DEF IInv, TypeOK, LibraryInv, StateInv, FilesInv, RemovalInv,
       RequestInv, ClaimInv, NothingLost, Promotions, Libraries, SideEffectFree
  <2> QED BY <2>2, <2>3 DEF IInv
<1> QED BY <1>1, <1>2 DEF Arrives

LEMMA ArrivesrenKeeps ==
  ASSUME IInv, Arrives("ren")
  PROVE  IInv'
<1>0. arr.ren = "flying" /\ UNCHANGED <<world, files, claims, history>>
  BY DEF Arrives
<1>1. ASSUME arr' = [arr EXCEPT !.ren = "queued"]
      PROVE  IInv'
  <2>1. arr' \in Libraries
    BY <1>0, <1>1 DEF IInv, TypeOK, Libraries
  <2>2. TypeOK'
    BY <1>0, <1>1, <2>1 DEF IInv, TypeOK, Promotions
  <2>3. (LibraryInv /\ StateInv /\ FilesInv /\ RemovalInv /\ RequestInv /\ ClaimInv /\
        NothingLost)'
    BY <1>0, <1>1, <2>1, <2>2 DEF IInv, TypeOK, LibraryInv, StateInv, FilesInv, RemovalInv,
       RequestInv, ClaimInv, NothingLost, Promotions, Libraries, SideEffectFree
  <2> QED BY <2>2, <2>3 DEF IInv
<1>2. ASSUME arr' = [arr EXCEPT !.ren = "none"]
      PROVE  IInv'
  <2>1. arr' \in Libraries
    BY <1>0, <1>2 DEF IInv, TypeOK, Libraries
  <2>2. TypeOK'
    BY <1>0, <1>2, <2>1 DEF IInv, TypeOK, Promotions
  <2>3. (LibraryInv /\ StateInv /\ FilesInv /\ RemovalInv /\ RequestInv /\ ClaimInv /\
        NothingLost)'
    BY <1>0, <1>2, <2>1, <2>2 DEF IInv, TypeOK, LibraryInv, StateInv, FilesInv, RemovalInv,
       RequestInv, ClaimInv, NothingLost, Promotions, Libraries, SideEffectFree
  <2> QED BY <2>2, <2>3 DEF IInv
<1> QED BY <1>1, <1>2 DEF Arrives

LEMMA LibraryImportsKeeps ==
  ASSUME IInv, LibraryImports
  PROVE  IInv'
<1>0. arr.imp = "queued" /\ UNCHANGED <<world, claims, discarded, late>>
  BY DEF LibraryImports, Puts, IInv, TypeOK
<1>1. ASSUME NEW end \in {"completed", "failed"},
             arr' = [arr EXCEPT !.imp = end] /\ UNCHANGED <<files, taken>>
      PROVE  IInv'
  <2>1. arr' \in Libraries
    BY <1>0, <1>1 DEF IInv, TypeOK, Libraries
  <2>2. TypeOK'
    BY <1>0, <1>1, <2>1 DEF IInv, TypeOK, Promotions
  <2>3. (LibraryInv /\ StateInv /\ FilesInv /\ RemovalInv /\ RequestInv /\ ClaimInv /\
        NothingLost)'
    BY <1>0, <1>1, <2>1, <2>2 DEF IInv, TypeOK, LibraryInv, StateInv, FilesInv, RemovalInv,
       RequestInv, ClaimInv, NothingLost, Promotions, Libraries, SideEffectFree
  <2> QED BY <2>2, <2>3 DEF IInv
<1>2. ASSUME NEW end \in {"completed", "failed"},
             /\ arr' = [arr EXCEPT !.imp = end, !.newRec = "temporary"]
             /\ UNCHANGED <<files, taken>>
      PROVE  IInv'
  <2>1. arr' \in Libraries
    BY <1>0, <1>2 DEF IInv, TypeOK, Libraries
  <2>2. TypeOK'
    BY <1>0, <1>2, <2>1 DEF IInv, TypeOK, Promotions
  <2>3. (LibraryInv /\ StateInv /\ FilesInv /\ RemovalInv /\ RequestInv /\ ClaimInv /\
        NothingLost)'
    BY <1>0, <1>2, <2>1, <2>2 DEF IInv, TypeOK, LibraryInv, StateInv, FilesInv, RemovalInv,
       RequestInv, ClaimInv, NothingLost, Promotions, Libraries, SideEffectFree
  <2> QED BY <2>2, <2>3 DEF IInv
<1>3. ASSUME NEW end \in {"completed", "failed"},
             NEW record \in BOOLEAN,
             /\ arr' = [arr EXCEPT !.imp = end, !.newRec = "temporary", !.active = "new",
                                   !.oldRec = IF record THEN "none" ELSE @]
             /\ Puts("LIB", "none")
             /\ taken' = TRUE
      PROVE  IInv'
  <2>1. arr' \in Libraries
    BY <1>0, <1>3 DEF IInv, TypeOK, Libraries
  <2>2. TypeOK'
    BY <1>0, <1>3, <2>1 DEF IInv, TypeOK, Promotions
  <2>3. LibraryInv'
    BY <1>0, <1>3, <2>1, <2>2 DEF IInv, TypeOK, LibraryInv, StateInv, FilesInv, RemovalInv,
       RequestInv, ClaimInv, NothingLost, Promotions, Libraries
  <2>4. StateInv'
    BY <1>0, <1>3, <2>1, <2>2 DEF IInv, TypeOK, LibraryInv, StateInv, FilesInv, RemovalInv,
       RequestInv, ClaimInv, NothingLost, Promotions, Libraries
  <2>5. FilesInv'
    BY <1>0, <1>3, <2>1, <2>2 DEF IInv, TypeOK, LibraryInv, StateInv, FilesInv, RemovalInv,
       RequestInv, ClaimInv, NothingLost, Promotions, Libraries
  <2>6. RemovalInv'
    BY <1>0, <1>3, <2>1, <2>2 DEF IInv, TypeOK, LibraryInv, StateInv, FilesInv, RemovalInv,
       RequestInv, ClaimInv, NothingLost, Promotions, Libraries
  <2>7. RequestInv'
    BY <1>0, <1>3, <2>1, <2>2 DEF IInv, TypeOK, LibraryInv, StateInv, FilesInv, RemovalInv,
       RequestInv, ClaimInv, NothingLost, Promotions, Libraries
  <2>8. ClaimInv'
    BY <1>0, <1>3, <2>1, <2>2 DEF IInv, TypeOK, LibraryInv, StateInv, FilesInv, RemovalInv,
       RequestInv, ClaimInv, NothingLost, Promotions, Libraries, SideEffectFree
  <2>9. NothingLost'
    BY <1>0, <1>3, <2>1, <2>2 DEF IInv, TypeOK, LibraryInv, StateInv, FilesInv, RemovalInv,
       RequestInv, ClaimInv, NothingLost, Promotions, Libraries
  <2> QED BY <2>2, <2>3, <2>4, <2>5, <2>6, <2>7, <2>8, <2>9 DEF IInv
<1>4. ASSUME NEW end \in {"completed", "failed"},
             NEW record \in BOOLEAN,
             /\ arr' = [arr EXCEPT !.imp = end, !.newRec = "temporary", !.active = "new",
                                   !.oldRec = IF record THEN "none" ELSE @]
             /\ Puts("LIB", "none")
             /\ taken' = taken
             /\ ~Holds("LIB", "orig")
      PROVE  IInv'
  <2>1. arr' \in Libraries
    BY <1>0, <1>4 DEF IInv, TypeOK, Libraries
  <2>2. TypeOK'
    BY <1>0, <1>4, <2>1 DEF IInv, TypeOK, Promotions
  <2>3. (LibraryInv /\ StateInv /\ FilesInv /\ RemovalInv /\ RequestInv /\ ClaimInv /\
        NothingLost)'
    BY <1>0, <1>4, <2>1, <2>2 DEF IInv, TypeOK, LibraryInv, StateInv, FilesInv, RemovalInv,
       RequestInv, ClaimInv, NothingLost, Promotions, Libraries, SideEffectFree
  <2> QED BY <2>2, <2>3 DEF IInv
<1>5. ASSUME NEW end \in {"completed", "failed"},
             NEW record \in BOOLEAN,
             /\ arr' = [arr EXCEPT !.imp = end, !.newRec = "temporary", !.active = "new",
                                   !.oldRec = IF record THEN "none" ELSE @]
             /\ UNCHANGED <<files, taken>>
      PROVE  IInv'
  <2>1. arr' \in Libraries
    BY <1>0, <1>5 DEF IInv, TypeOK, Libraries
  <2>2. TypeOK'
    BY <1>0, <1>5, <2>1 DEF IInv, TypeOK, Promotions
  <2>3. (LibraryInv /\ StateInv /\ FilesInv /\ RemovalInv /\ RequestInv /\ ClaimInv /\
        NothingLost)'
    BY <1>0, <1>5, <2>1, <2>2 DEF IInv, TypeOK, LibraryInv, StateInv, FilesInv, RemovalInv,
       RequestInv, ClaimInv, NothingLost, Promotions, Libraries, SideEffectFree
  <2> QED BY <2>2, <2>3 DEF IInv
<1>6. ASSUME NEW end \in {"completed", "failed"}, NEW record \in BOOLEAN, NEW file \in BOOLEAN,
             Holds("CAND", "cand"),
             arr' = [arr EXCEPT !.imp = end, !.newRec = "temporary", !.active = "new",
                                !.oldRec = IF record THEN "none" ELSE @],
             IF file /\ ~Free("LIB") THEN Puts("LIB", "none") ELSE UNCHANGED files,
             taken' = (taken \/ (file /\ Holds("LIB", "orig")))
      PROVE  IInv'
  <2>1. taken \in BOOLEAN
    BY DEF IInv, TypeOK
  <2>2. CASE file /\ Holds("LIB", "orig")
    BY <1>6, <2>2, <1>3
  <2>3. CASE file /\ ~Free("LIB") /\ ~Holds("LIB", "orig")
    BY <1>6, <2>1, <2>3, <1>4
  <2>4. CASE ~file \/ Free("LIB")
    BY <1>6, <2>1, <2>4, <1>5
  <2> QED BY <2>2, <2>3, <2>4
<1> QED BY <1>1, <1>2, <1>6 DEF LibraryImports

LEMMA LibraryDeletesKeeps ==
  ASSUME IInv, LibraryDeletes
  PROVE  IInv'
<1>0. arr.del = "flying" /\ UNCHANGED <<world, claims, history>>
  BY DEF LibraryDeletes
<1>1. ASSUME /\ arr.oldRec = "own"
             /\ arr' = [arr EXCEPT !.del = "none", !.oldRec = "none"]
             /\ Puts("LIB", "none")
      PROVE  IInv'
  <2>1. arr' \in Libraries
    BY <1>0, <1>1 DEF IInv, TypeOK, Libraries
  <2>2. TypeOK'
    BY <1>0, <1>1, <2>1 DEF IInv, TypeOK, Promotions
  <2>3. (LibraryInv /\ StateInv /\ FilesInv /\ RemovalInv /\ RequestInv /\ ClaimInv /\
        NothingLost)'
    BY <1>0, <1>1, <2>1, <2>2 DEF IInv, TypeOK, LibraryInv, StateInv, FilesInv, RemovalInv,
       RequestInv, ClaimInv, NothingLost, Promotions, Libraries, SideEffectFree
  <2> QED BY <2>2, <2>3 DEF IInv
<1>2. ASSUME arr' = [arr EXCEPT !.del = "none"] /\ UNCHANGED files
      PROVE  IInv'
  <2>1. arr' \in Libraries
    BY <1>0, <1>2 DEF IInv, TypeOK, Libraries
  <2>2. TypeOK'
    BY <1>0, <1>2, <2>1 DEF IInv, TypeOK, Promotions
  <2>3. (LibraryInv /\ StateInv /\ FilesInv /\ RemovalInv /\ RequestInv /\ ClaimInv /\
        NothingLost)'
    BY <1>0, <1>2, <2>1, <2>2 DEF IInv, TypeOK, LibraryInv, StateInv, FilesInv, RemovalInv,
       RequestInv, ClaimInv, NothingLost, Promotions, Libraries, SideEffectFree
  <2> QED BY <2>2, <2>3 DEF IInv
<1> QED BY <1>1, <1>2 DEF LibraryDeletes

LEMMA LibraryDropsKeeps ==
  ASSUME IInv, LibraryDrops
  PROVE  IInv'
<1>0. /\ arr.active = "new"
      /\ arr.oldRec # "none"
      /\ Free("LIB")
      /\ arr' = [arr EXCEPT !.oldRec = "none"]
      /\ UNCHANGED <<world, files, claims, history>>
  BY DEF LibraryDrops
<1>1. IInv'
  <2>1. arr' \in Libraries
    BY <1>0 DEF IInv, TypeOK, Libraries
  <2>2. TypeOK'
    BY <1>0, <2>1 DEF IInv, TypeOK, Promotions
  <2>3. (LibraryInv /\ StateInv /\ FilesInv /\ RemovalInv /\ RequestInv /\ ClaimInv /\
        NothingLost)'
    BY <1>0, <2>1, <2>2 DEF IInv, TypeOK, LibraryInv, StateInv, FilesInv, RemovalInv,
       RequestInv, ClaimInv, NothingLost, Promotions, Libraries, SideEffectFree
  <2> QED BY <2>2, <2>3 DEF IInv
<1> QED BY <1>1 DEF LibraryDrops

LEMMA LibraryReadoptsKeeps ==
  ASSUME IInv, LibraryReadopts
  PROVE  IInv'
<1>0. /\ ~Fs
      /\ arr.active = "new"
      /\ Holds("LIB", "orig")
      /\ late' = (late \/ Removing)
      /\ UNCHANGED <<world, files, claims, discarded, taken>>
  BY DEF LibraryReadopts
<1>1. ASSUME NEW rec \in {"none", arr.newRec},
             arr' = [arr EXCEPT !.active = "old", !.newRec = rec,
                                !.oldRec = IF @ = "own" THEN "own" ELSE "other"]
      PROVE  IInv'
  <2>1. arr' \in Libraries
    BY <1>0, <1>1 DEF IInv, TypeOK, Libraries
  <2>2. TypeOK'
    BY <1>0, <1>1, <2>1 DEF IInv, TypeOK, Promotions
  <2>3. LibraryInv'
    BY <1>0, <1>1, <2>1, <2>2 DEF IInv, TypeOK, LibraryInv, StateInv, FilesInv, RemovalInv,
       RequestInv, ClaimInv, NothingLost, Promotions, Libraries, Removing
  <2>4. StateInv'
    BY <1>0, <1>1, <2>1, <2>2 DEF IInv, TypeOK, LibraryInv, StateInv, FilesInv, RemovalInv,
       RequestInv, ClaimInv, NothingLost, Promotions, Libraries, Removing
  <2>5. FilesInv'
    BY <1>0, <1>1, <2>1, <2>2 DEF IInv, TypeOK, LibraryInv, StateInv, FilesInv, RemovalInv,
       RequestInv, ClaimInv, NothingLost, Promotions, Libraries, Removing
  <2>6. RemovalInv'
    <3>1. step \notin {"rename", "finalize"} /\ row # "completed" /\ ~p.removed
      BY <1>0 DEF IInv, TypeOK, StateInv, FilesInv, RemovalInv
    <3>2. pc \in {"orphan", "aside", "renameAside", "confirmAside", "kept", "copied", "unlink",
                 "unlinked"} \cup CopyingOn => Replaced'
      BY <1>0 DEF Removing
    <3> QED BY <1>0, <1>1, <2>1, <3>1, <3>2 DEF IInv, TypeOK, RemovalInv, Libraries
  <2>7. RequestInv'
    BY <1>0, <1>1, <2>1, <2>2 DEF IInv, TypeOK, LibraryInv, StateInv, FilesInv, RemovalInv,
       RequestInv, ClaimInv, NothingLost, Promotions, Libraries, Removing
  <2>8. ClaimInv'
    BY <1>0, <1>1, <2>1, <2>2 DEF IInv, TypeOK, LibraryInv, StateInv, FilesInv, RemovalInv,
       RequestInv, ClaimInv, NothingLost, Promotions, Libraries, Removing, SideEffectFree
  <2>9. NothingLost'
    BY <1>0, <1>1, <2>1, <2>2 DEF IInv, TypeOK, LibraryInv, StateInv, FilesInv, RemovalInv,
       RequestInv, ClaimInv, NothingLost, Promotions, Libraries, Removing
  <2> QED BY <2>2, <2>3, <2>4, <2>5, <2>6, <2>7, <2>8, <2>9 DEF IInv
<1> QED BY <1>1 DEF LibraryReadopts

LEMMA LibraryRenamesKeeps ==
  ASSUME IInv, LibraryRenames
  PROVE  IInv'
<1>0. arr.ren = "queued" /\ UNCHANGED <<world, claims, history>>
  BY DEF LibraryRenames
<1>1. ASSUME arr' = [arr EXCEPT !.ren = "failed"] /\ UNCHANGED files
      PROVE  IInv'
  <2>1. arr' \in Libraries
    BY <1>0, <1>1 DEF IInv, TypeOK, Libraries
  <2>2. TypeOK'
    BY <1>0, <1>1, <2>1 DEF IInv, TypeOK, Promotions
  <2>3. (LibraryInv /\ StateInv /\ FilesInv /\ RemovalInv /\ RequestInv /\ ClaimInv /\
        NothingLost)'
    BY <1>0, <1>1, <2>1, <2>2 DEF IInv, TypeOK, LibraryInv, StateInv, FilesInv, RemovalInv,
       RequestInv, ClaimInv, NothingLost, Promotions, Libraries, SideEffectFree
  <2> QED BY <2>2, <2>3 DEF IInv
<1>2. ASSUME NEW path \in {"temporary", "final"},
             /\ Holds("CAND", "cand")
             /\ Free(FinalPath)
             /\ Moves("CAND", FinalPath)
             /\ arr' = [arr EXCEPT !.ren = "completed", !.newRec = path]
      PROVE  IInv'
  <2>1. arr' \in Libraries
    BY <1>0, <1>2 DEF IInv, TypeOK, Libraries
  <2>2. TypeOK'
    BY <1>0, <1>2, <2>1 DEF IInv, TypeOK, Promotions
  <2>3. (LibraryInv /\ StateInv /\ FilesInv /\ RemovalInv /\ RequestInv /\ ClaimInv /\
        NothingLost)'
    BY <1>0, <1>2, <2>1, <2>2 DEF IInv, TypeOK, LibraryInv, StateInv, FilesInv, RemovalInv,
       RequestInv, ClaimInv, NothingLost, Promotions, Libraries, SideEffectFree
  <2> QED BY <2>2, <2>3 DEF IInv
<1>3. ASSUME NEW path \in {"temporary", "final"},
             /\ Holds("CAND", "cand")
             /\ Free(FinalPath)
             /\ Puts(FinalPath, "cand")
             /\ arr' = [arr EXCEPT !.ren = "completed", !.newRec = path]
      PROVE  IInv'
  <2>1. arr' \in Libraries
    BY <1>0, <1>3 DEF IInv, TypeOK, Libraries
  <2>2. TypeOK'
    BY <1>0, <1>3, <2>1 DEF IInv, TypeOK, Promotions
  <2>3. (LibraryInv /\ StateInv /\ FilesInv /\ RemovalInv /\ RequestInv /\ ClaimInv /\
        NothingLost)'
    BY <1>0, <1>3, <2>1, <2>2 DEF IInv, TypeOK, LibraryInv, StateInv, FilesInv, RemovalInv,
       RequestInv, ClaimInv, NothingLost, Promotions, Libraries, SideEffectFree
  <2> QED BY <2>2, <2>3 DEF IInv
<1> QED BY <1>1, <1>2, <1>3 DEF LibraryRenames

LEMMA LibraryPublishesKeeps ==
  ASSUME IInv, LibraryPublishes
  PROVE  IInv'
<1>0. /\ arr.ren = "completed"
      /\ arr.newRec = "temporary"
      /\ arr' = [arr EXCEPT !.newRec = "final"]
      /\ UNCHANGED <<world, files, claims, history>>
  BY DEF LibraryPublishes
<1>1. IInv'
  <2>1. arr' \in Libraries
    BY <1>0 DEF IInv, TypeOK, Libraries
  <2>2. TypeOK'
    BY <1>0, <2>1 DEF IInv, TypeOK, Promotions
  <2>3. (LibraryInv /\ StateInv /\ FilesInv /\ RemovalInv /\ RequestInv /\ ClaimInv /\
        NothingLost)'
    BY <1>0, <2>1, <2>2 DEF IInv, TypeOK, LibraryInv, StateInv, FilesInv, RemovalInv,
       RequestInv, ClaimInv, NothingLost, Promotions, Libraries, SideEffectFree
  <2> QED BY <2>2, <2>3 DEF IInv
<1> QED BY <1>1 DEF LibraryPublishes

LEMMA RivalClaimsKeeps ==
  ASSUME IInv, RivalClaims
  PROVE  IInv'
<1>0. /\ rival \in {"none", "clean"}
      /\ (claim \in {"none", "rival"} \/ SelfReleases)
      /\ claim' = "rival"
      /\ rival' = "open"
      /\ UNCHANGED <<world, files, arr, original, history>>
  BY DEF RivalClaims
<1>1. IInv'
  <2>1. TypeOK'
    BY <1>0 DEF IInv, TypeOK, Promotions, Libraries
  <2>2. (LibraryInv /\ StateInv /\ FilesInv /\ RemovalInv /\ RequestInv /\ ClaimInv /\
        NothingLost)'
    BY <1>0, <2>1 DEF IInv, TypeOK, LibraryInv, StateInv, FilesInv, RemovalInv, RequestInv,
       ClaimInv, NothingLost, Promotions, Libraries, SelfReleases, SideEffectFree
  <2> QED BY <2>1, <2>2 DEF IInv
<1> QED BY <1>1 DEF RivalClaims

LEMMA RivalMovesKeeps ==
  ASSUME IInv, RivalMoves
  PROVE  IInv'
<1>0. UNCHANGED <<world, files, arr, claim, original, history>>
  BY DEF RivalMoves
<1>1. ASSUME rival = "open" /\ rival' \in {"changing", "clean"}
      PROVE  IInv'
  <2>1. TypeOK'
    BY <1>0, <1>1 DEF IInv, TypeOK, Promotions, Libraries
  <2>2. (LibraryInv /\ StateInv /\ FilesInv /\ RemovalInv /\ RequestInv /\ ClaimInv /\
        NothingLost)'
    BY <1>0, <1>1, <2>1 DEF IInv, TypeOK, LibraryInv, StateInv, FilesInv, RemovalInv,
       RequestInv, ClaimInv, NothingLost, Promotions, Libraries, SideEffectFree
  <2> QED BY <2>1, <2>2 DEF IInv
<1>2. ASSUME rival = "changing" /\ rival' \in {"dirty", "done"}
      PROVE  IInv'
  <2>1. TypeOK'
    BY <1>0, <1>2 DEF IInv, TypeOK, Promotions, Libraries
  <2>2. (LibraryInv /\ StateInv /\ FilesInv /\ RemovalInv /\ RequestInv /\ ClaimInv /\
        NothingLost)'
    BY <1>0, <1>2, <2>1 DEF IInv, TypeOK, LibraryInv, StateInv, FilesInv, RemovalInv,
       RequestInv, ClaimInv, NothingLost, Promotions, Libraries, SideEffectFree
  <2> QED BY <2>1, <2>2 DEF IInv
<1>3. ASSUME rival = "dirty" /\ rival' = "changing"
      PROVE  IInv'
  <2>1. TypeOK'
    BY <1>0, <1>3 DEF IInv, TypeOK, Promotions, Libraries
  <2>2. (LibraryInv /\ StateInv /\ FilesInv /\ RemovalInv /\ RequestInv /\ ClaimInv /\
        NothingLost)'
    BY <1>0, <1>3, <2>1 DEF IInv, TypeOK, LibraryInv, StateInv, FilesInv, RemovalInv,
       RequestInv, ClaimInv, NothingLost, Promotions, Libraries, SideEffectFree
  <2> QED BY <2>1, <2>2 DEF IInv
<1> QED BY <1>1, <1>2, <1>3 DEF RivalMoves

-----------------------------------------------------------------------------
(* The theorems *)

LEMMA StepKeeps == IInv /\ [Next]_vars => IInv'
<1> SUFFICES ASSUME IInv, [Next]_vars PROVE IInv'
  OBVIOUS
<1>1. CASE UNCHANGED vars
  BY <1>1 DEF vars, IInv, TypeOK, LibraryInv, StateInv, FilesInv, RemovalInv, RequestInv,
     ClaimInv, NothingLost, SideEffectFree
<1>2. CASE Work
  BY <1>2, EnterKeeps, StepFailsKeeps, PreserveKeeps, MakeRecoveryCopyKeeps,
     CopyToPartialKeeps, PublishPartialKeeps, RecordCopyKeeps, ResumeFallbackCopyKeeps,
     MoveAsideKeeps, RenameAsideKeeps, ConfirmAsideKeeps, MoveBackKeeps, RenameBackKeeps,
     FinishMoveBackKeeps, ResumeMoveBackKeeps, PublishKeeps, TakeNameKeeps, PublishedKeeps,
     ImportKeeps, ReconcileImportKeeps, SendImportKeeps, LocalRemoveKeeps, UnlinkKeeps,
     RemovedKeeps, StillAdoptedKeeps, OldRecordReadKeeps, RemoveOldKeeps, RecordDeleteKeeps,
     SendDeleteKeeps, RemoveOrphanKeeps, RenameKeeps, ReconcileRenameKeeps, SendRenameKeeps,
     FinalizeKeeps, DropRecoveryKeeps, FinalizedKeeps DEF Work
<1>3. CASE User
  BY <1>3, RetryKeeps, RetryImportKeeps, CancelKeeps, RestoreKeeps, DiscardKeeps DEF User
<1>4. CASE Library
  BY <1>4, ArrivesimpKeeps, ArrivesrenKeeps, LibraryImportsKeeps, LibraryDeletesKeeps,
     LibraryDropsKeeps, LibraryRenamesKeeps, LibraryPublishesKeeps DEF Library
<1>5. CASE Rival
  BY <1>5, RivalClaimsKeeps, RivalMovesKeeps DEF Rival
<1> QED
  BY <1>1, <1>2, <1>3, <1>4, <1>5, CrashKeeps, DiscardRemovesPARTKeeps,
     DiscardRemovesRECKeeps, DiscardedKeeps, OutsiderKeeps, LibraryReadoptsKeeps DEF Next

\* IInv holds in every state of every promotion.
THEOREM Invariance == Spec => []IInv
<1>1. Init => IInv
  BY InitEstablishes
<1>2. IInv /\ [Next]_vars => IInv'
  BY StepKeeps
<1> QED BY <1>1, <1>2, PTL DEF Spec

\* The variables keep their types.
THEOREM TypeCorrect == Spec => []TypeOK
<1>1. IInv => TypeOK
  BY DEF IInv
<1> QED BY Invariance, <1>1, PTL

\* promote_*.go never loses the original: it is at one of its two paths until
\* the candidate has its place and the recovery may go.
THEOREM OriginalIsKept == Spec => []NothingLost
<1>1. IInv => NothingLost
  BY DEF IInv
<1> QED BY Invariance, <1>1, PTL

\* A same-name replacement that stopped without a file at the library path can
\* be undone by RestoreTranscodeBackup.
THEOREM RestoreIsOffered == Spec => []RestoreOffered
<1>1. IInv => RestoreOffered
  BY DEF IInv, FilesInv, StateInv, RestoreOffered
<1> QED BY Invariance, <1>1, PTL

\* What the episodes, or a replacement under a new name, play exists at every
\* moment, whatever a library readopts: only a readoption that comes when a
\* removal has read the library for the last time can end that.
THEOREM ActiveFileStays == Spec => []ActiveFileThere
<1>1. IInv => ActiveFileThere
  BY DEF IInv, TypeOK, Libraries, FilesInv, ActiveFileThere
<1> QED BY Invariance, <1>1, PTL

\* Two promotions never change one series or destination at a time, whatever
\* crashes and takeovers there are.
THEOREM OneChangerAtATime == Spec => []OneChanger
<1>1. ASSUME IInv, rival \in {"changing", "dirty"}, row # "completed" PROVE Untouched
  <2>1. SideEffectFree
    BY <1>1 DEF IInv, ClaimInv
  <2>2. arr.imp = "none"
    BY <1>1, <2>1 DEF IInv, LibraryInv, SideEffectFree
  <2>3. CASE Fs
    BY <1>1, <2>1, <2>2, <2>3 DEF IInv, FilesInv, SideEffectFree, Untouched
  <2>4. CASE ~Fs
    <3>1. arr.active = "old" /\ ~p.removed
      BY <1>1, <2>1 DEF IInv, TypeOK, Libraries, LibraryInv, SideEffectFree
    <3>2. ~late
      BY <1>1, <2>2 DEF IInv, LibraryInv
    <3> QED BY <1>1, <2>2, <2>4, <3>1, <3>2 DEF IInv, TypeOK, StateInv, FilesInv, Untouched
  <2> QED BY <2>3, <2>4
<1>2. IInv => OneChanger
  BY <1>1 DEF OneChanger
<1> QED BY Invariance, <1>2, PTL

\* No ManualImport is sent while an earlier one may still act.
THEOREM ImportIsSentOnce == Spec => []OneImport
<1>1. IInv => OneImport
  BY DEF IInv, RequestInv, OneImport
<1> QED BY Invariance, <1>1, PTL

\* The DELETE is sent once, with the recovery in place and for an original that
\* no episode used when the library was read for the last time.
THEOREM DeleteIsSentSafely == Spec => []DeleteIsSafe
<1>1. IInv => DeleteIsSafe
  BY DEF IInv, RequestInv, DeleteIsSafe
<1> QED BY Invariance, <1>1, PTL

\* Success means the candidate has its final path and no copy is left.
THEOREM CompletedIsReplaced == Spec => []CompletedReplaces
<1>1. IInv => CompletedReplaces
  BY DEF IInv, TypeOK, RemovalInv, CompletedReplaces
<1> QED BY Invariance, <1>1, PTL

-----------------------------------------------------------------------------
(* The refinement *)

\* A step that neither moves a file nor changes which file is active, nor misses
\* that it did.
Quiet == UNCHANGED <<kind, files, late>> /\ arr'.active = arr.active

LEMMA QuietStutters == ASSUME Quiet PROVE UNCHANGED Abstract!vars
BY DEF Quiet, Abstract!vars

LEMMA SameFilesStutter ==
  ASSUME kind' = kind, files'["LIB"] = files["LIB"], files'["REC"] = files["REC"],
         Replaced' = Replaced
  PROVE  UNCHANGED Abstract!vars
BY DEF Abstract!vars

LEMMA StepsAreQuiet ==
  ASSUME IInv,
         Enter \/ StepFails \/ Crash \/ Preserve \/ RecordCopy \/ ResumeFallbackCopy
            \/ MoveAside \/ ConfirmAside \/ MoveBack \/ FinishMoveBack \/ ResumeMoveBack
  PROVE  Quiet
BY DEF Enter, StepFails, Crash, Preserve, RecordCopy, ResumeFallbackCopy, MoveAside,
       ConfirmAside, MoveBack, FinishMoveBack, ResumeMoveBack, Quiet

LEMMA RequestsAreQuiet ==
  ASSUME IInv,
         Publish \/ Published \/ Import \/ ReconcileImport \/ LocalRemove \/ Removed
            \/ StillAdopted \/ OldRecordRead \/ RemoveOld \/ RecordDelete \/ RemoveOrphan
            \/ Rename \/ ReconcileRename \/ Finalized
  PROVE  Quiet
BY DEF Publish, Published, Import, ReconcileImport, LocalRemove, Removed, StillAdopted,
       OldRecordRead, RemoveOld, RecordDelete, RemoveOrphan, Rename, ReconcileRename, Finalized,
       Quiet

LEMMA UsersAndRivalsAreQuiet ==
  ASSUME IInv,
         Retry \/ Cancel \/ Restore \/ Discard \/ Discarded \/ RivalClaims \/ RivalMoves
  PROVE  Quiet
BY DEF Retry, Cancel, Restore, Discard, Discarded, RivalClaims, RivalMoves, Quiet

LEMMA LibraryIsQuiet ==
  ASSUME IInv,
         SendImport \/ SendRename \/ SendDelete \/ Arrives("imp") \/ Arrives("ren")
            \/ LibraryDrops \/ LibraryPublishes
  PROVE  Quiet
BY DEF SendImport, SendRename, SendDelete, SendCommand, Arrives, LibraryDrops, LibraryPublishes,
       IInv, TypeOK, Libraries, Quiet

LEMMA CandidateFilesStutter ==
  ASSUME IInv,
         MakeRecoveryCopy \/ CopyToPartial \/ Finalize \/ DiscardRemoves("PART")
  PROVE  UNCHANGED Abstract!vars
<1>1. kind' = kind /\ files'["LIB"] = files["LIB"] /\ files'["REC"] = files["REC"]
  BY DEF IInv, TypeOK, MakeRecoveryCopy, CopyToPartial, Finalize, DiscardRemoves
<1>2. Replaced' = Replaced
  BY DEF IInv, TypeOK, MakeRecoveryCopy, CopyToPartial, Finalize, DiscardRemoves
<1> QED BY <1>1, <1>2, SameFilesStutter

\* A retry of the import gives an original back that was readopted too late.
LEMMA RetryImportReadopts ==
  ASSUME IInv, RetryImport PROVE Abstract!Readopt \/ UNCHANGED Abstract!vars
<1>1. /\ ~Fs /\ Holds("LIB", "orig") /\ arr.active = "old" /\ arr'.active = "old" /\ ~late'
      /\ UNCHANGED <<kind, files>>
  BY DEF RetryImport, IInv, TypeOK, Libraries
<1>2. CASE late
  BY <1>1, <1>2 DEF Abstract!Readopt
<1>3. CASE ~late
  BY <1>1, <1>3 DEF Abstract!vars, IInv, TypeOK
<1> QED BY <1>2, <1>3

LEMMA LibraryReadoptsReadopts ==
  ASSUME IInv, LibraryReadopts PROVE Abstract!Readopt \/ UNCHANGED Abstract!vars
<1>1. /\ ~Fs /\ Holds("LIB", "orig") /\ arr.active = "new" /\ arr'.active = "old"
      /\ UNCHANGED <<kind, files>>
  BY DEF LibraryReadopts, IInv, TypeOK, Libraries
<1>2. CASE late'
  BY <1>1, <1>2 DEF Abstract!vars
<1>3. CASE ~late'
  BY <1>1, <1>3 DEF Abstract!Readopt
<1> QED BY <1>2, <1>3

LEMMA PublishPartialCopies == ASSUME IInv, PublishPartial PROVE Abstract!Copy
<1>1. /\ files' = [files EXCEPT !["REC"] = "orig", !["PART"] = "none"]
      /\ Holds("LIB", "orig") /\ ~Holds("REC", "orig") /\ UNCHANGED <<kind, arr, late>>
  BY DEF PublishPartial, IInv, RemovalInv
<1>2. files \in [Paths -> Contents]
  BY DEF IInv, TypeOK
<1>3. OriginalAt = {"library"} /\ OriginalAt' = {"library", "recovery"}
  BY <1>1, <1>2
<1>4. Replaced' = Replaced
  BY <1>1, <1>2
<1> QED BY <1>1, <1>3, <1>4 DEF Abstract!Copy

LEMMA RenameAsideMoves ==
  ASSUME IInv, RenameAside PROVE Abstract!MoveAside \/ UNCHANGED Abstract!vars
<1>0. pc = "renameAside" /\ Free("REC") /\ UNCHANGED <<kind, arr, late>>
  BY DEF RenameAside
<1>1. files \in [Paths -> Contents]
  BY DEF IInv, TypeOK
<1>2. CASE UNCHANGED files
  BY <1>0, <1>2, SameFilesStutter
<1>3. CASE Moves("LIB", "REC") /\ Holds("LIB", "orig")
  <2>1. OriginalAt = {"library"} /\ OriginalAt' = {"recovery"}
    BY <1>0, <1>1, <1>3
  <2>2. Replaced' = Replaced
    BY <1>0, <1>1, <1>3 DEF IInv, RemovalInv
  <2> QED BY <1>0, <2>1, <2>2 DEF Abstract!MoveAside
<1>4. CASE Moves("LIB", "REC") /\ ~Holds("LIB", "orig")
  <2>1. ~Fs
    BY <1>0, <1>4 DEF IInv, RemovalInv
  <2>2. OriginalAt = {} /\ OriginalAt' = {}
    BY <1>0, <1>1, <1>4
  <2>3. Replaced' = Replaced
    BY <1>0, <2>1
  <2> QED BY <1>0, <2>2, <2>3 DEF Abstract!vars
<1> QED BY <1>2, <1>3, <1>4 DEF RenameAside

LEMMA RenameBackMoves ==
  ASSUME IInv, RenameBack PROVE Abstract!MoveBack \/ UNCHANGED Abstract!vars
<1>0. pc = "renameBack" /\ UNCHANGED <<kind, arr, late>>
  BY DEF RenameBack
<1>1. files \in [Paths -> Contents] /\ Fs /\ Same /\ Holds("REC", "orig")
  BY <1>0 DEF IInv, TypeOK, RemovalInv
<1>2. CASE UNCHANGED files
  BY <1>0, <1>2, SameFilesStutter
<1>3. CASE Free("LIB") /\ Moves("REC", "LIB")
  <2>1. OriginalAt = {"recovery"} /\ OriginalAt' = {"library"}
    BY <1>1, <1>3
  <2>2. ~Replaced /\ ~Replaced'
    BY <1>0, <1>1, <1>3 DEF IInv, LibraryInv
  <2> QED BY <1>0, <2>1, <2>2 DEF Abstract!MoveBack
<1> QED BY <1>2, <1>3 DEF RenameBack

LEMMA TakeNamePlaces == ASSUME IInv, TakeName PROVE Abstract!Place
<1>1. /\ Fs /\ p.started /\ step = "import" /\ UNCHANGED <<kind, arr, late>>
      /\ Holds("CAND", "cand") /\ Moves("CAND", FinalPath)
      /\ IF Same /\ ~MovesAside THEN Holds("LIB", "orig") /\ Holds("REC", "orig")
                                ELSE Free(FinalPath)
  BY DEF TakeName, IInv, RemovalInv
<1>2. files \in [Paths -> Contents]
  BY DEF IInv, TypeOK
<1>3. ~Replaced /\ Replaced'
  BY <1>1, <1>2 DEF IInv, LibraryInv
<1>4. CASE Same /\ ~MovesAside
  <2>1. "recovery" \in OriginalAt /\ OriginalAt' = OriginalAt \ {"library"}
    BY <1>1, <1>2, <1>4
  <2> QED BY <1>1, <1>3, <2>1 DEF Abstract!Place
<1>5. CASE ~(Same /\ ~MovesAside)
  <2>1. OriginalAt' = OriginalAt
    BY <1>1, <1>2, <1>5
  <2> QED BY <1>1, <1>3, <2>1 DEF Abstract!Place
<1> QED BY <1>4, <1>5

LEMMA UnlinkRemoves == ASSUME IInv, Unlink PROVE Abstract!RemoveOriginal
<1>1. /\ Replaced /\ Holds("REC", "orig") /\ UNCHANGED <<kind, arr, late>>
      /\ Fs => ~Same
      /\ Puts("LIB", "empty") \/ Puts("LIB", "none")
  BY DEF Unlink, IInv, RemovalInv
<1>2. files \in [Paths -> Contents]
  BY DEF IInv, TypeOK
<1>3. "recovery" \in OriginalAt /\ OriginalAt' = OriginalAt \ {"library"}
  BY <1>1, <1>2
<1>4. Replaced' = Replaced
  BY <1>1, <1>2
<1> QED BY <1>1, <1>3, <1>4 DEF Abstract!RemoveOriginal

LEMMA DropRecoveryDrops == ASSUME IInv, DropRecovery PROVE Abstract!DropRecovery
<1>1. Replaced /\ UNCHANGED <<kind, arr, late>> /\ (Puts("REC", "empty") \/ Puts("REC", "none"))
  BY DEF DropRecovery, IInv, RemovalInv, FilesInv
<1>2. files \in [Paths -> Contents]
  BY DEF IInv, TypeOK
<1>3. OriginalAt' = OriginalAt \ {"recovery"}
  BY <1>1, <1>2
<1>4. Replaced' = Replaced
  BY <1>1, <1>2
<1> QED BY <1>1, <1>3, <1>4 DEF Abstract!DropRecovery

LEMMA DiscardDrops == ASSUME IInv, DiscardRemoves("REC") PROVE Abstract!DropRecovery
<1>1. /\ ~OnlyOriginal /\ UNCHANGED <<kind, p, arr, late>>
      /\ Puts("REC", "none") \/ Puts("REC", "empty")
  BY DEF DiscardRemoves
<1>2. files \in [Paths -> Contents]
  BY DEF IInv, TypeOK
<1>3. OriginalAt' = OriginalAt \ {"recovery"}
  BY <1>1, <1>2
<1>4. Replaced' = Replaced
  BY <1>1, <1>2
<1>5. Replaced \/ Holds("LIB", "orig")
  <2>1. Holds("LIB", "orig") \/ p.moved \/ p.moving \/ Replaced
    BY DEF IInv, FilesInv
  <2>2. CASE p.moved \/ p.moving
    <3>1. PICK path \in {"LIB"} \cup NewPaths : Holds(path, "cand")
      BY <1>1, <2>2 DEF OnlyOriginal
    <3> QED BY <3>1 DEF IInv, TypeOK, Libraries, LibraryInv, FilesInv, NewPaths, FileOf
  <2> QED BY <2>1, <2>2
<1> QED BY <1>1, <1>3, <1>4, <1>5 DEF Abstract!DropRecovery

LEMMA OutsiderStutters == ASSUME IInv, Outsider PROVE UNCHANGED Abstract!vars
<1>1. PICK path \in {"LIB", FinalPath} : Free(path) /\ Puts(path, "alien")
  BY DEF Outsider
<1>2. files \in [Paths -> Contents] /\ UNCHANGED <<kind, arr, late>>
  BY DEF Outsider, IInv, TypeOK
<1>3. OriginalAt' = OriginalAt
  BY <1>1, <1>2
<1>4. Replaced' = Replaced
  BY <1>1, <1>2
<1> QED BY <1>2, <1>3, <1>4 DEF Abstract!vars

LEMMA LibraryImportsPlaces ==
  ASSUME IInv, LibraryImports PROVE Abstract!Place \/ UNCHANGED Abstract!vars
<1>1. /\ ~Fs /\ ~Replaced /\ UNCHANGED <<kind, late>>
      /\ arr \in Libraries /\ files \in [Paths -> Contents]
  BY DEF LibraryImports, IInv, TypeOK, Libraries, LibraryInv
<1>2. CASE arr'.active = arr.active /\ UNCHANGED files
  BY <1>1, <1>2, QuietStutters DEF Quiet
<1>3. CASE arr'.active = "new" /\ (Puts("LIB", "none") \/ UNCHANGED files)
  <2>1. Replaced'
    BY <1>1, <1>3
  <2>2. OriginalAt' = OriginalAt \/ OriginalAt' = OriginalAt \ {"library"}
    BY <1>1, <1>3
  <2> QED BY <1>1, <2>1, <2>2 DEF Abstract!Place
<1> QED BY <1>1, <1>2, <1>3 DEF LibraryImports, Libraries

LEMMA LibraryDeletesRemoves ==
  ASSUME IInv, LibraryDeletes PROVE Abstract!RemoveOriginal \/ UNCHANGED Abstract!vars
<1>1. /\ ~Fs /\ Replaced /\ UNCHANGED <<kind, late>> /\ arr'.active = arr.active
      /\ files \in [Paths -> Contents]
      /\ Puts("LIB", "none") \/ UNCHANGED files
  BY DEF LibraryDeletes, IInv, TypeOK, Libraries, LibraryInv
<1>2. CASE UNCHANGED files
  BY <1>1, <1>2, QuietStutters DEF Quiet
<1>3. CASE Puts("LIB", "none")
  <2>1. OriginalAt' = OriginalAt \ {"library"}
    BY <1>1, <1>3
  <2>2. Replaced' = Replaced
    BY <1>1
  <2> QED BY <1>1, <2>1, <2>2 DEF Abstract!RemoveOriginal
<1> QED BY <1>1, <1>2, <1>3

LEMMA LibraryRenamesStutters == ASSUME IInv, LibraryRenames PROVE UNCHANGED Abstract!vars
<1>1. ~Fs /\ files \in [Paths -> Contents] /\ arr \in Libraries
  BY DEF LibraryRenames, IInv, TypeOK, LibraryInv
<1>2. UNCHANGED <<kind, late>> /\ arr'.active = arr.active
  BY <1>1 DEF LibraryRenames, Libraries
<1>3. \/ UNCHANGED files
      \/ Free(FinalPath) /\ Holds("CAND", "cand") /\ Moves("CAND", FinalPath)
      \/ Free(FinalPath) /\ Puts(FinalPath, "cand")
  BY DEF LibraryRenames
<1>4. OriginalAt' = OriginalAt
  BY <1>1, <1>3
<1> QED BY <1>1, <1>2, <1>4 DEF Abstract!vars

LEMMA StepImplements == IInv /\ [Next]_vars => [Abstract!Next]_(Abstract!vars)
<1> SUFFICES ASSUME IInv, [Next]_vars PROVE Abstract!Next \/ UNCHANGED Abstract!vars
  OBVIOUS
<1>1. CASE UNCHANGED vars
  BY <1>1, QuietStutters DEF vars, Quiet
<1>2. CASE Work
  <2>1. CASE Quiet
    BY <2>1, QuietStutters
  <2>2. CASE ~Quiet
    <3>1. \/ MakeRecoveryCopy \/ CopyToPartial \/ Finalize
          \/ PublishPartial \/ RenameAside \/ RenameBack \/ TakeName \/ Unlink \/ DropRecovery
      BY <1>2, <2>2, StepsAreQuiet, RequestsAreQuiet, LibraryIsQuiet DEF Work
    <3> QED BY <3>1, CandidateFilesStutter, PublishPartialCopies, RenameAsideMoves,
               RenameBackMoves, TakeNamePlaces, UnlinkRemoves, DropRecoveryDrops
            DEF Abstract!Next
  <2> QED BY <2>1, <2>2
<1>3. CASE Library
  BY <1>3, LibraryIsQuiet, QuietStutters, LibraryImportsPlaces, LibraryDeletesRemoves,
     LibraryRenamesStutters DEF Library, Abstract!Next
<1>4. CASE Crash \/ User \/ Discarded \/ Rival
  BY <1>4, StepsAreQuiet, UsersAndRivalsAreQuiet, QuietStutters, RetryImportReadopts
     DEF User, Rival, Abstract!Next
<1>5. CASE DiscardRemoves("PART") \/ DiscardRemoves("REC") \/ Outsider \/ LibraryReadopts
  BY <1>5, CandidateFilesStutter, DiscardDrops, OutsiderStutters, LibraryReadoptsReadopts
     DEF Abstract!Next
<1> QED BY <1>1, <1>2, <1>3, <1>4, <1>5 DEF Next

\* A promotion implements Replacement: the original leaves its library path only
\* for its recovery path or because the library takes it, and the candidate
\* loses its place only to an original that a library readopts.
THEOREM Implementation == Spec => ImplementsReplacement
<1>1. Init => Abstract!Init
  BY DEF Init, Abstract!Init
<1>2. IInv /\ [Next]_vars => [Abstract!Next]_(Abstract!vars)
  BY StepImplements
<1> QED BY <1>1, <1>2, Invariance, PTL DEF Spec, Abstract!Spec, ImplementsReplacement

\* What the abstract replacement promises, a promotion keeps: the original leaves
\* only for its recovery or for a candidate that the library plays, its last copy
\* goes only when the candidate has its place, and that place is lost only to an
\* original that is whole at its library path.
THEOREM PromotionIsSafe == Spec => Abstract!ReplacesSafely
<1> DEFINE Safely ==
        /\ "library" \in OriginalAt \ OriginalAt'
              => "recovery" \in OriginalAt' \/ (~Fs /\ Replaced')
        /\ OriginalAt # {} /\ OriginalAt' = {} => Replaced'
        /\ Replaced /\ ~Replaced' => ~Fs /\ "library" \in OriginalAt'
<1>1. [Abstract!Next]_(Abstract!vars) => [Safely]_(Abstract!vars)
  BY DEF Abstract!Next, Abstract!vars, Abstract!Copy, Abstract!MoveAside, Abstract!MoveBack,
     Abstract!Place, Abstract!Readopt, Abstract!RemoveOriginal, Abstract!DropRecovery
<1> QED
  BY <1>1, Implementation, PTL DEF ImplementsReplacement, Abstract!Spec, Abstract!ReplacesSafely

-----------------------------------------------------------------------------
(* What a step may never do *)

LEMMA LibraryIsNotAsked == ASSUME IInv, Library, Fs PROVE UNCHANGED files
BY DEF Library, Arrives, LibraryImports, LibraryDeletes, LibraryDrops, LibraryRenames,
       LibraryPublishes, IInv, LibraryInv

LEMMA ForeignFileStays ==
  ASSUME IInv, [Next]_vars, Fs, NEW path \in Paths, Holds(path, "alien")
  PROVE  files'[path] = "alien"
<1>1. /\ files \in [Paths -> Contents]
      /\ path \notin {"CAND", "PART", "REC"}
  BY DEF IInv, TypeOK, FilesInv
<1>2. CASE UNCHANGED files
  BY <1>2
<1>3. CASE MakeRecoveryCopy \/ CopyToPartial \/ PublishPartial
  BY <1>1, <1>3 DEF MakeRecoveryCopy, CopyToPartial, PublishPartial
<1>4. CASE RenameAside
  BY <1>1, <1>4 DEF RenameAside, IInv, RemovalInv
<1>5. CASE RenameBack
  BY <1>1, <1>5 DEF RenameBack
<1>6. CASE TakeName
  BY <1>1, <1>6 DEF TakeName
<1>7. CASE Unlink \/ DropRecovery
  BY <1>1, <1>7 DEF Unlink, DropRecovery
<1>8. CASE DiscardRemoves("PART") \/ DiscardRemoves("REC") \/ Outsider
  BY <1>1, <1>8 DEF DiscardRemoves, Outsider
<1>9. CASE Finalize
  BY <1>1, <1>9 DEF Finalize
<1>10. CASE Library
  BY <1>10, LibraryIsNotAsked, <1>2
<1>11. CASE Quiet
  BY <1>11 DEF Quiet
<1> QED
  <2>1. CASE UNCHANGED vars
    BY <2>1, <1>2 DEF vars
  <2>2. CASE Work
    BY <2>2, <1>3, <1>4, <1>5, <1>6, <1>7, <1>9, <1>11, StepsAreQuiet, RequestsAreQuiet,
       LibraryIsQuiet DEF Work
  <2>3. CASE Crash \/ User \/ Discarded \/ Rival
    BY <2>3, <1>2, <1>11, StepsAreQuiet, UsersAndRivalsAreQuiet DEF Rival, User, RetryImport
  <2>4. CASE LibraryReadopts
    BY <2>4 DEF LibraryReadopts
  <2> QED BY <2>1, <2>2, <2>3, <2>4, <1>8, <1>10 DEF Next

\* A file of somebody else is neither replaced nor removed.
THEOREM ForeignFilesAreKept == Spec => ForeignFilesKept
<1>1. IInv /\ [Next]_vars
        => [Fs => \A path \in Paths : Holds(path, "alien") => files'[path] = "alien"]_vars
  BY ForeignFileStays
<1> QED BY <1>1, Invariance, PTL DEF Spec, ForeignFilesKept

LEMMA PublishStops ==
  ASSUME IInv, Next, pc # "idle", row = "open", row' = "failed", step = "import", Fs, Same,
         files'["LIB"] = "none"
  PROVE  pc \in MovingBack /\ (p.moved \/ p.moving)' /\ Holds("REC", "orig")'
<1>1. StepFails \/ MoveBack \/ RenameBack \/ FinishMoveBack
  <2>1. CASE Work
    <3>1. ~(Enter \/ Preserve \/ MakeRecoveryCopy \/ CopyToPartial \/ PublishPartial \/ RecordCopy
              \/ ResumeFallbackCopy \/ MoveAside \/ RenameAside \/ ConfirmAside \/ ResumeMoveBack)
      BY DEF Enter, Preserve, MakeRecoveryCopy, CopyToPartial, PublishPartial, RecordCopy,
         ResumeFallbackCopy, MoveAside, RenameAside, ConfirmAside, ResumeMoveBack
    <3>2. ~(Publish \/ TakeName \/ Published \/ Import \/ ReconcileImport \/ SendImport
              \/ LocalRemove \/ Unlink \/ Removed \/ StillAdopted \/ OldRecordRead)
      BY DEF Publish, TakeName, Published, Import, ReconcileImport, SendImport, LocalRemove,
         Unlink, Removed, StillAdopted, OldRecordRead, SendCommand
    <3>3. ~(RemoveOld \/ RecordDelete \/ SendDelete \/ RemoveOrphan \/ Rename \/ ReconcileRename
              \/ SendRename \/ Finalize \/ DropRecovery \/ Finalized)
      BY DEF RemoveOld, RecordDelete, SendDelete, RemoveOrphan, Rename, ReconcileRename,
         SendRename, Finalize, DropRecovery, Finalized, SendCommand
    <3> QED BY <2>1, <3>1, <3>2, <3>3 DEF Work
  <2>2. CASE Library \/ LibraryReadopts \/ Outsider \/ Rival
    BY <2>2 DEF Library, Arrives, LibraryImports, LibraryDeletes, LibraryDrops, LibraryRenames,
       LibraryPublishes, LibraryReadopts, Outsider, Rival, RivalClaims, RivalMoves
  <2>3. CASE Crash \/ User \/ DiscardRemoves("PART") \/ DiscardRemoves("REC") \/ Discarded
    BY <2>3 DEF Crash, User, Retry, RetryImport, Cancel, Restore, Discard, DiscardRemoves, Discarded
  <2> QED BY <2>1, <2>2, <2>3 DEF Next
<1>2. Free("LIB") => (p.moved \/ p.moving) /\ MovesAside /\ Holds("REC", "orig") /\ ~p.published
  BY DEF IInv, FilesInv, StateInv
<1>3. files \in [Paths -> Contents] /\ p \in Promotions
  BY DEF IInv, TypeOK
<1>4. CASE StepFails
  BY <1>2, <1>4 DEF StepFails, MustMoveBack
<1>5. CASE MoveBack
  BY <1>2, <1>3, <1>5 DEF MoveBack, Promotions
<1>6. CASE RenameBack
  BY <1>2, <1>3, <1>6 DEF RenameBack, Promotions
<1>7. CASE FinishMoveBack
  BY <1>2, <1>3, <1>7 DEF FinishMoveBack
<1> QED BY <1>1, <1>4, <1>5, <1>6, <1>7

\* A publish that reports failure with nothing at the library path has tried to
\* move the original back, and leaves it whole at the recovery path.
THEOREM StopsTryToMoveBack == Spec => StopTriesToMoveBack
<1>1. IInv /\ [Next]_vars
        => [pc # "idle" /\ row = "open" /\ row' = "failed" /\ step = "import" /\ Fs /\ Same
              /\ files'["LIB"] = "none"
              => pc \in MovingBack /\ (p.moved \/ p.moving)' /\ Holds("REC", "orig")']_vars
  BY PublishStops
<1> QED BY <1>1, Invariance, PTL DEF Spec, StopTriesToMoveBack

=============================================================================
