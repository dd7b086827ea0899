---------------------------- MODULE Replacement ----------------------------
(***************************************************************************)
(* What a promotion promises, whatever fails on the way: the bytes of the  *)
(* original are at its library path or at its recovery path until the      *)
(* candidate has its place, they leave the library path only when they are *)
(* at the recovery path (or the library itself takes them), and the        *)
(* candidate loses its place only to an original that is whole at its      *)
(* library path, which a library can take back.                            *)
(***************************************************************************)

VARIABLES
    kept,       \* where the original's bytes are
    placed,     \* the candidate is what the library path or the library gives, for
                \* all that can be known before the original is removed
    byLibrary   \* a library, not the promotion, owns the name

vars == <<kept, placed, byLibrary>>

Init == kept = {"library"} /\ placed = FALSE /\ byLibrary \in BOOLEAN

Copy ==
    /\ kept = {"library"} /\ kept' = {"library", "recovery"}
    /\ UNCHANGED <<placed, byLibrary>>

MoveAside ==
    /\ kept = {"library"} /\ kept' = {"recovery"}
    /\ UNCHANGED <<placed, byLibrary>>

MoveBack ==
    /\ kept = {"recovery"} /\ ~placed /\ kept' = {"library"}
    /\ UNCHANGED <<placed, byLibrary>>

Place ==
    /\ ~placed /\ placed'
    /\ \/ kept' = kept
       \/ ("recovery" \in kept \/ byLibrary) /\ kept' = kept \ {"library"}
    /\ UNCHANGED byLibrary

Readopt ==
    /\ byLibrary /\ placed /\ "library" \in kept
    /\ ~placed'
    /\ UNCHANGED <<kept, byLibrary>>

RemoveOriginal ==
    /\ placed /\ ("recovery" \in kept \/ byLibrary)
    /\ kept' = kept \ {"library"}
    /\ UNCHANGED <<placed, byLibrary>>

DropRecovery ==
    /\ placed \/ "library" \in kept
    /\ kept' = kept \ {"recovery"}
    /\ UNCHANGED <<placed, byLibrary>>

Next ==
    \/ Copy \/ MoveAside \/ MoveBack \/ Place \/ Readopt
    \/ RemoveOriginal \/ DropRecovery

Spec == Init /\ [][Next]_vars

\* So the original leaves the library path for its recovery path, or because the
\* library plays the candidate; its last copy goes only when the candidate has
\* its place; and that place is lost only where the original stands ready.
ReplacesSafely ==
    [][ /\ "library" \in kept \ kept' => "recovery" \in kept' \/ (byLibrary /\ placed')
        /\ kept # {} /\ kept' = {} => placed'
        /\ placed /\ ~placed' => byLibrary /\ "library" \in kept' ]_vars

=============================================================================
