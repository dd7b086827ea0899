---------------------------- MODULE MCPromotion ----------------------------
(* Instances of Promotion for TLC. *)
EXTENDS Promotion

AllKinds == [service: {"filesystem", "library"}, same: BOOLEAN]

=============================================================================
