-------------------------- MODULE MCOutsideReview --------------------------
(***************************************************************************)
(* OutsideReview for TLC.                                                  *)
(***************************************************************************)
EXTENDS OutsideReview

CONSTANTS r1, r2
=============================================================================
