------------------------- MODULE MCReviewDelegate -------------------------
(* Two runs over the same two parts, and two states of the work tree.        *)
EXTENDS ReviewDelegate
CONSTANTS r1, r2, testing, performance, t1, t2
===========================================================================
