------------------------- MODULE MCMergeGateStore -------------------------
(* Three calls, one decision id and one evidence id; calls are interchangeable. *)
EXTENDS MergeGateStore, TLC

CONSTANTS c1, c2, c3, k1, e1

CallSymmetry == Permutations(Calls)
===========================================================================
