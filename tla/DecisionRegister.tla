------------------------- MODULE DecisionRegister -------------------------
(***************************************************************************)
(* What the merge gate promises about one decision id, without files, a    *)
(* log or calls in progress.  A key's first recorded verdict is            *)
(* authoritative: docs/merge-gate.md, "The first recorded verdict for a    *)
(* repository, pull request number, and id is authoritative".              *)
(*                                                                         *)
(* A record is tentative while only the page cache holds it and final once *)
(* the directory is synced.  A power loss may forget a tentative record    *)
(* and never a final one.  The call that made the record answers "this is  *)
(* mine" only when it is final; every other answer repeats what the        *)
(* register holds and is marked idempotent.                                *)
(***************************************************************************)
CONSTANTS Calls, Keys, Verdict, None

VARIABLES
    reg,      \* reg[k]: what key k holds and how firmly
    answers   \* answers[c]: the answer call c gave, or None

vars == <<reg, answers>>

Empty == [status |-> "empty", verdict |-> None]

RegType ==
    [Keys -> {Empty} \cup [status : {"tentative", "final"}, verdict : Verdict]]

Answer == [key : Keys, verdict : Verdict, original : BOOLEAN]

TypeOK ==
    /\ reg \in RegType
    /\ answers \in [Calls -> Answer \cup {None}]

Init ==
    /\ reg = [k \in Keys |-> Empty]
    /\ answers = [c \in Calls |-> None]

\* The first verdict for k is recorded; a key that holds one keeps it.
Record(k, v) ==
    /\ reg[k] = Empty
    /\ reg' = [reg EXCEPT ![k] = [status |-> "tentative", verdict |-> v]]
    /\ UNCHANGED answers

\* Tentative records become final or are forgotten; the others stay as they are.
Settle ==
    /\ reg' # reg
    /\ \A k \in Keys :
          \/ reg'[k] = reg[k]
          \/ /\ reg[k].status = "tentative"
             /\ reg'[k] \in {Empty, [status |-> "final", verdict |-> reg[k].verdict]}
    /\ reg' \in RegType
    /\ UNCHANGED answers

\* c answers with what k holds; it may claim the record only when that is final.
Reply(c, k, original) ==
    /\ answers[c] = None
    /\ reg[k] # Empty
    /\ original => reg[k].status = "final"
    /\ original => \A d \in Calls : answers[d] # None =>
                      ~(answers[d].key = k /\ answers[d].original)
    /\ answers' = [answers EXCEPT ![c] =
                      [key |-> k, verdict |-> reg[k].verdict, original |-> original]]
    /\ UNCHANGED reg

Next ==
    \/ \E k \in Keys, v \in Verdict : Record(k, v)
    \/ Settle
    \/ \E c \in Calls, k \in Keys, original \in BOOLEAN : Reply(c, k, original)

Spec == Init /\ [][Next]_vars
===========================================================================
