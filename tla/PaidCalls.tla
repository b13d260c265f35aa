----------------------------- MODULE PaidCalls -----------------------------
(***************************************************************************)
(* What both paid-call directories promise, without files or processes:    *)
(* docs/delegated-review.md ("The call") and docs/outside-review.md        *)
(* ("Recovery and storage").                                               *)
(*                                                                         *)
(* A call is claimed, then sent at most once in its life, and then settled *)
(* at most once: credited, spent without credit, or discarded because the  *)
(* work tree changed.  A run reports on calls when it ends.  It may always *)
(* say that the host has to do the work; it may say anything else of a     *)
(* call only if that is how the call was settled, by whichever run sent it.*)
(***************************************************************************)
EXTENDS Naturals

CONSTANTS Runs, Ids, None

VARIABLES
    claimed,    \* calls somebody has taken on
    sent,       \* sent[i]: how often call i went to the provider
    verdict,    \* verdict[i]: how call i was settled, or None
    reports     \* reports[r]: what run r said of each call, or None

vars == <<claimed, sent, verdict, reports>>

Settled == {"credited", "spent", "discarded"}
Report == [Ids -> Settled \cup {"host"}]

Init ==
    /\ claimed = {}
    /\ sent = [i \in Ids |-> 0]
    /\ verdict = [i \in Ids |-> None]
    /\ reports = [r \in Runs |-> None]

\* One run at most takes a call on; nobody ever gives it back.
Claim(i) ==
    /\ i \notin claimed
    /\ claimed' = claimed \cup {i}
    /\ UNCHANGED <<sent, verdict, reports>>

Send(i) ==
    /\ i \in claimed
    /\ sent[i] = 0 /\ verdict[i] = None
    /\ sent' = [sent EXCEPT ![i] = 1]
    /\ UNCHANGED <<claimed, verdict, reports>>

\* The run that claimed the calls in S settles them together.  A call that could not be
\* sent is settled as well, and never credited.
Settle(S) ==
    /\ S \subseteq claimed
    /\ \A i \in S : verdict[i] = None
    /\ \E v \in [S -> Settled] :
          /\ \A i \in S : v[i] = "credited" => sent[i] = 1
          /\ verdict' = [i \in Ids |-> IF i \in S THEN v[i] ELSE verdict[i]]
    /\ UNCHANGED <<claimed, sent, reports>>

Tell(r, report) ==
    /\ reports[r] = None
    /\ \A i \in Ids : report[i] \in {"host", verdict[i]}
    /\ reports' = [reports EXCEPT ![r] = report]
    /\ UNCHANGED <<claimed, sent, verdict>>

Next ==
    \/ \E i \in Ids : Claim(i) \/ Send(i)
    \/ \E S \in SUBSET Ids : Settle(S)
    \/ \E r \in Runs, report \in Report : Tell(r, report)

Spec == Init /\ [][Next]_vars
=============================================================================
