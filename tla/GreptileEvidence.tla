--------------------------- MODULE GreptileEvidence ---------------------------
(***************************************************************************)
(* One PR observed again and again: between two observations somebody      *)
(* writes a receipt, Greptile reports a run, a branch moves, or a          *)
(* collector fails, and each time the whole of decideGreptileLifecycle     *)
(* (src/greptile-lifecycle/decide.ts) decides anew.  The properties read   *)
(* the raw evidence, not what the rows made of it.                         *)
(***************************************************************************)
EXTENDS GreptileRules

CONSTANTS
    Observations,   \* what the first observation may be
    Evidences,      \* family |-> the values it may take later
    Contents,       \* what a receipt may say
    Writers,        \* [author, editors] of a receipt
    Lineages,       \* commits a receipt may be recorded for
    MaxChanges      \* bound on what happens after the first observation

\* An observation has these facts; ids and times are numbers, and what is listed ends.
\* Receipts are written one by one.
Facts == {"now", "observed", "created", "account", "actors", "session", "obs", "pr", "base", "head", "state", "draft"}
Listing(f, value) ==
    /\ f = "comments" => \A c \in value : c.id \in Nat
    /\ f = "journal" => IsFiniteSet(value) /\ \A j \in value : j.res \in Nat
ObservationOk(o) ==
    /\ o = [k \in Facts \cup Families |-> o[k]] /\ o.created \in Nat /\ o.observed \in Nat
    /\ \A f \in Families :
          /\ o[f] = [k \in {"state", "at", "pr", "head", "value"} |-> o[f][k]]
          /\ IsKnown(o, f) => Listing(f, o[f].value)
ASSUME InputsAssumption ==
    /\ \A o \in Observations : ObservationOk(o)
    /\ \A f \in DOMAIN Evidences : f \in Families \ {"receipts"} /\ \A value \in Evidences[f] : Listing(f, value)

VARIABLES
    obs,        \* the latest observation
    verdict,    \* what was decided on it
    changes     \* how much has happened

vars == <<obs, verdict, changes>>

Observed(o) == obs' = o /\ verdict' = DecideGreptileLifecycle(o) /\ changes' = changes + 1

Init ==
    /\ obs \in Observations
    /\ verdict = DecideGreptileLifecycle(obs)
    /\ changes = 0

\* A family is collected and says something else.
Collect(f) == \E value \in Evidences[f] : Observed([obs EXCEPT ![f].state = "known", ![f].value = value])

CollectFails(f) ==
    \E state \in {"failed", "incomplete"} : IsKnown(obs, f) /\ Observed([obs EXCEPT ![f].state = state])

\* Anyone who can edit the PR writes one, also under the running account's name.
WriteReceipt ==
    \E content \in Contents, writer \in Writers, head \in Lineages :
        /\ \A r \in obs.receipts.value : r.id # content.id
        /\ \E receipt \in {Extended(content, Extended(writer, [pr |-> obs.pr, head |-> head]))} :
              Observed([obs EXCEPT !.receipts.value = @ \cup {receipt}])

Prepared == obs.draft /\ Observed([obs EXCEPT !.draft = FALSE])
Closed == obs.state = "OPEN" /\ Observed([obs EXCEPT !.state = "MERGED"])

Next ==
    /\ changes < MaxChanges
    /\ \/ \E f \in DOMAIN Evidences : Collect(f)
       \/ \E f \in Families : CollectFails(f)
       \/ WriteReceipt
       \/ Prepared
       \/ Closed

Spec == Init /\ [][Next]_vars

-----------------------------------------------------------------------------
(* Properties.                                                             *)

Asking == {"trigger", "record-reservation"}
Opening == {"ready-eligible", "already-prepared"}
RunsReported == {r \in SetOf(obs, "runs") : r.actor \in obs.actors \/ r.reporter = "greptile-mcp"}
Ours == {c \in SetOf(obs, "comments") : c.author = obs.account}

ProvenNothingSent(id) ==
    \E x \in SetOf(obs, "subs") : x.res = id /\ x.outcome = "not-submitted" /\ x.proof

Unsent ==
    UNION {{History!Ref("submission", x.id), History!Ref("comment", x.res)} :
               x \in {y \in SetOf(obs, "subs") : y.outcome = "not-submitted" /\ y.proof}}

\* Greptile is asked (R13) only if every history was read and none of them, no receipt whoever
\* wrote it, and no row of findings shows that it ever was: of this account's comments there
\* are only reservations, one that is to be used stands first, and the others are proven
\* unused or did nothing after it.  An answer may name a request that is proven unsent.
TriggerNeedsSilence ==
    verdict.rule \in Asking =>
        /\ \A f \in {"comments", "subs", "runs", "receipts", "gates"} : IsKnown(obs, f)
        /\ RunsReported = {} /\ Gates(obs).findings = {}
        /\ \A x \in obs.subs.value : x.outcome = "not-submitted" /\ x.proof
        /\ \A c \in Ours : c.kind = "reservation" /\ ~c.calls
        /\ \A r \in obs.receipts.value : \A d \in r.decisions : d.run = None /\ d.request \in {None} \cup Unsent
        /\ \A c \in Ours :
              \/ ProvenNothingSent(c.id)
              \/ verdict.rule = "trigger" /\ \E j \in SetOf(obs, "journal") :
                    /\ j.session = obs.session /\ j.obs = obs.obs /\ j.phase = "confirmed-unattempted"
                    /\ j.res = c.id \/ j.resAt <= c.at

\* Once something consumed the allowance - a run, a request, a record of one that is not proven
\* unsent - a draft is called ready only if that starts no second review, and a PR that is
\* ready already is called prepared only if a push starts none.
NoSecondReview ==
    LET shown == \/ RunsReported # {}
                 \/ \E x \in SetOf(obs, "subs") : x.outcome # "not-submitted" \/ ~x.proof
                 \/ \E c \in Ours : c.kind = "trigger"
                 \/ \E r \in SetOf(obs, "receipts") : \E ref \in r.refs : ref.kind = "run"
        detection == DetectReadyTrigger(Config(obs))
    IN /\ verdict.rule = "ready-eligible" /\ shown => detection.kind = "excluded"
       /\ verdict.rule = "already-prepared" /\ shown => detection.kind = "excluded" \/ detection.pushRebaseExcluded

\* Only this account wrote it, and its commit is the head or shown to be in the branch.
WrittenHere(o, r) ==
    /\ r.author = o.account /\ r.editors \subseteq {o.account}
    /\ \/ r.head = o.head
       \/ \E c \in SetOf(o, "ancestry") : c.ancestor = r.head /\ c.descendant = o.head /\ c.result = "ancestor"

\* What any other receipt may bring about.
Restricts(r) == WrittenHere(obs', r) \/ verdict' = verdict \/ verdict'.rule \notin Asking \cup Opening

\* It says that there is a request or a run.
Names(r) == r.refs # {} \/ \E d \in r.decisions : d.run # None \/ d.request # None \/ d.grant # None

\* A receipt that somebody else wrote or edited, or that no verified history puts in the branch,
\* can stop the PR but never opens it: whatever it says, no request and no readiness follows
\* from it that did not stand before.  One that names a request or a run changes what there is
\* to ask, and an answer to stay draft holds only while its question does; but even then a review
\* is asked for only where the question was whether to skip one that cannot come.
UntrustedOnlyRestricts ==
    [][ \A r \in obs'.receipts.value \ obs.receipts.value :
          Restricts(r) \/ (Names(r) /\ (verdict'.rule \in Asking => SkipAck(Config(obs)) # None)) ]_vars

\* What decide.ts:1433 says: the requests and runs that receipts and answers name are
\* restrictive evidence, also from untrusted records.  They also take away the questions they
\* change (is a review that cannot come to be skipped? may the PR get ready while none was asked
\* for?), with the answers that hold the PR, and what comes after these may go ahead.
RecordedAnswersRestrict == [][ \A r \in obs'.receipts.value \ obs.receipts.value : Restricts(r) ]_vars
=============================================================================
