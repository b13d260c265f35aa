---------------------------- MODULE GreptileRules ----------------------------
(***************************************************************************)
(* decideGreptileLifecycle of src/greptile-lifecycle/decide.ts: the rows   *)
(* R01 to R14 in their order, from one observation to the rule that fires. *)
(***************************************************************************)
EXTENDS GreptileFacts

-----------------------------------------------------------------------------
(* R04: restrictions and stay-draft answers.                               *)

Restrictions(o) ==
    UNION {{[id |-> x.id, kind |-> x.kind, at |-> r.at] : x \in r.restrictions} : r \in SetOf(o, "receipts")}
LiftedBy(receipts, x) == \E r \in receipts : x.id \in r.resolutions /\ r.at > x.at

\* They bind whoever wrote them; a later receipt lifts one only if it can be trusted.
Unresolved(o) == {x \in Restrictions(o) : ~LiftedBy(TrustedReceipts(o), x)}

\* Lifted, if only the receipt's commit were known to be in the branch.
LineageOnly(o) == {r \in SetOf(o, "receipts") : IsRunningAccount(o, r) /\ AncestryOf(o, r.head) = "unresolved"}
LineagePending(o) ==
    {x \in Unresolved(o) : \E y \in Unresolved(o) : y.id = x.id /\ LiftedBy(LineageOnly(o), y)}

ManualStatus(o) == IF IsKnown(o, "gates") THEN Gates(o).manual.status ELSE "unknown"

\* A result covers the commit it was recorded for.
ManualUnproven(o) ==
    LET manual == Gates(o).manual
    IN /\ IsKnown(o, "gates")
       /\ \/ manual.status = "pending"
          \/ ~SourceTrusted(o, manual.source)
          \/ /\ manual.source # None /\ manual.status \in {"passed", "deferred-by-user"}
             /\ \E r \in SetOf(o, "receipts") : r.id = manual.source /\ r.head # o.head

HistoryEdges(o, question) ==
    CASE question = "E6" -> {E6Edge(r.id, r.anchor) : r \in {q \in o.reduced : Pending(q)}}
      [] question = "E2" -> {E2Edge(r) : r \in {q \in o.reduced : q.status \in {"failed", "cancelled"}}}
      [] question = "E4" -> IF o.reduced = {} /\ o.requests # {} /\ ~History!ByComment(o.requests)
                            THEN {E4Edge(History!Named(o.requests))} ELSE {}
      [] question = "E7" -> {E7Edge(r.id, r.reviewed) :
                                r \in {q \in o.reduced : q.reviewed # None /\ ~Pending(q)
                                                         /\ AncestryOf(o, q.reviewed) = "stale"}}

EdgesUnresolved(o, question) ==
    \/ ~Resolved(o)
    \/ /\ question = "E7"
       /\ \E r \in o.reduced : r.reviewed # None /\ ~Pending(r) /\ AncestryOf(o, r.reviewed) = "unresolved"

\* Is the question still the one that was answered, or can that not be told?
EdgeMayHold(o, edge) ==
    CASE edge.question = "POLICY-CHANGE" ->
            IsKnown(o, "diff") => edge.paths # {} /\ PolicyFileChanges(Diff(o)) = edge.paths
      [] edge.question = "SKIP-ACK" ->
            IsKnown(o, "config") => SkipAck(Config(o)) \in {edge.why} \ {None} /\ ConsumedBeforeSkip(o) # "yes"
      [] edge.question = "E1" -> o.edge.kind = "unresolved" \/ o.edge = edge
      [] OTHER -> EdgesUnresolved(o, edge.question) \/ edge \in HistoryEdges(o, edge.question)

\* An answer to stay draft holds whoever gave it, until a trusted one comes after it.
StayDraft(o) ==
    {a \in o.answers :
        /\ EffectOf(a.row.question, a.row.option) = "stay-draft"
        /\ LET later == LatestAnswer(o, a.row.question, a.row.edge)
           IN later # None => ~GivenBefore(a, later)
        /\ EdgeMayHold(o, a.row.edge)}

RestrictionRow(o, unresolved) ==
    IF ~IsKnown(o, "receipts") THEN "restrictions-unknown"
    ELSE IF unresolved # {} /\ LineagePending(o) = unresolved /\ ManualStatus(o) # "pending"
    THEN "resolution-unverified"
    ELSE IF (\E x \in unresolved : x.kind # "draft-push-conflict") \/ ManualUnproven(o) THEN "manual-testing"
    ELSE IF unresolved # {} THEN "restriction"
    ELSE IF StayDraft(o) # {} THEN "stay-draft"
    ELSE "none"

ApplicabilityRow(o, run) ==
    IF o.applicability.status = "unresolved" THEN "applicability-unresolved"
    ELSE IF o.applicability.policy # None THEN "policy-change"
    ELSE IF o.applicability.ack # None /\ run = None THEN "skip-acknowledgment"
    ELSE "none"

-----------------------------------------------------------------------------
(* R12 and R14: the local gates.                                           *)

\* Local results count for this tree and this base, from a source to trust.
LocalReviewCurrent(o) ==
    LET gates == Gates(o)
    IN /\ \A g \in {gates.review, gates.tests, gates.plan} :
              g.status = "passed" /\ g.tree = gates.tree /\ SourceTrusted(o, g.source)
       /\ gates.reviewedBase = o.base

\* What both phases ask for, in order.
SharedGate(o, phase) ==
    LET refs == o.refs.value
        base == ClassifyAncestry(refs.inclusion)
    IN IF ~IsKnown(o, "refs") \/ ~IsKnown(o, "gates") \/ base = "unresolved" THEN "refs-unresolved"
       ELSE IF refs.local # o.head \/ refs.remote # o.head THEN "reconcile-head"
       ELSE IF base = "stale" \/ (phase = "R14" /\ Gates(o).mergeable = "CONFLICTING") THEN "integrate-base"
       ELSE IF Gates(o).worktree # "clean" THEN "worktree"
       ELSE IF ~LocalReviewCurrent(o) THEN "local-review"
       ELSE IF Gates(o).blocking THEN "human-feedback"
       ELSE "none"

LabelGate(o, labels) ==
    IF labels = Invalid THEN "labels-unverified"
    ELSE IF labels \subseteq Gates(o).labels THEN "none"
    ELSE IF Gates(o).application \in {"failed", "unverified"} THEN "labels-unverified" ELSE "apply-labels"

ReadinessGate(o) ==
    IF Gates(o).mergeable = "UNKNOWN" THEN "mergeable-unknown"
    ELSE IF Gates(o).openDecisions THEN "unresolved-decisions"
    ELSE "none"

OrGate(shared, own) == IF shared # "none" THEN shared ELSE own
RequestGate(o) ==
    OrGate(SharedGate(o, "R12"), LabelGate(o, IF IsKnown(o, "config") THEN RequiredLabels(Config(o)) ELSE Invalid))
ReadyGate(o) == OrGate(SharedGate(o, "R14"), ReadinessGate(o))

\* A readiness verdict says what it rests on.
Outcome(row, rule, basis) == [row |-> row, rule |-> rule, basis |-> basis]
Says(row, rule) == Outcome(row, rule, None)

ReadyUnless(gate, basis, guard) ==
    IF gate # "none" THEN Says("R14", gate)
    ELSE IF guard.says = "pause" THEN Says("R06", "config-pause")
    ELSE Outcome("R14", "ready-eligible", basis)

Readiness(o, basis, guard) == ReadyUnless(ReadyGate(o), basis, guard)

WaiverPath(o, waiver, owes, guard) ==
    CASE owes = "full-review" -> Says("R07", "waiver-full-review")
      [] owes = "triage" -> Says("R07", "waiver-triage")
      [] owes = "nothing" -> Readiness(o, "waived", guard)

-----------------------------------------------------------------------------
(* R09 to R13: an applicable PR without a waiver.                          *)

PendingRow(o) ==
    LET run == Least({r \in o.reduced : Pending(r)}, RunBefore)
        chosen == LatestAnswer(o, "E6", E6Edge(run.id, run.anchor))
    IN IF chosen # None /\ chosen.row.option = "a" /\ o.view.seen < chosen.row.until THEN "chosen-wait"
       ELSE IF chosen = None /\ o.view.seen < run.anchor + NoResponse THEN "monitor-run"
       ELSE "E6"

\* Every row of findings of a run is collected and settled.
Clean(o, id) == \A f \in Gates(o).findings : f.run = id => f.complete /\ ~f.open
HasRow(o, id) == \E f \in Gates(o).findings : f.run = id
OpenFindings(o) == IsKnown(o, "gates") /\ \E f \in Gates(o).findings : ~Clean(o, f.run)

\* What came after a review was reviewed here.
DeltasOf(o) == {d.from : d \in {e \in Gates(o).deltas : e.tree = Gates(o).tree /\ SourceTrusted(o, e.source)}}
Uncovered(o) == {r \in o.reduced : r.reviewed \notin {None, o.head} \cup DeltasOf(o)}

TerminalRow(o, guard) ==
    LET reviewed == {r \in o.reduced : r.reviewed # None}
    IN IF \E r \in o.reduced : r.status = "completed" /\ ~r.proofOk THEN Says("R10", "completion-unverified")
       ELSE IF \E r \in reviewed : AncestryOf(o, r.reviewed) = "unresolved" THEN Says("R10", "ancestry-unresolved")
       ELSE IF \E r \in reviewed : AncestryOf(o, r.reviewed) = "stale" THEN Says("R10", "E7")
       ELSE IF \E r \in o.reduced : r.status \in {"failed", "cancelled"} THEN Says("R10", "E2")
       ELSE IF IsKnown(o, "gates") /\ (OpenFindings(o) \/ \E r \in o.reduced : ~HasRow(o, r.id)) THEN Says("R10", "triage")
       ELSE IF IsKnown(o, "gates") /\ Uncovered(o) # {} THEN Says("R10", "delta-review")
       ELSE Readiness(o, "completed", guard)

\* An answer counts if the history it was given on had seen the ten minutes of every request.
Covering(o) ==
    LET answer == LatestAnswer(o, "E4", E4Edge(History!Named(o.requests)))
        exit == History!LatestAt(o.requests) + NoResponse
    IN /\ answer # None
       /\ answer.row.at >= exit /\ answer.row.seen # None /\ answer.row.seen >= exit
       /\ answer.row.option = "a" /\ answer.row.request = History!Named(o.requests)

RequestRow(o, guard) ==
    LET comment == History!ByComment(o.requests)
    IN IF o.view.seen < History!LatestAt(o.requests) + NoResponse THEN Says("R11", "monitor-request")
       ELSE IF ~comment /\ ~Covering(o) THEN Says("R11", "E4")
       ELSE IF OpenFindings(o) THEN Says("R11", "triage")
       ELSE Readiness(o, IF comment THEN "unverified-no-response" ELSE "unverified-user-decision", guard)

\* R12 and R13: nothing was asked of Greptile yet.
FirstRequestRow(o, gate, guard, own) ==
    IF Feedback(o) THEN Says("R08", "history-unresolved")
    ELSE IF gate # "none" THEN Says("R12", gate)
    ELSE IF guard.says = "pause" THEN Says("R06", "config-pause")
    ELSE Says("R13", IF own = "fresh" THEN "trigger" ELSE "record-reservation")

ReservationPath(o, guard, own) ==
    IF own = "unconfirmed" THEN Says("R13", "reservation-unconfirmed")
    ELSE IF own = "fresh" /\ History!Lost(o.view) THEN Says("R13", "reservation-lost")
    ELSE IF o.requests # {} THEN RequestRow(o, guard)
    ELSE FirstRequestRow(o, RequestGate(o), guard, own)

GreptilePath(o, guard) ==
    IF \E r \in o.reduced : Pending(r) THEN Says("R09", PendingRow(o))
    ELSE IF o.reduced # {} THEN TerminalRow(o, guard)
    ELSE ReservationPath(o, guard, History!OwnState(o.view))

-----------------------------------------------------------------------------
(* The decision.                                                           *)

\* A waiver of E1 goes before one of a run.
Rows(o, guard, run, restriction, applicability) ==
    IF restriction # "none" THEN Says("R04", restriction)
    ELSE IF applicability # "none" THEN Says("R05", applicability)
    ELSE IF guard.says = "ask" THEN Says("R06", "E1")
    ELSE IF o.applicability.status \in NotApplicable THEN Readiness(o, "skipped", guard)
    ELSE IF guard.waiver # None THEN WaiverPath(o, guard.waiver, "nothing", guard)
    ELSE IF run # None THEN WaiverPath(o, run, Missing(o, run), guard)
    ELSE IF ~Resolved(o) THEN Says("R08", o.status)
    ELSE GreptilePath(o, guard)

Waived(o, guard, run) == Rows(o, guard, run, RestrictionRow(o, Unresolved(o)), ApplicabilityRow(o, run))
Evaluate(o, guard) == Waived(o, guard, RunWaiver(o))

\* A ready PR is only looked at.
ReadOnlyCheck(inner) ==
    IF inner.rule = "ready-eligible" THEN Outcome("R03", "already-prepared", inner.basis)
    ELSE Says("R03", "incomplete-preparation")

DraftOrReady(o) ==
    IF o.draft THEN Evaluate(o, SecondRunGuard(o)) ELSE ReadOnlyCheck(Evaluate(o, ReadOnlyGuard(o)))

DecideGreptileLifecycle(raw) ==
    IF ~ValidObservation(raw) THEN Says("R01", "invalid-input")
    ELSE IF SubjectMismatch(raw) THEN Says("R01", "subject-mismatch")
    ELSE IF raw.state # "OPEN" THEN Says("R02", "terminal-pr")
    ELSE DraftOrReady(Memo(raw))
=============================================================================
