----------------------- MODULE GreptileEvidenceProofs -----------------------
(***************************************************************************)
(* Proofs about GreptileEvidence for any observations, any evidence and    *)
(* any number of changes: when a review is asked for, and when a PR is     *)
(* called ready.                                                           *)
(***************************************************************************)
EXTENDS GreptileEvidence, FiniteSetTheorems, WellFoundedInduction, TLAPS

IInv == ObservationOk(obs) /\ verdict = DecideGreptileLifecycle(obs)

(***************************************************************************)
(* What the rows can say.                                                  *)
(***************************************************************************)
Acts == Asking \cup Opening

LEMMA RestrictionSays == ASSUME NEW o, NEW unresolved PROVE RestrictionRow(o, unresolved) \notin Acts
BY DEF RestrictionRow, Acts, Asking, Opening

LEMMA ApplicabilitySays == ASSUME NEW o, NEW run PROVE ApplicabilityRow(o, run) \notin Acts
BY DEF ApplicabilityRow, Acts, Asking, Opening

LEMMA SharedSays == ASSUME NEW o, NEW phase PROVE SharedGate(o, phase) \notin Acts
BY DEF SharedGate, Acts, Asking, Opening

LEMMA RequestGateSays == ASSUME NEW o PROVE RequestGate(o) \notin Acts
<1>1. \A labels : LabelGate(o, labels) \notin Acts
  BY DEF LabelGate, Acts, Asking, Opening
<1>2. QED
  BY <1>1, SharedSays DEF RequestGate, OrGate

LEMMA ReadyGateSays == ASSUME NEW o PROVE ReadyGate(o) \notin Acts
<1>1. ReadinessGate(o) \notin Acts
  BY DEF ReadinessGate, Acts, Asking, Opening
<1>2. QED
  BY <1>1, SharedSays DEF ReadyGate, OrGate

\* A verdict that is no request, and is readiness only where the guard lets it pass.
Guarded(outcome, guard) ==
    /\ outcome.rule \notin Asking \cup {"already-prepared"}
    /\ outcome.rule = "ready-eligible" => guard.says # "pause"

LEMMA ReadinessSays == ASSUME NEW o, NEW basis, NEW guard PROVE Guarded(Readiness(o, basis, guard), guard)
<1>1. ReadyGate(o) \notin Acts
  BY ReadyGateSays
<1>2. QED
  BY <1>1 DEF Readiness, ReadyUnless, Outcome, Says, Guarded, Acts, Asking, Opening

LEMMA SaysOnly ==
    ASSUME NEW row, NEW rule, NEW guard, rule \notin Acts
    PROVE  Guarded(Says(row, rule), guard)
BY DEF Says, Outcome, Guarded, Acts, Asking, Opening

LEMMA WaiverSays ==
    ASSUME NEW o, NEW waiver, NEW guard, NEW owes \in {"full-review", "triage", "nothing"}
    PROVE  Guarded(WaiverPath(o, waiver, owes, guard), guard)
<1>1. CASE owes = "nothing"
  BY <1>1, ReadinessSays DEF WaiverPath
<1>2. CASE owes = "triage"
  BY <1>2 DEF WaiverPath, Says, Outcome, Guarded, Asking
<1>3. CASE owes = "full-review"
  BY <1>3 DEF WaiverPath, Says, Outcome, Guarded, Asking
<1>4. QED
  BY <1>1, <1>2, <1>3

LEMMA TerminalSays == ASSUME NEW o, NEW guard PROVE Guarded(TerminalRow(o, guard), guard)
<1>1. Guarded(Readiness(o, "completed", guard), guard)
  BY ReadinessSays
<1>2. \A rule \in {"completion-unverified", "ancestry-unresolved", "E7", "E2", "triage", "delta-review"} :
          Guarded(Says("R10", rule), guard)
  BY DEF Says, Outcome, Guarded, Asking
<1>3. QED
  BY <1>1, <1>2 DEF TerminalRow

LEMMA RequestSays == ASSUME NEW o, NEW guard PROVE Guarded(RequestRow(o, guard), guard)
<1>1. \A basis : Guarded(Readiness(o, basis, guard), guard)
  BY ReadinessSays
<1>2. \A rule \in {"monitor-request", "E4", "triage"} : Guarded(Says("R11", rule), guard)
  BY DEF Says, Outcome, Guarded, Asking
<1>3. QED
  BY <1>1, <1>2 DEF RequestRow

(***************************************************************************)
(* What has to be so for the rows to say it.                               *)
(***************************************************************************)

\* Rows that end before a review is asked for.
LEMMA PathAsks ==
    ASSUME NEW o, NEW guard, GreptilePath(o, guard).rule \in Asking
    PROVE  /\ o.reduced = {} /\ o.requests = {} /\ ~Feedback(o)
           /\ RequestGate(o) = "none"
           /\ History!OwnState(o.view) = "fresh" => ~History!Lost(o.view)
           /\ GreptilePath(o, guard).rule = "trigger" <=> History!OwnState(o.view) = "fresh"
           /\ guard.says # "pause"
<1> DEFINE own == History!OwnState(o.view)
<1>1. Guarded(TerminalRow(o, guard), guard) /\ Guarded(RequestRow(o, guard), guard)
  BY TerminalSays, RequestSays
<1>2. o.reduced = {} /\ GreptilePath(o, guard) = ReservationPath(o, guard, own)
  <2>1. PendingRow(o) \notin Asking
    BY DEF PendingRow, Asking
  <2>2. ~\E r \in o.reduced : Pending(r)
    BY <2>1 DEF GreptilePath, Says, Outcome
  <2>3. QED
    BY <1>1, <2>2 DEF GreptilePath, Guarded
<1>3. /\ o.requests = {} /\ own # "unconfirmed" /\ ~(own = "fresh" /\ History!Lost(o.view))
      /\ GreptilePath(o, guard) = FirstRequestRow(o, RequestGate(o), guard, own)
  <2> HIDE DEF own
  <2>1. ReservationPath(o, guard, own).rule \in Asking
    BY <1>2
  <2>2. own # "unconfirmed" /\ ~(own = "fresh" /\ History!Lost(o.view))
    BY <2>1 DEF ReservationPath, Says, Outcome, Asking
  <2>3. o.requests = {}
    BY <1>1, <2>1, <2>2 DEF ReservationPath, Guarded
  <2>4. QED
    BY <1>2, <2>2, <2>3 DEF ReservationPath
<1>4. RequestGate(o) \notin Acts
  BY RequestGateSays
<1> HIDE DEF own
<1>5. FirstRequestRow(o, RequestGate(o), guard, own).rule \in Asking
  BY <1>3
<1>6. /\ ~Feedback(o) /\ RequestGate(o) = "none" /\ guard.says # "pause"
      /\ FirstRequestRow(o, RequestGate(o), guard, own).rule = IF own = "fresh" THEN "trigger" ELSE "record-reservation"
  BY <1>4, <1>5 DEF FirstRequestRow, Says, Outcome, Asking, Acts
<1>7. QED
  BY <1>2, <1>3, <1>6 DEF own

LEMMA PathReady == ASSUME NEW o, NEW guard, GreptilePath(o, guard).rule \notin Asking
                   PROVE  Guarded(GreptilePath(o, guard), guard)
<1> DEFINE own == History!OwnState(o.view)
<1>1. /\ Guarded(TerminalRow(o, guard), guard) /\ Guarded(RequestRow(o, guard), guard)
      /\ Guarded(Says("R09", PendingRow(o)), guard)
  <2>1. PendingRow(o) \notin Acts
    BY DEF PendingRow, Acts, Asking, Opening
  <2>2. QED
    BY <2>1, TerminalSays, RequestSays, SaysOnly
<1>2. RequestGate(o) \notin Acts
  BY RequestGateSays
<1> HIDE DEF own
<1>3. FirstRequestRow(o, RequestGate(o), guard, own).rule \notin Asking
          => Guarded(FirstRequestRow(o, RequestGate(o), guard, own), guard)
  BY <1>2 DEF FirstRequestRow, Says, Outcome, Guarded, Asking, Acts, Opening
<1>4. ReservationPath(o, guard, own).rule \notin Asking => Guarded(ReservationPath(o, guard, own), guard)
  <2>1. Guarded(Says("R13", "reservation-unconfirmed"), guard) /\ Guarded(Says("R13", "reservation-lost"), guard)
    BY DEF Says, Outcome, Guarded, Asking
  <2>2. QED
    BY <1>1, <1>3, <2>1 DEF ReservationPath
<1>5. QED
  BY <1>1, <1>4 DEF GreptilePath, own

LEMMA MissingIs == ASSUME NEW o, NEW a PROVE Missing(o, a) \in {"full-review", "triage", "nothing"}
BY DEF Missing


\* The rows around the path: all of them pass, and readiness needs the guard to pass too.
LEMMA RowsSay ==
    ASSUME NEW o, NEW guard, NEW run, NEW restriction, NEW applicability,
           restriction \notin Acts, applicability \notin Acts, o.status \notin Acts
    PROVE  /\ Rows(o, guard, run, restriction, applicability).rule \in Asking =>
                 /\ restriction = "none" /\ Resolved(o)
                 /\ Rows(o, guard, run, restriction, applicability) = GreptilePath(o, guard)
           /\ Rows(o, guard, run, restriction, applicability).rule # "already-prepared"
           /\ Rows(o, guard, run, restriction, applicability).rule = "ready-eligible" =>
                 applicability = "none" /\ guard.says \notin {"ask", "pause"}
<1>1. /\ Guarded(Readiness(o, "skipped", guard), guard)
      /\ Guarded(WaiverPath(o, guard.waiver, "nothing", guard), guard)
      /\ Guarded(WaiverPath(o, run, Missing(o, run), guard), guard)
  BY ReadinessSays, WaiverSays, MissingIs
<1>2. /\ Guarded(Says("R04", restriction), guard) /\ Says("R04", restriction).rule # "ready-eligible"
      /\ Guarded(Says("R05", applicability), guard) /\ Says("R05", applicability).rule # "ready-eligible"
      /\ Guarded(Says("R06", "E1"), guard) /\ Says("R06", "E1").rule # "ready-eligible"
      /\ Guarded(Says("R08", o.status), guard)
  BY DEF Says, Outcome, Guarded, Acts, Asking, Opening
<1>3. GreptilePath(o, guard).rule \notin Asking => Guarded(GreptilePath(o, guard), guard)
  BY PathReady
<1>4. GreptilePath(o, guard).rule \in Asking =>
         GreptilePath(o, guard).rule \notin {"ready-eligible", "already-prepared"}
  BY DEF Asking
<1>5. CASE restriction # "none"
  BY <1>2, <1>5 DEF Rows, Guarded
<1>6. CASE restriction = "none" /\ applicability # "none"
  BY <1>2, <1>6 DEF Rows, Guarded
<1>7. CASE restriction = "none" /\ applicability = "none" /\ guard.says = "ask"
  BY <1>2, <1>7 DEF Rows, Guarded
<1>8. CASE restriction = "none" /\ applicability = "none" /\ guard.says # "ask"
  <2>1. \/ Guarded(Rows(o, guard, run, restriction, applicability), guard)
        \/ /\ Rows(o, guard, run, restriction, applicability) = GreptilePath(o, guard)
           /\ Resolved(o) /\ GreptilePath(o, guard).rule \in Asking
    BY <1>1, <1>2, <1>3, <1>8 DEF Rows
  <2>2. QED
    BY <1>4, <1>8, <2>1 DEF Guarded
<1>9. QED
  BY <1>5, <1>6, <1>7, <1>8

LEMMA EvaluateSays ==
    ASSUME NEW o, NEW guard, o.status \notin Acts
    PROVE  /\ Evaluate(o, guard).rule \in Asking =>
                 /\ IsKnown(o, "receipts") /\ Resolved(o)
                 /\ Evaluate(o, guard) = GreptilePath(o, guard)
           /\ Evaluate(o, guard).rule # "already-prepared"
           /\ Evaluate(o, guard).rule = "ready-eligible" =>
                 o.applicability.status # "unresolved" /\ guard.says \notin {"ask", "pause"}
<1> DEFINE run == RunWaiver(o)
           restriction == RestrictionRow(o, Unresolved(o))
           applicability == ApplicabilityRow(o, run)
<1>1. Evaluate(o, guard) = Rows(o, guard, run, restriction, applicability)
  BY DEF Evaluate, Waived
<1>2. restriction \notin Acts /\ applicability \notin Acts
  BY RestrictionSays, ApplicabilitySays
<1>3. restriction = "none" => IsKnown(o, "receipts")
  BY DEF RestrictionRow
<1>4. applicability = "none" => o.applicability.status # "unresolved"
  BY DEF ApplicabilityRow
<1> HIDE DEF run, restriction, applicability
<1>5. QED
  BY <1>1, <1>2, <1>3, <1>4, RowsSay

\* A review is asked for only where it applies and the guard lets it pass.
LEMMA EvaluateAsks ==
    ASSUME NEW o, NEW guard, o.status \notin Acts, Evaluate(o, guard).rule \in Asking
    PROVE  /\ guard.says \notin {"ask", "pause"}
           /\ o.applicability.status \notin NotApplicable \cup {"unresolved"}
<1> DEFINE run == RunWaiver(o)
           restriction == RestrictionRow(o, Unresolved(o))
           applicability == ApplicabilityRow(o, run)
<1>1. Evaluate(o, guard) = Rows(o, guard, run, restriction, applicability)
  BY DEF Evaluate, Waived
<1>2. restriction \notin Acts /\ applicability \notin Acts
  BY RestrictionSays, ApplicabilitySays
<1>3. applicability = "none" => o.applicability.status # "unresolved"
  BY DEF ApplicabilityRow
<1>4. Evaluate(o, guard) = GreptilePath(o, guard)
  BY EvaluateSays
<1>5. guard.says # "pause"
  BY <1>4, PathAsks
<1> HIDE DEF run, restriction, applicability
<1>6. restriction = "none" /\ applicability = "none" /\ guard.says # "ask"
  BY <1>1, <1>2 DEF Rows, Says, Outcome, Acts, Asking
<1>7. o.applicability.status \notin NotApplicable
  <2>1. Guarded(Readiness(o, "skipped", guard), guard)
    BY ReadinessSays
  <2>2. QED
    BY <1>1, <1>6, <2>1 DEF Rows, Guarded
<1>8. QED
  BY <1>3, <1>5, <1>6, <1>7

(***************************************************************************)
(* What is worked out of an observation.                                   *)
(***************************************************************************)
All == Facts \cup Families
Reads(o, raw) == \A k \in All : o[k] = raw[k]

\* Facts of an observation and of whatever was worked out of it are the same.
Known(raw, o) ==
    /\ HistoriesKnown(o) <=> HistoriesKnown(raw)
    /\ Misattributed(o) = Misattributed(raw) /\ Listed(o) = Listed(raw)
    /\ IsKnown(o, "config") <=> IsKnown(raw, "config")
    /\ Config(o) = Config(raw) /\ Gates(o) = Gates(raw)
    /\ \A f \in Families : (IsKnown(o, f) <=> IsKnown(raw, f)) /\ SetOf(o, f) = SetOf(raw, f)

LEMMA ReadsKnown ==
    ASSUME NEW o, NEW raw, Reads(o, raw)
    PROVE  Known(raw, o)
<1>1. /\ \A f \in Families : o[f] = raw[f]
      /\ o.actors = raw.actors /\ o.config = raw.config /\ o.gates = raw.gates
  BY DEF Reads, All, Facts, Families
<1>2. \A f \in Families : (IsKnown(o, f) <=> IsKnown(raw, f)) /\ SetOf(o, f) = SetOf(raw, f)
  BY <1>1 DEF IsKnown, SetOf
<1>3. {"runs", "config", "comments", "subs"} \subseteq Families
  BY DEF Families
<1>4. SetOf(o, "runs") = SetOf(raw, "runs") /\ (IsKnown(o, "config") <=> IsKnown(raw, "config"))
  BY <1>2, <1>3
<1>5. HistoriesKnown(o) <=> HistoriesKnown(raw)
  BY <1>2, <1>3 DEF HistoriesKnown
<1>6. QED
  BY <1>1, <1>2, <1>4, <1>5 DEF Known, Misattributed, Listed, Config, Gates

\* Two readings in which the same is known, and the same can be relied on.
Trusts(o) == {a \in o.answers : a.trusted}
Same(o, p) ==
    /\ \A k \in All \ {"receipts"} : p[k] = o[k]
    /\ p.reduced = o.reduced /\ p.view = o.view
    /\ Trusts(p) = Trusts(o)
    /\ NamesRequest(p) <=> NamesRequest(o)
SameHistory(o, p) == Same(o, p) /\ p.status = o.status /\ p.requests = o.requests

LEMMA SameFacts ==
    ASSUME NEW o, NEW p, \A k \in All \ {"receipts"} : p[k] = o[k]
    PROVE  /\ \A f \in Families \ {"receipts"} : (IsKnown(p, f) <=> IsKnown(o, f)) /\ SetOf(p, f) = SetOf(o, f)
           /\ Misattributed(p) = Misattributed(o) /\ Listed(p) = Listed(o)
           /\ HistoriesKnown(p) <=> HistoriesKnown(o)
           /\ Config(p) = Config(o) /\ Diff(p) = Diff(o) /\ Gates(p) = Gates(o)
           /\ IsKnown(p, "diff") <=> IsKnown(o, "diff")
           /\ IsKnown(p, "config") <=> IsKnown(o, "config")
           /\ IsKnown(p, "gates") <=> IsKnown(o, "gates")
           /\ SetOf(p, "journal") = SetOf(o, "journal")
<1>1. /\ \A f \in Families \ {"receipts"} : p[f] = o[f]
      /\ p.actors = o.actors /\ p.config = o.config /\ p.diff = o.diff /\ p.gates = o.gates
  BY DEF All, Facts, Families
<1>2. \A f \in Families \ {"receipts"} : (IsKnown(p, f) <=> IsKnown(o, f)) /\ SetOf(p, f) = SetOf(o, f)
  BY <1>1 DEF IsKnown, SetOf
<1>3. {"runs", "config", "comments", "subs", "diff", "gates", "journal"} \subseteq Families \ {"receipts"}
  BY DEF Families
<1>4. SetOf(p, "runs") = SetOf(o, "runs") /\ SetOf(p, "journal") = SetOf(o, "journal")
  BY <1>2, <1>3
<1>5. \A f \in {"comments", "subs", "runs", "diff", "config", "gates"} : IsKnown(p, f) <=> IsKnown(o, f)
  BY <1>2, <1>3
<1>6. HistoriesKnown(p) <=> HistoriesKnown(o)
  BY <1>5 DEF HistoriesKnown
<1>7. QED
  BY <1>1, <1>2, <1>4, <1>5, <1>6 DEF Misattributed, Listed, Config, Diff, Gates

LEMMA SameAnswers ==
    ASSUME NEW o, NEW p, Trusts(p) = Trusts(o)
    PROVE  /\ \A question, edge : LatestAnswer(p, question, edge) = LatestAnswer(o, question, edge)
           /\ \A options : LatestE1Choice(p, options) = LatestE1Choice(o, options)
           /\ StandingE1Waiver(p) = StandingE1Waiver(o)
<1>1. \A question, edge :
         {a \in p.answers : a.trusted /\ a.row.question = question /\ a.row.edge = edge}
         = {a \in o.answers : a.trusted /\ a.row.question = question /\ a.row.edge = edge}
  BY DEF Trusts
<1>2. \A options :
         {a \in p.answers : a.trusted /\ a.row.question = "E1" /\ a.row.option \in options}
         = {a \in o.answers : a.trusted /\ a.row.question = "E1" /\ a.row.option \in options}
  BY DEF Trusts
<1>3. {a \in p.answers : /\ a.trusted /\ a.row.question = "E1" /\ a.row.option = "b"
                         /\ a.row.edge.kind # "excluded" /\ ~a.row.edge.consumed /\ a.row.edge.offersB}
      = {a \in o.answers : /\ a.trusted /\ a.row.question = "E1" /\ a.row.option = "b"
                           /\ a.row.edge.kind # "excluded" /\ ~a.row.edge.consumed /\ a.row.edge.offersB}
  BY DEF Trusts
<1>4. \A question, edge : LatestAnswer(p, question, edge) = LatestAnswer(o, question, edge)
  <2> TAKE question, edge
  <2> DEFINE A == {a \in p.answers : a.trusted /\ a.row.question = question /\ a.row.edge = edge}
             B == {a \in o.answers : a.trusted /\ a.row.question = question /\ a.row.edge = edge}
  <2>1. A = B
    BY <1>1
  <2>2. LatestAnswer(p, question, edge) = LastOf(A) /\ LatestAnswer(o, question, edge) = LastOf(B)
    BY DEF LatestAnswer
  <2> HIDE DEF A, B
  <2>3. QED
    BY <2>1, <2>2
<1>5. \A options : LatestE1Choice(p, options) = LatestE1Choice(o, options)
  BY ZenonT(30), <1>2 DEF LatestE1Choice
<1>6. StandingE1Waiver(p) = StandingE1Waiver(o)
  BY ZenonT(30), <1>3 DEF StandingE1Waiver
<1>7. QED
  BY <1>4, <1>5, <1>6

LEMMA SameStatus ==
    ASSUME NEW o, NEW p, Same(o, p)
    PROVE  HistoryStatus(p) = HistoryStatus(o) /\ (Evidence(p) <=> Evidence(o))
<1>1. p.reduced = o.reduced /\ p.view = o.view /\ (NamesRequest(p) <=> NamesRequest(o))
  BY DEF Same
<1>2. /\ Misattributed(p) = Misattributed(o) /\ Listed(p) = Listed(o)
      /\ HistoriesKnown(p) <=> HistoriesKnown(o)
      /\ Gates(p) = Gates(o) /\ (IsKnown(p, "gates") <=> IsKnown(o, "gates"))
      /\ SetOf(p, "journal") = SetOf(o, "journal")
  BY SameFacts DEF Same
<1>3. HistoryStatus(p) = HistoryStatus(o)
  BY <1>1, <1>2 DEF HistoryStatus
<1>4. Evidence(p) <=> Evidence(o)
  BY <1>1, <1>2 DEF Evidence, Feedback
<1>5. QED
  BY <1>3, <1>4

LEMMA SameSkip ==
    ASSUME NEW o, NEW p, Trusts(p) = Trusts(o),
           ConsumedBeforeSkip(p) = ConsumedBeforeSkip(o) \/ SkipAck(Config(o)) = None,
           \A k \in All \ {"receipts"} : p[k] = o[k]
    PROVE  BaseApplicability(p) = BaseApplicability(o)
<1>1. /\ Config(p) = Config(o) /\ Diff(p) = Diff(o)
      /\ IsKnown(p, "diff") <=> IsKnown(o, "diff")
      /\ IsKnown(p, "config") <=> IsKnown(o, "config")
  BY SameFacts
<1>2. \A question, edge : LatestAnswer(p, question, edge) = LatestAnswer(o, question, edge)
  BY SameAnswers
<1>3. \A policy : Skippable(p, SkipAck(Config(o)), policy) = Skippable(o, SkipAck(Config(o)), policy)
  BY <1>2 DEF Skippable
<1>4. \A edge, answer : PolicyApplicability(p, edge, answer) = PolicyApplicability(o, edge, answer)
  BY <1>1, <1>3 DEF PolicyApplicability
<1>5. \A class : FileApplicability(p, class) = FileApplicability(o, class)
  BY <1>1, <1>3 DEF FileApplicability
<1>6. QED
  BY <1>1, <1>2, <1>4, <1>5 DEF BaseApplicability

LEMMA SameConsumption ==
    ASSUME NEW o, NEW p, SameHistory(o, p)
    PROVE  /\ \A applicable : Consumed(p, applicable) = Consumed(o, applicable)
           /\ ConsumedBeforeSkip(p) = ConsumedBeforeSkip(o)
           /\ BaseApplicability(p) = BaseApplicability(o)
<1>1. /\ Same(o, p) /\ p.reduced = o.reduced /\ p.view = o.view /\ (NamesRequest(p) <=> NamesRequest(o))
      /\ p.requests = o.requests /\ (Resolved(p) <=> Resolved(o)) /\ Trusts(p) = Trusts(o)
  BY DEF SameHistory, Same, Resolved
<1>2. Gates(p) = Gates(o) /\ (IsKnown(p, "gates") <=> IsKnown(o, "gates"))
  BY <1>1, SameFacts DEF Same
<1>3. StandingE1Waiver(p) = StandingE1Waiver(o) /\ (Evidence(p) <=> Evidence(o))
  BY <1>1, SameAnswers, SameStatus
<1>4. \A applicable : Consumed(p, applicable) = Consumed(o, applicable)
  BY <1>1, <1>3 DEF Consumed
<1>5. ConsumedBeforeSkip(p) = ConsumedBeforeSkip(o)
  BY <1>1, <1>2, <1>4 DEF ConsumedBeforeSkip, Feedback
<1>6. BaseApplicability(p) = BaseApplicability(o)
  BY <1>1, <1>5, SameSkip DEF Same
<1>7. QED
  BY <1>4, <1>5, <1>6

LEMMA MemoIs ==
    ASSUME NEW raw, DOMAIN raw = All
    PROVE  LET o == Memo(raw) IN
           /\ Reads(o, raw)
           /\ o.answers = Answers(raw) /\ o.reduced = IF HistoriesKnown(raw) THEN ReducedRuns(raw) ELSE {}
           /\ o.view = [View(raw) EXCEPT !.runs = o.reduced]
           /\ o.status = HistoryStatus(o)
           /\ o.requests = IF Resolved(o) THEN History!Requests(o.view) ELSE {}
           /\ o.applicability = BaseApplicability(o) /\ o.waiver = StandingE1Waiver(o)
           /\ o.detection = IF IsKnown(raw, "config") THEN DetectReadyTrigger(Config(raw))
                            ELSE Detection("cannot-rule-out", FALSE, <<>>)
           /\ o.edge = E1Edge(o.applicability, Consumed(o, o.applicability.status = "applies"), o.detection)
<1> DEFINE reduced == IF HistoriesKnown(raw) THEN ReducedRuns(raw) ELSE {}
           a == [answers |-> Answers(raw), reduced |-> reduced, view |-> [View(raw) EXCEPT !.runs = reduced]]
           o1 == WithRuns(raw, reduced)
           o2 == WithStatus(o1)
           o3 == WithRequests(o2)
           o4 == WithBase(o3)
           o5 == WithEdge(o4)
<1>1. o5 = Memo(raw)
  BY DEF Memo, ReadHistory
<1>2. \A k \in {"answers", "reduced", "view", "status", "requests", "applicability", "waiver", "detection", "edge"} :
          k \notin All
  BY DEF All, Facts, Families
<1>3. /\ DOMAIN o1 = All \cup {"answers", "reduced", "view"} /\ Reads(o1, raw)
      /\ o1.answers = Answers(raw) /\ o1.reduced = reduced /\ o1.view = [View(raw) EXCEPT !.runs = reduced]
  <2>1. o1 = Extended(raw, a) /\ DOMAIN a = {"answers", "reduced", "view"}
    BY DEF WithRuns
  <2>2. a.answers = Answers(raw) /\ a.reduced = reduced /\ a.view = [View(raw) EXCEPT !.runs = reduced]
    OBVIOUS
  <2> HIDE DEF a, o1, reduced
  <2>3. /\ DOMAIN o1 = DOMAIN raw \cup DOMAIN a
        /\ \A k \in DOMAIN raw : o1[k] = raw[k]
        /\ \A k \in DOMAIN a \ DOMAIN raw : o1[k] = a[k]
    BY <2>1 DEF Extended
  <2>4. QED
    BY <1>2, <2>1, <2>2, <2>3 DEF Reads
<1>4. /\ DOMAIN o2 = DOMAIN o1 \cup {"status"} /\ o2.status = HistoryStatus(o1)
      /\ \A k \in DOMAIN o1 : o2[k] = o1[k]
  <2> HIDE DEF o1
  <2> DEFINE b == [status |-> HistoryStatus(o1)]
  <2>1. o2 = Extended(o1, b) /\ DOMAIN b = {"status"} /\ b.status = HistoryStatus(o1)
    BY DEF WithStatus
  <2> HIDE DEF b, o2
  <2>2. "status" \notin DOMAIN o1
    BY <1>2, <1>3
  <2>3. QED
    BY <2>1, <2>2 DEF Extended
<1>5. /\ DOMAIN o3 = DOMAIN o2 \cup {"requests"}
      /\ o3.requests = IF o2.status = "resolved" THEN History!Requests(o2.view) ELSE {}
      /\ \A k \in DOMAIN o2 : o3[k] = o2[k]
  <2> HIDE DEF o2
  <2> DEFINE b == [requests |-> IF o2.status = "resolved" THEN History!Requests(o2.view) ELSE {}]
  <2>1. /\ o3 = Extended(o2, b) /\ DOMAIN b = {"requests"}
        /\ b.requests = IF o2.status = "resolved" THEN History!Requests(o2.view) ELSE {}
    BY DEF WithRequests
  <2> HIDE DEF b, o3
  <2>2. "requests" \notin DOMAIN o2
    BY <1>2, <1>3, <1>4
  <2>3. QED
    BY <2>1, <2>2 DEF Extended
<1>6. /\ DOMAIN o4 = DOMAIN o3 \cup {"applicability", "waiver", "detection"}
      /\ o4.applicability = BaseApplicability(o3) /\ o4.waiver = StandingE1Waiver(o3)
      /\ o4.detection = IF IsKnown(o3, "config") THEN DetectReadyTrigger(Config(o3))
                        ELSE Detection("cannot-rule-out", FALSE, <<>>)
      /\ \A k \in DOMAIN o3 : o4[k] = o3[k]
  <2> HIDE DEF o3
  <2> DEFINE d == IF IsKnown(o3, "config") THEN DetectReadyTrigger(Config(o3))
                  ELSE Detection("cannot-rule-out", FALSE, <<>>)
             b == [applicability |-> BaseApplicability(o3), waiver |-> StandingE1Waiver(o3), detection |-> d]
  <2>1. o4 = Extended(o3, b) /\ DOMAIN b = {"applicability", "waiver", "detection"}
    BY DEF WithBase
  <2>2. b.applicability = BaseApplicability(o3) /\ b.waiver = StandingE1Waiver(o3) /\ b.detection = d
    OBVIOUS
  <2> HIDE DEF b, o4, d
  <2>3. "applicability" \notin DOMAIN o3 /\ "waiver" \notin DOMAIN o3 /\ "detection" \notin DOMAIN o3
    BY <1>2, <1>3, <1>4, <1>5
  <2>4. /\ DOMAIN o4 = DOMAIN o3 \cup DOMAIN b /\ \A k \in DOMAIN o3 : o4[k] = o3[k]
        /\ \A k \in DOMAIN b \ DOMAIN o3 : o4[k] = b[k]
    BY <2>1 DEF Extended
  <2>5. QED
    BY <2>1, <2>2, <2>3, <2>4 DEF d
<1>7. /\ o5.edge = E1Edge(o4.applicability, Consumed(o4, o4.applicability.status = "applies"), o4.detection)
      /\ \A k \in DOMAIN o4 : o5[k] = o4[k]
  <2> HIDE DEF o4
  <2> DEFINE e == E1Edge(o4.applicability, Consumed(o4, o4.applicability.status = "applies"), o4.detection)
             b == [edge |-> e]
  <2>1. o5 = Extended(o4, b) /\ DOMAIN b = {"edge"} /\ b.edge = e
    BY DEF WithEdge
  <2> HIDE DEF b, o5, e
  <2>2. "edge" \notin DOMAIN o4
    BY <1>2, <1>3, <1>4, <1>5, <1>6
  <2>3. o5.edge = e /\ \A k \in DOMAIN o4 : o5[k] = o4[k]
    BY <2>1, <2>2 DEF Extended
  <2>4. QED
    BY <2>3 DEF e
<1> HIDE DEF o1, o2, o3, o4, o5, reduced
<1>8. Reads(o1, raw) /\ Reads(o2, raw) /\ Reads(o3, raw) /\ Reads(o4, raw) /\ Reads(o5, raw)
  BY <1>3, <1>4, <1>5, <1>6, <1>7 DEF Reads
<1>9. /\ o5.view = o1.view /\ o5.reduced = o1.reduced /\ o5.answers = o1.answers
      /\ o4.view = o1.view /\ o4.reduced = o1.reduced /\ o4.answers = o1.answers
      /\ o3.view = o1.view /\ o3.reduced = o1.reduced /\ o3.answers = o1.answers
      /\ o5.status = HistoryStatus(o1) /\ o4.status = o5.status /\ o3.status = o5.status /\ o2.status = o5.status
      /\ o2.view = o1.view /\ o5.requests = o3.requests /\ o4.requests = o3.requests
      /\ o5.applicability = BaseApplicability(o3) /\ o4.applicability = o5.applicability
      /\ o5.waiver = StandingE1Waiver(o3) /\ o5.detection = o4.detection
  BY <1>3, <1>4, <1>5, <1>6, <1>7
<1>10. Same(o5, o1) /\ SameHistory(o5, o3) /\ SameHistory(o5, o4)
  <2>1. \A k \in All : o1[k] = o5[k] /\ o3[k] = o5[k] /\ o4[k] = o5[k]
    BY <1>8 DEF Reads
  <2>2. /\ Trusts(o1) = Trusts(o5) /\ Trusts(o3) = Trusts(o5) /\ Trusts(o4) = Trusts(o5)
        /\ NamesRequest(o1) <=> NamesRequest(o5)
        /\ NamesRequest(o3) <=> NamesRequest(o5)
        /\ NamesRequest(o4) <=> NamesRequest(o5)
    BY <1>9 DEF Trusts, NamesRequest
  <2>3. QED
    BY <1>9, <2>1, <2>2 DEF Same, SameHistory
<1>11. o5.status = HistoryStatus(o5)
  BY <1>9, <1>10, SameStatus
<1>12. o5.requests = IF Resolved(o5) THEN History!Requests(o5.view) ELSE {}
  BY <1>5, <1>9 DEF Resolved
<1>13. /\ o5.applicability = BaseApplicability(o5)
       /\ \A applicable : Consumed(o4, applicable) = Consumed(o5, applicable)
  BY <1>9, <1>10, SameConsumption
<1>14. o5.waiver = StandingE1Waiver(o5)
  <2>1. Trusts(o3) = Trusts(o5)
    BY <1>10 DEF SameHistory, Same
  <2>2. QED
    BY <1>9, <2>1, SameAnswers
<1>15. o5.edge = E1Edge(o5.applicability, Consumed(o5, o5.applicability.status = "applies"), o5.detection)
  BY <1>7, <1>9, <1>13
<1>16. o5.detection = IF IsKnown(raw, "config") THEN DetectReadyTrigger(Config(raw))
                      ELSE Detection("cannot-rule-out", FALSE, <<>>)
  <2>1. Known(raw, o3)
    BY <1>8, ReadsKnown
  <2>2. QED
    BY <1>6, <1>9, <2>1 DEF Known
<1>17. /\ o5.answers = Answers(raw) /\ o5.reduced = IF HistoriesKnown(raw) THEN ReducedRuns(raw) ELSE {}
       /\ o5.view = [View(raw) EXCEPT !.runs = o5.reduced]
  BY <1>3, <1>9 DEF reduced
<1>18. QED
  BY <1>1, <1>8, <1>11, <1>12, <1>13, <1>14, <1>15, <1>16, <1>17

LEMMA MemoFacts ==
    ASSUME NEW raw, DOMAIN raw = All
    PROVE  LET o == Memo(raw) IN
           /\ Reads(o, raw)
           /\ o.view = [View(raw) EXCEPT !.runs = o.reduced]
           /\ o.status \notin Acts
           /\ Resolved(o) => /\ HistoriesKnown(raw) /\ Misattributed(raw) = {}
                             /\ o.reduced = ReducedRuns(raw)
                             /\ ~History!Unresolved(o.view)
                             /\ o.requests = History!Requests(o.view)
           /\ o.applicability.status # "unresolved" =>
                 IsKnown(raw, "config") /\ o.detection = DetectReadyTrigger(Config(raw))
           /\ Evidence(o) => o.edge = E1Edge(o.applicability, "yes", o.detection)
<1> DEFINE o == Memo(raw)
<1>1. /\ Reads(o, raw) /\ o.view = [View(raw) EXCEPT !.runs = o.reduced]
      /\ o.reduced = IF HistoriesKnown(raw) THEN ReducedRuns(raw) ELSE {}
      /\ o.status = HistoryStatus(o)
      /\ o.requests = IF Resolved(o) THEN History!Requests(o.view) ELSE {}
      /\ o.applicability = BaseApplicability(o)
      /\ o.detection = IF IsKnown(raw, "config") THEN DetectReadyTrigger(Config(raw))
                       ELSE Detection("cannot-rule-out", FALSE, <<>>)
      /\ o.edge = E1Edge(o.applicability, Consumed(o, o.applicability.status = "applies"), o.detection)
  BY MemoIs
<1>2. Known(raw, o)
  BY <1>1, ReadsKnown
<1> HIDE DEF o
<1>3. o.status \notin Acts
  BY <1>1 DEF HistoryStatus, Acts, Asking, Opening
<1>4. ASSUME Resolved(o)
      PROVE  /\ HistoriesKnown(raw) /\ Misattributed(raw) = {} /\ o.reduced = ReducedRuns(raw)
             /\ ~History!Unresolved(o.view) /\ o.requests = History!Requests(o.view)
  <2>1. HistoryStatus(o) = "resolved"
    BY <1>1, <1>4 DEF Resolved
  <2>2. HistoriesKnown(o) /\ Misattributed(o) = {} /\ ~History!Unresolved(o.view)
    BY <2>1 DEF HistoryStatus
  <2>3. QED
    BY <1>1, <1>2, <1>4, <2>2 DEF Known
<1>5. ASSUME o.applicability.status # "unresolved"
      PROVE  IsKnown(raw, "config") /\ o.detection = DetectReadyTrigger(Config(raw))
  <2>1. IsKnown(o, "config")
    BY <1>1, <1>5 DEF BaseApplicability, Applicability
  <2>2. QED
    BY <1>1, <1>2, <2>1 DEF Known
<1>6. Evidence(o) => o.edge = E1Edge(o.applicability, "yes", o.detection)
  BY <1>1 DEF Consumed
<1>7. QED
  BY <1>1, <1>3, <1>4, <1>5, <1>6 DEF o

(***************************************************************************)
(* The history as it is read.                                              *)
(***************************************************************************)
IsOthers(raw, id) == \E d \in SetOf(raw, "comments") : d.author # raw.account /\ d.id = id
Marker(raw, c) == [AsMarker(raw, c) EXCEPT !.edited = @ \/ c.author # raw.account]
AllMarkers(raw) == {Marker(raw, c) : c \in SetOf(raw, "comments")}
Unread(raw) ==
    [session |-> raw.session, obs |-> raw.obs, head |-> raw.head, comments |-> AllMarkers(raw),
     subs |-> {AsRecord(x) : x \in SetOf(raw, "subs")}, runs |-> {}, answers |-> {},
     journal |-> SetOf(raw, "journal"), recorded |-> RecordedRefs(raw),
     seen |-> Least3(raw.comments.at, raw.subs.at, raw.runs.at)]

LEMMA MarkerFields ==
    ASSUME NEW raw, NEW c
    PROVE  LET m == Marker(raw, c) IN
           m.id = c.id /\ m.kind = c.kind /\ m.at = c.at /\ m.calls = c.calls /\ m.head = c.head
BY DEF Marker, AsMarker

LEMMA RecordFields ==
    ASSUME NEW x
    PROVE  LET y == AsRecord(x) IN
           /\ y.id = x.id /\ y.res = x.res
           /\ y.outcome = "not-submitted" <=> x.outcome = "not-submitted" /\ x.proof
BY DEF AsRecord

LEMMA ViewFields ==
    ASSUME NEW raw, NEW reduced
    PROVE  LET v == [View(raw) EXCEPT !.runs = reduced] IN
           /\ v.session = raw.session /\ v.obs = raw.obs /\ v.runs = reduced
           /\ v.head = raw.head /\ v.seen = Least3(raw.comments.at, raw.subs.at, raw.runs.at)
           /\ v.comments = {m \in AllMarkers(raw) : ~IsOthers(raw, m.id)}
           /\ v.subs = {AsRecord(x) : x \in SetOf(raw, "subs")}
           /\ v.journal = SetOf(raw, "journal") /\ v.recorded = RecordedRefs(raw)
           /\ v.released = History!Released(Unread(raw))
<1> DEFINE others == {c.id : c \in {d \in SetOf(raw, "comments") : d.author # raw.account}}
           read == History!Read(Unread(raw))
<1>1. View(raw) = [read EXCEPT !.comments = {c \in @ : c.id \notin others}]
  BY DEF View, Unread, AllMarkers, Marker
<1>2. /\ read.session = raw.session /\ read.obs = raw.obs /\ read.comments = AllMarkers(raw)
      /\ read.head = raw.head /\ read.seen = Least3(raw.comments.at, raw.subs.at, raw.runs.at)
      /\ read.subs = {AsRecord(x) : x \in SetOf(raw, "subs")}
      /\ read.journal = SetOf(raw, "journal") /\ read.recorded = RecordedRefs(raw)
      /\ read.released = History!Released(Unread(raw))
      /\ read = [f \in {"session", "obs", "head", "comments", "subs", "runs", "journal", "answers", "recorded",
                        "seen", "released"} |-> read[f]]
  BY DEF History!Read, Unread
<1>3. \A m : m.id \in others <=> IsOthers(raw, m.id)
  BY DEF IsOthers
<1> HIDE DEF read, others
<1> DEFINE v == [View(raw) EXCEPT !.runs = reduced]
<1>4. /\ v.session = read.session /\ v.obs = read.obs /\ v.runs = reduced
      /\ v.head = read.head /\ v.seen = read.seen
      /\ v.comments = {m \in read.comments : m.id \notin others}
      /\ v.subs = read.subs /\ v.journal = read.journal /\ v.recorded = read.recorded
      /\ v.released = read.released
  BY <1>1, <1>2
<1> HIDE DEF v
<1>5. QED
  BY <1>2, <1>3, <1>4 DEF v

\* Nothing is sent under a released reservation, and its comment calls nobody.
LEMMA ReleasedSays ==
    ASSUME NEW raw, NEW r \in History!Released(Unread(raw))
    PROVE  /\ \E x \in SetOf(raw, "subs") : x.res = r /\ x.outcome = "not-submitted" /\ x.proof
           /\ \A m \in AllMarkers(raw) : m.id = r => ~m.calls
<1> DEFINE u == Unread(raw)
<1>1. u.subs = {AsRecord(x) : x \in SetOf(raw, "subs")} /\ u.comments = AllMarkers(raw)
  BY DEF Unread
<1> HIDE DEF u
<1>2. \E y \in u.subs : y.res = r /\ y.outcome = "not-submitted"
  BY DEF History!Released, History!Consuming, u
<1>3. \A m \in u.comments : m.id = r => ~m.calls
  BY DEF History!Released, u
<1>4. \E x \in SetOf(raw, "subs") : x.res = r /\ x.outcome = "not-submitted" /\ x.proof
  BY <1>1, <1>2, RecordFields
<1>5. QED
  BY <1>1, <1>3, <1>4

(***************************************************************************)
(* Firsts and lasts.                                                       *)
(***************************************************************************)
LessThan == OpToRel(<, Nat)

LEMMA LeastExists ==
    ASSUME NEW S \in SUBSET Nat, S # {}
    PROVE  \E x \in S : \A y \in S : x <= y
<1>1. IsWellFoundedOn(LessThan, Nat)
  BY NatLessThanWellFounded DEF LessThan
<1>2. PICK x \in S : \A y \in S : ~(<<y, x>> \in LessThan)
  BY <1>1, WFMin, Zenon
<1>3. \A m, n \in Nat : <<m, n>> \in LessThan <=> m < n
  BY DEF LessThan, OpToRel
<1>4. \A y \in S : ~(y < x)
  BY <1>2, <1>3
<1>5. QED
  BY <1>4

\* Something dated and numbered comes first.
LEMMA FirstExists ==
    ASSUME NEW S, S # {}, \A c \in S : c.at \in Nat /\ c.id \in Nat
    PROVE  \E w \in S : \A c \in S : History!Earlier(w, c)
<1>1. PICK t \in {c.at : c \in S} : \A u \in {c.at : c \in S} : t <= u
  <2>1. {c.at : c \in S} \in SUBSET Nat /\ {c.at : c \in S} # {}
    OBVIOUS
  <2>2. QED
    BY <2>1, LeastExists
<1> DEFINE first == {c \in S : c.at = t}
<1>2. PICK i \in {c.id : c \in first} : \A k \in {c.id : c \in first} : i <= k
  <2>1. {c.id : c \in first} \in SUBSET Nat /\ {c.id : c \in first} # {}
    OBVIOUS
  <2>2. QED
    BY <2>1, LeastExists
<1>3. PICK w \in first : w.id = i
  BY <1>2
<1>4. ASSUME NEW c \in S
      PROVE  History!Earlier(w, c)
  <2>1. t <= c.at /\ w.at = t /\ (c.at = t => w.id <= c.id)
    BY <1>1, <1>2, <1>3
  <2>2. QED
    BY <2>1 DEF History!Earlier
<1>5. QED
  BY <1>4

\* Of finitely many entries one is the last.
LEMMA LastExists ==
    ASSUME NEW S, IsFiniteSet(S), S # {}, \A k \in S : k.at \in Nat /\ k.res \in Nat
    PROVE  \E j \in S : \A k \in S : History!Earlier([at |-> k.at, id |-> k.res], [at |-> j.at, id |-> j.res])
<1> DEFINE Beats(k, j) == k.at > j.at \/ (k.at = j.at /\ k.res > j.res)
           Above(j) == {k \in S : Beats(k, j)}
           counts == {Cardinality(Above(j)) : j \in S}
<1>1. \A j \in S : IsFiniteSet(Above(j)) /\ Cardinality(Above(j)) \in Nat
  BY FS_Subset, FS_CardinalityType
<1>2. counts \in SUBSET Nat /\ counts # {}
  BY <1>1
<1>3. PICK n \in counts : \A m \in counts : n <= m
  BY <1>2, LeastExists
<1>4. PICK j \in S : n = Cardinality(Above(j))
  BY <1>3
<1>5. Above(j) = {}
  <2> SUFFICES ASSUME NEW k \in Above(j) PROVE FALSE
    OBVIOUS
  <2>1. Above(k) \subseteq Above(j) /\ k \notin Above(k) /\ k \in S
    OBVIOUS
  <2>2. Above(k) # Above(j)
    BY <2>1
  <2>3. Cardinality(Above(k)) < Cardinality(Above(j))
    <3> HIDE DEF Above
    <3>1. IsFiniteSet(Above(j)) /\ Above(k) \in SUBSET Above(j)
      BY <1>1, <2>1
    <3>2. Cardinality(Above(k)) <= Cardinality(Above(j)) /\ Cardinality(Above(j)) # Cardinality(Above(k))
      BY <2>2, <3>1, FS_Subset, Zenon
    <3>3. Cardinality(Above(k)) \in Nat /\ Cardinality(Above(j)) \in Nat
      BY <1>1, <2>1, Zenon
    <3>4. QED
      BY <3>2, <3>3
  <2>4. Cardinality(Above(k)) \in counts
    OBVIOUS
  <2>5. QED
    <3> HIDE DEF Above, counts
    <3>1. n <= Cardinality(Above(k)) /\ n \in Nat /\ Cardinality(Above(k)) \in Nat
      BY <1>2, <1>3, <2>4
    <3>2. QED
      BY <1>4, <2>3, <3>1
<1>6. ASSUME NEW k \in S
      PROVE  History!Earlier([at |-> k.at, id |-> k.res], [at |-> j.at, id |-> j.res])
  <2>1. ~Beats(k, j)
    BY <1>5
  <2>2. QED
    BY <2>1 DEF History!Earlier
<1>7. QED
  BY <1>6

(***************************************************************************)
(* A review is asked for only in silence.                                  *)
(***************************************************************************)
Dated(raw) ==
    /\ \A c, d \in SetOf(raw, "comments") : c.id = d.id => c = d
    /\ \A c \in SetOf(raw, "comments") : c.id \in Nat /\ c.at \in Nat /\ c.kind \in {"reservation", "trigger"}
    /\ IsFiniteSet(SetOf(raw, "journal"))
    /\ \A j \in SetOf(raw, "journal") : j.res \in Nat /\ j.at \in Nat
    /\ \A j \in SetOf(raw, "journal") : j.phase \in {"confirmed-unattempted", "attempted", "unknown"}

LEMMA ObservationsAreDated == ASSUME NEW raw, ObservationOk(raw), ValidObservation(raw) PROVE Dated(raw)
<1>1. raw.created \in Nat /\ raw.observed \in Nat
  BY DEF ObservationOk
<1>2. "comments" \in Families /\ "journal" \in Families
  BY DEF Families
<1>3. /\ \A c \in SetOf(raw, "comments") : c.id \in Nat
      /\ IsFiniteSet(SetOf(raw, "journal")) /\ \A j \in SetOf(raw, "journal") : j.res \in Nat
  <2>1. IsFiniteSet({})
    BY FS_EmptySet
  <2>2. IsKnown(raw, "comments") => Listing("comments", raw["comments"].value)
    BY <1>2 DEF ObservationOk
  <2>3. IsKnown(raw, "journal") => Listing("journal", raw["journal"].value)
    BY <1>2 DEF ObservationOk
  <2>4. QED
    BY <2>1, <2>2, <2>3 DEF Listing, SetOf
<1>4. Unique(SetOf(raw, "comments")) /\ \A c \in SetOf(raw, "comments") :
          c.kind \in {"reservation", "trigger"} /\ c.at \in raw.created .. raw.observed
  BY DEF ValidObservation
<1>5. \A j \in SetOf(raw, "journal") :
          /\ j.phase \in {"confirmed-unattempted", "attempted", "unknown"}
          /\ {j.resAt, j.at} \subseteq raw.created .. raw.observed
  BY DEF ValidObservation
<1>6. \A t \in raw.created .. raw.observed : t \in Nat
  BY <1>1
<1>7. QED
  BY <1>3, <1>4, <1>5, <1>6 DEF Dated, Unique

\* What the history says when it holds neither run nor request.
Silent(raw, v) ==
    /\ v = [View(raw) EXCEPT !.runs = {}]
    /\ History!Requests(v) = {} /\ ~History!Unresolved(v)

\* Every attempt is proven unsent.
LEMMA SilentSubs ==
    ASSUME NEW raw, NEW v, Silent(raw, v)
    PROVE  /\ History!Consuming(v) = {}
           /\ \A x \in SetOf(raw, "subs") : x.outcome = "not-submitted" /\ x.proof
<1>1. History!Consuming(v) = {}
  BY DEF Silent, History!Requests, History!SubmissionRequests
<1>2. v.subs = {AsRecord(x) : x \in SetOf(raw, "subs")}
  BY ViewFields DEF Silent
<1>3. \A y \in v.subs : y.outcome = "not-submitted"
  BY <1>1 DEF History!Consuming
<1>4. QED
  BY <1>1, <1>2, <1>3, RecordFields

\* What this account wrote is seen, and is a reservation under which nobody is called.
LEMMA SilentComments ==
    ASSUME NEW raw, NEW v, Silent(raw, v), Dated(raw), NEW c \in SetOf(raw, "comments"), c.author = raw.account
    PROVE  /\ Marker(raw, c) \in v.comments
           /\ c.kind = "reservation" /\ ~c.calls
<1> DEFINE m == Marker(raw, c)
<1>1. /\ v.comments = {n \in AllMarkers(raw) : ~IsOthers(raw, n.id)}
      /\ v.released = History!Released(Unread(raw))
  BY ViewFields DEF Silent
<1>2. m \in AllMarkers(raw) /\ m.id = c.id /\ m.kind = c.kind /\ m.calls = c.calls
  BY MarkerFields DEF AllMarkers
<1> HIDE DEF m
<1>3. ~IsOthers(raw, m.id)
  BY <1>2 DEF Dated, IsOthers
<1>4. m \in v.comments
  BY <1>1, <1>2, <1>3
<1>5. m.kind = "reservation"
  <2>1. History!TriggerRequests(v) = {}
    BY DEF Silent, History!Requests
  <2>2. m.kind # "trigger"
    BY <1>4, <2>1 DEF History!TriggerRequests, History!Triggers
  <2>3. QED
    BY <1>2, <2>2 DEF Dated
<1>6. ~m.calls
  <2>1. CASE m.id \in v.released
    BY <1>1, <1>2, <2>1, ReleasedSays
  <2>2. CASE m.id \notin v.released
    <3>1. m \in History!Markers(v) \cap History!Reservations(v)
      BY <1>4, <1>5, <2>2 DEF History!Markers, History!Reservations
    <3>2. History!ReservationRequests(v) = {}
      BY DEF Silent, History!Requests
    <3>3. ~History!IsRequest(v, m)
      BY <3>1, <3>2 DEF History!ReservationRequests
    <3>4. QED
      BY <3>3 DEF History!IsRequest, History!Uncertain
  <2>3. QED
    BY <2>1, <2>2
<1>7. QED
  BY <1>2, <1>4, <1>5, <1>6 DEF m

\* A reservation that is not released stands behind the one that is to be used.
LEMMA SilentWinner ==
    ASSUME NEW raw, NEW v, Silent(raw, v), Dated(raw), NEW m \in v.comments, m.id \notin v.released
    PROVE  /\ History!OwnState(v) = "fresh"
           /\ \E j \in SetOf(raw, "journal") :
                 /\ j.session = raw.session /\ j.obs = raw.obs /\ j.phase = "confirmed-unattempted"
                 /\ j.res = m.id \/ j.resAt <= m.at
<1>1. /\ v.comments \subseteq AllMarkers(raw) /\ v.session = raw.session /\ v.obs = raw.obs
      /\ v.journal = SetOf(raw, "journal")
  BY ViewFields DEF Silent
<1>2. \A n \in v.comments : n.id \in Nat /\ n.at \in Nat /\ n.kind \in {"reservation", "trigger"}
  BY <1>1, MarkerFields DEF AllMarkers, Dated
<1>3. m \in History!Markers(v) /\ History!Markers(v) \subseteq v.comments
  BY DEF History!Markers
<1>4. PICK w \in History!Markers(v) : \A n \in History!Markers(v) : History!Earlier(w, n)
  BY <1>2, <1>3, FirstExists
<1>5. w \in History!Reservations(v)
  <2>1. History!TriggerRequests(v) = {}
    BY DEF Silent, History!Requests
  <2>2. w \in v.comments /\ w.kind # "trigger"
    BY <1>3, <2>1 DEF History!TriggerRequests, History!Triggers
  <2>3. QED
    BY <1>2, <2>2 DEF History!Reservations
<1>6. History!OwnFresh(v, w)
  <2>1. History!ReservationRequests(v) = {}
    BY DEF Silent, History!Requests
  <2>2. ~History!IsRequest(v, w)
    BY <1>5, <2>1 DEF History!ReservationRequests
  <2>3. History!IsWinner(v, w)
    BY <1>4 DEF History!IsWinner
  <2>4. QED
    BY <2>2, <2>3 DEF History!IsRequest
<1>7. History!OwnState(v) = "fresh" /\ History!LatestMine(v).res = w.id
  BY <1>6 DEF History!OwnFresh, History!Own
<1> DEFINE j == History!LatestMine(v)
<1>8. /\ History!Mine(v) # {} /\ ~History!Tried(j)
      /\ \A n \in {x \in History!Markers(v) : x.id = j.res} : n.at = j.resAt
  BY <1>7 DEF History!OwnState
<1>9. j \in History!Mine(v)
  <2>1. History!Mine(v) \subseteq SetOf(raw, "journal")
    BY <1>1 DEF History!Mine, History!Journal
  <2>2. IsFiniteSet(History!Mine(v)) /\ \A k \in History!Mine(v) : k.at \in Nat /\ k.res \in Nat
    BY <2>1, FS_Subset DEF Dated
  <2>3. \E l \in History!Mine(v) : \A k \in History!Mine(v) :
            History!Earlier([at |-> k.at, id |-> k.res], [at |-> l.at, id |-> l.res])
    BY <1>8, <2>2, LastExists
  <2>4. QED
    BY <2>3 DEF History!LatestMine
<1> HIDE DEF j
<1>10. j \in SetOf(raw, "journal") /\ j.session = raw.session /\ j.obs = raw.obs
  BY <1>1, <1>9 DEF History!Mine, History!Journal
<1>11. j.phase = "confirmed-unattempted"
  BY <1>8, <1>10 DEF Dated, History!Tried
<1>12. w.at = j.resAt
  BY <1>7, <1>8 DEF j
<1>13. j.resAt <= m.at
  BY <1>2, <1>3, <1>4, <1>12 DEF History!Earlier
<1>14. QED
  BY <1>7, <1>10, <1>11, <1>13

\* Nobody's answer names a run, or a request that is not proven unsent.
LEMMA SilentAnswers ==
    ASSUME NEW raw, NEW v, Silent(raw, v), NEW r \in SetOf(raw, "receipts"), NEW d \in r.decisions
    PROVE  /\ d.run = None
           /\ \/ d.request = None
              \/ \E x \in SetOf(raw, "subs") :
                    /\ x.outcome = "not-submitted" /\ x.proof
                    /\ d.request \in {History!Ref("submission", x.id), History!Ref("comment", x.res)}
<1>1. /\ v.runs = {} /\ v.recorded = RecordedRefs(raw) /\ v.subs = {AsRecord(x) : x \in SetOf(raw, "subs")}
      /\ v.released = History!Released(Unread(raw))
  BY ViewFields DEF Silent
<1>2. History!Recorded(v) = {}
  BY <1>1 DEF Silent, History!Unresolved, History!UnexplainedRecord
<1>3. /\ d.run # None => History!Ref("run", d.run) \in RecordedRefs(raw)
      /\ d.request # None => d.request \in RecordedRefs(raw)
  <2> DEFINE Named(x) ==
                (IF x.run = None THEN {} ELSE {History!Ref("run", x.run)})
                \cup ({x.request} \ {None})
                \cup (IF x.grant = None THEN {}
                      ELSE {History!Ref("run", x.grant.run.id)}
                           \cup (IF x.grant.sub = None THEN {} ELSE {History!Ref("submission", x.grant.sub.id)}))
  <2>1. RecordedRefs(raw) = UNION {x.refs \cup UNION {Named(y) : y \in x.decisions} : x \in SetOf(raw, "receipts")}
    BY DEF RecordedRefs
  <2>2. /\ d.run # None => History!Ref("run", d.run) \in Named(d)
        /\ d.request # None => d.request \in Named(d)
    OBVIOUS
  <2> HIDE DEF Named
  <2>3. Named(d) \subseteq RecordedRefs(raw)
    BY <2>1
  <2>4. QED
    BY <2>2, <2>3
<1>4. \A ref \in RecordedRefs(raw) :
          \/ \E y \in v.subs \ History!Consuming(v) : ref = History!Ref("submission", y.id)
          \/ \E q \in v.released : ref = History!Ref("comment", q)
  BY <1>1, <1>2 DEF History!Recorded
<1>5. d.run = None
  BY <1>3, <1>4 DEF History!Ref
<1>6. ASSUME NEW y \in v.subs \ History!Consuming(v), d.request = History!Ref("submission", y.id)
      PROVE  \E x \in SetOf(raw, "subs") :
                /\ x.outcome = "not-submitted" /\ x.proof /\ d.request = History!Ref("submission", x.id)
  <2>1. PICK x \in SetOf(raw, "subs") : y = AsRecord(x)
    BY <1>1
  <2>2. y.outcome = "not-submitted"
    BY DEF History!Consuming
  <2>3. x.outcome = "not-submitted" /\ x.proof /\ y.id = x.id
    BY <2>1, <2>2, RecordFields
  <2>4. QED
    BY <1>6, <2>3
<1>7. ASSUME NEW q \in v.released, d.request = History!Ref("comment", q)
      PROVE  \E x \in SetOf(raw, "subs") :
                /\ x.outcome = "not-submitted" /\ x.proof /\ d.request = History!Ref("comment", x.res)
  BY <1>1, <1>7, ReleasedSays
<1>8. d.request = None \/ \E x \in SetOf(raw, "subs") :
          /\ x.outcome = "not-submitted" /\ x.proof
          /\ d.request \in {History!Ref("submission", x.id), History!Ref("comment", x.res)}
  BY <1>3, <1>4, <1>6, <1>7
<1>9. QED
  BY <1>5, <1>8

\* The rule of a decision is that of the rows, over what was worked out.
LEMMA DecisionIs ==
    ASSUME NEW raw, DecideGreptileLifecycle(raw).rule \in Acts
    PROVE  /\ ValidObservation(raw)
           /\ DecideGreptileLifecycle(raw) = DraftOrReady(Memo(raw))
BY DEF DecideGreptileLifecycle, Says, Outcome, Acts, Asking, Opening

LEMMA AskingIs ==
    ASSUME NEW raw, DOMAIN raw = All, DecideGreptileLifecycle(raw).rule \in Asking
    PROVE  LET o == Memo(raw) IN
           /\ ValidObservation(raw) /\ raw.draft
           /\ IsKnown(raw, "receipts") /\ IsKnown(raw, "gates") /\ HistoriesKnown(raw)
           /\ Gates(raw).findings = {} /\ Misattributed(raw) = {} /\ Listed(raw) = {}
           /\ Silent(raw, o.view)
           /\ DecideGreptileLifecycle(raw).rule = "trigger" <=> History!OwnState(o.view) = "fresh"
<1> DEFINE o == Memo(raw)
           guard == SecondRunGuard(o)
<1>1. ValidObservation(raw) /\ DecideGreptileLifecycle(raw) = DraftOrReady(o)
  BY DecisionIs DEF Acts
<1>2. Reads(o, raw) /\ Known(raw, o)
  BY MemoFacts, ReadsKnown
<1>3. /\ o.view = [View(raw) EXCEPT !.runs = o.reduced] /\ o.status \notin Acts
      /\ Resolved(o) => /\ HistoriesKnown(raw) /\ Misattributed(raw) = {} /\ o.reduced = ReducedRuns(raw)
                        /\ ~History!Unresolved(o.view) /\ o.requests = History!Requests(o.view)
  BY MemoFacts
<1>4. o.draft = raw.draft /\ "receipts" \in Families /\ "gates" \in Families
  BY <1>2 DEF Reads, All, Facts, Families
<1> HIDE DEF o
<1>5. raw.draft /\ DecideGreptileLifecycle(raw) = Evaluate(o, guard)
  BY <1>1, <1>4 DEF DraftOrReady, ReadOnlyCheck, Outcome, Says, Asking
<1> HIDE DEF guard
<1>6. IsKnown(o, "receipts") /\ Resolved(o) /\ Evaluate(o, guard) = GreptilePath(o, guard)
  BY <1>3, <1>5, EvaluateSays
<1>7. /\ o.reduced = {} /\ o.requests = {} /\ ~Feedback(o) /\ RequestGate(o) = "none"
      /\ GreptilePath(o, guard).rule = "trigger" <=> History!OwnState(o.view) = "fresh"
  BY <1>5, <1>6, PathAsks
<1>8. IsKnown(o, "gates")
  BY <1>7 DEF RequestGate, OrGate, SharedGate
<1>9. IsKnown(raw, "receipts") /\ IsKnown(raw, "gates") /\ Gates(o) = Gates(raw)
  BY <1>2, <1>4, <1>6, <1>8 DEF Known
<1>10. Gates(raw).findings = {}
  BY <1>7, <1>8, <1>9 DEF Feedback
<1>11. Listed(raw) = {}
  BY <1>3, <1>6, <1>7 DEF ReducedRuns
<1>12. Silent(raw, o.view)
  BY <1>3, <1>6, <1>7 DEF Silent
<1>13. QED
  BY <1>1, <1>3, <1>5, <1>6, <1>7, <1>9, <1>10, <1>11, <1>12 DEF o

LEMMA SilenceHolds == IInv => TriggerNeedsSilence
<1> SUFFICES ASSUME IInv, verdict.rule \in Asking
             PROVE  TriggerNeedsSilence
  BY DEF TriggerNeedsSilence
<1> DEFINE v == Memo(obs).view
<1>1. verdict = DecideGreptileLifecycle(obs) /\ ObservationOk(obs) /\ DOMAIN obs = All
  BY DEF IInv, ObservationOk, All
<1>2. /\ ValidObservation(obs) /\ IsKnown(obs, "receipts") /\ IsKnown(obs, "gates") /\ HistoriesKnown(obs)
      /\ Gates(obs).findings = {} /\ Misattributed(obs) = {} /\ Listed(obs) = {}
      /\ Silent(obs, v)
      /\ verdict.rule = "trigger" <=> History!OwnState(v) = "fresh"
  BY <1>1, AskingIs
<1>3. Dated(obs)
  BY <1>1, <1>2, ObservationsAreDated
<1> HIDE DEF v
<1>4. \A f \in {"comments", "subs", "runs", "receipts", "gates"} : IsKnown(obs, f)
  BY <1>2 DEF HistoriesKnown
<1>5. RunsReported = {}
  BY <1>2 DEF RunsReported, Misattributed, Listed
<1>6. /\ SetOf(obs, "subs") = obs.subs.value /\ SetOf(obs, "receipts") = obs.receipts.value
  BY <1>4 DEF SetOf
<1>7. \A x \in SetOf(obs, "subs") : x.outcome = "not-submitted" /\ x.proof
  BY <1>2, SilentSubs
<1>8. ASSUME NEW c \in Ours
      PROVE  c.kind = "reservation" /\ ~c.calls
  BY <1>2, <1>3, SilentComments DEF Ours
<1>9. ASSUME NEW r \in SetOf(obs, "receipts"), NEW d \in r.decisions
      PROVE  d.run = None /\ d.request \in {None} \cup Unsent
  BY <1>2, <1>9, SilentAnswers DEF Unsent
<1>10. ASSUME NEW c \in Ours
       PROVE  \/ ProvenNothingSent(c.id)
              \/ verdict.rule = "trigger" /\ \E j \in SetOf(obs, "journal") :
                    /\ j.session = obs.session /\ j.obs = obs.obs /\ j.phase = "confirmed-unattempted"
                    /\ j.res = c.id \/ j.resAt <= c.at
  <2> DEFINE m == Marker(obs, c)
  <2>1. c \in SetOf(obs, "comments") /\ c.author = obs.account
    BY DEF Ours
  <2>2. m \in v.comments /\ m.id = c.id /\ m.at = c.at
    BY <1>2, <1>3, <2>1, SilentComments, MarkerFields
  <2> HIDE DEF m
  <2>3. CASE m.id \in v.released
    <3>1. v.released = History!Released(Unread(obs))
      BY <1>2, ViewFields DEF Silent
    <3>2. QED
      BY <2>2, <2>3, <3>1, ReleasedSays DEF ProvenNothingSent
  <2>4. CASE m.id \notin v.released
    BY <1>2, <1>3, <2>2, <2>4, SilentWinner
  <2>5. QED
    BY <2>3, <2>4
<1>11. QED
  BY <1>2, <1>4, <1>5, <1>6, <1>7, <1>8, <1>9, <1>10 DEF TriggerNeedsSilence

(***************************************************************************)
(* A consumed allowance starts no second review.                           *)
(***************************************************************************)
LEMMA DetectionKinds ==
    ASSUME NEW config
    PROVE  DetectReadyTrigger(config).kind \in {"excluded", "will-start", "cannot-rule-out"}
<1>1. \A kind, excluded, facts : Detection(kind, excluded, facts).kind = kind
  BY DEF Detection
<1>2. \A exclusion, events : FromSettings(exclusion, events).kind \in {"excluded", "will-start", "cannot-rule-out"}
  BY ZenonT(30), <1>1 DEF FromSettings
<1>3. \A base, head : FromTips(base, head).kind \in {"excluded", "will-start", "cannot-rule-out"}
  BY <1>1 DEF FromTips
<1>4. QED
  BY <1>2, <1>3 DEF DetectReadyTrigger

\* The allowance is shown to be consumed.
Shown(raw) ==
    \/ Misattributed(raw) # {} \/ Listed(raw) # {}
    \/ \E x \in SetOf(raw, "subs") : x.outcome # "not-submitted" \/ ~x.proof
    \/ \E c \in SetOf(raw, "comments") : c.author = raw.account /\ c.kind = "trigger"
    \/ \E r \in SetOf(raw, "receipts") : \E ref \in r.refs : ref.kind = "run"

LEMMA ShownIsEvidence ==
    ASSUME NEW raw, DOMAIN raw = All, Dated(raw), Shown(raw)
    PROVE  Evidence(Memo(raw))
<1> DEFINE o == Memo(raw)
<1>1. Known(raw, o) /\ o.view = [View(raw) EXCEPT !.runs = o.reduced]
  BY MemoFacts, ReadsKnown
<1> HIDE DEF o
<1>2. /\ o.view.subs = {AsRecord(x) : x \in SetOf(raw, "subs")} /\ o.view.recorded = RecordedRefs(raw)
      /\ o.view.comments = {m \in AllMarkers(raw) : ~IsOthers(raw, m.id)}
  BY <1>1, ViewFields
<1>3. CASE Misattributed(raw) # {} \/ Listed(raw) # {}
  BY <1>1, <1>3 DEF Evidence, Known, o
<1>4. ASSUME NEW x \in SetOf(raw, "subs"), x.outcome # "not-submitted" \/ ~x.proof
      PROVE  Evidence(o)
  <2>1. AsRecord(x) \in History!Consuming(o.view)
    BY <1>2, <1>4, RecordFields DEF History!Consuming
  <2>2. QED
    BY <2>1 DEF Evidence
<1>5. ASSUME NEW c \in SetOf(raw, "comments"), c.author = raw.account, c.kind = "trigger"
      PROVE  Evidence(o)
  <2> DEFINE m == Marker(raw, c)
  <2>1. m \in AllMarkers(raw) /\ m.id = c.id /\ m.kind = "trigger"
    BY <1>5, MarkerFields DEF AllMarkers
  <2> HIDE DEF m
  <2>2. ~IsOthers(raw, m.id)
    BY <1>5, <2>1 DEF Dated, IsOthers
  <2>3. m \in History!Markers(o.view)
    BY <1>2, <2>1, <2>2 DEF History!Markers
  <2>4. QED
    BY <2>3 DEF Evidence
<1>6. ASSUME NEW r \in SetOf(raw, "receipts"), NEW ref \in r.refs, ref.kind = "run"
      PROVE  Evidence(o)
  <2>1. ref \in o.view.recorded
    BY <1>2 DEF RecordedRefs
  <2>2. ref \in History!Recorded(o.view)
    BY <1>6, <2>1 DEF History!Recorded, History!Ref
  <2>3. QED
    BY <2>2 DEF Evidence
<1>7. QED
  BY <1>3, <1>4, <1>5, <1>6 DEF Shown, o

\* Where the allowance is consumed, the second run is asked about unless it is excluded.
LEMMA GuardsPass ==
    ASSUME NEW o, o.applicability.status # "unresolved",
           o.edge = E1Edge(o.applicability, "yes", o.detection),
           o.detection.kind \in {"excluded", "will-start", "cannot-rule-out"}
    PROVE  /\ SecondRunGuard(o).says \notin {"ask", "pause"} => o.detection.kind = "excluded"
           /\ ReadOnlyGuard(o).says \notin {"ask", "pause"} =>
                 o.detection.kind = "excluded" \/ o.detection.pushRebaseExcluded
<1>1. ASSUME o.detection.kind # "excluded"
      PROVE  Asked(o.edge) /\ ~o.edge.offersB
  <2> DEFINE offers == "yes" = "no" /\ o.detection.pushRebaseExcluded
             consumed == "yes" = "yes"
  <2>1. ~offers
    OBVIOUS
  <2> HIDE DEF offers, consumed
  <2>2. o.edge = [question |-> "E1", kind |-> o.detection.kind, consumed |-> consumed,
                  offersB |-> offers, facts |-> o.detection.facts]
    BY <1>1 DEF E1Edge, offers, consumed
  <2>3. o.edge.kind = o.detection.kind /\ o.edge.offersB = offers
    BY <2>2
  <2>4. QED
    BY <1>1, <2>1, <2>3 DEF Asked
<1>2. \A says, waiver : Guard(says, waiver).says = says
  BY DEF Guard
<1>3. SecondRunGuard(o).says \notin {"ask", "pause"} => o.detection.kind = "excluded"
  BY <1>1, <1>2 DEF SecondRunGuard
<1>4. QED
  BY <1>1, <1>2, <1>3 DEF ReadOnlyGuard

LEMMA ReadinessHolds == IInv => NoSecondReview
<1> DEFINE o == Memo(obs)
           detection == DetectReadyTrigger(Config(obs))
<1> SUFFICES ASSUME IInv, verdict.rule \in Opening, Shown(obs)
             PROVE  /\ verdict.rule = "ready-eligible" => detection.kind = "excluded"
                    /\ verdict.rule = "already-prepared" => detection.kind = "excluded" \/ detection.pushRebaseExcluded
  BY DEF NoSecondReview, Opening, Shown, RunsReported, Misattributed, Listed, Ours
<1>1. verdict = DecideGreptileLifecycle(obs) /\ ObservationOk(obs) /\ DOMAIN obs = All
  BY DEF IInv, ObservationOk, All
<1>2. ValidObservation(obs) /\ verdict = DraftOrReady(o)
  BY <1>1, DecisionIs DEF Acts
<1>3. Dated(obs)
  BY <1>1, <1>2, ObservationsAreDated
<1>4. /\ o.status \notin Acts
      /\ o.applicability.status # "unresolved" => o.detection = detection
      /\ o.edge = E1Edge(o.applicability, "yes", o.detection)
  BY <1>1, <1>3, MemoFacts, ShownIsEvidence
<1> HIDE DEF o
<1>5. o.applicability.status # "unresolved" =>
         /\ SecondRunGuard(o).says \notin {"ask", "pause"} => detection.kind = "excluded"
         /\ ReadOnlyGuard(o).says \notin {"ask", "pause"} =>
               detection.kind = "excluded" \/ detection.pushRebaseExcluded
  BY <1>4, DetectionKinds, GuardsPass
<1>6. \A guard : Evaluate(o, guard).rule = "ready-eligible" =>
                    o.applicability.status # "unresolved" /\ guard.says \notin {"ask", "pause"}
  BY <1>4, EvaluateSays
<1>7. \A guard : Evaluate(o, guard).rule # "already-prepared"
  BY <1>4, EvaluateSays
<1>8. CASE verdict.rule = "ready-eligible"
  <2>1. verdict = Evaluate(o, SecondRunGuard(o))
    BY <1>2, <1>8 DEF DraftOrReady, ReadOnlyCheck, Outcome, Says
  <2>2. QED
    BY <1>5, <1>6, <1>8, <2>1
<1>9. CASE verdict.rule = "already-prepared"
  <2>1. Evaluate(o, ReadOnlyGuard(o)).rule = "ready-eligible"
    BY <1>2, <1>7, <1>9 DEF DraftOrReady, ReadOnlyCheck, Outcome, Says
  <2>2. QED
    BY <1>5, <1>6, <1>9, <2>1
<1>10. QED
  BY <1>8, <1>9 DEF Opening

(***************************************************************************)
(* What one more receipt changes.                                          *)
(***************************************************************************)
With(raw, r) == [raw EXCEPT !.receipts.value = @ \cup {r}]

LEMMA WithFacts ==
    ASSUME NEW raw, NEW r, ObservationOk(raw)
    PROVE  LET more == With(raw, r) IN
           /\ DOMAIN more = All /\ \A k \in All \ {"receipts"} : more[k] = raw[k]
           /\ more.receipts.value = raw.receipts.value \cup {r}
           /\ more.receipts.state = raw.receipts.state /\ more.receipts.at = raw.receipts.at
           /\ more.receipts.pr = raw.receipts.pr /\ more.receipts.head = raw.receipts.head
<1>1. raw = [k \in All |-> raw[k]] /\ "receipts" \in All
  BY DEF ObservationOk, All, Families
<1>2. raw.receipts = [k \in {"state", "at", "pr", "head", "value"} |-> raw.receipts[k]]
  BY DEF ObservationOk, Families
<1>3. QED
  BY <1>1, <1>2 DEF With

\* More receipts, and nothing else.
More(raw, more, r) ==
    /\ DOMAIN raw = All /\ DOMAIN more = All /\ \A k \in All \ {"receipts"} : more[k] = raw[k]
    /\ \A f \in Families : /\ more[f].state = raw[f].state /\ more[f].at = raw[f].at
                            /\ more[f].pr = raw[f].pr /\ more[f].head = raw[f].head
    /\ \A f \in Families \ {"receipts"} : SetOf(more, f) = SetOf(raw, f)
    /\ SetOf(more, "receipts") = SetOf(raw, "receipts") \cup {r}

LEMMA WithIsMore ==
    ASSUME NEW raw, NEW r, ObservationOk(raw), IsKnown(raw, "receipts")
    PROVE  More(raw, With(raw, r), r)
<1> DEFINE more == With(raw, r)
<1>1. /\ DOMAIN more = All /\ \A k \in All \ {"receipts"} : more[k] = raw[k]
      /\ more.receipts.value = raw.receipts.value \cup {r}
      /\ more.receipts.state = raw.receipts.state /\ more.receipts.at = raw.receipts.at
      /\ more.receipts.pr = raw.receipts.pr /\ more.receipts.head = raw.receipts.head
      /\ DOMAIN raw = All
  BY WithFacts DEF ObservationOk, All
<1> HIDE DEF more
<1>2. \A f \in Families : /\ more[f].state = raw[f].state /\ more[f].at = raw[f].at
                          /\ more[f].pr = raw[f].pr /\ more[f].head = raw[f].head
  BY <1>1 DEF All
<1>3. \A f \in Families : IsKnown(more, f) <=> IsKnown(raw, f)
  BY <1>2 DEF IsKnown
<1>4. \A f \in Families \ {"receipts"} : SetOf(more, f) = SetOf(raw, f)
  BY <1>1, <1>3 DEF SetOf, All
<1>5. SetOf(more, "receipts") = SetOf(raw, "receipts") \cup {r}
  BY <1>1 DEF SetOf, IsKnown
<1>6. QED
  BY <1>1, <1>2, <1>3, <1>4, <1>5 DEF More, more

\* What could be decided on with the receipt could be without it.
LEMMA MoreIsValid ==
    ASSUME NEW raw, NEW more, NEW r, More(raw, more, r), ValidObservation(more)
    PROVE  ValidObservation(raw)
<1>1. /\ raw.created = more.created /\ raw.observed = more.observed /\ raw.now = more.now
      /\ raw.actors = more.actors /\ raw.account = more.account /\ raw.config = more.config
      /\ raw.gates = more.gates
  BY DEF More, All, Facts, Families
<1>2. \A f \in Families : raw[f].state = more[f].state /\ raw[f].at = more[f].at
  BY DEF More
<1>3. /\ SetOf(raw, "comments") = SetOf(more, "comments") /\ SetOf(raw, "subs") = SetOf(more, "subs")
      /\ SetOf(raw, "journal") = SetOf(more, "journal") /\ SetOf(raw, "runs") = SetOf(more, "runs")
      /\ SetOf(raw, "receipts") \subseteq SetOf(more, "receipts")
      /\ IsKnown(raw, "config") <=> IsKnown(more, "config")
      /\ IsKnown(raw, "gates") <=> IsKnown(more, "gates")
  <2>1. {"comments", "subs", "journal", "runs", "config", "gates"} \subseteq Families \ {"receipts"}
    BY DEF Families
  <2>2. \A f \in {"config", "gates"} : IsKnown(raw, f) <=> IsKnown(more, f)
    BY <1>2, <2>1 DEF IsKnown
  <2>3. \A f \in {"comments", "subs", "journal", "runs"} : SetOf(raw, f) = SetOf(more, f)
    BY ZenonT(30), <2>1 DEF More
  <2>4. SetOf(raw, "receipts") \subseteq SetOf(more, "receipts")
    BY DEF More
  <2>5. QED
    BY <2>2, <2>3, <2>4
<1>4. /\ Config(raw) = Config(more) /\ Gates(raw) = Gates(more)
  BY <1>1 DEF Config, Gates
<1>5. /\ raw.created <= raw.observed /\ raw.observed <= raw.now
      /\ raw.actors # {} /\ raw.account \notin raw.actors
      /\ \A f \in Families :
            /\ raw[f].state \in {"known", "unknown", "failed", "incomplete", "stale"}
            /\ raw[f].state # "unknown" => raw[f].at \in raw.created .. raw.observed
  BY <1>1, <1>2 DEF ValidObservation
<1>6. \A run, upper : RunTimesOk(more, run, upper) => RunTimesOk(raw, run, upper)
  BY <1>1 DEF RunTimesOk
<1>7. \A d : GrantOk(more, d) => GrantOk(raw, d)
  BY <1>1, <1>6 DEF GrantOk
<1>8. \A x, d : AnswerOk(more, x, d) => AnswerOk(raw, x, d)
  BY <1>1, <1>7 DEF AnswerOk
<1>9. /\ Unique(SetOf(raw, "receipts")) /\ Unique(UNION {x.decisions : x \in SetOf(raw, "receipts")})
      /\ \A x \in SetOf(raw, "receipts") :
            /\ x.at \in raw.created .. raw.observed
            /\ \A d \in x.decisions : AnswerOk(raw, x, d)
  <2>1. /\ Unique(SetOf(more, "receipts")) /\ Unique(UNION {x.decisions : x \in SetOf(more, "receipts")})
        /\ \A x \in SetOf(more, "receipts") :
              /\ x.at \in more.created .. more.observed
              /\ \A d \in x.decisions : AnswerOk(more, x, d)
    BY DEF ValidObservation
  <2>2. UNION {x.decisions : x \in SetOf(raw, "receipts")} \subseteq UNION {x.decisions : x \in SetOf(more, "receipts")}
    BY <1>3
  <2>3. QED
    BY <1>1, <1>3, <1>8, <2>1, <2>2 DEF Unique
<1>10. /\ IsKnown(raw, "config") => \A tip \in {Config(raw).base, Config(raw).head} :
            tip.dir # None /\ ".greptile/config.json" \in tip.dir.files => tip.dir.config # None
       /\ Unique(SetOf(raw, "comments")) /\ \A c \in SetOf(raw, "comments") :
            c.kind \in {"reservation", "trigger"} /\ c.at \in raw.created .. raw.observed
       /\ Unique(SetOf(raw, "subs")) /\ \A x \in SetOf(raw, "subs") :
            /\ x.outcome \in {"accepted", "ambiguous", "not-submitted"} /\ x.at \in raw.created .. raw.observed
            /\ x.outcome = "not-submitted" => x.run = None
  BY <1>1, <1>3, <1>4 DEF ValidObservation
<1>11. /\ \A j \in SetOf(raw, "journal") :
            /\ j.phase \in {"confirmed-unattempted", "attempted", "unknown"}
            /\ {j.resAt, j.at} \subseteq raw.created .. raw.observed /\ j.resAt <= j.at
       /\ \A x \in SetOf(raw, "runs") : RunOk(x) /\ RunTimesOk(raw, x, raw.observed)
  BY <1>1, <1>3, <1>6 DEF ValidObservation
<1>12. IsKnown(raw, "gates") =>
          /\ \A g \in {Gates(raw).review, Gates(raw).tests, Gates(raw).plan} : g.status \in {"passed", "failed", "incomplete"}
          /\ Gates(raw).manual.status \in {"not-required", "passed", "deferred-by-user", "pending"}
          /\ Gates(raw).mergeable \in {"MERGEABLE", "CONFLICTING", "UNKNOWN"}
  BY <1>3, <1>4 DEF ValidObservation
<1>13. QED
  BY <1>5, <1>9, <1>10, <1>11, <1>12 DEF ValidObservation

LEMMA MoreIsOfTheSubject ==
    ASSUME NEW raw, NEW more, NEW r, More(raw, more, r), SubjectMismatch(raw)
    PROVE  SubjectMismatch(more)
<1>1. /\ raw.pr = more.pr /\ raw.head = more.head /\ raw.base = more.base
      /\ raw.refs = more.refs /\ raw.diff = more.diff /\ raw.config = more.config
  BY DEF More, All, Facts, Families
<1>2. \A f \in Families : /\ raw[f].state = more[f].state /\ raw[f].pr = more[f].pr /\ raw[f].head = more[f].head
                          /\ IsKnown(more, f) <=> IsKnown(raw, f)
  BY DEF More, IsKnown
<1>3. /\ SetOf(raw, "receipts") \subseteq SetOf(more, "receipts")
      /\ IsKnown(raw, "diff") <=> IsKnown(more, "diff")
      /\ IsKnown(raw, "config") <=> IsKnown(more, "config")
      /\ IsKnown(raw, "refs") <=> IsKnown(more, "refs")
  <2>1. {"diff", "config", "refs"} \subseteq Families
    BY DEF Families
  <2>2. \A f \in {"diff", "config", "refs"} : IsKnown(raw, f) <=> IsKnown(more, f)
    BY ZenonT(30), <1>2, <2>1
  <2>3. QED
    BY <2>2 DEF More
<1>4. Config(raw) = Config(more) /\ Diff(raw) = Diff(more)
  BY <1>1 DEF Config, Diff
<1>5. MarkerOmitted(raw) => MarkerOmitted(more)
  BY <1>1, <1>3, <1>4 DEF MarkerOmitted
<1>6. QED
  BY <1>1, <1>2, <1>3, <1>4, <1>5 DEF SubjectMismatch

\* What AncestryOf reads.
AncestryIn(ancestry, head, sha) ==
    LET classes == {ClassifyAncestry(c) : c \in {d \in ancestry : d.descendant = head /\ d.ancestor = sha}}
                   \ {"unresolved"}
    IN IF sha = head THEN "ancestor"
       ELSE IF Cardinality(classes) = 1 THEN CHOOSE c \in classes : TRUE ELSE "unresolved"

\* What makes a receipt one to trust is not in the receipts.
LEMMA TrustReads ==
    ASSUME NEW o, NEW p, p.account = o.account, p.head = o.head, SetOf(p, "ancestry") = SetOf(o, "ancestry")
    PROVE  /\ \A sha : AncestryOf(p, sha) = AncestryOf(o, sha)
           /\ \A x : Trusted(p, x) = Trusted(o, x)
           /\ \A x : IsRunningAccount(p, x) = IsRunningAccount(o, x)
<1>1. \A sha : AncestryOf(p, sha) = AncestryOf(o, sha)
  <2>1. \A sha : AncestryOf(o, sha) = AncestryIn(SetOf(o, "ancestry"), o.head, sha)
    BY ZenonT(30) DEF AncestryOf, AncestryIn
  <2>2. \A sha : AncestryOf(p, sha) = AncestryIn(SetOf(p, "ancestry"), p.head, sha)
    BY ZenonT(30) DEF AncestryOf, AncestryIn
  <2>3. QED
    BY <2>1, <2>2
<1>2. \A x : IsRunningAccount(p, x) = IsRunningAccount(o, x)
  BY DEF IsRunningAccount
<1>3. \A x : Trusted(p, x) = Trusted(o, x)
  BY <1>1, <1>2 DEF Trusted
<1>4. QED
  BY <1>1, <1>2, <1>3

LEMMA TrustIsHere ==
    ASSUME NEW o, NEW r, Trusted(o, r)
    PROVE  WrittenHere(o, r)
<1>1. r.author = o.account /\ r.editors \subseteq {o.account} /\ AncestryOf(o, r.head) = "ancestor"
  BY DEF Trusted, IsRunningAccount
<1> DEFINE checks == {d \in SetOf(o, "ancestry") : d.descendant = o.head /\ d.ancestor = r.head}
           classes == {ClassifyAncestry(c) : c \in checks} \ {"unresolved"}
<1>2. CASE r.head # o.head
  <2>1. Cardinality(classes) = 1 /\ (CHOOSE c \in classes : TRUE) = "ancestor"
    BY <1>1, <1>2 DEF AncestryOf
  <2>2. classes # {}
    BY <2>1, FS_EmptySet
  <2>3. "ancestor" \in classes
    BY <2>1, <2>2
  <2>4. PICK c \in checks : ClassifyAncestry(c) = "ancestor"
    BY <2>3
  <2>5. c.result = "ancestor"
    BY <2>4 DEF ClassifyAncestry
  <2>6. QED
    BY <1>1, <2>4, <2>5 DEF WrittenHere
<1>3. CASE r.head = o.head
  BY <1>1, <1>3 DEF WrittenHere
<1>4. QED
  BY <1>2, <1>3

LEMMA AnswersAre ==
    ASSUME NEW o
    PROVE  /\ \A a : a \in Answers(o) <=> \E x \in SetOf(o, "receipts") : \E d \in Given(x) : a = AnswerOf(o, x, d)
           /\ \A x, d : AnswerOf(o, x, d).row = d /\ AnswerOf(o, x, d).trusted = Trusted(o, x)
<1>1. Answers(o) = UNION {{AnswerOf(o, x, d) : d \in Given(x)} : x \in SetOf(o, "receipts")}
  BY DEF Answers
<1>2. \A a : a \in Answers(o) <=> \E x \in SetOf(o, "receipts") : \E d \in Given(x) : a = AnswerOf(o, x, d)
  BY <1>1
<1>3. \A x, d : AnswerOf(o, x, d).row = d /\ AnswerOf(o, x, d).trusted = Trusted(o, x)
  BY DEF AnswerOf
<1>4. QED
  BY <1>2, <1>3

\* One that is not to be trusted adds nothing to what is.
LEMMA MoreToTrust ==
    ASSUME NEW raw, NEW more, NEW r, More(raw, more, r), ~WrittenHere(more, r)
    PROVE  /\ \A sha : AncestryOf(more, sha) = AncestryOf(raw, sha)
           /\ TrustedReceipts(more) = TrustedReceipts(raw)
           /\ Answers(raw) \subseteq Answers(more)
           /\ {a \in Answers(more) : a.trusted} = {a \in Answers(raw) : a.trusted}
           /\ \A a \in Answers(more) \ Answers(raw) : a.row \in r.decisions
<1>1. more.account = raw.account /\ more.head = raw.head /\ SetOf(more, "ancestry") = SetOf(raw, "ancestry")
  BY DEF More, All, Facts, Families
<1>2. /\ \A sha : AncestryOf(more, sha) = AncestryOf(raw, sha)
      /\ \A x : Trusted(more, x) = Trusted(raw, x)
  BY <1>1, TrustReads
<1>3. ~Trusted(more, r)
  BY TrustIsHere
<1>4. SetOf(more, "receipts") = SetOf(raw, "receipts") \cup {r}
  BY DEF More
<1>5. TrustedReceipts(more) = TrustedReceipts(raw)
  BY <1>2, <1>3, <1>4 DEF TrustedReceipts
<1>6. \A x, d : AnswerOf(more, x, d) = AnswerOf(raw, x, d)
  BY <1>2 DEF AnswerOf
<1>7. Answers(raw) \subseteq Answers(more)
  BY <1>4, <1>6, AnswersAre
<1>8. \A a \in Answers(more) \ Answers(raw) : \E d \in Given(r) : a = AnswerOf(more, r, d)
  BY <1>4, <1>6, AnswersAre
<1>9. \A a \in Answers(more) \ Answers(raw) : ~a.trusted /\ a.row \in r.decisions
  BY <1>3, <1>8, AnswersAre DEF Given
<1>10. QED
  BY <1>2, <1>5, <1>7, <1>9

\* What is read of the history but for what receipts say.
BesidesRecords(v, w) ==
    /\ w.session = v.session /\ w.obs = v.obs /\ w.head = v.head /\ w.comments = v.comments
    /\ w.subs = v.subs /\ w.runs = v.runs /\ w.journal = v.journal /\ w.seen = v.seen
    /\ w.released = v.released

LEMMA MoreToRead ==
    ASSUME NEW raw, NEW more, NEW r, More(raw, more, r), NEW reduced
    PROVE  /\ BesidesRecords([View(raw) EXCEPT !.runs = reduced], [View(more) EXCEPT !.runs = reduced])
           /\ HistoriesKnown(more) <=> HistoriesKnown(raw)
           /\ Misattributed(more) = Misattributed(raw)
           /\ Listed(more) = Listed(raw)
           /\ ReducedRuns(more) = ReducedRuns(raw)
           /\ RecordedRefs(raw) \subseteq RecordedRefs(more)
           /\ ~Names(r) => View(more) = View(raw)
<1>1. /\ more.account = raw.account /\ more.head = raw.head /\ more.session = raw.session /\ more.obs = raw.obs
      /\ more.actors = raw.actors
      /\ more.comments = raw.comments /\ more.subs = raw.subs /\ more.runs = raw.runs
  BY DEF More, All, Facts, Families
<1>2. /\ SetOf(more, "comments") = SetOf(raw, "comments") /\ SetOf(more, "subs") = SetOf(raw, "subs")
      /\ SetOf(more, "journal") = SetOf(raw, "journal") /\ SetOf(more, "runs") = SetOf(raw, "runs")
      /\ SetOf(more, "ancestry") = SetOf(raw, "ancestry")
  BY DEF More, Families
<1>3. AllMarkers(more) = AllMarkers(raw)
  <2>1. \A x : IsRunningAccount(more, x) = IsRunningAccount(raw, x)
    BY <1>1, <1>2, TrustReads
  <2>2. \A c : AsMarker(more, c) = AsMarker(raw, c)
    BY <2>1 DEF AsMarker
  <2>3. \A c : Marker(more, c) = Marker(raw, c)
    BY <1>1, <2>2 DEF Marker
  <2>4. QED
    BY <1>2, <2>3 DEF AllMarkers
<1>4. \A id : IsOthers(more, id) <=> IsOthers(raw, id)
  BY <1>1, <1>2 DEF IsOthers
<1>5. History!Released(Unread(more)) = History!Released(Unread(raw))
  <2>1. /\ Unread(more).subs = Unread(raw).subs /\ Unread(more).journal = Unread(raw).journal
        /\ Unread(more).comments = Unread(raw).comments
    BY <1>2, <1>3 DEF Unread
  <2>2. QED
    BY <2>1 DEF History!Released, History!Consuming, History!Journal, History!ProvenUnsent
<1>6. BesidesRecords([View(raw) EXCEPT !.runs = reduced], [View(more) EXCEPT !.runs = reduced])
  <2> DEFINE v == [View(raw) EXCEPT !.runs = reduced]
             w == [View(more) EXCEPT !.runs = reduced]
  <2>1. /\ v.session = raw.session /\ v.obs = raw.obs /\ v.runs = reduced
        /\ v.head = raw.head /\ v.seen = Least3(raw.comments.at, raw.subs.at, raw.runs.at)
        /\ v.comments = {m \in AllMarkers(raw) : ~IsOthers(raw, m.id)}
        /\ v.subs = {AsRecord(x) : x \in SetOf(raw, "subs")}
        /\ v.journal = SetOf(raw, "journal") /\ v.released = History!Released(Unread(raw))
    BY ViewFields
  <2>2. /\ w.session = more.session /\ w.obs = more.obs /\ w.runs = reduced
        /\ w.head = more.head /\ w.seen = Least3(more.comments.at, more.subs.at, more.runs.at)
        /\ w.comments = {m \in AllMarkers(more) : ~IsOthers(more, m.id)}
        /\ w.subs = {AsRecord(x) : x \in SetOf(more, "subs")}
        /\ w.journal = SetOf(more, "journal") /\ w.released = History!Released(Unread(more))
    BY ViewFields
  <2> HIDE DEF v, w
  <2>3. w.comments = v.comments
    BY <1>3, <1>4, <2>1, <2>2
  <2>4. BesidesRecords(v, w)
    BY <1>1, <1>2, <1>5, <2>1, <2>2, <2>3 DEF BesidesRecords
  <2>5. QED
    BY <2>4 DEF v, w
<1>7. /\ Misattributed(more) = Misattributed(raw) /\ Listed(more) = Listed(raw)
      /\ HistoriesKnown(more) <=> HistoriesKnown(raw)
  BY SameFacts DEF More
<1>8. ReducedRuns(more) = ReducedRuns(raw)
  <2>1. \A id : SightingsOf(more, id) = SightingsOf(raw, id)
    BY <1>7 DEF SightingsOf
  <2>2. \A id : SubmittedTimes(more, id) = SubmittedTimes(raw, id)
    BY <1>2, <2>1 DEF SubmittedTimes
  <2>3. \A id : Reduced(more, id) = Reduced(raw, id)
    BY <2>1, <2>2 DEF Reduced
  <2>4. QED
    BY <1>7, <2>3 DEF ReducedRuns
<1> DEFINE Refs(x) == x.refs \cup UNION {
              (IF d.run = None THEN {} ELSE {History!Ref("run", d.run)})
              \cup ({d.request} \ {None})
              \cup (IF d.grant = None THEN {}
                    ELSE {History!Ref("run", d.grant.run.id)}
                         \cup (IF d.grant.sub = None THEN {} ELSE {History!Ref("submission", d.grant.sub.id)})) :
              d \in x.decisions}
<1>9. \A any : RecordedRefs(any) = UNION {Refs(x) : x \in SetOf(any, "receipts")}
  BY DEF RecordedRefs
<1>10. ~Names(r) => Refs(r) = {}
  BY DEF Names
<1> HIDE DEF Refs
<1>11. RecordedRefs(more) = RecordedRefs(raw) \cup Refs(r)
  BY <1>9 DEF More
<1>12. ASSUME ~Names(r)
       PROVE  View(more) = View(raw)
  <2>1. Unread(more) = Unread(raw)
    BY <1>1, <1>2, <1>3, <1>10, <1>11, <1>12 DEF Unread
  <2>2. \A any : View(any) = [History!Read(Unread(any)) EXCEPT !.comments =
             {c \in @ : c.id \notin {c2.id : c2 \in {d \in SetOf(any, "comments") : d.author # any.account}}}]
    BY DEF View, Unread, AllMarkers, Marker
  <2>3. QED
    BY <1>1, <1>2, <2>1, <2>2
<1>13. QED
  BY <1>6, <1>7, <1>8, <1>11, <1>12

\* Where receipts name nothing that no history shows, what they say is not read.
LEMMA ReadAlike ==
    ASSUME NEW v, NEW w, BesidesRecords(v, w), History!Recorded(v) = History!Recorded(w)
    PROVE  /\ History!Markers(w) = History!Markers(v) /\ History!Consuming(w) = History!Consuming(v)
           /\ History!Requests(w) = History!Requests(v)
           /\ History!OwnState(w) = History!OwnState(v)
           /\ History!Lost(w) <=> History!Lost(v)
           /\ History!Unresolved(w) <=> History!Unresolved(v)
<1>1. /\ w.session = v.session /\ w.obs = v.obs /\ w.head = v.head /\ w.comments = v.comments
      /\ w.subs = v.subs /\ w.runs = v.runs /\ w.journal = v.journal /\ w.seen = v.seen
      /\ w.released = v.released
  BY DEF BesidesRecords
<1>2. /\ History!Consuming(w) = History!Consuming(v) /\ History!Journal(w) = History!Journal(v)
      /\ History!Markers(w) = History!Markers(v) /\ History!Mine(w) = History!Mine(v)
      /\ History!Triggers(w) = History!Triggers(v) /\ History!Reservations(w) = History!Reservations(v)
  BY <1>1 DEF History!Consuming, History!Journal, History!Markers, History!Mine, History!Triggers, History!Reservations
<1>3. History!Attempts(w) = History!Attempts(v) /\ History!Deleted(w) = History!Deleted(v)
  BY <1>1, <1>2 DEF History!Attempts, History!Deleted
<1>4. History!LatestMine(w) = History!LatestMine(v)
  BY <1>2 DEF History!LatestMine
<1>5. \A j : History!Conflicting(w, j) <=> History!Conflicting(v, j)
  BY <1>2 DEF History!Conflicting
<1>6. History!OwnState(w) = History!OwnState(v)
  BY <1>1, <1>2, <1>3, <1>4, <1>5 DEF History!OwnState
<1>7. \A m : History!IsWinner(w, m) <=> History!IsWinner(v, m)
  BY <1>2 DEF History!IsWinner
<1>8. History!Lost(w) <=> History!Lost(v)
  BY <1>1, <1>2, <1>4, <1>7 DEF History!Lost, History!Own
<1>9. \A c : History!Uncertain(w, c) <=> History!Uncertain(v, c)
  BY <1>3 DEF History!Uncertain
<1>10. \A c : History!IsRequest(w, c) <=> History!IsRequest(v, c)
  BY <1>3, <1>4, <1>6, <1>7, <1>9 DEF History!IsRequest, History!OwnFresh, History!Own
<1>11. History!TriggerRequests(w) = History!TriggerRequests(v)
  BY <1>2 DEF History!TriggerRequests
<1>12. History!ReservationRequests(w) = History!ReservationRequests(v)
  BY <1>2, <1>9, <1>10 DEF History!ReservationRequests
<1>13. History!SubmissionRequests(w) = History!SubmissionRequests(v)
  <2> DEFINE Dating(shown, gone, at) ==
                IF shown \cup gone = {} THEN at ELSE CHOOSE t \in shown \cup gone : \A u \in gone : t <= u
             Shows(o, x) == {c.at : c \in {m \in History!Markers(o) : m.id = x.res}}
             Gone(o, x) == {j.resAt : j \in {k \in History!Deleted(o) : k.res = x.res}}
  <2>1. \A o, x : History!SubmissionAt(o, x) = Dating(Shows(o, x), Gone(o, x), x.at)
    BY DEF History!SubmissionAt
  <2>2. \A x : Shows(w, x) = Shows(v, x) /\ Gone(w, x) = Gone(v, x)
    BY <1>2, <1>3
  <2> HIDE DEF Dating, Shows, Gone
  <2>3. \A x : History!SubmissionAt(w, x) = History!SubmissionAt(v, x)
    BY <2>1, <2>2
  <2> DEFINE Sent(o, x) == History!Request(History!Ref("submission", x.id), History!SubmissionAt(o, x), FALSE, FALSE)
  <2>4. \A x : Sent(w, x) = Sent(v, x)
    BY <2>3
  <2>5. \A o : History!SubmissionRequests(o) = {Sent(o, x) : x \in History!Consuming(o)}
    BY DEF History!SubmissionRequests
  <2> HIDE DEF Sent
  <2>6. QED
    BY <1>2, <2>4, <2>5
<1>14. History!DeletedRequests(w) = History!DeletedRequests(v)
  BY <1>3 DEF History!DeletedRequests
<1>15. History!Requests(w) = History!Requests(v)
  BY <1>11, <1>12, <1>13, <1>14 DEF History!Requests
<1>16. History!RunMayBeMissing(w) <=> History!RunMayBeMissing(v)
  BY <1>1, <1>2, <1>3 DEF History!RunMayBeMissing, History!Explained
<1>17. History!Unresolved(w) <=> History!Unresolved(v)
  BY <1>1, <1>15, <1>16 DEF History!Unresolved, History!UnexplainedRequest, History!UnexplainedRecord
<1>18. QED
  BY <1>2, <1>6, <1>8, <1>15, <1>17

(***************************************************************************)
(* The same decision.                                                      *)
(***************************************************************************)

\* What the rows read, but for the receipts' restrictions and the answers to stay draft.
Alike(o, p) ==
    /\ \A k \in All \ {"receipts"} : p[k] = o[k]
    /\ IsKnown(p, "receipts") <=> IsKnown(o, "receipts")
    /\ TrustedReceipts(p) = TrustedReceipts(o) /\ Trusts(p) = Trusts(o)
    /\ \A sha : AncestryOf(p, sha) = AncestryOf(o, sha)
    /\ p.reduced = o.reduced /\ p.status = o.status /\ p.requests = o.requests
    /\ p.applicability = o.applicability /\ p.waiver = o.waiver /\ p.detection = o.detection
    /\ p.edge = o.edge
    /\ p.view.seen = o.view.seen
    /\ History!OwnState(p.view) = History!OwnState(o.view)
    /\ History!Lost(p.view) <=> History!Lost(o.view)

LEMMA AlikeFacts ==
    ASSUME NEW o, NEW p, Alike(o, p)
    PROVE  /\ p.head = o.head /\ p.base = o.base /\ p.draft = o.draft /\ p.actors = o.actors /\ p.refs = o.refs
           /\ IsKnown(p, "gates") = IsKnown(o, "gates") /\ IsKnown(p, "config") = IsKnown(o, "config")
           /\ IsKnown(p, "refs") = IsKnown(o, "refs") /\ IsKnown(p, "diff") = IsKnown(o, "diff")
           /\ Config(p) = Config(o) /\ Diff(p) = Diff(o) /\ Gates(p) = Gates(o)
           /\ \A source : SourceTrusted(p, source) = SourceTrusted(o, source)
           /\ \A question, edge : LatestAnswer(p, question, edge) = LatestAnswer(o, question, edge)
           /\ \A options : LatestE1Choice(p, options) = LatestE1Choice(o, options)
<1>1. /\ p.head = o.head /\ p.base = o.base /\ p.draft = o.draft /\ p.actors = o.actors
      /\ p.refs = o.refs /\ p.config = o.config /\ p.diff = o.diff /\ p.gates = o.gates
  BY DEF Alike, All, Facts, Families
<1>2. /\ IsKnown(p, "gates") = IsKnown(o, "gates") /\ IsKnown(p, "config") = IsKnown(o, "config")
      /\ IsKnown(p, "refs") = IsKnown(o, "refs") /\ IsKnown(p, "diff") = IsKnown(o, "diff")
  BY <1>1 DEF IsKnown
<1>3. Config(p) = Config(o) /\ Diff(p) = Diff(o) /\ Gates(p) = Gates(o)
  BY <1>1 DEF Config, Diff, Gates
<1>4. \A source : SourceTrusted(p, source) = SourceTrusted(o, source)
  BY DEF Alike, SourceTrusted
<1>5. Trusts(p) = Trusts(o)
  BY DEF Alike
<1>6. /\ \A question, edge : LatestAnswer(p, question, edge) = LatestAnswer(o, question, edge)
      /\ \A options : LatestE1Choice(p, options) = LatestE1Choice(o, options)
  BY <1>5, SameAnswers
<1>7. QED
  BY <1>1, <1>2, <1>3, <1>4, <1>6

LEMMA AlikeGates ==
    ASSUME NEW o, NEW p, Alike(o, p)
    PROVE  RequestGate(p) = RequestGate(o) /\ ReadyGate(p) = ReadyGate(o)
<1>1. /\ p.head = o.head /\ p.base = o.base /\ p.refs = o.refs /\ Gates(p) = Gates(o) /\ Config(p) = Config(o)
      /\ IsKnown(p, "gates") = IsKnown(o, "gates") /\ IsKnown(p, "config") = IsKnown(o, "config")
      /\ IsKnown(p, "refs") = IsKnown(o, "refs")
      /\ \A source : SourceTrusted(p, source) = SourceTrusted(o, source)
  BY AlikeFacts
<1>2. LocalReviewCurrent(p) = LocalReviewCurrent(o)
  BY <1>1 DEF LocalReviewCurrent
<1>3. \A phase : SharedGate(p, phase) = SharedGate(o, phase)
  BY <1>1, <1>2 DEF SharedGate
<1>4. \A labels : LabelGate(p, labels) = LabelGate(o, labels)
  BY <1>1 DEF LabelGate
<1>5. ReadinessGate(p) = ReadinessGate(o)
  BY <1>1 DEF ReadinessGate
<1>6. QED
  BY <1>1, <1>3, <1>4, <1>5 DEF RequestGate, ReadyGate

LEMMA AlikeReadiness ==
    ASSUME NEW o, NEW p, Alike(o, p)
    PROVE  \A basis, guard : Readiness(p, basis, guard) = Readiness(o, basis, guard)
BY AlikeGates DEF Readiness

LEMMA AlikeTerminal ==
    ASSUME NEW o, NEW p, Alike(o, p), NEW guard
    PROVE  TerminalRow(p, guard) = TerminalRow(o, guard)
<1>1. /\ p.head = o.head /\ Gates(p) = Gates(o) /\ IsKnown(p, "gates") = IsKnown(o, "gates")
      /\ \A source : SourceTrusted(p, source) = SourceTrusted(o, source)
      /\ p.reduced = o.reduced /\ \A sha : AncestryOf(p, sha) = AncestryOf(o, sha)
  BY AlikeFacts DEF Alike
<1>2. Readiness(p, "completed", guard) = Readiness(o, "completed", guard)
  BY AlikeReadiness
<1>3. OpenFindings(p) = OpenFindings(o) /\ \A id : HasRow(p, id) = HasRow(o, id)
  BY <1>1 DEF OpenFindings, HasRow, Clean
<1>4. DeltasOf(p) = DeltasOf(o)
  BY <1>1 DEF DeltasOf
<1>5. Uncovered(p) = Uncovered(o)
  BY <1>1, <1>4 DEF Uncovered
<1>6. QED
  BY <1>1, <1>2, <1>3, <1>5 DEF TerminalRow

LEMMA AlikePath ==
    ASSUME NEW o, NEW p, Alike(o, p), NEW guard
    PROVE  GreptilePath(p, guard) = GreptilePath(o, guard)
<1>1. /\ p.reduced = o.reduced /\ p.requests = o.requests /\ p.view.seen = o.view.seen
      /\ History!OwnState(p.view) = History!OwnState(o.view)
      /\ History!Lost(p.view) = History!Lost(o.view)
      /\ Gates(p) = Gates(o) /\ IsKnown(p, "gates") = IsKnown(o, "gates")
      /\ \A question, edge : LatestAnswer(p, question, edge) = LatestAnswer(o, question, edge)
      /\ RequestGate(p) = RequestGate(o)
      /\ \A basis : Readiness(p, basis, guard) = Readiness(o, basis, guard)
      /\ TerminalRow(p, guard) = TerminalRow(o, guard)
  BY AlikeFacts, AlikeGates, AlikeReadiness, AlikeTerminal DEF Alike, History!Lost
<1>2. PendingRow(p) = PendingRow(o)
  BY <1>1 DEF PendingRow
<1>3. Covering(p) = Covering(o)
  BY <1>1 DEF Covering
<1>4. OpenFindings(p) = OpenFindings(o) /\ Feedback(p) = Feedback(o)
  BY <1>1 DEF OpenFindings, Feedback, Clean
<1>5. RequestRow(p, guard) = RequestRow(o, guard)
  BY <1>1, <1>3, <1>4 DEF RequestRow
<1>6. \A gate, own : FirstRequestRow(p, gate, guard, own) = FirstRequestRow(o, gate, guard, own)
  BY <1>4 DEF FirstRequestRow
<1>7. \A own : ReservationPath(p, guard, own) = ReservationPath(o, guard, own)
  BY <1>1, <1>5, <1>6 DEF ReservationPath
<1>8. QED
  BY <1>1, <1>2, <1>7 DEF GreptilePath

LEMMA AlikeWaivers ==
    ASSUME NEW o, NEW p, Alike(o, p)
    PROVE  RunWaiver(p) = RunWaiver(o) /\ \A a : Missing(p, a) = Missing(o, a)
<1>1. /\ p.head = o.head /\ p.actors = o.actors /\ Gates(p) = Gates(o) /\ IsKnown(p, "gates") = IsKnown(o, "gates")
      /\ \A source : SourceTrusted(p, source) = SourceTrusted(o, source)
      /\ \A question, edge : LatestAnswer(p, question, edge) = LatestAnswer(o, question, edge)
  BY AlikeFacts
<1>2. \A a : Missing(p, a) = Missing(o, a)
  BY <1>1 DEF Missing
<1>3. \A a : ValidGrant(p, a) = ValidGrant(o, a)
  BY <1>1 DEF ValidGrant
<1>4. \A a : a \in p.answers /\ a.trusted <=> a \in o.answers /\ a.trusted
  BY DEF Alike, Trusts
<1>5. Waivers(p) = Waivers(o)
  BY <1>1, <1>3, <1>4 DEF Waivers
<1>6. \A waivers : Paid(p, waivers) = Paid(o, waivers)
  BY <1>2 DEF Paid
<1>7. QED
  BY <1>2, <1>5, <1>6 DEF RunWaiver, PaidFirst

LEMMA AlikeGuards ==
    ASSUME NEW o, NEW p, Alike(o, p)
    PROVE  SecondRunGuard(p) = SecondRunGuard(o) /\ ReadOnlyGuard(p) = ReadOnlyGuard(o)
<1>1. /\ p.edge = o.edge /\ p.waiver = o.waiver /\ p.detection = o.detection
      /\ \A options : LatestE1Choice(p, options) = LatestE1Choice(o, options)
  BY AlikeFacts DEF Alike
<1>2. SecondRunGuard(p) = SecondRunGuard(o)
  BY <1>1 DEF SecondRunGuard
<1>3. QED
  BY <1>1, <1>2 DEF ReadOnlyGuard

LEMMA AlikeRestrictions ==
    ASSUME NEW o, NEW p, Alike(o, p), SetOf(o, "receipts") \subseteq SetOf(p, "receipts"), o.answers \subseteq p.answers,
           \A edge : EdgeMayHold(o, edge) => EdgeMayHold(p, edge),
           RestrictionRow(p, Unresolved(p)) = "none"
    PROVE  RestrictionRow(o, Unresolved(o)) = "none"
<1>1. /\ IsKnown(p, "receipts") /\ Unresolved(p) = {} /\ ~ManualUnproven(p) /\ StayDraft(p) = {}
  BY DEF RestrictionRow
<1>2. IsKnown(o, "receipts") /\ TrustedReceipts(p) = TrustedReceipts(o)
  BY <1>1 DEF Alike
<1>3. Unresolved(o) = {}
  <2>1. Restrictions(o) \subseteq Restrictions(p)
    BY DEF Restrictions
  <2>2. Unresolved(o) \subseteq Unresolved(p)
    BY <1>2, <2>1 DEF Unresolved
  <2>3. QED
    BY <1>1, <2>2
<1>4. ~ManualUnproven(o)
  <2>1. /\ p.head = o.head /\ Gates(p) = Gates(o) /\ IsKnown(p, "gates") = IsKnown(o, "gates")
        /\ \A source : SourceTrusted(p, source) = SourceTrusted(o, source)
    BY AlikeFacts
  <2>2. ManualUnproven(o) => ManualUnproven(p)
    BY <2>1 DEF ManualUnproven
  <2>3. QED
    BY <1>1, <2>2
<1>5. StayDraft(o) = {}
  <2>1. \A question, edge : LatestAnswer(p, question, edge) = LatestAnswer(o, question, edge)
    BY AlikeFacts
  <2>2. StayDraft(o) \subseteq StayDraft(p)
    BY <2>1 DEF StayDraft
  <2>3. QED
    BY <1>1, <2>2
<1>6. QED
  BY <1>2, <1>3, <1>4, <1>5 DEF RestrictionRow

\* A second reading under which no more answers to stay draft bind than under the first.
Binding(o, p) ==
    /\ SetOf(o, "receipts") \subseteq SetOf(p, "receipts") /\ o.answers \subseteq p.answers
    /\ \A edge : EdgeMayHold(o, edge) => EdgeMayHold(p, edge)

LEMMA AlikeRows ==
    ASSUME NEW o, NEW p, Alike(o, p), Binding(o, p), NEW guard, Evaluate(p, guard).rule \in Acts
    PROVE  Evaluate(o, guard) = Evaluate(p, guard)
<1> DEFINE run == RunWaiver(p)
           restriction == RestrictionRow(p, Unresolved(p))
           applicability == ApplicabilityRow(p, run)
<1>1. Evaluate(p, guard) = Rows(p, guard, run, restriction, applicability)
  BY DEF Evaluate, Waived
<1>2. restriction = "none"
  <2>1. restriction \notin Acts
    BY RestrictionSays
  <2> HIDE DEF restriction, run, applicability
  <2>2. QED
    BY <1>1, <2>1 DEF Rows, Says, Outcome
<1>3. RestrictionRow(o, Unresolved(o)) = restriction
  BY <1>2, AlikeRestrictions DEF Binding
<1>4. RunWaiver(o) = run /\ Missing(p, run) = Missing(o, run)
  BY AlikeWaivers
<1>5. ApplicabilityRow(o, run) = applicability
  BY DEF ApplicabilityRow, Alike
<1>6. Evaluate(o, guard) = Rows(o, guard, run, restriction, applicability)
  <2>1. Evaluate(o, guard) = Rows(o, guard, RunWaiver(o), RestrictionRow(o, Unresolved(o)),
                                  ApplicabilityRow(o, RunWaiver(o)))
    BY DEF Evaluate, Waived
  <2> HIDE DEF restriction, run, applicability
  <2>2. QED
    BY <1>3, <1>4, <1>5, <2>1
<1> HIDE DEF restriction, run, applicability
<1>7. /\ p.applicability = o.applicability /\ p.status = o.status
      /\ GreptilePath(p, guard) = GreptilePath(o, guard)
      /\ \A basis : Readiness(p, basis, guard) = Readiness(o, basis, guard)
  BY AlikePath, AlikeReadiness DEF Alike
<1>8. \A waiver, owes : WaiverPath(p, waiver, owes, guard) = WaiverPath(o, waiver, owes, guard)
  BY <1>7 DEF WaiverPath
<1>9. Rows(p, guard, run, restriction, applicability) = Rows(o, guard, run, restriction, applicability)
  BY <1>4, <1>7, <1>8 DEF Rows, Resolved
<1>10. QED
  BY <1>1, <1>6, <1>9

LEMMA AlikeDecides ==
    ASSUME NEW o, NEW p, Alike(o, p), Binding(o, p), DraftOrReady(p).rule \in Acts
    PROVE  DraftOrReady(o) = DraftOrReady(p)
<1>1. p.draft = o.draft /\ SecondRunGuard(p) = SecondRunGuard(o) /\ ReadOnlyGuard(p) = ReadOnlyGuard(o)
  BY AlikeFacts, AlikeGuards
<1>2. CASE p.draft
  BY <1>1, <1>2, AlikeRows DEF DraftOrReady
<1>3. CASE ~p.draft
  <2>1. DraftOrReady(p) = ReadOnlyCheck(Evaluate(p, ReadOnlyGuard(p)))
    BY <1>3 DEF DraftOrReady
  <2>2. Evaluate(p, ReadOnlyGuard(p)).rule \in Acts
    BY <2>1 DEF ReadOnlyCheck, Says, Outcome, Acts, Asking, Opening
  <2>3. Evaluate(o, ReadOnlyGuard(o)) = Evaluate(p, ReadOnlyGuard(p))
    BY <1>1, <2>2, AlikeRows
  <2>4. QED
    BY <1>1, <1>3, <2>1, <2>3 DEF DraftOrReady
<1>4. QED
  BY <1>2, <1>3

\* What a receipt that is not to be trusted leaves as it was.
LEMMA UntrustedLeaves ==
    ASSUME NEW raw, NEW more, NEW r, More(raw, more, r), ~WrittenHere(more, r)
    PROVE  LET o == Memo(raw)  p == Memo(more) IN
           /\ \A k \in All \ {"receipts"} : p[k] = o[k]
           /\ IsKnown(p, "receipts") <=> IsKnown(o, "receipts")
           /\ TrustedReceipts(p) = TrustedReceipts(o) /\ Trusts(p) = Trusts(o)
           /\ \A sha : AncestryOf(p, sha) = AncestryOf(o, sha)
           /\ SetOf(o, "receipts") \subseteq SetOf(p, "receipts") /\ o.answers \subseteq p.answers
           /\ \A a \in p.answers \ o.answers : a.row \in r.decisions
           /\ p.reduced = o.reduced /\ p.waiver = o.waiver /\ p.detection = o.detection
           /\ BesidesRecords(o.view, p.view)
           /\ o.view.recorded \subseteq p.view.recorded
           /\ ~Names(r) => p.view = o.view
<1> DEFINE o == Memo(raw)
           p == Memo(more)
<1>1. DOMAIN raw = All /\ DOMAIN more = All
  BY DEF More
<1>2. /\ Reads(o, raw) /\ o.answers = Answers(raw)
      /\ o.reduced = IF HistoriesKnown(raw) THEN ReducedRuns(raw) ELSE {}
      /\ o.view = [View(raw) EXCEPT !.runs = o.reduced] /\ o.waiver = StandingE1Waiver(o)
      /\ o.detection = IF IsKnown(raw, "config") THEN DetectReadyTrigger(Config(raw))
                       ELSE Detection("cannot-rule-out", FALSE, <<>>)
  BY <1>1, MemoIs
<1>3. /\ Reads(p, more) /\ p.answers = Answers(more)
      /\ p.reduced = IF HistoriesKnown(more) THEN ReducedRuns(more) ELSE {}
      /\ p.view = [View(more) EXCEPT !.runs = p.reduced] /\ p.waiver = StandingE1Waiver(p)
      /\ p.detection = IF IsKnown(more, "config") THEN DetectReadyTrigger(Config(more))
                       ELSE Detection("cannot-rule-out", FALSE, <<>>)
  BY <1>1, MemoIs
<1> HIDE DEF o, p
<1>4. \A k \in All \ {"receipts"} : more[k] = raw[k] /\ p[k] = o[k]
  BY <1>2, <1>3 DEF More, Reads
<1>5. Known(raw, o) /\ Known(more, p)
  BY <1>2, <1>3, ReadsKnown
<1>6. /\ Config(more) = Config(raw) /\ (IsKnown(more, "config") <=> IsKnown(raw, "config"))
  BY <1>4, SameFacts
<1>7. p.detection = o.detection
  BY <1>2, <1>3, <1>6
<1>8. /\ HistoriesKnown(more) <=> HistoriesKnown(raw)
      /\ ReducedRuns(more) = ReducedRuns(raw) /\ RecordedRefs(raw) \subseteq RecordedRefs(more)
      /\ ~Names(r) => View(more) = View(raw)
      /\ BesidesRecords([View(raw) EXCEPT !.runs = o.reduced], [View(more) EXCEPT !.runs = o.reduced])
  BY MoreToRead
<1>9. p.reduced = o.reduced
  BY <1>2, <1>3, <1>8
<1>10. /\ BesidesRecords(o.view, p.view) /\ (~Names(r) => p.view = o.view)
       /\ o.view.recorded \subseteq p.view.recorded
  <2>1. o.view.recorded = RecordedRefs(raw) /\ p.view.recorded = RecordedRefs(more)
    BY <1>2, <1>3, ViewFields
  <2>2. QED
    BY <1>2, <1>3, <1>8, <1>9, <2>1
<1>11. "receipts" \in Families /\ "ancestry" \in Families
  BY DEF Families
<1>12. /\ IsKnown(p, "receipts") <=> IsKnown(o, "receipts")
       /\ SetOf(o, "receipts") = SetOf(raw, "receipts") /\ SetOf(p, "receipts") = SetOf(more, "receipts")
       /\ SetOf(o, "receipts") \subseteq SetOf(p, "receipts")
  <2>1. IsKnown(more, "receipts") <=> IsKnown(raw, "receipts")
    BY <1>11 DEF More, IsKnown
  <2>2. QED
    BY <1>5, <1>11, <2>1 DEF Known, More
<1>13. /\ \A sha : AncestryOf(o, sha) = AncestryOf(raw, sha) /\ AncestryOf(p, sha) = AncestryOf(more, sha)
       /\ \A x : Trusted(o, x) = Trusted(raw, x) /\ Trusted(p, x) = Trusted(more, x)
  <2>1. /\ o.account = raw.account /\ o.head = raw.head /\ p.account = more.account /\ p.head = more.head
        /\ SetOf(o, "ancestry") = SetOf(raw, "ancestry") /\ SetOf(p, "ancestry") = SetOf(more, "ancestry")
    BY <1>2, <1>3, <1>5, <1>11 DEF Known, Reads, All, Facts
  <2>2. QED
    BY <2>1, TrustReads
<1>14. TrustedReceipts(o) = TrustedReceipts(raw) /\ TrustedReceipts(p) = TrustedReceipts(more)
  BY <1>12, <1>13 DEF TrustedReceipts
<1>15. /\ \A sha : AncestryOf(more, sha) = AncestryOf(raw, sha)
       /\ TrustedReceipts(more) = TrustedReceipts(raw)
       /\ Answers(raw) \subseteq Answers(more)
       /\ {a \in Answers(more) : a.trusted} = {a \in Answers(raw) : a.trusted}
       /\ \A a \in Answers(more) \ Answers(raw) : a.row \in r.decisions
  BY MoreToTrust
<1>16. Trusts(p) = Trusts(o)
  BY <1>2, <1>3, <1>15 DEF Trusts
<1>17. p.waiver = o.waiver
  BY <1>2, <1>3, <1>16, SameAnswers
<1>18. /\ TrustedReceipts(p) = TrustedReceipts(o)
       /\ \A sha : AncestryOf(p, sha) = AncestryOf(o, sha)
       /\ o.answers \subseteq p.answers /\ \A a \in p.answers \ o.answers : a.row \in r.decisions
  BY <1>2, <1>3, <1>13, <1>14, <1>15
<1>19. QED
  BY <1>4, <1>7, <1>9, <1>10, <1>12, <1>16, <1>17, <1>18 DEF o, p

\* What EdgeMayHold reads.
LEMMA EdgesHold ==
    ASSUME NEW o, NEW p, Alike(o, p),
           ConsumedBeforeSkip(p) = ConsumedBeforeSkip(o) \/ (IsKnown(o, "config") /\ SkipAck(Config(o)) = None)
    PROVE  \A edge : EdgeMayHold(o, edge) => EdgeMayHold(p, edge)
<1>1. /\ IsKnown(p, "config") = IsKnown(o, "config") /\ IsKnown(p, "diff") = IsKnown(o, "diff")
      /\ Config(p) = Config(o) /\ Diff(p) = Diff(o)
  BY AlikeFacts
<1>2. /\ p.edge = o.edge /\ p.reduced = o.reduced /\ p.requests = o.requests /\ p.status = o.status
      /\ \A sha : AncestryOf(p, sha) = AncestryOf(o, sha)
  BY DEF Alike
<1>3. \A question : HistoryEdges(p, question) = HistoryEdges(o, question)
  BY <1>2 DEF HistoryEdges
<1>4. \A question : EdgesUnresolved(p, question) = EdgesUnresolved(o, question)
  BY <1>2 DEF EdgesUnresolved, Resolved
<1>5. QED
  BY <1>1, <1>2, <1>3, <1>4 DEF EdgeMayHold

\* A receipt that names neither a request nor a run.
LEMMA SilentReceipt ==
    ASSUME NEW raw, NEW more, NEW r, More(raw, more, r), ~WrittenHere(more, r), ~Names(r)
    PROVE  Alike(Memo(raw), Memo(more)) /\ Binding(Memo(raw), Memo(more))
<1> DEFINE o == Memo(raw)
           p == Memo(more)
<1>1. DOMAIN raw = All /\ DOMAIN more = All
  BY DEF More
<1>2. /\ \A k \in All \ {"receipts"} : p[k] = o[k]
      /\ IsKnown(p, "receipts") <=> IsKnown(o, "receipts")
      /\ TrustedReceipts(p) = TrustedReceipts(o) /\ Trusts(p) = Trusts(o)
      /\ \A sha : AncestryOf(p, sha) = AncestryOf(o, sha)
      /\ SetOf(o, "receipts") \subseteq SetOf(p, "receipts") /\ o.answers \subseteq p.answers
      /\ \A a \in p.answers \ o.answers : a.row \in r.decisions
      /\ p.reduced = o.reduced /\ p.waiver = o.waiver /\ p.detection = o.detection
      /\ p.view = o.view
  BY UntrustedLeaves
<1>3. /\ o.status = HistoryStatus(o) /\ o.requests = IF Resolved(o) THEN History!Requests(o.view) ELSE {}
      /\ o.applicability = BaseApplicability(o)
      /\ o.edge = E1Edge(o.applicability, Consumed(o, o.applicability.status = "applies"), o.detection)
  BY <1>1, MemoIs
<1>4. /\ p.status = HistoryStatus(p) /\ p.requests = IF Resolved(p) THEN History!Requests(p.view) ELSE {}
      /\ p.applicability = BaseApplicability(p)
      /\ p.edge = E1Edge(p.applicability, Consumed(p, p.applicability.status = "applies"), p.detection)
  BY <1>1, MemoIs
<1> HIDE DEF o, p
<1>5. NamesRequest(p) <=> NamesRequest(o)
  <2>1. \A d \in r.decisions : d.run = None /\ d.request = None
    BY DEF Names
  <2>2. QED
    BY <1>2, <2>1 DEF NamesRequest
<1>6. Same(o, p)
  BY <1>2, <1>5 DEF Same
<1>7. SameHistory(o, p)
  <2>1. p.status = o.status
    BY <1>3, <1>4, <1>6, SameStatus
  <2>2. QED
    BY <1>2, <1>3, <1>4, <1>6, <2>1 DEF SameHistory, Resolved
<1>8. /\ \A applicable : Consumed(p, applicable) = Consumed(o, applicable)
      /\ ConsumedBeforeSkip(p) = ConsumedBeforeSkip(o)
      /\ BaseApplicability(p) = BaseApplicability(o)
  BY <1>7, SameConsumption
<1>9. p.applicability = o.applicability
  BY <1>3, <1>4, <1>8
<1>10. p.edge = o.edge
  BY <1>2, <1>3, <1>4, <1>8, <1>9
<1>11. Alike(o, p)
  BY <1>2, <1>7, <1>9, <1>10 DEF Alike, SameHistory
<1>12. Binding(o, p)
  BY <1>2, <1>8, <1>11, EdgesHold DEF Binding
<1>13. QED
  BY <1>11, <1>12 DEF o, p

\* Without a question whether to skip, nothing it names makes a review be asked for.
LEMMA NamingReceipt ==
    ASSUME NEW raw, NEW more, NEW r, More(raw, more, r), ~WrittenHere(more, r),
           DecideGreptileLifecycle(more).rule \in Asking, SkipAck(Config(raw)) = None
    PROVE  Alike(Memo(raw), Memo(more)) /\ Binding(Memo(raw), Memo(more))
<1> DEFINE o == Memo(raw)
           p == Memo(more)
           guard == SecondRunGuard(p)
<1>1. DOMAIN raw = All /\ DOMAIN more = All
  BY DEF More
<1>2. /\ \A k \in All \ {"receipts"} : p[k] = o[k]
      /\ IsKnown(p, "receipts") <=> IsKnown(o, "receipts")
      /\ TrustedReceipts(p) = TrustedReceipts(o) /\ Trusts(p) = Trusts(o)
      /\ \A sha : AncestryOf(p, sha) = AncestryOf(o, sha)
      /\ SetOf(o, "receipts") \subseteq SetOf(p, "receipts") /\ o.answers \subseteq p.answers
      /\ p.reduced = o.reduced /\ p.waiver = o.waiver /\ p.detection = o.detection
      /\ BesidesRecords(o.view, p.view) /\ o.view.recorded \subseteq p.view.recorded
  BY UntrustedLeaves
<1>3. /\ Reads(o, raw) /\ o.status = HistoryStatus(o)
      /\ o.requests = IF Resolved(o) THEN History!Requests(o.view) ELSE {}
      /\ o.applicability = BaseApplicability(o)
      /\ o.edge = E1Edge(o.applicability, Consumed(o, o.applicability.status = "applies"), o.detection)
  BY <1>1, MemoIs
<1>4. /\ p.status = HistoryStatus(p) /\ p.requests = IF Resolved(p) THEN History!Requests(p.view) ELSE {}
      /\ p.applicability = BaseApplicability(p)
      /\ p.edge = E1Edge(p.applicability, Consumed(p, p.applicability.status = "applies"), p.detection)
      /\ p.status \notin Acts
  BY <1>1, MemoIs, MemoFacts
<1>5. Evaluate(p, guard).rule \in Asking
  <2>1. DecideGreptileLifecycle(more) = DraftOrReady(p)
    BY DecisionIs DEF Acts
  <2>2. DraftOrReady(p) = Evaluate(p, guard)
    BY <2>1 DEF DraftOrReady, ReadOnlyCheck, Says, Outcome, Asking
  <2>3. QED
    BY <2>1, <2>2
<1>6. Silent(more, p.view)
  BY <1>1, AskingIs
<1>7. p.detection.kind \in {"excluded", "will-start", "cannot-rule-out"}
  <2>1. p.detection = IF IsKnown(more, "config") THEN DetectReadyTrigger(Config(more))
                      ELSE Detection("cannot-rule-out", FALSE, <<>>)
    BY <1>1, MemoIs
  <2>2. Detection("cannot-rule-out", FALSE, <<>>).kind = "cannot-rule-out"
    BY DEF Detection
  <2>3. QED
    BY <2>1, <2>2, DetectionKinds
<1>8. SkipAck(Config(o)) = None
  BY <1>3, ReadsKnown DEF Known
<1> HIDE DEF o, p, guard
<1>9. /\ Resolved(p) /\ p.reduced = {} /\ p.requests = {}
      /\ guard.says \notin {"ask", "pause"}
      /\ p.applicability.status \notin NotApplicable \cup {"unresolved"}
  BY <1>4, <1>5, EvaluateSays, PathAsks, EvaluateAsks
<1>10. History!Recorded(p.view) = {} /\ History!Recorded(o.view) = {}
  <2>1. p.view.runs = {}
    BY <1>6, ViewFields DEF Silent
  <2>2. History!Recorded(p.view) = {}
    BY <1>6, <2>1 DEF Silent, History!Unresolved, History!UnexplainedRecord
  <2>3. History!Recorded(o.view) \subseteq History!Recorded(p.view)
    BY <1>2 DEF BesidesRecords, History!Recorded, History!Consuming
  <2>4. QED
    BY <2>2, <2>3
<1>11. /\ History!Markers(p.view) = History!Markers(o.view)
       /\ History!Consuming(p.view) = History!Consuming(o.view)
       /\ History!Requests(p.view) = History!Requests(o.view)
       /\ History!OwnState(p.view) = History!OwnState(o.view)
       /\ History!Lost(p.view) <=> History!Lost(o.view)
       /\ History!Unresolved(p.view) <=> History!Unresolved(o.view)
  BY <1>2, <1>10, ReadAlike
<1>12. /\ Misattributed(p) = Misattributed(o) /\ Listed(p) = Listed(o)
       /\ HistoriesKnown(p) <=> HistoriesKnown(o)
       /\ IsKnown(p, "gates") <=> IsKnown(o, "gates") /\ Gates(p) = Gates(o)
       /\ SetOf(p, "journal") = SetOf(o, "journal")
  BY <1>2, SameFacts
<1>13. Resolved(o) /\ o.status = p.status /\ o.requests = p.requests
  <2>1. /\ HistoriesKnown(p) /\ Misattributed(p) = {} /\ ~History!Unresolved(p.view)
    BY <1>4, <1>9 DEF HistoryStatus, Resolved
  <2>2. HistoryStatus(o) = "resolved"
    BY <1>2, <1>9, <1>11, <1>12, <2>1 DEF HistoryStatus
  <2>3. QED
    BY <1>3, <1>4, <1>9, <1>11, <2>2 DEF Resolved
<1>14. p.applicability = o.applicability
  BY <1>2, <1>3, <1>4, <1>8, SameSkip
<1>15. p.edge = o.edge
  <2>1. CASE Evidence(p)
    <3>1. p.edge = E1Edge(p.applicability, "yes", p.detection)
      BY <1>4, <2>1 DEF Consumed
    <3>2. p.detection.kind = "excluded"
      BY <1>7, <1>9, <3>1, GuardsPass DEF guard
    <3>3. \A applicable : Consumed(o, applicable) # "unknown"
      BY <1>13 DEF Consumed
    <3>4. QED
      BY <1>2, <1>3, <1>9, <1>14, <3>1, <3>2, <3>3 DEF E1Edge
  <2>2. CASE ~Evidence(p)
    <3>1. p.view.released = o.view.released
      BY <1>2 DEF BesidesRecords
    <3>2. NamesRequest(o) => NamesRequest(p)
      BY <1>2 DEF NamesRequest
    <3>3. Feedback(o) <=> Feedback(p)
      <4>1. p.gates = o.gates
        BY <1>2 DEF All, Families
      <4>2. QED
        BY <4>1 DEF Feedback, IsKnown, Gates
    <3>4. ~Evidence(o)
      BY <1>10, <1>11, <1>12, <2>2, <3>1, <3>2, <3>3 DEF Evidence
    <3>5. \A applicable : Consumed(o, applicable) = Consumed(p, applicable)
      BY <1>2, <1>9, <1>11, <1>13, <2>2, <3>4 DEF Consumed
    <3>6. QED
      BY <1>2, <1>3, <1>4, <1>14, <3>5
  <2>3. QED
    BY <2>1, <2>2
<1>16. Alike(o, p)
  BY <1>2, <1>11, <1>13, <1>14, <1>15 DEF Alike, BesidesRecords
<1>17. IsKnown(o, "config")
  BY <1>3, <1>9, <1>14 DEF BaseApplicability, Applicability
<1>18. Binding(o, p)
  BY <1>2, <1>8, <1>16, <1>17, EdgesHold DEF Binding
<1>19. QED
  BY <1>16, <1>18 DEF o, p

\* What one receipt changes, if it is not to be trusted.
LEMMA OneReceiptRestricts ==
    ASSUME NEW raw, NEW more, NEW r, More(raw, more, r), ~WrittenHere(more, r),
           DecideGreptileLifecycle(more).rule \in Acts
    PROVE  \/ DecideGreptileLifecycle(more) = DecideGreptileLifecycle(raw)
           \/ Names(r) /\ (DecideGreptileLifecycle(more).rule \in Asking => SkipAck(Config(raw)) # None)
<1>1. /\ ValidObservation(more) /\ ~SubjectMismatch(more) /\ more.state = "OPEN"
      /\ DecideGreptileLifecycle(more) = DraftOrReady(Memo(more))
  BY DEF DecideGreptileLifecycle, Says, Outcome, Acts, Asking, Opening
<1>2. raw.state = more.state
  BY DEF More, All, Facts
<1>3. DecideGreptileLifecycle(raw) = DraftOrReady(Memo(raw))
  BY <1>1, <1>2, MoreIsValid, MoreIsOfTheSubject DEF DecideGreptileLifecycle
<1>4. Alike(Memo(raw), Memo(more)) /\ Binding(Memo(raw), Memo(more))
          => DecideGreptileLifecycle(more) = DecideGreptileLifecycle(raw)
  BY <1>1, <1>3, AlikeDecides
<1>5. CASE ~Names(r)
  BY <1>4, <1>5, SilentReceipt
<1>6. CASE DecideGreptileLifecycle(more).rule \in Asking /\ SkipAck(Config(raw)) = None
  BY <1>4, <1>6, NamingReceipt
<1>7. QED
  BY <1>5, <1>6

\* Receipts that could not be read say nothing.
LEMMA UnreadReceipts ==
    ASSUME NEW raw, NEW r, ObservationOk(raw), ~IsKnown(raw, "receipts")
    PROVE  DecideGreptileLifecycle(With(raw, r)).rule \notin Acts
<1> DEFINE more == With(raw, r)
           p == Memo(more)
<1>1. DOMAIN more = All /\ more.receipts.state = raw.receipts.state
  BY WithFacts
<1>2. ~IsKnown(more, "receipts")
  BY <1>1 DEF IsKnown
<1>3. Reads(p, more)
  BY <1>1, MemoIs
<1>4. ~IsKnown(p, "receipts")
  BY <1>2, <1>3, ReadsKnown DEF Known, Families
<1> HIDE DEF p, more
<1>5. \A guard : Evaluate(p, guard).rule \notin Acts
  BY <1>4 DEF Evaluate, Waived, Rows, RestrictionRow, Says, Outcome, Acts, Asking, Opening
<1>6. DraftOrReady(p).rule \notin Acts
  BY <1>5 DEF DraftOrReady, ReadOnlyCheck, Says, Outcome, Acts, Asking, Opening
<1>7. QED
  BY <1>6, DecisionIs DEF p, more

(***************************************************************************)
(* The invariant.                                                          *)
(***************************************************************************)
LEMMA InitIInv == Init => IInv
BY InputsAssumption DEF Init, IInv

LEMMA NextIInv == IInv /\ [Next]_vars => IInv'
<1> SUFFICES ASSUME IInv, [Next]_vars PROVE IInv'
  OBVIOUS
<1> DEFINE Decided(o) == Observed(o) /\ ObservationOk(o)
<1>1. \A o : Decided(o) => IInv'
  BY DEF Observed, IInv
<1>2. ObservationOk(obs)
  BY DEF IInv
<1>3. ASSUME NEW f \in DOMAIN Evidences, Collect(f)
      PROVE  IInv'
  <2>1. PICK value \in Evidences[f] : Observed([obs EXCEPT ![f].state = "known", ![f].value = value])
    BY <1>3 DEF Collect
  <2>2. f \in Families /\ Listing(f, value)
    BY InputsAssumption
  <2>3. ObservationOk([obs EXCEPT ![f].state = "known", ![f].value = value])
    BY ZenonT(30), <1>2, <2>2 DEF ObservationOk, IsKnown, Facts, Families
  <2>4. QED
    BY <1>1, <2>1, <2>3
<1>4. ASSUME NEW f \in Families, CollectFails(f)
      PROVE  IInv'
  <2>1. PICK state \in {"failed", "incomplete"} : Observed([obs EXCEPT ![f].state = state])
    BY <1>4 DEF CollectFails
  <2>2. ObservationOk([obs EXCEPT ![f].state = state])
    BY <1>2 DEF ObservationOk, IsKnown, Facts, Families
  <2>3. QED
    BY <1>1, <2>1, <2>2
<1>5. CASE WriteReceipt
  <2>1. PICK receipt : Observed([obs EXCEPT !.receipts.value = @ \cup {receipt}])
    BY <1>5 DEF WriteReceipt
  <2>2. ObservationOk([obs EXCEPT !.receipts.value = @ \cup {receipt}])
    BY <1>2 DEF ObservationOk, IsKnown, Facts, Families, Listing
  <2>3. QED
    BY <1>1, <2>1, <2>2
<1>6. CASE Prepared
  <2>1. ObservationOk([obs EXCEPT !.draft = FALSE])
    BY <1>2 DEF ObservationOk, IsKnown, Facts, Families
  <2>2. QED
    BY <1>1, <1>6, <2>1 DEF Prepared
<1>7. CASE Closed
  <2>1. ObservationOk([obs EXCEPT !.state = "MERGED"])
    BY <1>2 DEF ObservationOk, IsKnown, Facts, Families
  <2>2. QED
    BY <1>1, <1>7, <2>1 DEF Closed
<1>8. CASE UNCHANGED vars
  BY <1>8 DEF vars, IInv
<1>9. QED
  BY <1>3, <1>4, <1>5, <1>6, <1>7, <1>8 DEF Next

LEMMA Invariance == Spec => []IInv
BY InitIInv, NextIInv, PTL DEF Spec

\* A review is asked for only if every history was read, and nothing in them, in any receipt
\* or in any row of findings shows that one was ever asked for or came.
THEOREM TriggersInSilence == Spec => []TriggerNeedsSilence
BY Invariance, SilenceHolds, PTL

\* A PR whose allowance is shown to be consumed is not called ready where that would start
\* another review.
THEOREM ReviewedOnce == Spec => []NoSecondReview
BY Invariance, ReadinessHolds, PTL

\* Only a new receipt adds to the receipts, and it stands beside what was there.
LEMMA ReceiptStep ==
    ASSUME IInv, [Next]_vars, NEW r \in obs'.receipts.value \ obs.receipts.value
    PROVE  obs' = With(obs, r) /\ verdict' = DecideGreptileLifecycle(With(obs, r))
<1> DEFINE Written(x) == Observed([obs EXCEPT !.receipts.value = @ \cup {x}])
           Kept(o) == o.receipts.value = obs.receipts.value
<1>1. ObservationOk(obs) /\ "receipts" \in Families
  BY DEF IInv, Families
<1>2. \A o : Observed(o) => obs' = o /\ verdict' = DecideGreptileLifecycle(o)
  BY DEF Observed
<1>3. ASSUME NEW f \in DOMAIN Evidences, Collect(f)
      PROVE  FALSE
  <2>1. PICK value \in Evidences[f] : Observed([obs EXCEPT ![f].state = "known", ![f].value = value])
    BY <1>3 DEF Collect
  <2>2. f # "receipts"
    BY InputsAssumption
  <2>3. [obs EXCEPT ![f].state = "known", ![f].value = value].receipts = obs.receipts
    BY <1>1, <2>2 DEF ObservationOk
  <2>4. QED
    BY <1>2, <2>1, <2>3
<1>4. ASSUME NEW f \in Families, CollectFails(f)
      PROVE  FALSE
  <2>1. PICK state \in {"failed", "incomplete"} : Observed([obs EXCEPT ![f].state = state])
    BY <1>4 DEF CollectFails
  <2>2. [obs EXCEPT ![f].state = state].receipts.value = obs.receipts.value
    BY <1>1 DEF ObservationOk
  <2>3. QED
    BY <1>2, <2>1, <2>2
<1>5. ASSUME Prepared \/ Closed
      PROVE  FALSE
  <2>1. /\ [obs EXCEPT !.draft = FALSE].receipts = obs.receipts
        /\ [obs EXCEPT !.state = "MERGED"].receipts = obs.receipts
    BY <1>1 DEF ObservationOk
  <2>2. QED
    BY <1>2, <1>5, <2>1 DEF Prepared, Closed
<1>6. ASSUME WriteReceipt
      PROVE  obs' = With(obs, r) /\ verdict' = DecideGreptileLifecycle(With(obs, r))
  <2>1. PICK receipt : Observed(With(obs, receipt))
    BY <1>6 DEF WriteReceipt, With
  <2>2. With(obs, receipt).receipts.value = obs.receipts.value \cup {receipt}
    BY <1>1, WithFacts
  <2>3. receipt = r
    BY <1>2, <2>1, <2>2
  <2>4. QED
    BY <1>2, <2>1, <2>3
<1>7. ~UNCHANGED vars
  BY DEF vars
<1>8. QED
  BY <1>3, <1>4, <1>5, <1>6, <1>7 DEF Next

\* A receipt that is not to be trusted only restricts: no request and no readiness follows from
\* it that did not stand before, but for the questions it takes away by naming a request or a run.
THEOREM UntrustedReceiptsRestrict == Spec => UntrustedOnlyRestricts
<1> DEFINE Freely(r) == Restricts(r) \/ (Names(r) /\ (verdict'.rule \in Asking => SkipAck(Config(obs)) # None))
<1>1. ASSUME IInv, [Next]_vars, NEW r \in obs'.receipts.value \ obs.receipts.value
      PROVE  Freely(r)
  <2>1. obs' = With(obs, r) /\ verdict' = DecideGreptileLifecycle(With(obs, r))
    BY <1>1, ReceiptStep
  <2>2. ObservationOk(obs) /\ verdict = DecideGreptileLifecycle(obs)
    BY <1>1 DEF IInv
  <2>3. CASE IsKnown(obs, "receipts")
    <3>1. More(obs, With(obs, r), r)
      BY <2>2, <2>3, WithIsMore
    <3>2. QED
      BY <2>1, <2>2, <3>1, OneReceiptRestricts DEF Restricts, Acts
  <2>4. CASE ~IsKnown(obs, "receipts")
    <3>1. verdict'.rule \notin Acts
      BY <2>1, <2>2, <2>4, UnreadReceipts
    <3>2. QED
      BY <3>1 DEF Restricts, Acts
  <2>5. QED
    BY <2>3, <2>4
<1>2. IInv /\ [Next]_vars => [\A r \in obs'.receipts.value \ obs.receipts.value : Freely(r)]_vars
  BY <1>1
<1>3. QED
  BY <1>2, Invariance, PTL DEF Spec, UntrustedOnlyRestricts
=============================================================================
