---------------------------- MODULE GreptileFacts ----------------------------
(***************************************************************************)
(* What src/greptile-lifecycle/decide.ts derives from one observation of a *)
(* PR before its rows decide.  An observation has its own facts (whose it  *)
(* is, when, of which subject) and ten families of evidence, each          *)
(* [state, at, pr, head, value]; the value counts only when the state is   *)
(* "known".  GreptilePolicy reads requests and reservations.               *)
(*                                                                         *)
(* A commit, a tree and an account are names; the source of a gate is None *)
(* for the current session or the id of a receipt; the key of a question   *)
(* is a record that starts with the question.                              *)
(***************************************************************************)
EXTENDS GreptileConfig

CONSTANT NoResponse     \* the ten minutes (NO_RESPONSE_MS)

History == INSTANCE GreptilePolicy

Least(S, Before(_, _)) == CHOOSE x \in S : \A y \in S : x = y \/ Before(x, y)

Families == {"refs", "diff", "config", "comments", "subs", "journal", "runs", "ancestry", "receipts", "gates"}
IsKnown(o, f) == o[f].state = "known"
SetOf(o, f) == IF IsKnown(o, f) THEN o[f].value ELSE {}
Config(o) == o.config.value
Diff(o) == o.diff.value
Gates(o) == o.gates.value

-----------------------------------------------------------------------------
(* R01: is it an observation, and of this PR?                              *)

RunStatuses == {"queued", "running", "completed", "failed", "cancelled", "unknown"}
Proofs == {"mcp-run-metadata", "bot-review-commit", "check-output-confirms-review", "none"}

RunOk(r) ==
    /\ r.reporter \in {"greptile-mcp", "github-review", "github-check-run"}
    /\ r.origin \in {"automatic", "manual", "unknown"}
    /\ r.status \in RunStatuses /\ r.proof \in Proofs

\* Times of a run lie within the PR's, and in the order in which things happen.
RunTimesOk(o, r, upper) ==
    /\ {r.firstSeen, r.at} \cup ({r.submitted} \ {None}) \subseteq o.created .. o.observed
    /\ r.submitted # None => r.submitted <= r.firstSeen
    /\ r.firstSeen <= r.at /\ r.at <= upper

GrantOk(o, d) ==
    d.grant # None =>
        /\ RunOk(d.grant.run) /\ RunTimesOk(o, d.grant.run, d.at)
        /\ d.grant.seen # None => d.grant.seen \in o.created .. d.at
        /\ d.grant.sub # None => /\ d.grant.sub.at \in o.created .. o.observed
                                 /\ d.grant.sub.at <= d.grant.run.firstSeen /\ d.grant.sub.at <= d.at

\* An answer may be older than the PR, but none is younger than its receipt.
AnswerOk(o, r, d) ==
    /\ d.question \in {"E1", "E2", "E4", "E6", "E7", "POLICY-CHANGE", "SKIP-ACK"} /\ d.option \in {"a", "b", "c"}
    /\ d.at <= o.observed /\ d.at <= r.at
    /\ d.until # None => d.until > d.at
    /\ d.seen # None => d.seen \in o.created .. d.at
    /\ GrantOk(o, d)

Unique(S) == \A x, y \in S : x.id = y.id => x = y

ValidObservation(o) ==
    /\ o.created <= o.observed /\ o.observed <= o.now
    /\ o.actors # {} /\ o.account \notin o.actors
    /\ \A f \in Families :
          /\ o[f].state \in {"known", "unknown", "failed", "incomplete", "stale"}
          /\ o[f].state # "unknown" => o[f].at \in o.created .. o.observed
    /\ IsKnown(o, "config") => \A tip \in {Config(o).base, Config(o).head} :
          tip.dir # None /\ ".greptile/config.json" \in tip.dir.files => tip.dir.config # None
    /\ Unique(SetOf(o, "comments")) /\ \A c \in SetOf(o, "comments") :
          c.kind \in {"reservation", "trigger"} /\ c.at \in o.created .. o.observed
    /\ Unique(SetOf(o, "subs")) /\ \A x \in SetOf(o, "subs") :
          /\ x.outcome \in {"accepted", "ambiguous", "not-submitted"} /\ x.at \in o.created .. o.observed
          /\ x.outcome = "not-submitted" => x.run = None
    /\ \A j \in SetOf(o, "journal") :
          /\ j.phase \in {"confirmed-unattempted", "attempted", "unknown"}
          /\ {j.resAt, j.at} \subseteq o.created .. o.observed /\ j.resAt <= j.at
    /\ \A r \in SetOf(o, "runs") : RunOk(r) /\ RunTimesOk(o, r, o.observed)
    /\ Unique(SetOf(o, "receipts")) /\ Unique(UNION {r.decisions : r \in SetOf(o, "receipts")})
    /\ \A r \in SetOf(o, "receipts") :
          /\ r.at \in o.created .. o.observed
          /\ \A d \in r.decisions : AnswerOk(o, r, d)
    /\ IsKnown(o, "gates") =>
          /\ \A g \in {Gates(o).review, Gates(o).tests, Gates(o).plan} : g.status \in {"passed", "failed", "incomplete"}
          /\ Gates(o).manual.status \in {"not-required", "passed", "deferred-by-user", "pending"}
          /\ Gates(o).mergeable \in {"MERGEABLE", "CONFLICTING", "UNKNOWN"}

ClassifyAncestry(c) ==
    CASE c.result = "ancestor" -> "ancestor"
      [] c.result \in {"not-ancestor", "missing-object"} /\ c.history = "complete" -> "stale"
      [] OTHER -> "unresolved"

\* With the base in the head, whatever marker differs between the tips the PR has changed.
MarkerOmitted(o) ==
    /\ IsKnown(o, "refs") /\ IsKnown(o, "diff") /\ IsKnown(o, "config")
    /\ ClassifyAncestry(o.refs.value.inclusion) = "ancestor"
    /\ MarkerChanges(Config(o).base, Config(o).head) \ PolicyFileChanges(Diff(o)) # {}

SubjectMismatch(o) ==
    \/ \E f \in Families : o[f].state # "unknown" /\ (o[f].pr # o.pr \/ (IsKnown(o, f) /\ o[f].head # o.head))
    \/ IsKnown(o, "diff") /\ (Diff(o).base # o.base \/ Diff(o).head # o.head \/ Diff(o).policyReadAt # o.base)
    \/ IsKnown(o, "config") /\ (Config(o).base.sha # o.base \/ Config(o).head.sha # o.head)
    \/ IsKnown(o, "refs") /\ (o.refs.value.inclusion.ancestor # o.base \/ o.refs.value.inclusion.descendant # o.head)
    \/ MarkerOmitted(o)
    \/ \E r \in SetOf(o, "receipts") : r.pr # o.pr

-----------------------------------------------------------------------------
(* Whom to trust.                                                          *)

IsRunningAccount(o, x) == x.author = o.account /\ x.editors # None /\ x.editors \subseteq {o.account}

\* Is a commit in the history of the head?
AncestryOf(o, sha) ==
    LET classes == {ClassifyAncestry(c) : c \in {d \in SetOf(o, "ancestry") : d.descendant = o.head /\ d.ancestor = sha}}
                   \ {"unresolved"}
    IN IF sha = o.head THEN "ancestor"
       ELSE IF Cardinality(classes) = 1 THEN CHOOSE c \in classes : TRUE ELSE "unresolved"

Trusted(o, r) == IsRunningAccount(o, r) /\ AncestryOf(o, r.head) = "ancestor"
TrustedReceipts(o) == {r \in SetOf(o, "receipts") : Trusted(o, r)}
SourceTrusted(o, source) == source = None \/ \E r \in TrustedReceipts(o) : r.id = source

\* Answers that are ones: the option exists, and a wait says until when.
Given(r) == {d \in r.decisions : /\ EffectOf(d.question, d.option) # None
                                /\ d.question = "E6" /\ d.option = "a" => d.until # None}
AnswerOf(o, r, d) == [row |-> d, receipt |-> [id |-> r.id, at |-> r.at, head |-> r.head], trusted |-> Trusted(o, r)]
Answers(o) == UNION {{AnswerOf(o, r, d) : d \in Given(r)} : r \in SetOf(o, "receipts")}

\* The order in which they were given.
GivenBefore(a, b) ==
    \/ a.row.at < b.row.at
    \/ a.row.at = b.row.at /\ a.receipt.at < b.receipt.at
    \/ a.row.at = b.row.at /\ a.receipt.at = b.receipt.at /\ a.receipt.id < b.receipt.id
    \/ a.row.at = b.row.at /\ a.receipt.id = b.receipt.id /\ a.row.id < b.row.id

LastOf(answers) == IF answers = {} THEN None ELSE Least(answers, LAMBDA a, b : GivenBefore(b, a))

\* A bug: an answer of anybody's answers.
LatestOfAnybody(o, question, edge) == LastOf({a \in o.answers : a.row.question = question /\ a.row.edge = edge})

\* Only trusted answers answer.
LatestAnswer(o, question, edge) ==
    LastOf({a \in o.answers : a.trusted /\ a.row.question = question /\ a.row.edge = edge})

-----------------------------------------------------------------------------
(* Requests and runs.                                                      *)

\* Requests and runs that receipts name, trusted or not.
RecordedRefs(o) ==
    UNION {r.refs \cup UNION {
              (IF d.run = None THEN {} ELSE {History!Ref("run", d.run)})
              \cup ({d.request} \ {None})
              \cup (IF d.grant = None THEN {}
                    ELSE {History!Ref("run", d.grant.run.id)}
                         \cup (IF d.grant.sub = None THEN {} ELSE {History!Ref("submission", d.grant.sub.id)})) :
              d \in r.decisions} :
           r \in SetOf(o, "receipts")}

\* A record of an attempt that nothing proves unsent is ambiguous.
AsRecord(x) ==
    [id |-> x.id, res |-> x.res, session |-> x.session, obs |-> x.obs, at |-> x.at, run |-> x.run,
     outcome |-> IF x.outcome = "not-submitted" /\ ~x.proof THEN "ambiguous" ELSE x.outcome]
AsMarker(o, c) ==
    [id |-> c.id, kind |-> c.kind, head |-> c.head, at |-> c.at, calls |-> c.calls, edited |-> ~IsRunningAccount(o, c)]

Least3(x, y, z) == CHOOSE t \in {x, y, z} : t <= x /\ t <= y /\ t <= z

\* The history as GreptilePolicy reads it.  Comments of others are no markers, but a proof
\* that nothing was sent does not reach them.
View(o) ==
    LET all == {[AsMarker(o, c) EXCEPT !.edited = @ \/ c.author # o.account] : c \in SetOf(o, "comments")}
        others == {c.id : c \in {d \in SetOf(o, "comments") : d.author # o.account}}
        raw == [session |-> o.session, obs |-> o.obs, head |-> o.head, comments |-> all,
                subs |-> {AsRecord(x) : x \in SetOf(o, "subs")}, runs |-> {}, answers |-> {},
                journal |-> SetOf(o, "journal"), recorded |-> RecordedRefs(o),
                seen |-> Least3(o.comments.at, o.subs.at, o.runs.at)]
    IN [History!Read(raw) EXCEPT !.comments = {c \in @ : c.id \notin others}]

ProofFor(reporter) ==
    CASE reporter = "greptile-mcp" -> "mcp-run-metadata"
      [] reporter = "github-review" -> "bot-review-commit"
      [] reporter = "github-check-run" -> "check-output-confirms-review"

Listed(o) == {r \in SetOf(o, "runs") : r.actor \in o.actors}
Misattributed(o) == {r \in SetOf(o, "runs") : r.actor \notin o.actors /\ r.reporter = "greptile-mcp"}
SightingsOf(o, id) == {r \in Listed(o) : r.id = id}

\* Reporters lag each other; only one reporter's own revisions say which status is later.
StatusOf(sightings) ==
    LET statuses == {r.status : r \in sightings}
        revised == Cardinality({r.reporter : r \in sightings}) = 1 /\ \A r \in sightings : r.revision # None
        newest == {r \in sightings : \A q \in sightings : q.revision <= r.revision}
        top == IF revised THEN {r.status : r \in newest} ELSE {}
    IN IF Cardinality(statuses) = 1 THEN CHOOSE s \in statuses : TRUE
       ELSE IF statuses \subseteq {"queued", "running"} THEN "running"
       ELSE IF Cardinality(top) = 1 THEN CHOOSE s \in top : TRUE ELSE "conflict"

Only(S) == IF S = {} THEN None ELSE CHOOSE x \in S : TRUE
LeastTime(S) == CHOOSE t \in S : \A u \in S : t <= u
SubmittedTimes(o, id) ==
    ({r.submitted : r \in SightingsOf(o, id)} \ {None})
    \cup {x.at : x \in {y \in SetOf(o, "subs") : y.run = id /\ y.outcome # "not-submitted"}}

\* One run from all that was reported of it.
ReducedFrom(id, seen, submitted) ==
    LET first == LeastTime({r.firstSeen : r \in seen})
        recorded == {r.recorded : r \in seen} \ {None}
        reviewed == {r.reviewed : r \in seen} \ {None}
        status == StatusOf(seen)
        late == submitted # {} /\ LeastTime(submitted) > first
    IN [id |-> id,
        status |-> IF late \/ Cardinality(recorded) > 1 \/ Cardinality(reviewed) > 1 THEN "conflict" ELSE status,
        reviewed |-> Only(reviewed),
        proofOk |-> /\ recorded # {} /\ Only(reviewed) = Only(recorded)
                    /\ \E r \in seen : r.status = "completed" /\ r.proof = ProofFor(r.reporter) /\ r.reviewed # None,
        firstSeen |-> first,
        automatic |-> \A r \in seen : r.origin = "automatic",
        anchor |-> IF submitted = {} THEN first ELSE LeastTime(submitted)]

Reduced(o, id) == ReducedFrom(id, SightingsOf(o, id), SubmittedTimes(o, id))

ReducedRuns(o) == {Reduced(o, id) : id \in {r.id : r \in Listed(o)}}
RunBefore(q, r) == q.anchor < r.anchor \/ (q.anchor = r.anchor /\ q.id < r.id)
Pending(r) == r.status \in {"queued", "running"}

\* A bug: the records of MCP attempts may be missing.
HistoriesKnownButSubs(o) == \A f \in {"comments", "runs"} : IsKnown(o, f)

HistoriesKnown(o) == \A f \in {"comments", "subs", "runs"} : IsKnown(o, f)

\* "resolved", or the rule that says why the history is not.
HistoryStatus(o) ==
    LET bad == {r \in o.reduced : r.status \in {"conflict", "unknown"}}
    IN IF ~HistoriesKnown(o) \/ Misattributed(o) # {} THEN "history-unresolved"
       ELSE IF bad # {}
       THEN IF Least(bad, LAMBDA q, r : q.id < r.id).status = "conflict"
            THEN "run-contradiction" ELSE "history-unresolved"
       ELSE IF History!Unresolved(o.view) THEN "history-unresolved"
       ELSE "resolved"

\* What is worked out once of the history.
Extended(o, more) == [k \in DOMAIN o \cup DOMAIN more |-> IF k \in DOMAIN o THEN o[k] ELSE more[k]]
WithRuns(o, reduced) ==
    Extended(o, [answers |-> Answers(o), reduced |-> reduced, view |-> [View(o) EXCEPT !.runs = reduced]])
WithStatus(o) == Extended(o, [status |-> HistoryStatus(o)])
WithRequests(o) == Extended(o, [requests |-> IF o.status = "resolved" THEN History!Requests(o.view) ELSE {}])
ReadHistory(o) == WithRequests(WithStatus(WithRuns(o, IF HistoriesKnown(o) THEN ReducedRuns(o) ELSE {})))

Resolved(o) == o.status = "resolved"

\* Greptile's feedback is there: some request or run produced it.
Feedback(o) == IsKnown(o, "gates") /\ Gates(o).findings # {}
NamesRequest(o) == \E a \in o.answers : a.row.run # None \/ a.row.request # None

StandingE1Waiver(o) ==
    LastOf({a \in o.answers : /\ a.trusted /\ a.row.question = "E1" /\ a.row.option = "b"
                              /\ a.row.edge.kind # "excluded" /\ ~a.row.edge.consumed /\ a.row.edge.offersB})

\* Is the allowance consumed?  What is known to consume it does, whatever else is not known.
Evidence(o) ==
    \/ Misattributed(o) # {} \/ Listed(o) # {}
    \/ History!Recorded(o.view) # {}
    \/ Feedback(o)
    \/ History!Consuming(o.view) # {}
    \/ History!Markers(o.view) # {}
    \/ \E j \in SetOf(o, "journal") : (j.confirmed \/ History!Tried(j)) /\ j.res \notin o.view.released
    \/ NamesRequest(o)

\* A bug: nothing is consumed where Greptile does not apply.
ConsumedIfApplicable(o, applicable) ==
    IF ~applicable \/ StandingE1Waiver(o) # None THEN "no"
    ELSE IF Evidence(o) \/ o.reduced # {} \/ History!Markers(o.view) # {} \/ o.requests # {} THEN "yes"
    ELSE IF Resolved(o) THEN "no" ELSE "unknown"

Consumed(o, applicable) ==
    IF Evidence(o) THEN "yes"
    ELSE IF Resolved(o)
    THEN IF o.reduced # {} \/ History!Markers(o.view) # {} \/ o.requests # {} THEN "yes" ELSE "no"
    ELSE IF ~applicable \/ StandingE1Waiver(o) # None THEN "no" ELSE "unknown"

\* This observation's own fresh reservation asks for nothing.
ConsumedBeforeSkip(o) ==
    IF ~Resolved(o) THEN Consumed(o, TRUE)
    ELSE IF o.reduced # {} \/ o.requests # {} \/ History!Recorded(o.view) # {} \/ NamesRequest(o) \/ Feedback(o)
    THEN "yes" ELSE "no"

-----------------------------------------------------------------------------
(* R05: does Greptile apply?                                               *)

PolicyEdge(paths) == [question |-> "POLICY-CHANGE", paths |-> paths]
SkipEdge(why) == [question |-> "SKIP-ACK", why |-> why]

\* Why no review can come, or None.
SkipAck(config) ==
    IF config.app = "not-installed" THEN "app-not-installed"
    ELSE IF config.verified # None /\ config.verified.exclusion # None THEN "excluded"
    ELSE None

Applicability(status, policy, ack) == [status |-> status, policy |-> policy, ack |-> ack]
NotApplicable == {"no-root-configuration", "docs-only", "user-policy-decision", "app-not-installed", "excluded"}

\* Without an acknowledgment nobody skips a review that only cannot come.
Skippable(o, why, policy) ==
    IF why = None \/ ConsumedBeforeSkip(o) # "no" THEN Applicability("applies", policy, None)
    ELSE LET answer == LatestAnswer(o, "SKIP-ACK", SkipEdge(why))
         IN IF answer # None /\ answer.row.option = "a" THEN Applicability(why, policy, None)
            ELSE Applicability("applies", policy, why)

\* The PR changes the policy itself: what the user said of it goes before the files.
PolicyApplicability(o, edge, answer) ==
    IF answer # None /\ answer.row.option = "b" THEN Applicability("user-policy-decision", None, None)
    ELSE Skippable(o, SkipAck(Config(o)), IF answer = None THEN edge ELSE None)

FileApplicability(o, class) ==
    IF ~HasRootMarker(Config(o).base) /\ ~HasRootMarker(Config(o).head)
    THEN Applicability("no-root-configuration", None, None)
    ELSE IF class \in {"empty", "unclassified"} THEN Applicability("unresolved", None, None)
    ELSE IF class = "docs-only" THEN Applicability("docs-only", None, None)
    ELSE Skippable(o, SkipAck(Config(o)), None)

\* "unresolved", "applies", or why it does not; and what is still to be asked.
BaseApplicability(o) ==
    LET edge == PolicyEdge(PolicyFileChanges(Diff(o)))
    IN IF ~IsKnown(o, "diff") \/ ~IsKnown(o, "config") THEN Applicability("unresolved", None, None)
       ELSE IF edge.paths # {} THEN PolicyApplicability(o, edge, LatestAnswer(o, "POLICY-CHANGE", edge))
       ELSE FileApplicability(o, ClassifyDiff(Diff(o)))

-----------------------------------------------------------------------------
(* R06: the question a second run raises.                                  *)

\* The key of E1, or one that says it need not be asked, or cannot be told.
E1Edge(base, consumed, detection) ==
    IF base.status = "unresolved" \/ consumed = "unknown" THEN [question |-> "E1", kind |-> "unresolved"]
    ELSE IF (base.status # "applies" /\ consumed = "no") \/ detection.kind = "excluded"
    THEN [question |-> "E1", kind |-> "none"]
    ELSE [question |-> "E1", kind |-> detection.kind, consumed |-> consumed = "yes",
          offersB |-> consumed = "no" /\ detection.pushRebaseExcluded, facts |-> detection.facts]

\* And of the policy: without a readable configuration nothing is known to be excluded.
WithBase(o) ==
    Extended(o, [applicability |-> BaseApplicability(o), waiver |-> StandingE1Waiver(o),
                 detection |-> IF IsKnown(o, "config") THEN DetectReadyTrigger(Config(o))
                               ELSE Detection("cannot-rule-out", FALSE, <<>>)])
WithEdge(o) ==
    Extended(o, [edge |-> E1Edge(o.applicability, Consumed(o, o.applicability.status = "applies"), o.detection)])
Memo(o) == WithEdge(WithBase(ReadHistory(o)))

Asked(edge) == edge.kind \notin {"none", "unresolved"}
LatestE1Choice(o, options) ==
    LastOf({a \in o.answers : a.trusted /\ a.row.question = "E1" /\ a.row.option \in options})

Guard(says, waiver) == [says |-> says, waiver |-> waiver]

\* "ask", "pause" before trigger and readiness, or "pass".
SecondRunGuard(o) ==
    LET choice == LatestE1Choice(o, {"a", "b"})
        waived == choice # None /\ choice.row.option = "b" /\ o.waiver # None
    IN IF ~Asked(o.edge) \/ (waived /\ o.edge.offersB) THEN Guard("pass", o.waiver)
       ELSE IF LatestE1Choice(o, {"a"}) # None THEN Guard("pause", o.waiver)
       ELSE Guard("ask", o.waiver)

\* The transition of a ready PR is behind it; pushes must still start nothing.
ReadOnlyGuard(o) ==
    IF o.waiver # None /\ (~Asked(o.edge) \/ o.detection.pushRebaseExcluded)
    THEN Guard("pass", o.waiver) ELSE SecondRunGuard(o)

-----------------------------------------------------------------------------
(* Waivers.                                                                *)

Includes(c, ancestor, descendant, class) ==
    c # None /\ c.ancestor = ancestor /\ c.descendant = descendant /\ ClassifyAncestry(c) = class

GrantAnchor(grant) ==
    LET submitted == ({grant.run.submitted} \ {None}) \cup (IF grant.sub = None THEN {} ELSE {grant.sub.at})
    IN IF submitted = {} THEN grant.run.firstSeen ELSE LeastTime(submitted)

E2Edge(r) == [question |-> "E2", run |-> r.id, status |-> r.status]
E4Edge(ref) == [question |-> "E4", request |-> ref]
E6Edge(run, anchor) == [question |-> "E6", run |-> run, anchor |-> anchor]
E7Edge(run, reviewed) == [question |-> "E7", run |-> run, reviewed |-> reviewed]

\* The run was, when the answer was given, what its question says.
WitnessOk(row, grant) ==
    LET run == grant.run
    IN CASE row.question = "E2" ->
              /\ run.reviewed \notin {None, grant.head} => Includes(grant.ancestry, run.reviewed, grant.head, "ancestor")
              /\ run.status \in {"failed", "cancelled"} /\ row.edge = E2Edge(run)
         [] row.question = "E6" ->
              /\ Pending(run) /\ grant.seen # None /\ grant.seen >= GrantAnchor(grant) + NoResponse
              /\ row.edge = E6Edge(run.id, GrantAnchor(grant))
         [] row.question = "E7" ->
              /\ ~Pending(run) /\ run.status # "unknown"
              /\ run.status = "completed" => /\ run.proof = ProofFor(run.reporter)
                                            /\ run.recorded # None /\ run.reviewed = run.recorded
              /\ run.reviewed # None /\ Includes(grant.ancestry, run.reviewed, grant.head, "stale")
              /\ row.edge = E7Edge(run.id, run.reviewed)

ValidGrant(o, a) ==
    LET grant == a.row.grant
    IN /\ grant # None
       /\ grant.head = a.receipt.head /\ grant.run.id = a.row.run /\ grant.run.actor \in o.actors
       /\ Includes(grant.inclusion, grant.base, grant.head, "ancestor")
       /\ grant.sub # None => grant.sub.run = grant.run.id /\ grant.sub.outcome # "not-submitted"
       /\ WitnessOk(a.row, grant)

\* What an accepted waiver still owes.
Missing(o, a) ==
    LET grant == a.row.grant
        reviewed == /\ a.row.fullReviewTree = grant.tree
                    /\ grant.review # None /\ grant.review.status = "passed" /\ grant.review.tree = grant.tree
                    /\ SourceTrusted(o, grant.review.source)
                    /\ grant.head = o.head => IsKnown(o, "gates") /\ Gates(o).tree = grant.tree
    IN IF a.row.question = "E7" /\ ~reviewed THEN "full-review"
       ELSE IF ~a.row.triaged THEN "triage" ELSE "nothing"

Waivers(o) ==
    {a \in o.answers :
        /\ EffectOf(a.row.question, a.row.option) = "affirmative-waiver" /\ a.row.question # "E1"
        /\ a.trusted /\ a.row.run # None /\ ValidGrant(o, a)
        /\ LatestAnswer(o, a.row.question, a.row.edge) = a}

Paid(o, waivers) == {a \in waivers : Missing(o, a) = "nothing"}

\* One that owes nothing goes first.
FirstWaiver(paid, waivers) ==
    IF waivers = {} THEN None ELSE Least(IF paid # {} THEN paid ELSE waivers, GivenBefore)
PaidFirst(o, waivers) == FirstWaiver(Paid(o, waivers), waivers)
RunWaiver(o) == PaidFirst(o, Waivers(o))
=============================================================================
