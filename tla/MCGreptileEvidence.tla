-------------------------- MODULE MCGreptileEvidence --------------------------
(* PRs that are fresh, reserved, asked, reviewed, failed, without Greptile, ... -  *)
(* and two changes of any kind to each.                                         *)
EXTENDS GreptileEvidence
CONSTANTS b0, h1, h2, h9, me, bot, you, t1, t2

Known(v) == [state |-> "known", at |-> 20, pr |-> 7, head |-> h2, value |-> v]
Keys == [autoReview |-> None, triggerOnUpdates |-> None, skipReview |-> None, labels |-> None]
File(keys) == [readable |-> TRUE, object |-> keys]
Tip(sha, json) == [sha |-> sha, json |-> json, dotted |-> None, dir |-> None]
Configured(base, head) == [base |-> Tip(b0, base), head |-> Tip(h2, head), verified |-> None, app |-> "installed"]
Quiet == File([Keys EXCEPT !.skipReview = "AUTOMATIC"])
Opens == File([Keys EXCEPT !.labels = {"ok"}])
Verified(list, why) == [autoReview |-> list, labels |-> {}, exclusion |-> why]

Check(a, d, result) == [ancestor |-> a, descendant |-> d, result |-> result, history |-> "complete"]
Changed(p, class) == [path |-> p, previous |-> None, entry |-> "file", class |-> class]
DiffOf(files) == [base |-> b0, head |-> h2, files |-> files, docsPolicy |-> "docs-policy", policyReadAt |-> b0]
Passed == [status |-> "passed", tree |-> t1, source |-> None]
GoodGates == [tree |-> t1, worktree |-> "clean", reviewedBase |-> b0, review |-> Passed, tests |-> Passed, plan |-> Passed,
              manual |-> [status |-> "not-required", source |-> None], blocking |-> FALSE, openDecisions |-> FALSE,
              labels |-> {"ok"}, application |-> "not-needed", findings |-> {}, deltas |-> {}, mergeable |-> "MERGEABLE"]
Finding(run, open) == [run |-> run, complete |-> TRUE, open |-> open]

Reservation(id, at) == [id |-> id, kind |-> "reservation", head |-> h2, author |-> me, editors |-> {}, at |-> at, calls |-> FALSE]
Asked1 == [Reservation(1, 10) EXCEPT !.kind = "trigger", !.calls = TRUE]
Entry == [res |-> 1, resAt |-> 10, head |-> h2, session |-> "s1", obs |-> "o1", confirmed |-> TRUE,
          phase |-> "confirmed-unattempted", transport |-> "none", at |-> 11]
Tried1 == [Entry EXCEPT !.phase = "attempted", !.transport = "mcp", !.at = 12, !.obs = "o0"]
Sub(outcome, proof, run) == [id |-> 1, res |-> 1, session |-> "s1", obs |-> "o0", at |-> 13, outcome |-> outcome, proof |-> proof, run |-> run]
Run1 == [id |-> 1, reporter |-> "greptile-mcp", actor |-> bot, origin |-> "manual", status |-> "completed", revision |-> None,
         recorded |-> h2, reviewed |-> h2, proof |-> "mcp-run-metadata", submitted |-> None, firstSeen |-> 14, at |-> 16]
Failed1 == [Run1 EXCEPT !.status = "failed", !.recorded = None, !.reviewed = None, !.proof = "none"]
Running1 == [Run1 EXCEPT !.status = "running", !.recorded = None, !.reviewed = None, !.proof = "none"]
Checked1 == [Run1 EXCEPT !.reporter = "github-check-run", !.proof = "check-output-confirms-review", !.at = 17]

Fresh ==
    [now |-> 20, observed |-> 20, created |-> 1, account |-> me, actors |-> {bot}, session |-> "s1", obs |-> "o1", pr |-> 7,
     base |-> b0, head |-> h2, state |-> "OPEN", draft |-> TRUE,
     refs |-> Known([local |-> h2, remote |-> h2, inclusion |-> Check(b0, h2, "ancestor")]),
     diff |-> Known(DiffOf({Changed("code", "code")})), config |-> Known(Configured(Quiet, Quiet)),
     comments |-> Known({}), subs |-> Known({}), journal |-> Known({}), runs |-> Known({}),
     ancestry |-> Known({Check(h1, h2, "ancestor")}), receipts |-> Known({}), gates |-> Known(GoodGates)]
Reserved == [Fresh EXCEPT !.comments.value = {Reservation(1, 10)}, !.journal.value = {Entry}]
Reviewed == [Fresh EXCEPT !.runs.value = {Run1}, !.gates.value.findings = {Finding(1, FALSE)}]
FailedPr == [Fresh EXCEPT !.runs.value = {Failed1}]
OpensOnReady == [Fresh EXCEPT !.config.value = Configured(Opens, Opens)]
Docs(o) == [o EXCEPT !.diff.value = DiffOf({Changed("guide", "prose")})]

Answer(question, option, edge) ==
    [id |-> 1, question |-> question, option |-> option, edge |-> edge, at |-> 18, until |-> None, run |-> None, request |-> None,
     triaged |-> TRUE, fullReviewTree |-> None, seen |-> None, grant |-> None]
Receipt(id, answers) == [id |-> id, at |-> 19, refs |-> {}, restrictions |-> {}, resolutions |-> {}, decisions |-> answers]
E1Now == Memo(OpensOnReady).edge

\* Answers the user has given before.
Told(id, question, option, edge, at) ==
    Extended(Receipt(id, {[Answer(question, option, edge) EXCEPT !.id = id, !.at = at]}),
             [author |-> me, editors |-> {me}, pr |-> 7, head |-> h1])
StaysDraft(o) == [o EXCEPT !.receipts.value = {Told(11, "E1", "b", E1Now, 16), Told(12, "E1", "c", E1Now, 17)}]

MCObservations ==
    {StaysDraft(OpensOnReady), [StaysDraft(OpensOnReady) EXCEPT !.draft = FALSE],
     [Fresh EXCEPT !.config.value.verified = Verified({"open"}, "excluded"),
                   !.receipts.value = {Told(11, "SKIP-ACK", "b", SkipEdge("excluded"), 16)}],
     Fresh, Reserved, Reviewed, FailedPr, OpensOnReady, Docs(OpensOnReady),
     [Reserved EXCEPT !.config.value.head.json = Opens],
     [Fresh EXCEPT !.comments.value = {Asked1}],
     [Fresh EXCEPT !.comments.value = {Reservation(1, 18), Reservation(2, 17)}, !.journal.value = {[Entry EXCEPT !.resAt = 18, !.at = 18]}],
     [Fresh EXCEPT !.subs.value = {Sub("ambiguous", FALSE, None)}],
     [Fresh EXCEPT !.config.value.verified = Verified({"open"}, "excluded")],
     [Fresh EXCEPT !.diff.value = DiffOf({Changed("greptile.json", "code")})],
     [Reviewed EXCEPT !.runs.value = {[Run1 EXCEPT !.recorded = h9, !.reviewed = h9]}, !.ancestry.value = {Check(h9, h2, "not-ancestor"), Check(h1, h2, "ancestor")}]}

MCEvidences ==
    [refs |-> {[Fresh.refs.value EXCEPT !.local = h1], [Fresh.refs.value EXCEPT !.inclusion = Check(b0, h2, "not-ancestor")]},
     diff |-> {DiffOf({Changed("guide", "prose")}), DiffOf({}), DiffOf({Changed("greptile.json", "code")})},
     config |-> {Configured(None, None), Configured(Quiet, Quiet), Configured(Opens, Opens), Configured(Quiet, File(None)),
                 [Configured(Quiet, Quiet) EXCEPT !.app = "not-installed"],
                 [Configured(File(None), File(None)) EXCEPT !.verified = [Verified({}, None) EXCEPT !.labels = None]],
                 [Configured(Opens, Opens) EXCEPT !.verified = Verified({"open", "push"}, None)]},
     comments |-> {{Asked1}, {Reservation(1, 10)}, {Reservation(1, 10), Reservation(2, 9)}, {[Asked1 EXCEPT !.author = you]}, {[Asked1 EXCEPT !.at = 18]},
                   {[Reservation(1, 10) EXCEPT !.editors = {you}]}},
     subs |-> {{Sub("accepted", FALSE, 1)}, {Sub("not-submitted", TRUE, None)}, {Sub("not-submitted", FALSE, None)}},
     journal |-> {{Entry}, {Tried1}, {Tried1, Entry}, {[Entry EXCEPT !.session = "s0"]}},
     runs |-> {{Run1}, {Run1, [Checked1 EXCEPT !.status = "failed"]}, {Run1, Checked1}, {Failed1}, {[Run1 EXCEPT !.status = "done"]},
               {[Run1 EXCEPT !.recorded = h1, !.reviewed = h1]}, {Running1}, {[Run1 EXCEPT !.actor = you]},
               {[Run1 EXCEPT !.proof = "none"]}, {[Running1 EXCEPT !.firstSeen = 16]}},
     ancestry |-> {{}, {Check(h1, h2, "not-ancestor")}, {Check(h9, h2, "not-ancestor")}},
     gates |-> {[GoodGates EXCEPT !.findings = {Finding(1, TRUE)}], [GoodGates EXCEPT !.findings = {Finding(1, FALSE)}],
                [GoodGates EXCEPT !.findings = {Finding(1, FALSE)}, !.deltas = {[from |-> h1, tree |-> t1, source |-> None]}],
                [GoodGates EXCEPT !.manual = [status |-> "pending", source |-> None]], [GoodGates EXCEPT !.tests.source = 3],
                [GoodGates EXCEPT !.labels = {}], [GoodGates EXCEPT !.worktree = "dirty"], [GoodGates EXCEPT !.blocking = TRUE],
                [GoodGates EXCEPT !.mergeable = "UNKNOWN"], [GoodGates EXCEPT !.openDecisions = TRUE],
                [GoodGates EXCEPT !.review.tree = t2]}]

Grant(run) ==
    [head |-> h2, base |-> b0, tree |-> t1, inclusion |-> Check(b0, h2, "ancestor"), run |-> run, sub |-> None, seen |-> 17,
     ancestry |-> None, review |-> None]
Waiver(question, option, edge, run) == [Answer(question, option, edge) EXCEPT !.run = 1, !.grant = Grant(run)]
Stale1 == [Run1 EXCEPT !.recorded = h9, !.reviewed = h9]
MCContents ==
    {Receipt(1, {Answer("E1", o, E1Now)}) : o \in {"a", "b", "c"}}
    \cup {Receipt(1, {Waiver("E2", o, E2Edge(Failed1), Failed1)}) : o \in {"a", "b"}}
    \cup {Receipt(1, {[Waiver("E6", "b", E6Edge(1, 14), Running1) EXCEPT !.grant.seen = 19, !.at = 19]}),
          Receipt(1, {[Waiver("E2", "a", E2Edge(Failed1), Failed1) EXCEPT !.triaged = FALSE]}),
          Receipt(1, {[Answer("E6", "a", E6Edge(1, 14)) EXCEPT !.until = 25]}),
          Receipt(1, {[Answer("E4", "a", E4Edge(History!Ref("submission", 1))) EXCEPT !.request = History!Ref("submission", 1), !.seen = 18]}),
          Receipt(1, {[Waiver("E7", "a", E7Edge(1, h9), Stale1) EXCEPT !.grant.ancestry = Check(h9, h2, "not-ancestor")]}),
          Receipt(1, {[Waiver("E7", "a", E7Edge(1, h9), Stale1) EXCEPT !.grant.ancestry = Check(h9, h2, "not-ancestor"),
                          !.grant.review = Passed, !.fullReviewTree = t1]}),
          Receipt(1, {Answer("SKIP-ACK", "a", SkipEdge("excluded"))}), Receipt(1, {Answer("SKIP-ACK", "a", SkipEdge("app-not-installed"))}),
          Receipt(1, {Answer("POLICY-CHANGE", "a", PolicyEdge({"greptile.json"}))}),
          Receipt(1, {Answer("POLICY-CHANGE", "b", PolicyEdge({"greptile.json"}))}),
          [Receipt(2, {}) EXCEPT !.restrictions = {[id |-> 5, kind |-> "draft-push-conflict"]}, !.at = 15],
          [Receipt(2, {}) EXCEPT !.restrictions = {[id |-> 5, kind |-> "manual"]}, !.at = 15],
          [Receipt(3, {}) EXCEPT !.resolutions = {5}],
          Receipt(1, {[Answer("SKIP-ACK", "a", SkipEdge("excluded")) EXCEPT !.request = History!Ref("submission", 1)]}),
          [Receipt(4, {}) EXCEPT !.refs = {History!Ref("run", 9)}], Receipt(3, {})}
MCWriters == {[author |-> me, editors |-> {me}], [author |-> you, editors |-> {}], [author |-> me, editors |-> {you}]}
================================================================================
