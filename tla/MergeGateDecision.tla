--------------------------- MODULE MergeGateDecision ---------------------------
(* The verdict of the merge gate: src/merge-gate/decide.ts as a function of     *)
(* evidence and a policy, the tables of registry.ts it reads, and the checks    *)
(* replay makes before it decides stored evidence again (cli.ts). A path is a   *)
(* model value; what the code reads off its text is membership in a constant    *)
(* set. Reasons are codes: their details and the output caps are left out.      *)
EXTENDS Integers, FiniteSetsExt

CONSTANTS Null, Lockfiles, TestPaths, TestDepPaths, BinPaths, ApiCapable

EvidenceV == 1
CollectorVersion == 1

DefaultPolicy == [net_lines |-> 500, new_files |-> 10, new_deps |-> 0,
                  new_public_api |-> 10, churn |-> Null, exclude |-> {}]
Measures == {"net_lines", "new_files", "new_deps", "new_public_api", "churn"}

(* `registry.ts`: every class but "info" is blocking. *)
OverBudget == [net_lines |-> "net_lines_over_budget", new_files |-> "new_files_over_budget",
               new_deps |-> "new_deps_over_budget", churn |-> "churn_over_budget",
               new_public_api |-> "new_public_api_over_budget"]
ReasonClass ==
    [budget    |-> {OverBudget[m] : m \in Measures},
     evidence  |-> {"deps_unverifiable", "empty_diff", "evidence_incomplete", "rename_detection_incomplete"},
     readiness |-> {"pr_draft", "merge_conflict", "mergeability_unknown", "checks_failing",
                    "checks_pending", "check_state_unknown", "changes_requested",
                    "review_required", "checks_truncated"},
     info      |-> {"binary_files_excluded", "pr_signals_not_checked", "retroactive_pr_state",
                    "no_checks_configured", "github_merge_state", "api_coverage_partial"}]
Blocking(reasons) == reasons \ ReasonClass.info

PrSignals ==
    [mergeable_pass |-> {"MERGEABLE"}, mergeable_conflict |-> {"CONFLICTING"},
     review_pass |-> {"APPROVED", "", Null}, review_changes |-> {"CHANGES_REQUESTED"},
     review_required |-> {"REVIEW_REQUIRED"},
     run_success |-> {"SUCCESS"}, run_neutral |-> {"NEUTRAL", "SKIPPED"},
     run_failure |-> {"FAILURE", "CANCELLED", "TIMED_OUT", "ACTION_REQUIRED", "STARTUP_FAILURE", "STALE"},
     status_success |-> {"SUCCESS"}, status_pending |-> {"PENDING", "EXPECTED"},
     status_failure |-> {"FAILURE", "ERROR"}]
--------------------------------------------------------------------------------
(* Which files each metric counts. *)
ExcludeReasons == {"submodule", "lockfile", "user_glob", "binary"}
ExcludeReason(f, exclude) ==
    IF f.submodule THEN "submodule"
    ELSE IF f.path \in Lockfiles THEN "lockfile"
    ELSE IF f.path \in exclude THEN "user_glob"
    ELSE IF f.binary THEN "binary" ELSE Null

ExcludedDepPath(p, exclude) == p \in Lockfiles \cup exclude \cup TestDepPaths
ApiCounted(p, exclude) == p \notin TestPaths \cup exclude \cup Lockfiles

LineFiles(e, exclude) == {f \in e.files : ExcludeReason(f, exclude) = Null}
NewFiles(e, exclude) ==
    {f \in e.files : f.status = "A" /\ ~f.submodule /\ f.path \notin Lockfiles \cup exclude}

CountedManifests(e, exclude) == {m \in e.manifests : ~ExcludedDepPath(m.path, exclude)}
NewDeps(e, exclude) ==
    UNION {{<<m.path, d.name>> : d \in {a \in m.added : a.class = "remote"}} :
           m \in {c \in CountedManifests(e, exclude) : ~c.unverifiable}}

NewExecutables(e, exclude) ==
    {f \in e.files : /\ ApiCounted(f.path, exclude) /\ f.path \in BinPaths
                     /\ f.newMode = "100755" /\ (f.status = "A" \/ f.oldMode = "100644")}

(* A declaration is a rule and a name (`name`) at a line of its own: a name     *)
(* declared twice counts twice, and one removed pays for one added elsewhere.   *)
Declared(changes, side) == UNION {{<<c.path, d>> : d \in c[side]} : c \in changes}
Net(added, removed) ==
    LET net(n) == Cardinality({d \in added : d[2].name = n}) - Cardinality({d \in removed : d[2].name = n})
        gained(n) == IF net(n) > 0 THEN net(n) ELSE 0
    IN  MapThenSumSet(gained, {d[2].name : d \in added})
NetApi(e, exclude) ==
    LET facts == {a \in e.api : ApiCounted(a.path, exclude)} IN
    Net(Declared(facts, "added"), Declared(facts, "removed")) + Cardinality(NewExecutables(e, exclude))

UnmeasuredApi(e, exclude) ==
    {f \in e.files : /\ ~f.submodule /\ ApiCounted(f.path, exclude)
                     /\ f.apiSkipped # Null \/ (f.status # "D" /\ f.path \in ApiCapable)}

MetricsOf(e, exclude) ==
    LET added(f) == f.additions
        deleted(f) == f.deletions
        plus == MapThenSumSet(added, LineFiles(e, exclude))
        minus == MapThenSumSet(deleted, LineFiles(e, exclude))
    IN  [net_lines |-> plus - minus, churn |-> plus + minus,
         new_files |-> Cardinality(NewFiles(e, exclude)),
         new_deps |-> Cardinality(NewDeps(e, exclude)),
         new_public_api |-> NetApi(e, exclude)]
--------------------------------------------------------------------------------
(* Reasons. *)
Budget(metrics, policy) ==
    {OverBudget[m] : m \in {k \in Measures : policy[k] # Null /\ metrics[k] > policy[k]}}

If(condition, code) == IF condition THEN {code} ELSE {}

EvidenceReasons(e, exclude) ==
    LET clean == e.complete /\ e.failures = {} IN
    UNION {If(\E m \in CountedManifests(e, exclude) : m.unverifiable, "deps_unverifiable"),
           If(e.renameSkipped, "rename_detection_incomplete"),
           If(~clean, "evidence_incomplete"),
           If(clean /\ (e.files = {} \/ e.mergeBase = e.head), "empty_diff")}

InfoReasons(e, exclude) ==
    If(\E f \in e.files : ExcludeReason(f, exclude) = "binary", "binary_files_excluded")
    \cup If(UnmeasuredApi(e, exclude) # {}, "api_coverage_partial")

TimingOf(e) ==
    IF e.pr = Null THEN "unanchored"
    ELSE IF e.pr.state \in {"MERGED", "CLOSED"} THEN "retroactive" ELSE "open"

(* A check run has a status and a conclusion, a commit status a state. *)
ClassifyCheck(c) ==
    IF c.kind = "run"
    THEN IF c.status # "COMPLETED" THEN "pending"
         ELSE IF c.conclusion \in PrSignals.run_success THEN "success"
         ELSE IF c.conclusion \in PrSignals.run_neutral THEN "neutral"
         ELSE IF c.conclusion \in PrSignals.run_failure THEN "failure" ELSE "unknown"
    ELSE IF c.state \in PrSignals.status_success THEN "success"
         ELSE IF c.state \in PrSignals.status_pending THEN "pending"
         ELSE IF c.state \in PrSignals.status_failure THEN "failure" ELSE "unknown"

(* `rollup` is Null when the response has no list; `full` is a page of 100.     *)
RollupReasons(raw) ==
    LET buckets == {ClassifyCheck(c) : c \in raw.rollup} IN
    IF raw.rollup = Null THEN {"check_state_unknown"}
    ELSE IF raw.rollup = {} THEN {"no_checks_configured"}
    ELSE UNION {If("failure" \in buckets, "checks_failing"), If("pending" \in buckets, "checks_pending"),
                If("unknown" \in buckets, "check_state_unknown"), If(raw.full, "checks_truncated")}

MergeableUnlessConflict(raw) == If(raw.mergeable \in PrSignals.mergeable_conflict, "merge_conflict")
MergeableReasons(raw) ==
    IF raw.mergeable \in PrSignals.mergeable_conflict THEN {"merge_conflict"}
    ELSE If(raw.mergeable \notin PrSignals.mergeable_pass, "mergeability_unknown")

ReviewReasons(raw) ==
    IF raw.review \in PrSignals.review_changes THEN {"changes_requested"}
    ELSE If(raw.review \in PrSignals.review_required \/ raw.review \notin PrSignals.review_pass,
            "review_required")

ApplyPr(raw) ==
    If(raw.draft, "pr_draft") \cup MergeableReasons(raw) \cup ReviewReasons(raw) \cup RollupReasons(raw)

PrReasons(e) ==
    CASE TimingOf(e) = "unanchored"  -> {"pr_signals_not_checked"}
      [] TimingOf(e) = "retroactive" -> {"retroactive_pr_state"}
      [] TimingOf(e) = "open"        -> ApplyPr(e.pr)
--------------------------------------------------------------------------------
Decide(e, policy) ==
    LET x == policy.exclude
        metrics == MetricsOf(e, x)
        reasons == Budget(metrics, policy) \cup EvidenceReasons(e, x) \cup InfoReasons(e, x) \cup PrReasons(e)
    IN  [timing |-> TimingOf(e), metrics |-> metrics, reasons |-> reasons,
         base |-> e.base, head |-> e.head, observedAt |-> e.observedAt,
         wouldMerge |-> Blocking(reasons) = {},
         withinBudget |-> reasons \cap ReasonClass.budget = {},
         evidenceComplete |-> reasons \cap ReasonClass.evidence = {},
         ready |-> IF TimingOf(e) = "open" THEN reasons \cap ReasonClass.readiness = {} ELSE Null]

(* A policy file names every limit it keeps: a key it omits is off, not the     *)
(* default. Flags replace limits; globs add up.                                 *)
LoadPolicy(file, flags) ==
    LET named == IF file = Null THEN DefaultPolicy
                 ELSE [k \in DOMAIN DefaultPolicy |->
                          IF k \in DOMAIN file THEN file[k] ELSE IF k = "exclude" THEN {} ELSE Null]
    IN  [k \in DOMAIN DefaultPolicy |->
            IF k = "exclude" THEN named[k] \cup flags[k] ELSE IF k \in DOMAIN flags THEN flags[k] ELSE named[k]]

(* What replay requires of every field decide reads. *)
ApiSkips == {"too_large", "non_utf8_path", "patch_missing", "patch_failed"}
FileFactOk(f) ==
    /\ f.status \in {"A", "M", "D", "R", "T"} /\ f.additions \in Nat /\ f.deletions \in Nat
    /\ f.binary \in BOOLEAN /\ f.submodule \in BOOLEAN
    /\ f.apiSkipped \in {Null} \cup ApiSkips
DepEntryOk(d) == d.class \in {"remote", "local", "indirect"}
ValidateEvidence(e) ==
    /\ \A f \in e.files : FileFactOk(f)
    /\ \A m \in e.manifests : (\A d \in m.added \cup m.removed : DepEntryOk(d)) /\ m.unverifiable \in BOOLEAN
    /\ e.complete \in BOOLEAN /\ e.renameSkipped \in BOOLEAN

(* A decision made again from the stored evidence, or the code of the refusal. *)
Replayed(error, verdict) == [error |-> error, verdict |-> verdict]
ReplayOne(e, policy) ==
    IF e.v # EvidenceV \/ e.collector > CollectorVersion THEN Replayed("evidence_unsupported_version", Null)
    ELSE IF ~ValidateEvidence(e) THEN Replayed("evidence_corrupt", Null)
    ELSE Replayed(Null, Decide(e, policy))
================================================================================
