------------------------------ MODULE MergeGateProofs ------------------------------
(* Proofs about one check of the merge gate: what its verdict may say of any     *)
(* evidence and policy, and, for any pull request that moves while any calls    *)
(* fail, that a verdict is decided from what was collected, is about one state  *)
(* the pull request had, can be replayed, and, when it calls its evidence whole *)
(* or would merge, measured the change git knows.                               *)
EXTENDS MergeGate, FiniteSetTheorems, SequenceTheorems, WellFoundedInduction, TLAPS
--------------------------------------------------------------------------------
(* The decision.                                                                *)
LEMMA IfFacts == \A condition, code : code \in If(condition, code) <=> condition
BY DEF If

(* A verdict that would merge rests on evidence that is whole and not empty,    *)
(* measures within every limit and, on an open pull request, signals that are   *)
(* all known passes: the fail-closed design of decide.ts.                       *)
THEOREM FailsClosed ==
    ASSUME NEW e, NEW p, Decide(e, p).wouldMerge
    PROVE  /\ e.complete /\ e.failures = {} /\ ~e.renameSkipped
           /\ e.files # {} /\ e.mergeBase # e.head
           /\ \A m \in CountedManifests(e, p.exclude) : ~m.unverifiable
           /\ \A k \in Measures : p[k] # Null => ~(MetricsOf(e, p.exclude)[k] > p[k])
           /\ TimingOf(e) = "open" =>
                 /\ ~e.pr.draft /\ e.pr.mergeable \in PrSignals.mergeable_pass
                 /\ e.pr.review \in PrSignals.review_pass
                 /\ e.pr.rollup # Null
                 /\ \A c \in e.pr.rollup : ClassifyCheck(c) \in {"success", "neutral"}
                 /\ e.pr.rollup # {} => ~e.pr.full
<1> DEFINE x == p.exclude
           reasons == Budget(MetricsOf(e, x), p) \cup EvidenceReasons(e, x) \cup InfoReasons(e, x) \cup PrReasons(e)
           info == {"binary_files_excluded", "pr_signals_not_checked", "retroactive_pr_state",
                    "no_checks_configured", "github_merge_state", "api_coverage_partial"}
<1>1. \A r \in reasons : r \in info
  <2>1. Blocking(reasons) = {}
    BY DEF Decide
  <2> QED
    BY <2>1 DEF Blocking, ReasonClass
<1>2. /\ EvidenceReasons(e, x) \subseteq info /\ PrReasons(e) \subseteq info
      /\ Budget(MetricsOf(e, x), p) \subseteq info
  BY <1>1
<1>3. /\ ~(\E m \in CountedManifests(e, x) : m.unverifiable) /\ ~e.renameSkipped
      /\ e.complete /\ e.failures = {} /\ ~(e.files = {} \/ e.mergeBase = e.head)
  <2>1. /\ "deps_unverifiable" \notin EvidenceReasons(e, x)
        /\ "rename_detection_incomplete" \notin EvidenceReasons(e, x)
        /\ "evidence_incomplete" \notin EvidenceReasons(e, x) /\ "empty_diff" \notin EvidenceReasons(e, x)
    BY <1>2
  <2> QED
    BY <2>1, IfFacts DEF EvidenceReasons
<1>4. ASSUME NEW k \in Measures, p[k] # Null
      PROVE  ~(MetricsOf(e, x)[k] > p[k])
  <2>1. OverBudget[k] \notin info
    BY DEF OverBudget, Measures
  <2>2. OverBudget[k] \notin Budget(MetricsOf(e, x), p)
    BY <1>2, <2>1
  <2> QED
    BY <1>4, <2>2 DEF Budget
<1>5. ASSUME TimingOf(e) = "open"
      PROVE  /\ ~e.pr.draft /\ e.pr.mergeable \in PrSignals.mergeable_pass
             /\ e.pr.review \in PrSignals.review_pass
             /\ e.pr.rollup # Null
             /\ \A c \in e.pr.rollup : ClassifyCheck(c) \in {"success", "neutral"}
             /\ e.pr.rollup # {} => ~e.pr.full
  <2>1. ApplyPr(e.pr) \subseteq info
    BY <1>2, <1>5 DEF PrReasons
  <2>2. ~e.pr.draft
    BY <2>1, IfFacts DEF ApplyPr
  <2>3. e.pr.mergeable \in PrSignals.mergeable_pass
    <3>1. "merge_conflict" \notin MergeableReasons(e.pr) /\ "mergeability_unknown" \notin MergeableReasons(e.pr)
      BY <2>1 DEF ApplyPr
    <3> QED
      BY <3>1, IfFacts DEF MergeableReasons
  <2>4. e.pr.review \in PrSignals.review_pass
    <3>1. "changes_requested" \notin ReviewReasons(e.pr) /\ "review_required" \notin ReviewReasons(e.pr)
      BY <2>1 DEF ApplyPr
    <3> QED
      BY <3>1, IfFacts DEF ReviewReasons
  <2>5. /\ e.pr.rollup # Null
        /\ \A c \in e.pr.rollup : ClassifyCheck(c) \in {"success", "neutral"}
        /\ e.pr.rollup # {} => ~e.pr.full
    <3>1. \A r \in {"check_state_unknown", "checks_failing", "checks_pending", "checks_truncated"} :
             r \notin RollupReasons(e.pr)
      BY <2>1 DEF ApplyPr
    <3>2. e.pr.rollup # Null
      BY <3>1 DEF RollupReasons
    <3>3. CASE e.pr.rollup = {}
      BY <3>2, <3>3
    <3>4. CASE e.pr.rollup # {}
      <4> DEFINE buckets == {ClassifyCheck(c) : c \in e.pr.rollup}
      <4>1. RollupReasons(e.pr) =
               UNION {If("failure" \in buckets, "checks_failing"), If("pending" \in buckets, "checks_pending"),
                      If("unknown" \in buckets, "check_state_unknown"), If(e.pr.full, "checks_truncated")}
        BY <3>2, <3>4 DEF RollupReasons
      <4>2. "failure" \notin buckets /\ "pending" \notin buckets /\ "unknown" \notin buckets /\ ~e.pr.full
        <5> HIDE DEF buckets
        <5> QED
          BY <3>1, <4>1, IfFacts
      <4>3. \A c : ClassifyCheck(c) \in {"success", "neutral", "pending", "failure", "unknown"}
        BY DEF ClassifyCheck
      <4> QED
        BY <3>2, <4>2, <4>3
    <3> QED
      BY <3>3, <3>4
  <2> QED
    BY <2>2, <2>3, <2>4, <2>5
<1> QED
  BY <1>3, <1>4, <1>5

(* Raising or dropping limits adds no reason: the same evidence that would      *)
(* merge under a policy would merge under every looser one.                     *)
THEOREM LooserOnlyAllows ==
    ASSUME NEW e, NEW p, NEW q, Looser(p, q), q.exclude = p.exclude,
           \A k \in Measures : MetricsOf(e, p.exclude)[k] \in Int,
           \A k \in Measures : p[k] \in Int \cup {Null} /\ q[k] \in Int \cup {Null},
           Decide(e, p).wouldMerge
    PROVE  Decide(e, q).wouldMerge
<1> DEFINE metrics == MetricsOf(e, p.exclude)
           rest == EvidenceReasons(e, p.exclude) \cup InfoReasons(e, p.exclude) \cup PrReasons(e)
<1>1. Budget(metrics, q) \subseteq Budget(metrics, p)
  <2> SUFFICES ASSUME NEW k \in Measures, q[k] # Null, metrics[k] > q[k]
               PROVE  p[k] # Null /\ metrics[k] > p[k]
    BY DEF Budget
  <2>1. p[k] # Null /\ p[k] <= q[k]
    BY DEF Looser
  <2>2. metrics[k] \in Int /\ p[k] \in Int /\ q[k] \in Int
    BY <2>1
  <2> QED
    BY <2>1, <2>2
<1>2. Blocking(Budget(metrics, p) \cup rest) = {}
  BY DEF Decide
<1>3. Blocking(Budget(metrics, q) \cup rest) = {}
  BY <1>1, <1>2 DEF Blocking
<1> QED
  BY <1>3 DEF Decide
--------------------------------------------------------------------------------
(* The check. What a verdict is decided from, and which state of the pull       *)
(* request it is about, are fixed step by step: `pc` says how far.              *)
Early == {"version", "safe", "toplevel", "partial", "attributes", "remote", "failed"}
Refs == {"base", "head"}
Views == {"view", "viewAgain"}
Dated == {"verifyHead", "verifyBase"}
Anchored == {"mergeBase", "shallow", "never", "diff", "sizes", "manifests", "select", "patch", "decide", "done"}

(* The pull request was in state `raw` at some point up to n.                   *)
Was(n) == \E i \in 1..n : raw = history[i]

HistoryOk == history \in Seq(PrStates) /\ Len(history) > 0
PlaceOk ==
    /\ pc \in Early \cup Refs \cup Views \cup {"observe"} \cup Dated \cup Anchored
    /\ pc \in Refs => world.mode = "git"
RawOk ==
    /\ pc = "observe" => Was(Len(history))
    /\ pc \in Dated => observedAt \in 1..Len(history) /\ Was(observedAt)
    /\ pc \in Anchored /\ world.mode # "git" =>
          observedAt \in 1..Len(history) /\ Was(observedAt)
          /\ base = raw.base /\ head = raw.head
VerdictOk == verdict # Null => pc = "done" /\ verdict = Decide(Evidence, policy)
IInv == HistoryOk /\ PlaceOk /\ RawOk /\ VerdictOk

USE DEF Early, Refs, Views, Dated, Anchored

LEMMA InitIInv == Init => IInv
BY DEF Init, IInv, HistoryOk, PlaceOk, RawOk, VerdictOk

(* A step that throws, or that stays in one stage of the check and leaves the   *)
(* reply, its date and the commits alone, keeps the invariant.                     *)
LEMMA Throws ==
    ASSUME IInv, pc # "done", UNCHANGED <<world, policy, history, verdict>>, pc' = "failed"
    PROVE  IInv'
BY DEF IInv, HistoryOk, PlaceOk, RawOk, VerdictOk

LEMMA Stays ==
    ASSUME IInv, pc # "done", UNCHANGED <<world, policy, history, verdict, raw, observedAt, base, head>>,
           \/ pc' \in Early \cup Views
           \/ pc \in Refs /\ pc' \in Refs
           \/ pc \in Dated /\ pc' \in Dated
           \/ pc \in Anchored /\ pc' \in Anchored
    PROVE  IInv'
BY DEF IInv, HistoryOk, PlaceOk, RawOk, Was, VerdictOk

LEMMA Calls ==
    ASSUME IInv, NEW at, NEW next, NEW wrong, Call(at, next, wrong), at # "done",
           \/ next \in Early
           \/ at \in Dated /\ next \in Dated
           \/ at \in Anchored /\ next \in Anchored
    PROVE  IInv'
<1>1. /\ pc = at /\ UNCHANGED <<world, policy, history, verdict, raw, observedAt, base, head>>
      /\ pc' \in {"failed", next}
  BY DEF Call, World, Throw, Go, run
<1> QED
  BY <1>1, Stays

LEMMA EarlyIInv ==
    IInv /\ (ReadVersion \/ ReadSafeDirectories \/ ReadToplevel \/ ReadPartial \/ InfoAttributes) => IInv'
<1> SUFFICES ASSUME IInv, ReadVersion \/ ReadSafeDirectories \/ ReadToplevel \/ ReadPartial \/ InfoAttributes
             PROVE  IInv'
  OBVIOUS
<1>1. CASE ReadVersion
  BY <1>1, Calls DEF ReadVersion
<1>2. CASE ReadSafeDirectories
  BY <1>2, Calls DEF ReadSafeDirectories
<1>3. CASE ReadToplevel
  BY <1>3, Calls DEF ReadToplevel
<1>4. CASE ReadPartial
  BY <1>4, Calls DEF ReadPartial
<1>5. CASE InfoAttributes
  <2>1. /\ pc = "attributes" /\ UNCHANGED <<world, policy, history, verdict, raw, observedAt, base, head>>
        /\ pc' \in {"failed", "remote"}
    BY <1>5 DEF InfoAttributes, World, Throw, Go, run
  <2> QED
    BY <2>1, Stays
<1> QED
  BY <1>1, <1>2, <1>3, <1>4, <1>5

LEMMA ReadRemoteIInv == IInv /\ ReadRemote => IInv'
<1> SUFFICES ASSUME IInv, ReadRemote PROVE IInv'
  OBVIOUS
<1>1. /\ pc = "remote" /\ UNCHANGED <<world, policy, history, verdict, raw, observedAt, base, head>>
      /\ pc' \in {"failed", IF world.mode = "git" THEN "base" ELSE "view"}
  BY DEF ReadRemote, World, Go, run
<1>2. CASE pc' = "base"
  <2>1. world.mode = "git"
    BY <1>1, <1>2
  <2> QED
    BY <1>1, <1>2, <2>1 DEF IInv, HistoryOk, PlaceOk, RawOk, VerdictOk
<1> QED
  BY <1>1, <1>2, Stays

LEMMA ResolveIInv == IInv /\ (ResolveBase \/ ResolveHead) => IInv'
<1> SUFFICES ASSUME IInv, ResolveBase \/ ResolveHead PROVE IInv'
  OBVIOUS
<1>1. /\ pc \in Refs /\ UNCHANGED <<world, policy, history, verdict>>
      /\ pc' \in {"failed", "head", "mergeBase"}
  BY DEF ResolveBase, ResolveHead, Resolve, World, Throw, Go
<1>2. world.mode = "git" /\ verdict = Null
  BY <1>1 DEF IInv, PlaceOk, VerdictOk
<1> QED
  BY <1>1, <1>2 DEF IInv, HistoryOk, PlaceOk, RawOk, VerdictOk

LEMMA GhViewIInv == IInv /\ GhView => IInv'
<1> SUFFICES ASSUME IInv, GhView PROVE IInv'
  OBVIOUS
<1>1. /\ pc \in Views /\ UNCHANGED <<world, policy, history, verdict>>
      /\ pc' \in {"failed", "viewAgain"} \/ (pc' = "observe" /\ raw' = Last(history))
  BY DEF GhView, World, Throw, Go
<1>2. CASE pc' = "observe"
  <2>1. raw' = history[Len(history)] /\ Len(history) \in 1..Len(history)
    BY <1>1, <1>2 DEF Last, IInv, HistoryOk
  <2>2. Was(Len(history))'
    BY <1>1, <2>1 DEF Was
  <2> QED
    BY <1>1, <1>2, <2>2 DEF IInv, HistoryOk, PlaceOk, RawOk, VerdictOk
<1>3. CASE pc' \in {"failed", "viewAgain"}
  BY <1>1, <1>3 DEF IInv, HistoryOk, PlaceOk, RawOk, VerdictOk
<1> QED
  BY <1>1, <1>2, <1>3

LEMMA ObserveIInv == IInv /\ Observe => IInv'
<1> SUFFICES ASSUME IInv, Observe PROVE IInv'
  OBVIOUS
<1>1. /\ pc = "observe" /\ UNCHANGED <<world, policy, history, verdict, raw>>
      /\ pc' = "failed" \/ (pc' = "verifyHead" /\ observedAt' = Len(history))
  BY DEF Observe, World, Throw, Go, run
<1>2. CASE pc' = "verifyHead"
  <2>1. Was(Len(history)) /\ Len(history) \in 1..Len(history)
    BY <1>1 DEF IInv, RawOk, HistoryOk
  <2>2. observedAt' \in 1..Len(history') /\ Was(observedAt)'
    BY <1>1, <1>2, <2>1 DEF Was
  <2> QED
    BY <1>1, <1>2, <2>2 DEF IInv, HistoryOk, PlaceOk, RawOk, VerdictOk
<1> QED
  BY <1>1, <1>2, Throws

LEMMA VerifyIInv == IInv /\ (VerifyHead \/ VerifyBase) => IInv'
<1> SUFFICES ASSUME IInv, VerifyHead \/ VerifyBase PROVE IInv'
  OBVIOUS
<1>1. CASE VerifyHead
  BY <1>1, Calls DEF VerifyHead
<1>2. CASE VerifyBase
  <2>1. /\ pc = "verifyBase" /\ UNCHANGED <<world, policy, history, verdict, raw, observedAt>>
        /\ pc' = "failed" \/ (pc' = "mergeBase" /\ base' = raw.base /\ head' = raw.head)
    BY <1>2 DEF VerifyBase, World, Throw, Go, run
  <2>2. CASE pc' = "mergeBase"
    BY <2>1, <2>2 DEF IInv, HistoryOk, PlaceOk, RawOk, Was, VerdictOk
  <2> QED
    BY <2>1, <2>2, Throws
<1> QED
  BY <1>1, <1>2

LEMMA ReadingIInv ==
    IInv /\ (MergeBase \/ IsShallow \/ DiffRaw \/ MarkLarge \/ LoadManifests \/ SelectApi \/ DiffPatch \/ PatchesRead)
       => IInv'
<1> SUFFICES ASSUME IInv, MergeBase \/ IsShallow \/ DiffRaw \/ MarkLarge \/ LoadManifests \/ SelectApi
                             \/ DiffPatch \/ PatchesRead
             PROVE  IInv'
  OBVIOUS
<1> DEFINE Reads == /\ pc \in Anchored \ {"done"}
                    /\ UNCHANGED <<world, policy, history, verdict, raw, observedAt, base, head>>
                    /\ pc' \in Anchored \cup {"failed"}
<1>1. CASE MergeBase \/ IsShallow
  BY <1>1, Calls DEF MergeBase, IsShallow
<1>2. ASSUME DiffRaw PROVE Reads
  BY <1>2 DEF DiffRaw, World, Throw, Go, run
<1>3. ASSUME MarkLarge PROVE Reads
  BY <1>3 DEF MarkLarge, World, Throw, Go, run
<1>4. ASSUME LoadManifests PROVE Reads
  BY <1>4 DEF LoadManifests, World, Throw, Go, run
<1>5. ASSUME SelectApi PROVE Reads
  BY <1>5 DEF SelectApi, World, Go, run
<1>6. ASSUME DiffPatch PROVE Reads
  BY <1>6 DEF DiffPatch, World, Throw, Go, run
<1>7. ASSUME PatchesRead PROVE Reads
  BY <1>7 DEF PatchesRead, World, Go, run
<1> QED
  BY <1>1, <1>2, <1>3, <1>4, <1>5, <1>6, <1>7, Stays

LEMMA DecideIInv == IInv /\ DecideCollected => IInv'
<1> SUFFICES ASSUME IInv, DecideCollected PROVE IInv'
  OBVIOUS
<1>1. /\ pc = "decide" /\ pc' = "done" /\ UNCHANGED <<world, policy, history, run>>
      /\ verdict' = Decide(Evidence, policy)
  BY DEF DecideCollected, World
<1>2. Decide(Evidence, policy)' = Decide(Evidence, policy)
  <2>1. Evidence' = Evidence
    BY <1>1 DEF Evidence, MergeBaseCommit, run
  <2> QED
    BY <1>1, <2>1
<1>3. VerdictOk'
  BY <1>1, <1>2 DEF VerdictOk
<1>4. HistoryOk' /\ PlaceOk' /\ RawOk'
  BY <1>1 DEF IInv, HistoryOk, PlaceOk, RawOk, Was, run
<1> QED
  BY <1>3, <1>4 DEF IInv

(* The pull request moves: its past stays, so what was true of it stays.        *)
LEMMA PrMovesIInv == IInv /\ PrMoves => IInv'
<1> SUFFICES ASSUME IInv, PrMoves PROVE IInv'
  OBVIOUS
<1>1. PICK pr \in PrStates : history' = Append(history, pr)
  BY DEF PrMoves
<1>2. UNCHANGED <<world, policy, pc, run, verdict>>
  BY DEF PrMoves
<1>3. /\ HistoryOk' /\ Len(history) \in Nat /\ Len(history') = Len(history) + 1
      /\ \A i \in 1..Len(history) : history'[i] = history[i]
  BY <1>1 DEF IInv, HistoryOk
<1>4. ASSUME NEW n \in 1..Len(history), Was(n) PROVE Was(n)' /\ n \in 1..Len(history')
  BY <1>2, <1>3, <1>4 DEF Was, run
<1>5. PlaceOk'
  BY <1>2 DEF IInv, PlaceOk
<1>6. RawOk'
  <2>1. CASE pc = "observe"
    <3>1. PICK i \in 1..Len(history) : raw = history[i]
      BY <2>1 DEF IInv, RawOk, Was
    <3>2. raw' = history'[i] /\ i \in 1..Len(history')
      BY <1>2, <1>3, <3>1 DEF run
    <3>3. Was(Len(history))'
      BY <3>2 DEF Was
    <3> QED
      BY <1>2, <2>1, <3>3 DEF RawOk
  <2>2. CASE pc # "observe"
    <3>1. ASSUME pc \in Dated \/ (pc \in Anchored /\ world.mode # "git")
          PROVE  observedAt' \in 1..Len(history') /\ Was(observedAt)'
      <4>1. observedAt \in 1..Len(history) /\ Was(observedAt)
        BY <3>1 DEF IInv, RawOk
      <4> QED
        BY <1>2, <1>4, <4>1 DEF run, Was
    <3> QED
      BY <1>2, <2>2, <3>1 DEF IInv, RawOk, run
  <2> QED
    BY <2>1, <2>2
<1>7. VerdictOk'
  <2>1. Evidence' = Evidence
    BY <1>2 DEF Evidence, MergeBaseCommit, run
  <2>2. Decide(Evidence, policy)' = Decide(Evidence, policy)
    BY <1>2, <2>1
  <2> QED
    BY <1>2, <2>2 DEF IInv, VerdictOk
<1> QED
  BY <1>3, <1>5, <1>6, <1>7 DEF IInv

LEMMA StutterIInv == IInv /\ UNCHANGED vars => IInv'
<1> SUFFICES ASSUME IInv, UNCHANGED vars PROVE IInv'
  OBVIOUS
<1>1. Decide(Evidence, policy)' = Decide(Evidence, policy)
  <2>1. Evidence' = Evidence
    BY DEF Evidence, MergeBaseCommit, vars, run
  <2> QED
    BY <2>1 DEF vars
<1>2. VerdictOk'
  BY <1>1 DEF IInv, VerdictOk, vars
<1> QED
  BY <1>2 DEF IInv, HistoryOk, PlaceOk, RawOk, Was, vars, run

LEMMA NextIInv == IInv /\ [Next]_vars => IInv'
BY EarlyIInv, ReadRemoteIInv, ResolveIInv, GhViewIInv, ObserveIInv, VerifyIInv, ReadingIInv, DecideIInv,
   PrMovesIInv, StutterIInv DEF Next, Collect

(* What a verdict is decided from is fixed while the check runs.                *)
THEOREM Invariance == Spec => []IInv
BY InitIInv, NextIInv, PTL DEF Spec
--------------------------------------------------------------------------------
(* The signals, the commit and the timing of a verdict on a pull request belong *)
(* to one state it had before it was dated, however it moved meanwhile.         *)
THEOREM OneState == Spec => []SignalsOfOneState
<1>1. IInv => SignalsOfOneState
  <2> SUFFICES ASSUME IInv, verdict # Null, world.mode = "pr"
               PROVE  \E i \in 1..observedAt :
                          /\ raw = history[i] /\ verdict.base = history[i].base /\ verdict.head = history[i].head
                          /\ verdict.timing = "retroactive" <=> history[i].state \in {"MERGED", "CLOSED"}
    BY DEF SignalsOfOneState
  <2>1. /\ pc = "done" /\ verdict = Decide(Evidence, policy)
        /\ observedAt \in 1..Len(history) /\ Was(observedAt)
        /\ base = raw.base /\ head = raw.head
    BY DEF IInv, VerdictOk, RawOk
  <2>2. PICK i \in 1..observedAt : raw = history[i]
    BY <2>1 DEF Was
  <2>3. raw \in PrStates
    BY <2>1, <2>2 DEF IInv, HistoryOk
  <2>4. verdict.base = base /\ verdict.head = head /\ verdict.timing = TimingOf(Evidence)
    BY <2>1 DEF Decide, Evidence
  <2>5. TimingOf(Evidence) = IF raw.state \in {"MERGED", "CLOSED"} THEN "retroactive" ELSE "open"
    BY <2>3, NullAssumption DEF TimingOf, Evidence
  <2> QED
    BY <2>1, <2>2, <2>4, <2>5
<1> QED
  BY <1>1, Invariance, PTL

(* A check that answers "would merge" lost no call and no rename, and every     *)
(* signal of the open pull request was a known pass.                            *)
NothingWasLost ==
    verdict # Null /\ verdict.wouldMerge =>
        /\ failures = {} /\ ~renameSkipped /\ files # <<>>
        /\ \A m \in manifests : m.unverifiable => ExcludedDepPath(m.path, policy.exclude)
        /\ raw # Null /\ raw.state \notin {"MERGED", "CLOSED"} =>
              /\ ~raw.draft /\ raw.mergeable = "MERGEABLE" /\ raw.review \in {"APPROVED", "", Null}
              /\ raw.rollup # Null /\ \A c \in raw.rollup : ClassifyCheck(c) \in {"success", "neutral"}
THEOREM WouldMergeLostNothing == Spec => []NothingWasLost
<1>1. IInv => NothingWasLost
  <2> SUFFICES ASSUME IInv, verdict # Null, verdict.wouldMerge
               PROVE  /\ failures = {} /\ ~renameSkipped /\ files # <<>>
                      /\ \A m \in manifests : m.unverifiable => ExcludedDepPath(m.path, policy.exclude)
                      /\ raw # Null /\ raw.state \notin {"MERGED", "CLOSED"} =>
                            /\ ~raw.draft /\ raw.mergeable = "MERGEABLE" /\ raw.review \in {"APPROVED", "", Null}
                            /\ raw.rollup # Null /\ \A c \in raw.rollup : ClassifyCheck(c) \in {"success", "neutral"}
    BY DEF NothingWasLost
  <2>1. Decide(Evidence, policy).wouldMerge
    BY DEF IInv, VerdictOk
  <2>2. /\ failures = {} /\ ~renameSkipped /\ ToSet(files) # {}
        /\ \A m \in CountedManifests(Evidence, policy.exclude) : ~m.unverifiable
        /\ TimingOf(Evidence) = "open" =>
              /\ ~raw.draft /\ raw.mergeable \in PrSignals.mergeable_pass
              /\ raw.review \in PrSignals.review_pass /\ raw.rollup # Null
              /\ \A c \in raw.rollup : ClassifyCheck(c) \in {"success", "neutral"}
    BY <2>1, FailsClosed DEF Evidence
  <2>3. files # <<>>
    BY <2>2 DEF ToSet
  <2>4. ASSUME NEW m \in manifests, m.unverifiable PROVE ExcludedDepPath(m.path, policy.exclude)
    BY <2>2, <2>4 DEF CountedManifests, Evidence
  <2>5. ASSUME raw # Null, raw.state \notin {"MERGED", "CLOSED"} PROVE TimingOf(Evidence) = "open"
    BY <2>5 DEF TimingOf, Evidence
  <2> QED
    BY <2>2, <2>3, <2>4, <2>5 DEF PrSignals
<1> QED
  BY <1>1, Invariance, PTL

(* Induction over a number, as a search for the least counterexample.           *)
LessThan == OpToRel(<, Nat)

LEMMA LeastExists ==
    ASSUME NEW S \in SUBSET Nat, S # {}
    PROVE  \E x \in S : \A y \in S : x <= y
<1>1. IsWellFoundedOn(LessThan, Nat)
  BY NatLessThanWellFounded DEF LessThan
<1>2. PICK x \in S : \A y \in S : ~(<<y, x>> \in LessThan)
  BY <1>1, WFMin, Zenon
<1>3. \A m, n \in Nat : <<m, n>> \in LessThan <=> m < n
  BY DEF LessThan, OpToRel
<1>4. ASSUME NEW y \in S
      PROVE  x <= y
  <2>1. x \in Nat /\ y \in Nat
    OBVIOUS
  <2>2. ~(y < x)
    BY <1>2, <1>3, <2>1
  <2> QED
    BY <2>1, <2>2
<1> QED
  BY <1>4

(* A nonempty set of numbers none of which is least is no set of numbers.       *)
LEMMA NoneIsBad ==
    ASSUME NEW bad \in SUBSET Nat,
           \A n \in bad : n # 0 /\ n - 1 \in bad
    PROVE  bad = {}
<1> SUFFICES ASSUME bad # {}
             PROVE  FALSE
  OBVIOUS
<1>1. PICK n \in bad : \A m \in bad : n <= m
  BY LeastExists
<1>2. n \in Nat /\ n - 1 \in bad
  BY <1>1
<1>3. n <= n - 1
  BY <1>1, <1>2
<1> QED
  BY <1>2, <1>3
--------------------------------------------------------------------------------
(* Filtering a sequence.                                                        *)
KeptTo(f, s, S, n) ==
    f = [k \in 0..n |-> IF k = 0 THEN <<>> ELSE IF s[k] \in S THEN Append(f[k - 1], s[k]) ELSE f[k - 1]]

LEMMA KeptExists ==
    ASSUME NEW s, Len(s) \in Nat, NEW S
    PROVE  \E f : KeptTo(f, s, S, Len(s))
<1> DEFINE bad == {n \in Nat : ~\E f : KeptTo(f, s, S, n)}
<1>1. \E f : KeptTo(f, s, S, 0)
  <2> DEFINE f == [k \in 0..0 |-> <<>>]
  <2>1. \A k \in 0..0 : k = 0
    OBVIOUS
  <2>2. f = [k \in 0..0 |-> IF k = 0 THEN <<>> ELSE IF s[k] \in S THEN Append(f[k - 1], s[k]) ELSE f[k - 1]]
    BY <2>1
  <2> QED
    BY <2>2 DEF KeptTo
<1>2. ASSUME NEW n \in Nat, n # 0, NEW g, KeptTo(g, s, S, n - 1)
      PROVE  \E f : KeptTo(f, s, S, n)
  <2> DEFINE last == IF s[n] \in S THEN Append(g[n - 1], s[n]) ELSE g[n - 1]
             f == [k \in 0..n |-> IF k = n THEN last ELSE g[k]]
  <2>1. ASSUME NEW k \in 0..n
        PROVE  f[k] = IF k = 0 THEN <<>> ELSE IF s[k] \in S THEN Append(f[k - 1], s[k]) ELSE f[k - 1]
    <3>1. CASE k = n
      <4>1. f[k - 1] = g[n - 1] /\ f[k] = last /\ k # 0
        BY <1>2, <3>1
      <4> QED
        BY <3>1, <4>1
    <3>2. CASE k # n
      <4>1. k \in 0..(n - 1) /\ f[k] = g[k] /\ (k # 0 => f[k - 1] = g[k - 1])
        BY <3>2
      <4> HIDE DEF f
      <4>2. g[k] = IF k = 0 THEN <<>> ELSE IF s[k] \in S THEN Append(g[k - 1], s[k]) ELSE g[k - 1]
        BY <1>2, <4>1 DEF KeptTo
      <4> QED
        BY <4>1, <4>2
    <3> QED
      BY <3>1, <3>2
  <2>2. f = [k \in 0..n |-> f[k]]
    OBVIOUS
  <2> HIDE DEF f
  <2>3. KeptTo(f, s, S, n)
    BY <2>1, <2>2 DEF KeptTo
  <2> QED
    BY <2>3
<1>3. \A n \in bad : n # 0 /\ n - 1 \in bad
  <2> SUFFICES ASSUME NEW n \in bad
               PROVE  n # 0 /\ n - 1 \in bad
    OBVIOUS
  <2>1. n \in Nat /\ n # 0
    BY <1>1
  <2>2. ~\E f : KeptTo(f, s, S, n - 1)
    BY <1>2, <2>1
  <2> QED
    BY <2>1, <2>2
<1> HIDE DEF bad
<1>4. bad = {}
  <2>1. bad \in SUBSET Nat
    BY DEF bad
  <2> QED
    BY <1>3, <2>1, NoneIsBad
<1> QED
  BY <1>4 DEF bad

(* Only keeps the members of s in S, and nothing else.                          *)
LEMMA OnlyFacts ==
    ASSUME NEW s, s \in Seq(ToSet(s)), NEW S
    PROVE  /\ Only(s, S) \in Seq(ToSet(s) \cap S)
           /\ ToSet(Only(s, S)) = ToSet(s) \cap S
<1> DEFINE f == CHOOSE g : KeptTo(g, s, S, Len(s))
           fine(n) == /\ f[n] \in Seq(ToSet(s) \cap S)
                      /\ \A k \in 1..n : s[k] \in S => \E i \in DOMAIN f[n] : f[n][i] = s[k]
           bad == {n \in Nat : n <= Len(s) /\ ~fine(n)}
<1>1. Len(s) \in Nat /\ DOMAIN s = 1..Len(s) /\ \A k \in 1..Len(s) : s[k] \in ToSet(s)
  BY DEF ToSet
<1>2. KeptTo(f, s, S, Len(s))
  BY <1>1, KeptExists
<1>3. Only(s, S) = f[Len(s)]
  BY DEF Only, KeptTo
<1> HIDE DEF f
<1>4. fine(0)
  BY <1>1, <1>2 DEF KeptTo
<1>5. ASSUME NEW n \in Nat, n # 0, n <= Len(s), fine(n - 1)
      PROVE  fine(n)
  <2>1. f[n] = IF s[n] \in S THEN Append(f[n - 1], s[n]) ELSE f[n - 1]
    <3>1. n \in 0..Len(s)
      BY <1>1, <1>5
    <3>2. f[n] = IF n = 0 THEN <<>> ELSE IF s[n] \in S THEN Append(f[n - 1], s[n]) ELSE f[n - 1]
      BY <1>2, <3>1 DEF KeptTo
    <3> QED
      BY <1>5, <3>2
  <2>2. f[n - 1] \in Seq(ToSet(s) \cap S)
    BY <1>5
  <2>3. s[n] \in ToSet(s)
    BY <1>1, <1>5
  <2>4. CASE s[n] \in S
    <3>1. f[n] = Append(f[n - 1], s[n])
      BY <2>1, <2>4
    <3>2. f[n] \in Seq(ToSet(s) \cap S)
      BY <2>2, <2>3, <2>4, <3>1
    <3>3. /\ DOMAIN f[n] = 1..(Len(f[n - 1]) + 1) /\ DOMAIN f[n - 1] = 1..Len(f[n - 1])
          /\ Len(f[n - 1]) \in Nat
          /\ f[n][Len(f[n - 1]) + 1] = s[n]
          /\ \A i \in DOMAIN f[n - 1] : f[n][i] = f[n - 1][i]
      BY <2>2, <3>1
    <3>4. ASSUME NEW k \in 1..n, s[k] \in S
          PROVE  \E i \in DOMAIN f[n] : f[n][i] = s[k]
      <4>1. CASE k = n
        BY <3>3, <4>1
      <4>2. CASE k # n
        <5>1. k \in 1..(n - 1)
          BY <4>2
        <5>2. PICK i \in DOMAIN f[n - 1] : f[n - 1][i] = s[k]
          BY <1>5, <3>4, <5>1
        <5>3. i \in DOMAIN f[n] /\ f[n][i] = s[k]
          BY <3>3, <5>2
        <5> QED
          BY <5>3
      <4> QED
        BY <4>1, <4>2
    <3> QED
      BY <3>2, <3>4
  <2>5. CASE s[n] \notin S
    <3>1. f[n] = f[n - 1]
      BY <2>1, <2>5
    <3>2. \A k \in 1..n : s[k] \in S => k \in 1..(n - 1)
      BY <2>5
    <3> QED
      BY <1>5, <3>1, <3>2
  <2> QED
    BY <2>4, <2>5
<1>6. \A n \in bad : n # 0 /\ n - 1 \in bad
  <2> SUFFICES ASSUME NEW n \in bad
               PROVE  n # 0 /\ n - 1 \in bad
    OBVIOUS
  <2>1. n \in Nat /\ n <= Len(s) /\ ~fine(n)
    OBVIOUS
  <2> HIDE DEF fine
  <2>2. n # 0
    BY <1>4, <2>1
  <2>3. n - 1 \in Nat /\ n - 1 <= Len(s) /\ ~fine(n - 1)
    BY <1>1, <1>5, <2>1, <2>2
  <2> QED
    BY <2>2, <2>3
<1>7. fine(Len(s))
  <2> HIDE DEF fine
  <2>1. bad = {}
    <3> HIDE DEF bad
    <3>1. bad \in SUBSET Nat
      BY DEF bad
    <3> QED
      BY <1>6, <3>1, NoneIsBad
  <2> QED
    BY <1>1, <2>1
<1>8. Only(s, S) \in Seq(ToSet(s) \cap S)
  BY <1>3, <1>7
<1>9. ToSet(s) \cap S \subseteq ToSet(Only(s, S))
  <2> SUFFICES ASSUME NEW x \in ToSet(s), x \in S
               PROVE  x \in ToSet(Only(s, S))
    OBVIOUS
  <2>1. PICK k \in 1..Len(s) : x = s[k]
    BY <1>1 DEF ToSet
  <2>2. \E i \in DOMAIN f[Len(s)] : f[Len(s)][i] = x
    BY <1>7, <2>1
  <2> QED
    BY <1>3, <2>2 DEF ToSet
<1>10. ToSet(Only(s, S)) \subseteq ToSet(s) \cap S
  BY <1>8 DEF ToSet
<1> QED
  BY <1>8, <1>9, <1>10
--------------------------------------------------------------------------------
(* Sums over a finite set: they exist, are numbers, and do not depend on the    *)
(* order, so a bijection that keeps the summands keeps the sum.                 *)
Pick(s) == CHOOSE x \in s : TRUE
SumTo(f, g, S) == f = [s \in SUBSET S |-> IF s = {} THEN 0 ELSE g[Pick(s)] + f[s \ {Pick(s)}]]
UpTo(S, n) == {s \in SUBSET S : Cardinality(s) <= n}
PartTo(f, g, S, n) == f = [s \in UpTo(S, n) |-> IF s = {} THEN 0 ELSE g[Pick(s)] + f[s \ {Pick(s)}]]

Adds(f, g, S) == \A s \in SUBSET S : f[s] \in Int /\ \A x \in s : f[s] = g[x] + f[s \ {x}]

LEMMA PickFacts ==
    ASSUME NEW S, IsFiniteSet(S), NEW s \in SUBSET S, NEW x \in s
    PROVE  /\ Pick(s) \in s
           /\ IsFiniteSet(s) /\ Cardinality(s) \in Nat \ {0}
           /\ s \ {x} \in SUBSET S /\ Cardinality(s \ {x}) = Cardinality(s) - 1
<1>1. Pick(s) \in s
  BY DEF Pick
<1>2. IsFiniteSet(s)
  BY FS_Subset
<1>3. Cardinality(s) \in Nat /\ Cardinality(s) # 0
  BY <1>2, FS_EmptySet, FS_CardinalityType
<1>4. Cardinality(s \ {x}) = Cardinality(s) - 1
  BY <1>2, FS_RemoveElement
<1> QED
  BY <1>1, <1>2, <1>3, <1>4

LEMMA PartExists ==
    ASSUME NEW g, NEW S, IsFiniteSet(S), NEW n \in Nat
    PROVE  \E f : PartTo(f, g, S, n)
<1> DEFINE bad == {m \in Nat : ~\E f : PartTo(f, g, S, m)}
<1>1. \E f : PartTo(f, g, S, 0)
  <2> DEFINE f == [s \in UpTo(S, 0) |-> 0]
  <2>1. ASSUME NEW s \in UpTo(S, 0)
        PROVE  s = {}
    <3>1. IsFiniteSet(s) /\ Cardinality(s) \in Nat /\ Cardinality(s) <= 0
      BY FS_Subset, FS_CardinalityType DEF UpTo
    <3> QED
      BY <3>1, FS_EmptySet
  <2>2. f = [s \in UpTo(S, 0) |-> IF s = {} THEN 0 ELSE g[Pick(s)] + f[s \ {Pick(s)}]]
    BY <2>1
  <2> QED
    BY <2>2 DEF PartTo
<1>2. ASSUME NEW m \in Nat, m # 0, NEW e, PartTo(e, g, S, m - 1)
      PROVE  \E f : PartTo(f, g, S, m)
  <2> DEFINE f == [s \in UpTo(S, m) |-> IF Cardinality(s) = m THEN g[Pick(s)] + e[s \ {Pick(s)}] ELSE e[s]]
  <2>1. ASSUME NEW s \in UpTo(S, m)
        PROVE  f[s] = IF s = {} THEN 0 ELSE g[Pick(s)] + f[s \ {Pick(s)}]
    <3>1. s \in SUBSET S /\ IsFiniteSet(s) /\ Cardinality(s) \in Nat /\ Cardinality(s) <= m
      BY FS_Subset, FS_CardinalityType DEF UpTo
    <3>2. CASE s = {}
      <4>1. Cardinality(s) = 0
        BY <3>2, FS_EmptySet
      <4>2. s \in UpTo(S, m - 1)
        BY <1>2, <3>1, <4>1 DEF UpTo
      <4>3. e[s] = 0
        BY <1>2, <3>2, <4>2 DEF PartTo
      <4> QED
        BY <1>2, <3>2, <4>1, <4>3
    <3>3. CASE s # {}
      <4>1. /\ Pick(s) \in s /\ s \ {Pick(s)} \in SUBSET S
            /\ Cardinality(s \ {Pick(s)}) = Cardinality(s) - 1
        BY <3>1, <3>3, PickFacts
      <4>2. Cardinality(s \ {Pick(s)}) <= m - 1 /\ Cardinality(s \ {Pick(s)}) # m
        BY <1>2, <3>1, <4>1
      <4>3. s \ {Pick(s)} \in UpTo(S, m - 1) /\ s \ {Pick(s)} \in UpTo(S, m)
        BY <1>2, <3>1, <4>1, <4>2 DEF UpTo
      <4>4. f[s \ {Pick(s)}] = e[s \ {Pick(s)}]
        BY <4>2, <4>3
      <4>5. CASE Cardinality(s) = m
        BY <3>3, <4>4, <4>5
      <4>6. CASE Cardinality(s) # m
        <5>1. s \in UpTo(S, m - 1)
          BY <1>2, <3>1, <4>6 DEF UpTo
        <5>2. e[s] = g[Pick(s)] + e[s \ {Pick(s)}]
          BY <1>2, <3>3, <5>1 DEF PartTo
        <5>3. f[s] = e[s]
          BY <4>6
        <5> HIDE DEF f
        <5> QED
          BY <3>3, <4>4, <5>2, <5>3
      <4> QED
        BY <4>5, <4>6
    <3> QED
      BY <3>2, <3>3
  <2>2. f = [s \in UpTo(S, m) |-> f[s]]
    OBVIOUS
  <2> HIDE DEF f
  <2>3. PartTo(f, g, S, m)
    BY <2>1, <2>2 DEF PartTo
  <2> QED
    BY <2>3
<1>3. \A m \in bad : m # 0 /\ m - 1 \in bad
  <2> SUFFICES ASSUME NEW m \in bad
               PROVE  m # 0 /\ m - 1 \in bad
    OBVIOUS
  <2>1. m \in Nat /\ m # 0
    BY <1>1
  <2>2. ~\E f : PartTo(f, g, S, m - 1)
    BY <1>2, <2>1
  <2> QED
    BY <2>1, <2>2
<1>4. bad = {}
  <2>1. bad \in SUBSET Nat
    OBVIOUS
  <2> HIDE DEF bad
  <2> QED
    BY <1>3, <2>1, NoneIsBad
<1> QED
  BY <1>4

LEMMA SumExists ==
    ASSUME NEW g, NEW S, IsFiniteSet(S)
    PROVE  \E f : SumTo(f, g, S)
<1>1. Cardinality(S) \in Nat
  BY FS_CardinalityType
<1>2. UpTo(S, Cardinality(S)) = SUBSET S
  BY FS_Subset DEF UpTo
<1>3. PICK f : PartTo(f, g, S, Cardinality(S))
  BY <1>1, PartExists
<1>4. SumTo(f, g, S)
  BY <1>2, <1>3 DEF PartTo, SumTo
<1> QED
  BY <1>4

(* Any member of a set may be the one that is added last.                       *)
LEMMA SumFacts ==
    ASSUME NEW S, IsFiniteSet(S), NEW g \in [S -> Int], NEW f, SumTo(f, g, S)
    PROVE  Adds(f, g, S)
<1> DEFINE fine(s) == f[s] \in Int /\ \A x \in s : f[s] = g[x] + f[s \ {x}]
           bad == {n \in Nat : \E s \in SUBSET S : Cardinality(s) = n /\ ~fine(s)}
<1>1. f[{}] = 0
  BY DEF SumTo
<1>2. ASSUME NEW s \in SUBSET S, s # {},
             \A t \in SUBSET S : Cardinality(t) < Cardinality(s) => fine(t)
      PROVE  fine(s)
  <2> DEFINE c == Pick(s)
  <2>1. c \in s /\ f[s] = g[c] + f[s \ {c}]
    BY <1>2, PickFacts DEF SumTo
  <2> HIDE DEF c
  <2>2. ASSUME NEW x \in s
        PROVE  /\ s \ {x} \in SUBSET S /\ fine(s \ {x}) /\ g[x] \in Int
               /\ Cardinality(s \ {x}) = Cardinality(s) - 1 /\ Cardinality(s) \in Nat
    <3>1. /\ s \ {x} \in SUBSET S /\ Cardinality(s \ {x}) = Cardinality(s) - 1
          /\ Cardinality(s) \in Nat
      BY PickFacts
    <3>2. Cardinality(s \ {x}) < Cardinality(s)
      BY <3>1
    <3> HIDE DEF fine
    <3> QED
      BY <1>2, <3>1, <3>2
  <2>3. f[s] \in Int
    <3>1. f[s \ {c}] \in Int /\ g[c] \in Int
      BY <2>1, <2>2
    <3> QED
      BY <2>1, <3>1
  <2>4. ASSUME NEW x \in s
        PROVE  f[s] = g[x] + f[s \ {x}]
    <3>1. CASE x = c
      BY <2>1, <3>1
    <3>2. CASE x # c
      <4>1. x \in s \ {c} /\ c \in s \ {x}
        BY <2>1, <3>2
      <4>2. f[s \ {c}] = g[x] + f[(s \ {c}) \ {x}]
        BY <2>1, <2>2, <4>1
      <4>3. f[s \ {x}] = g[c] + f[(s \ {x}) \ {c}]
        BY <2>2, <4>1
      <4>4. (s \ {c}) \ {x} = (s \ {x}) \ {c}
        OBVIOUS
      <4>5. fine((s \ {x}) \ {c})
        <5>1. s \ {x} \in SUBSET S /\ Cardinality(s \ {x}) = Cardinality(s) - 1 /\ Cardinality(s) \in Nat
          BY <2>2
        <5>2. (s \ {x}) \ {c} \in SUBSET S /\ Cardinality((s \ {x}) \ {c}) = Cardinality(s \ {x}) - 1
          BY <4>1, <5>1, PickFacts
        <5>3. Cardinality((s \ {x}) \ {c}) < Cardinality(s)
          BY <5>1, <5>2
        <5> HIDE DEF fine
        <5> QED
          BY <1>2, <5>2, <5>3
      <4>6. PICK r : r = f[(s \ {x}) \ {c}]
        OBVIOUS
      <4>7. r \in Int /\ g[x] \in Int /\ g[c] \in Int
        BY <2>1, <2>2, <4>5, <4>6
      <4>8. f[s] = g[c] + (g[x] + r) /\ f[s \ {x}] = g[c] + r
        BY <2>1, <4>2, <4>3, <4>4, <4>6
      <4> QED
        BY <4>7, <4>8
    <3> QED
      BY <3>1, <3>2
  <2> QED
    BY <2>3, <2>4
<1>3. fine({})
  BY <1>1
<1> HIDE DEF fine
<1>4. bad = {}
  <2> SUFFICES ASSUME bad # {}
               PROVE  FALSE
    OBVIOUS
  <2>1. bad \in SUBSET Nat
    OBVIOUS
  <2>2. PICK n \in bad : \A m \in bad : n <= m
    <3> HIDE DEF bad
    <3> QED
      BY <2>1, LeastExists
  <2>3. PICK s \in SUBSET S : Cardinality(s) = n /\ ~fine(s)
    BY <2>2
  <2>4. ASSUME NEW t \in SUBSET S, Cardinality(t) < Cardinality(s), ~fine(t)
        PROVE  FALSE
    <3>1. Cardinality(t) \in Nat /\ n \in Nat
      BY <2>2, FS_Subset, FS_CardinalityType
    <3>2. Cardinality(t) \in bad
      BY <2>4, <3>1
    <3>3. n <= Cardinality(t)
      BY <2>2, <3>2
    <3> QED
      BY <2>3, <2>4, <3>1, <3>3
  <2> QED
    BY <1>2, <1>3, <2>3, <2>4
<1>5. ASSUME NEW s \in SUBSET S
      PROVE  fine(s)
  <2>1. Cardinality(s) \in Nat
    BY FS_Subset, FS_CardinalityType
  <2> QED
    BY <1>4, <2>1
<1> QED
  BY <1>5 DEF fine, Adds

(* A bijection that keeps the summands keeps the sum.                           *)
LEMMA SameSum ==
    ASSUME NEW S, NEW T, IsFiniteSet(S), IsFiniteSet(T),
           NEW g \in [S -> Int], NEW k \in [T -> Int], NEW h \in [S -> T],
           \A x, y \in S : h[x] = h[y] => x = y,
           \A x \in S : g[x] = k[h[x]],
           NEW f, SumTo(f, g, S), NEW e, SumTo(e, k, T)
    PROVE  f[S] = e[{h[x] : x \in S}]
<1> DEFINE image(s) == {h[x] : x \in s}
           bad == {n \in Nat : \E s \in SUBSET S : Cardinality(s) = n /\ f[s] # e[image(s)]}
<1>1. f[{}] = 0 /\ e[{}] = 0
  BY DEF SumTo
<1>2. \A s \in SUBSET S : \A x \in s : f[s] = g[x] + f[s \ {x}]
  <2>1. Adds(f, g, S)
    BY SumFacts
  <2> QED
    BY <2>1 DEF Adds
<1>3. \A t \in SUBSET T : \A y \in t : e[t] = k[y] + e[t \ {y}]
  <2>1. Adds(e, k, T)
    BY SumFacts
  <2> QED
    BY <2>1 DEF Adds
<1>4. bad = {}
  <2> SUFFICES ASSUME bad # {}
               PROVE  FALSE
    OBVIOUS
  <2>1. bad \in SUBSET Nat
    OBVIOUS
  <2>2. PICK n \in bad : \A m \in bad : n <= m
    <3> HIDE DEF bad
    <3> QED
      BY <2>1, LeastExists
  <2>3. PICK s \in SUBSET S : Cardinality(s) = n /\ f[s] # e[image(s)]
    BY <2>2
  <2>4. s # {}
    BY ZenonT(30), <1>1, <2>3
  <2>5. PICK x \in s : TRUE
    BY <2>4
  <2>6. s \ {x} \in SUBSET S /\ Cardinality(s \ {x}) = n - 1 /\ Cardinality(s) \in Nat
    BY <2>3, PickFacts
  <2>7. f[s \ {x}] = e[image(s \ {x})]
    <3>1. n - 1 \notin bad
      <4> HIDE DEF bad
      <4>1. n \in Nat /\ (n - 1 \in bad => n <= n - 1)
        BY <2>1, <2>2
      <4> QED
        BY <4>1
    <3>2. n - 1 \in Nat
      BY <2>6, FS_Subset, FS_CardinalityType
    <3> QED
      BY <2>6, <3>1, <3>2
  <2>8. image(s \ {x}) = image(s) \ {h[x]}
    OBVIOUS
  <2>9. h[x] \in image(s) /\ image(s) \in SUBSET T
    OBVIOUS
  <2> HIDE DEF image
  <2>10. f[s] = g[x] + f[s \ {x}]
    BY <1>2
  <2>11. e[image(s)] = k[h[x]] + e[image(s) \ {h[x]}]
    BY <1>3, <2>9
  <2>12. g[x] = k[h[x]]
    OBVIOUS
  <2> QED
    BY <2>3, <2>7, <2>8, <2>10, <2>11, <2>12
<1>5. Cardinality(S) \in Nat
  BY FS_CardinalityType
<1> QED
  BY <1>4, <1>5
--------------------------------------------------------------------------------
(* What a check has read so far is the change itself, as far as it got: the     *)
(* second invariant, by which a verdict on whole evidence speaks of the diff.   *)
Reading == {"sizes", "manifests", "select", "patch"}
Ended == {"decide", "done"}

(* A file record says what git says of its entry, but for why it is skipped.    *)
Fact(f) ==
    /\ f.git \in Changed /\ f.git.status \in StatusOk
    /\ f.apiSkipped \in {Null} \cup ApiSkips
    /\ f = [FileFact(f.git) EXCEPT !.apiSkipped = f.apiSkipped]
FilesOk ==
    /\ files \in Seq(ToSet(files)) /\ ready \in Seq(ToSet(ready))
    /\ \A f \in ToSet(files) \cup ToSet(ready) : Fact(f)
    /\ \A f \in ToSet(ready) : Scannable(f)
    /\ \A f, g \in ToSet(files) : f.git = g.git => f = g

(* Which files are manifests, and what is read of one.                          *)
IsManifest(f) == f.status # "D" /\ ~f.submodule /\ ManifestKind[f.path] \notin {"lockfile", "other"}
ManifestOf(f) == IF ManifestKind[f.path] # "unsupported" THEN ReadManifest(f) ELSE Unread(f)
ManifestFiles == {FileFact(d) : d \in {e \in Changed : IsManifest(FileFact(e))}}
ManifestsOk == \A m \in manifests : \E f \in ManifestFiles : m \in {ManifestOf(f), Unread(f)}

ApiFact(d) == [path |-> d.path, added |-> d.apiAdded, removed |-> d.apiRemoved]
ApiOk == \A a \in api : \E d \in Changed : Scanned(d) /\ a = ApiFact(d)

Unmet == {"version", "safe", "toplevel", "partial", "failed"}
WorldOk ==
    /\ world \in Worlds /\ policy \in Policies
    /\ pc \in Anchored \cup {"head"} => base \in Commits
    /\ pc \in Anchored => head \in Commits
    /\ pc \notin Unmet => RequireGit(world.partial) = Null
    /\ failures = {} /\ pc \notin Unmet \cup {"attributes"} => world.attributes \notin {"effective", "unreadable"}
StartOk ==
    pc \notin Reading \cup Ended \cup {"failed"} => files = <<>> /\ ready = <<>> /\ api = {} /\ manifests = {}
WholeOk ==
    /\ renameSkipped \in BOOLEAN
    /\ failures = {} /\ pc \in Reading \cup Ended =>
          /\ "raw" \in world.renameSkipped => renameSkipped
          /\ "patch" \in world.renameSkipped /\ api # {} => renameSkipped
          /\ \A d \in Changed : d.status \in StatusOk /\ \E f \in ToSet(files) : f.git = d
    /\ failures = {} /\ pc \in {"select", "patch"} \cup Ended => manifests = {ManifestOf(f) : f \in ManifestFiles}
(* A file whose names can be read waits for its patch or has given them.        *)
Given(f) == f.git.apiAdded \cup f.git.apiRemoved = {} \/ ApiFact(f.git) \in api
ScanOk ==
    failures = {} /\ pc \in {"patch"} \cup Ended =>
        \A f \in ToSet(files) : Scannable(f) => (pc = "patch" /\ f \in ToSet(ready)) \/ Given(f)
WholeInv == WorldOk /\ StartOk /\ FilesOk /\ ManifestsOk /\ ApiOk /\ WholeOk /\ ScanOk

USE DEF Reading, Ended, Unmet

LEMMA NoMembers == ASSUME NEW s, DOMAIN s = 1..0 PROVE ToSet(s) = {}
BY DEF ToSet

LEMMA EmptyToSet == ToSet(<<>>) = {}
<1>1. DOMAIN <<>> = 1..0
  OBVIOUS
<1> QED
  BY <1>1, NoMembers

LEMMA NothingRead ==
    ASSUME files = <<>>, ready = <<>>, api = {}, manifests = {}
    PROVE  FilesOk /\ ManifestsOk /\ ApiOk
<1>1. ToSet(files) = {} /\ ToSet(ready) = {}
  BY EmptyToSet
<1>2. files \in Seq(ToSet(files)) /\ ready \in Seq(ToSet(ready))
  OBVIOUS
<1> QED
  BY <1>1, <1>2 DEF FilesOk, ManifestsOk, ApiOk

LEMMA InitWhole == Init => WholeInv
<1> SUFFICES ASSUME Init PROVE WholeInv
  OBVIOUS
<1>1. WorldOk /\ StartOk /\ WholeOk /\ ScanOk
  BY DEF Init, WorldOk, StartOk, WholeOk, ScanOk
<1>2. FilesOk /\ ManifestsOk /\ ApiOk
  BY NothingRead DEF Init
<1> QED
  BY <1>1, <1>2 DEF WholeInv

(* Before the diff is read nothing is collected; a failed check keeps what it   *)
(* has.                                                                         *)
LEMMA NotYetReading ==
    ASSUME WholeInv, pc \notin Reading \cup Ended \cup {"failed"}, pc' \notin Reading \cup Ended,
           UNCHANGED <<files, ready, api, manifests, renameSkipped>>, WorldOk'
    PROVE  WholeInv'
<1>1. files' = <<>> /\ ready' = <<>> /\ api' = {} /\ manifests' = {}
  BY DEF WholeInv, StartOk
<1>2. FilesOk' /\ ManifestsOk' /\ ApiOk'
  <2>1. ToSet(files)' = {} /\ ToSet(ready)' = {}
    BY <1>1, EmptyToSet
  <2>2. files' \in Seq(ToSet(files)') /\ ready' \in Seq(ToSet(ready)')
    BY <1>1
  <2> QED
    BY <1>1, <2>1, <2>2 DEF FilesOk, ManifestsOk, ApiOk
<1>3. StartOk'
  BY <1>1 DEF StartOk
<1>4. WholeOk' /\ ScanOk'
  BY DEF WholeInv, WholeOk, ScanOk
<1> QED
  BY <1>2, <1>4, <1>3 DEF WholeInv

LEMMA SameChange ==
    ASSUME UNCHANGED <<base, head>>
    PROVE  /\ Changed' = Changed /\ ManifestFiles' = ManifestFiles /\ \A f : Fact(f)' <=> Fact(f)
BY DEF Changed, GitDiff, MergeBaseCommit, ManifestFiles, Fact

LEMMA KeepsFiles ==
    ASSUME FilesOk, UNCHANGED <<base, head, files, ready>>
    PROVE  FilesOk'
BY SameChange DEF FilesOk

LEMMA KeepsManifests ==
    ASSUME ManifestsOk, UNCHANGED <<base, head, manifests>>
    PROVE  ManifestsOk'
BY SameChange DEF ManifestsOk

LEMMA KeepsApi ==
    ASSUME ApiOk, UNCHANGED <<base, head, api>>
    PROVE  ApiOk'
BY SameChange DEF ApiOk

LEMMA FailedWhole ==
    ASSUME WholeInv, pc' = "failed", UNCHANGED <<world, policy, run>>
    PROVE  WholeInv'
<1>1. FilesOk' /\ ManifestsOk' /\ ApiOk'
  BY KeepsFiles, KeepsManifests, KeepsApi DEF WholeInv, run
<1>2. WorldOk' /\ StartOk' /\ WholeOk' /\ ScanOk'
  BY DEF WholeInv, WorldOk, StartOk, WholeOk, ScanOk, run
<1> QED
  BY <1>1, <1>2 DEF WholeInv

(* What is known of the checkout stays known while failures are only added.     *)
LEMMA WorldStays ==
    ASSUME WorldOk, UNCHANGED <<world, policy>>, failures \subseteq failures',
           pc' \in Anchored \cup {"head"} => base' \in Commits, pc' \in Anchored => head' \in Commits,
           pc \notin Unmet \cup {"attributes"}
    PROVE  WorldOk'
BY DEF WorldOk, RequireGit

LEMMA CallWhole ==
    ASSUME WholeInv, NEW at, NEW next, NEW wrong, Call(at, next, wrong),
           at \notin Reading \cup Ended \cup {"failed"}, next \notin Reading \cup Ended,
           pc' = next => WorldOk'
    PROVE  WholeInv'
<1>1. pc = at /\ UNCHANGED <<world, policy, run>> /\ pc' \in {"failed", next}
  BY DEF Call, World, Throw, Go, run
<1>2. CASE pc' = "failed"
  BY <1>1, <1>2, FailedWhole
<1>3. CASE pc' = next
  BY <1>1, <1>3, NotYetReading DEF run
<1> QED
  BY <1>1, <1>2, <1>3

LEMMA EarlyWhole ==
    WholeInv /\ (ReadVersion \/ ReadSafeDirectories \/ ReadToplevel \/ ReadPartial \/ InfoAttributes) => WholeInv'
<1> SUFFICES ASSUME WholeInv, ReadVersion \/ ReadSafeDirectories \/ ReadToplevel \/ ReadPartial \/ InfoAttributes
             PROVE  WholeInv'
  OBVIOUS
<1>1. ASSUME pc' \in {"safe", "toplevel", "partial"}, UNCHANGED <<world, policy>> PROVE WorldOk'
  BY <1>1 DEF WholeInv, WorldOk
<1>2. CASE ReadVersion
  <2>1. UNCHANGED <<world, policy>>
    BY <1>2 DEF ReadVersion, Call, World
  <2> QED
    BY <1>1, <1>2, <2>1, CallWhole DEF ReadVersion
<1>3. CASE ReadSafeDirectories
  <2>1. UNCHANGED <<world, policy>>
    BY <1>3 DEF ReadSafeDirectories, Call, World
  <2> QED
    BY <1>1, <1>3, <2>1, CallWhole DEF ReadSafeDirectories
<1>4. CASE ReadToplevel
  <2>1. UNCHANGED <<world, policy>>
    BY <1>4 DEF ReadToplevel, Call, World
  <2> QED
    BY <1>1, <1>4, <2>1, CallWhole DEF ReadToplevel
<1>5. CASE ReadPartial
  <2>1. UNCHANGED <<world, policy>> /\ (pc' = "attributes" => RequireGit(world.partial) = Null)
    BY <1>5 DEF ReadPartial, Call, World, Throw, Go
  <2>2. pc' = "attributes" => WorldOk'
    BY <2>1 DEF WholeInv, WorldOk, RequireGit
  <2> QED
    BY <1>5, <2>2, CallWhole DEF ReadPartial
<1>6. CASE InfoAttributes
  <2>1. /\ pc = "attributes" /\ UNCHANGED <<world, policy, base, head, files, ready, api, manifests, renameSkipped>>
        /\ \/ pc' = "failed" /\ UNCHANGED run
           \/ /\ pc' = "remote" /\ failures \subseteq failures'
              /\ world.attributes \in {"effective", "unreadable"} => failures' # {}
    BY <1>6 DEF InfoAttributes, World, Throw, Go, run, Record
  <2>2. CASE pc' = "remote"
    <3>1. WorldOk'
      BY <2>1, <2>2 DEF WholeInv, WorldOk, RequireGit
    <3> QED
      BY <2>1, <2>2, <3>1, NotYetReading
  <2> QED
    BY <2>1, <2>2, FailedWhole
<1> QED
  BY <1>2, <1>3, <1>4, <1>5, <1>6

LEMMA RemoteWhole == WholeInv /\ ReadRemote => WholeInv'
<1> SUFFICES ASSUME WholeInv, ReadRemote PROVE WholeInv'
  OBVIOUS
<1>1. pc = "remote" /\ UNCHANGED <<world, policy, run>> /\ pc' \in {"failed", "base", "view"}
  BY DEF ReadRemote, World, Go, run
<1>2. CASE pc' # "failed"
  <2>1. WorldOk'
    BY <1>1, <1>2, WorldStays DEF WholeInv, run
  <2> QED
    BY <1>1, <1>2, <2>1, NotYetReading DEF run
<1> QED
  BY <1>1, <1>2, FailedWhole

LEMMA ResolveWhole == WholeInv /\ (ResolveBase \/ ResolveHead) => WholeInv'
<1> SUFFICES ASSUME WholeInv, ResolveBase \/ ResolveHead PROVE WholeInv'
  OBVIOUS
<1>1. /\ pc \in {"base", "head"} /\ UNCHANGED <<world, policy>>
      /\ \/ pc' = "failed" /\ UNCHANGED run
         \/ /\ \/ pc' = "head" /\ base' = world.base
               \/ pc = "head" /\ pc' = "mergeBase" /\ head' = world.head /\ UNCHANGED base
            /\ UNCHANGED <<files, manifests, api, ready, renameSkipped, failures>>
  BY DEF ResolveBase, ResolveHead, Resolve, World, Throw, Go, run
<1>2. CASE pc' # "failed"
  <2>1. world.base \in Commits /\ world.head \in Commits
    BY InputsAssumption DEF WholeInv, WorldOk
  <2>2. WorldOk'
    BY <1>1, <1>2, <2>1, WorldStays DEF WholeInv, WorldOk
  <2> QED
    BY <1>1, <1>2, <2>2, NotYetReading
<1> QED
  BY <1>1, <1>2, FailedWhole

LEMMA ViewWhole == WholeInv /\ (GhView \/ Observe) => WholeInv'
<1> SUFFICES ASSUME WholeInv, GhView \/ Observe PROVE WholeInv'
  OBVIOUS
<1>1. /\ pc \in Views \cup {"observe"} /\ UNCHANGED <<world, policy>>
      /\ \/ pc' = "failed" /\ UNCHANGED run
         \/ /\ pc' \in {"viewAgain", "observe", "verifyHead"}
            /\ UNCHANGED <<files, manifests, api, ready, renameSkipped, failures>>
  BY DEF GhView, Observe, World, Throw, Go, run
<1>2. CASE pc' # "failed"
  <2>1. WorldOk'
    BY <1>1, <1>2, WorldStays DEF WholeInv
  <2> QED
    BY <1>1, <1>2, <2>1, NotYetReading
<1> QED
  BY <1>1, <1>2, FailedWhole

LEMMA VerifyWhole == IInv /\ WholeInv /\ (VerifyHead \/ VerifyBase) => WholeInv'
<1> SUFFICES ASSUME IInv, WholeInv, VerifyHead \/ VerifyBase PROVE WholeInv'
  OBVIOUS
<1>1. CASE VerifyHead
  <2>1. UNCHANGED <<world, policy, run>> /\ pc = "verifyHead"
    BY <1>1 DEF VerifyHead, Call, World, Throw, run
  <2>2. pc' = "verifyBase" => WorldOk'
    BY <2>1, WorldStays DEF WholeInv, run
  <2> QED
    BY <1>1, <2>2, CallWhole DEF VerifyHead
<1>2. CASE VerifyBase
  <2>1. /\ pc = "verifyBase" /\ UNCHANGED <<world, policy>>
        /\ \/ pc' = "failed" /\ UNCHANGED run
           \/ /\ pc' = "mergeBase" /\ base' = raw.base /\ head' = raw.head
              /\ UNCHANGED <<files, manifests, api, ready, renameSkipped, failures>>
    BY <1>2 DEF VerifyBase, World, Throw, Go, run
  <2>2. CASE pc' = "mergeBase"
    <3>1. PICK i \in 1..Len(history) : raw = history[i]
      BY <2>1 DEF IInv, RawOk, Was, HistoryOk
    <3>2. raw \in PrStates
      BY <3>1 DEF IInv, HistoryOk
    <3>3. raw.base \in Commits /\ raw.head \in Commits
      BY <3>2, InputsAssumption
    <3>4. WorldOk'
      BY <2>1, <2>2, <3>3, WorldStays DEF WholeInv
    <3> QED
      BY <2>1, <2>2, <3>4, NotYetReading
  <2> QED
    BY <2>1, <2>2, FailedWhole
<1> QED
  BY <1>1, <1>2

LEMMA MergeBaseWhole == WholeInv /\ (MergeBase \/ IsShallow) => WholeInv'
<1> SUFFICES ASSUME WholeInv, MergeBase \/ IsShallow PROVE WholeInv'
  OBVIOUS
<1>1. /\ pc \in {"mergeBase", "shallow"} /\ UNCHANGED <<world, policy, run>>
      /\ pc' \in {"failed", "shallow", "diff", "never"}
  BY DEF MergeBase, IsShallow, Call, World, Throw, Go, run
<1>2. CASE pc' # "failed"
  <2>1. base \in Commits /\ head \in Commits
    BY <1>1 DEF WholeInv, WorldOk
  <2>2. WorldOk'
    BY <1>1, <1>2, <2>1, WorldStays DEF WholeInv, run
  <2> QED
    BY <1>1, <1>2, <2>2, NotYetReading DEF run
<1> QED
  BY <1>1, <1>2, FailedWhole

(* A file record and its entry agree.                                           *)
LEMMA FactFields ==
    ASSUME NEW f, Fact(f)
    PROVE  /\ f.git \in Changed /\ f.git.status \in StatusOk /\ f.apiSkipped \in {Null} \cup ApiSkips
           /\ f.path = f.git.path /\ f.oldPath = f.git.oldPath /\ f.status = f.git.status
           /\ f.oldMode = f.git.oldMode /\ f.newMode = f.git.newMode /\ f.binary = f.git.binary
           /\ f.submodule = ("160000" \in {f.git.oldMode, f.git.newMode})
           /\ f.additions = (IF f.git.binary THEN 0 ELSE f.git.additions)
           /\ f.deletions = (IF f.git.binary THEN 0 ELSE f.git.deletions)
<1>1. f = [FileFact(f.git) EXCEPT !.apiSkipped = f.apiSkipped]
  BY DEF Fact
<1> DEFINE d == f.git
           why == f.apiSkipped
<1>2. f = [FileFact(d) EXCEPT !.apiSkipped = why]
  BY <1>1
<1> HIDE DEF d, why
<1>3. /\ f.path = d.path /\ f.oldPath = d.oldPath /\ f.status = d.status
      /\ f.oldMode = d.oldMode /\ f.newMode = d.newMode /\ f.binary = d.binary
      /\ f.submodule = ("160000" \in {d.oldMode, d.newMode})
      /\ f.additions = (IF d.binary THEN 0 ELSE d.additions)
      /\ f.deletions = (IF d.binary THEN 0 ELSE d.deletions)
  BY <1>2 DEF FileFact
<1> QED
  BY <1>3 DEF Fact, d

LEMMA FreshFact ==
    ASSUME NEW d \in Changed, d.status \in StatusOk
    PROVE  Fact(FileFact(d)) /\ FileFact(d).git = d /\ FileFact(d).apiSkipped = Null
BY DEF Fact, FileFact

Marked(f, W, why) == IF f \in W THEN [f EXCEPT !.apiSkipped = why] ELSE f
MarkedFiles(W, why) == {Marked(f, W, why) : f \in ToSet(files)}
LEMMA MarkedFact ==
    ASSUME NEW f, Fact(f), NEW W, NEW why \in {Null} \cup ApiSkips
    PROVE  /\ Fact(Marked(f, W, why)) /\ Marked(f, W, why).git = f.git
           /\ Marked(f, W, why).apiSkipped = IF f \in W THEN why ELSE f.apiSkipped
<1>1. f = [FileFact(f.git) EXCEPT !.apiSkipped = f.apiSkipped]
  BY DEF Fact
<1> DEFINE d == f.git
           was == f.apiSkipped
           g == Marked(f, W, why)
           now == IF f \in W THEN why ELSE was
<1>2. f = [FileFact(d) EXCEPT !.apiSkipped = was]
  BY <1>1
<1> HIDE DEF d, was
<1>3. g = [FileFact(d) EXCEPT !.apiSkipped = now] /\ g.git = d /\ g.apiSkipped = now
  BY <1>2 DEF FileFact, Marked
<1>4. d \in Changed /\ d.status \in StatusOk /\ now \in {Null} \cup ApiSkips
  BY DEF Fact, d, was
<1>5. Fact(g)
  <2> HIDE DEF g, now
  <2> QED
    BY <1>3, <1>4 DEF Fact
<1> QED
  BY <1>3, <1>5 DEF d, was

(* Marking the files of W says why they are skipped and nothing else.           *)
Selects(which, W) == \A i \in DOMAIN files : which[i] <=> files[i] \in W
Marks(W, why) == \A g \in ToSet(files') : \E f \in ToSet(files) : Fact(f) /\ g = Marked(f, W, why) /\ g.git = f.git
SameEntries == \A f \in ToSet(files) : \E g \in ToSet(files') : g.git = f.git

LEMMA SkipSet ==
    ASSUME files \in Seq(ToSet(files)), NEW which, NEW why, NEW W,
           Selects(which, W)
    PROVE  ToSet(Skip(which, why)) = MarkedFiles(W, why) /\ Skip(which, why) \in Seq(MarkedFiles(W, why))
<1> DEFINE M == {Marked(f, W, why) : f \in ToSet(files)}
           s == Skip(which, why)
<1>1. DOMAIN files = 1..Len(files) /\ Len(files) \in Nat
  OBVIOUS
<1>2. DOMAIN s = DOMAIN files /\ \A i \in DOMAIN files : s[i] = Marked(files[i], W, why)
  BY DEF Skip, Marked, Selects
<1>3. \A i \in DOMAIN files : files[i] \in ToSet(files)
  BY DEF ToSet
<1>4. \A f \in ToSet(files) : \E i \in DOMAIN files : f = files[i]
  BY DEF ToSet
<1>5. s = [i \in 1..Len(files) |-> s[i]]
  BY <1>1 DEF Skip
<1> HIDE DEF s
<1>6. \A i \in 1..Len(files) : s[i] \in M
  BY <1>1, <1>2, <1>3
<1>7. s \in Seq(M)
  <2> HIDE DEF M
  <2> QED
    BY <1>1, <1>5, <1>6
<1>8. ToSet(s) = M
  <2>1. \A g \in ToSet(s) : g \in M
    BY <1>1, <1>2, <1>6 DEF ToSet
  <2>2. \A i \in DOMAIN files : Marked(files[i], W, why) \in ToSet(s)
    BY <1>2 DEF ToSet
  <2>3. \A f \in ToSet(files) : Marked(f, W, why) \in ToSet(s)
    BY <1>4, <2>2
  <2>4. \A g \in M : g \in ToSet(s)
    BY <2>3
  <2> HIDE DEF M
  <2> QED
    BY <2>1, <2>4
<1> QED
  BY <1>7, <1>8 DEF s, MarkedFiles

LEMMA SkipFiles ==
    ASSUME FilesOk, NEW which, NEW why \in {Null} \cup ApiSkips, NEW W,
           Selects(which, W), files' = Skip(which, why), UNCHANGED <<base, head>>,
           ready' \in Seq(ToSet(ready')), \A f \in ToSet(ready') : Fact(f) /\ Scannable(f)
    PROVE  FilesOk' /\ Marks(W, why) /\ SameEntries
<1>1. /\ ToSet(files') = {Marked(f, W, why) : f \in ToSet(files)}
      /\ files' \in Seq({Marked(f, W, why) : f \in ToSet(files)})
  <2>1. files \in Seq(ToSet(files))
    BY DEF FilesOk
  <2>2. ToSet(Skip(which, why)) = MarkedFiles(W, why) /\ Skip(which, why) \in Seq(MarkedFiles(W, why))
    BY <2>1, SkipSet
  <2> QED
    BY <2>2 DEF MarkedFiles
<1>2. \A f \in ToSet(files) : Fact(f) /\ Fact(Marked(f, W, why)) /\ Marked(f, W, why).git = f.git
  BY MarkedFact DEF FilesOk
<1>3. \A f, g \in ToSet(files) : Marked(f, W, why).git = Marked(g, W, why).git
                                    => Marked(f, W, why) = Marked(g, W, why)
  <2> SUFFICES ASSUME NEW f \in ToSet(files), NEW g \in ToSet(files), Marked(f, W, why).git = Marked(g, W, why).git
               PROVE  Marked(f, W, why) = Marked(g, W, why)
    OBVIOUS
  <2>1. f = g
    BY <1>2 DEF FilesOk
  <2> QED
    BY <2>1
<1>4. \A f : Fact(f)' <=> Fact(f)
  BY SameChange
<1>5. FilesOk'
  <2>1. files' \in Seq(ToSet(files'))
    BY <1>1
  <2>2. \A f \in ToSet(files') \cup ToSet(ready') : Fact(f)'
    BY <1>1, <1>2, <1>4
  <2>3. \A f, g \in ToSet(files') : f.git = g.git => f = g
    BY <1>1, <1>3
  <2> QED
    BY <2>1, <2>2, <2>3 DEF FilesOk, Scannable
<1> QED
  BY <1>1, <1>2, <1>5 DEF Marks, SameEntries

(* What git knows of the change of two known commits.                           *)
LEMMA ChangeKnown ==
    ASSUME base \in Commits, head \in Commits
    PROVE  /\ GitDiff \in Seq(Changed) /\ \A d, e \in Changed : d.path = e.path => d = e
           /\ \A d \in Changed :
                 /\ d.additions + d.deletions = 0 => d.apiAdded \cup d.apiRemoved = {}
                 /\ d.additions \in Nat /\ d.deletions \in Nat /\ d.binary \in BOOLEAN
                 /\ IsFiniteSet(d.apiAdded) /\ IsFiniteSet(d.apiRemoved)
                 /\ ClassesKnown(d.oldDeps) /\ ClassesKnown(d.newDeps)
<1>1. MergeBaseCommit \in Commits
  BY InputsAssumption DEF MergeBaseCommit
<1>2. /\ GitDiff \in Seq(ToSet(GitDiff))
      /\ \A d, e \in ToSet(GitDiff) : d.path = e.path => d = e
      /\ \A d \in ToSet(GitDiff) :
            /\ d.additions + d.deletions = 0 => d.apiAdded \cup d.apiRemoved = {}
            /\ d.additions \in Nat /\ d.deletions \in Nat /\ d.binary \in BOOLEAN
            /\ IsFiniteSet(d.apiAdded \cup d.apiRemoved)
            /\ ClassesKnown(d.oldDeps) /\ ClassesKnown(d.newDeps)
  BY <1>1, InputsAssumption DEF GitDiff
<1>3. ASSUME NEW d \in Changed PROVE IsFiniteSet(d.apiAdded) /\ IsFiniteSet(d.apiRemoved)
  <2>1. IsFiniteSet(d.apiAdded \cup d.apiRemoved)
    BY <1>2 DEF Changed
  <2> QED
    BY <2>1, FS_Subset
<1> QED
  BY <1>2, <1>3 DEF Changed

LEMMA ParsedFiles ==
    ASSUME base \in Commits /\ head \in Commits, NEW parsed, parsed = ParseRawNumstat(GitDiff)
    PROVE  LET known == {d \in Changed : d.status \in StatusOk} IN
           /\ parsed.files \in Seq(ToSet(parsed.files))
           /\ ToSet(parsed.files) = {FileFact(d) : d \in known}
           /\ parsed.badStatus = {d.path : d \in Changed \ known}
<1> DEFINE known == {d \in Changed : d.status \in StatusOk}
           kept == Only(GitDiff, known)
           s == parsed.files
<1>1. GitDiff \in Seq(Changed)
  BY ChangeKnown
<1>2. kept \in Seq(known) /\ ToSet(kept) = known
  <2>1. kept \in Seq(Changed \cap known) /\ ToSet(kept) = Changed \cap known
    <3> HIDE DEF known
    <3> QED
      BY <1>1, OnlyFacts DEF Changed
  <2>2. Changed \cap known = known
    OBVIOUS
  <2> QED
    BY <2>1, <2>2
<1>3. parsed = [files |-> [i \in DOMAIN kept |-> FileFact(kept[i])],
                badStatus |-> {d.path : d \in Changed \ known}]
  BY DEF ParseRawNumstat, Changed
<1> HIDE DEF kept, known
<1>4. s = [i \in DOMAIN kept |-> FileFact(kept[i])] /\ parsed.badStatus = {d.path : d \in Changed \ known}
  BY <1>3
<1>5. DOMAIN kept = 1..Len(kept) /\ Len(kept) \in Nat
  BY <1>2
<1>6. ToSet(s) = {FileFact(d) : d \in known}
  <2>1. \A i \in DOMAIN kept : kept[i] \in known
    BY <1>2
  <2>2. \A d \in known : \E i \in DOMAIN kept : d = kept[i]
    BY <1>2 DEF ToSet
  <2>3. DOMAIN s = DOMAIN kept /\ \A i \in DOMAIN kept : s[i] = FileFact(kept[i])
    BY <1>4
  <2> HIDE DEF s
  <2> QED
    BY <2>1, <2>2, <2>3 DEF ToSet
<1>7. s \in Seq(ToSet(s))
  <2>1. \A i \in 1..Len(kept) : s[i] \in ToSet(s)
    BY <1>4, <1>5 DEF ToSet
  <2>2. s = [i \in 1..Len(kept) |-> s[i]]
    BY <1>4, <1>5
  <2> HIDE DEF s
  <2> QED
    BY <1>5, <2>1, <2>2
<1> QED
  BY <1>4, <1>6, <1>7 DEF known

LEMMA DiffWhole == WholeInv /\ DiffRaw => WholeInv'
<1> SUFFICES ASSUME WholeInv, DiffRaw PROVE WholeInv'
  OBVIOUS
<1> DEFINE parsed == ParseRawNumstat(GitDiff)
<1>1. /\ pc = "diff" /\ UNCHANGED <<world, policy>>
      /\ \/ pc' = "failed" /\ UNCHANGED run
         \/ /\ pc' = "decide"
            /\ failures' = failures \cup {[stage |-> "diff", code |-> "buffer_overflow", subjects |-> {}]}
            /\ UNCHANGED <<base, head, files, manifests, api, ready, renameSkipped>>
         \/ /\ pc' = "sizes" /\ files' = parsed.files /\ renameSkipped' = ("raw" \in world.renameSkipped)
            /\ failures \subseteq failures' /\ (parsed.badStatus # {} => failures' # {})
            /\ UNCHANGED <<base, head, manifests, api, ready>>
  BY DEF DiffRaw, World, Throw, Go, run, Record
<1>2. base \in Commits /\ head \in Commits /\ files = <<>> /\ ready = <<>> /\ api = {} /\ manifests = {}
  BY <1>1 DEF WholeInv, WorldOk, StartOk
<1>3. CASE pc' = "decide"
  <2>1. WorldOk'
    BY <1>1, <1>2, <1>3, WorldStays DEF WholeInv
  <2>2. FilesOk' /\ ManifestsOk' /\ ApiOk'
    BY <1>1, <1>3, KeepsFiles, KeepsManifests, KeepsApi DEF WholeInv
  <2>3. StartOk' /\ WholeOk' /\ ScanOk'
    BY <1>1, <1>3 DEF WholeInv, StartOk, WholeOk, ScanOk
  <2> QED
    BY <2>1, <2>2, <2>3 DEF WholeInv
<1>4. CASE pc' = "sizes"
  <2> DEFINE known == {d \in Changed : d.status \in StatusOk}
  <2> HIDE DEF parsed
  <2>1. WorldOk'
    BY <1>1, <1>2, <1>4, WorldStays DEF WholeInv
  <2>2. /\ files' \in Seq(ToSet(files')) /\ ToSet(files') = {FileFact(d) : d \in known}
        /\ parsed.badStatus = {d.path : d \in Changed \ known}
    BY <1>1, <1>2, <1>4, ParsedFiles DEF parsed
  <2>3. \A d \in known : Fact(FileFact(d)) /\ FileFact(d).git = d
    BY FreshFact
  <2>4. FilesOk'
    <3>1. \A f \in ToSet(files') : Fact(f)
      BY <2>2, <2>3
    <3>2. \A f, g \in ToSet(files') : f.git = g.git => f = g
      BY <2>2, <2>3
    <3>3. ToSet(ready') = {} /\ ready' \in Seq(ToSet(ready'))
      BY <1>1, <1>2, <1>4, EmptyToSet
    <3> QED
      BY <1>1, <1>4, <2>2, <3>1, <3>2, <3>3, SameChange DEF FilesOk
  <2>5. ManifestsOk' /\ ApiOk'
    BY <1>1, <1>4, KeepsManifests, KeepsApi DEF WholeInv
  <2>6. StartOk' /\ ScanOk'
    BY <1>4 DEF StartOk, ScanOk
  <2>7. WholeOk'
    <3>1. world \in Worlds
      BY DEF WholeInv, WorldOk
    <3>2. renameSkipped' \in BOOLEAN
      BY <1>1, <1>4, <3>1, InputsAssumption
    <3>3. ASSUME failures' = {}
          PROVE  \A d \in Changed : d.status \in StatusOk /\ \E f \in ToSet(files') : f.git = d
      <4>1. Changed \ known = {}
        BY <1>1, <1>4, <2>2, <3>3
      <4>2. \A d \in Changed : d \in known
        BY <4>1
      <4> QED
        BY <2>2, <2>3, <4>2
    <3> QED
      BY <1>1, <1>2, <1>4, <3>2, <3>3, SameChange DEF WholeOk
  <2> QED
    BY <2>1, <2>4, <2>5, <2>6, <2>7 DEF WholeInv
<1> QED
  BY <1>1, <1>3, <1>4, FailedWhole

LEMMA LargeWhole == WholeInv /\ MarkLarge => WholeInv'
<1> SUFFICES ASSUME WholeInv, MarkLarge PROVE WholeInv'
  OBVIOUS
<1> DEFINE candidate(f) == ~f.binary /\ ~f.submodule /\ HasRule(f)
           long(f) == f.additions + f.deletions > LineLimit
           big(f) == \E b \in ToSet(f.git.blobs) : b # Null /\ b > BlobLimit
           W == {f \in ToSet(files) : candidate(f) /\ (long(f) \/ (sized' /\ big(f)))}
           which == [i \in DOMAIN files |-> candidate(files[i]) /\ (long(files[i]) \/ (sized' /\ big(files[i])))]
<1>1. /\ pc = "sizes" /\ UNCHANGED <<world, policy>>
      /\ \/ pc' = "failed" /\ UNCHANGED run
         \/ /\ pc' = "manifests" /\ files' = Skip(which, "too_large") /\ failures \subseteq failures'
            /\ UNCHANGED <<base, head, manifests, api, ready, renameSkipped>>
  BY DEF MarkLarge, World, Throw, Go, run, Record
<1>2. Selects(which, W)
  <2>1. \A i \in DOMAIN files : files[i] \in ToSet(files)
    BY DEF ToSet
  <2>2. \A i \in DOMAIN files :
           which[i] = (candidate(files[i]) /\ (long(files[i]) \/ (sized' /\ big(files[i]))))
    OBVIOUS
  <2> HIDE DEF candidate, long, big, which
  <2> QED
    BY <2>1, <2>2 DEF Selects
<1> HIDE DEF which, W
<1>3. CASE pc' = "manifests"
  <2>1. base \in Commits /\ head \in Commits
    BY <1>1 DEF WholeInv, WorldOk
  <2>2. WorldOk'
    BY <1>1, <1>3, <2>1, WorldStays DEF WholeInv
  <2>3. FilesOk' /\ SameEntries
    <3>1. FilesOk
      BY DEF WholeInv
    <3>2. ready' \in Seq(ToSet(ready')) /\ \A f \in ToSet(ready') : Fact(f) /\ Scannable(f)
      BY <1>1, <1>3, <3>1 DEF FilesOk
    <3>3. "too_large" \in ApiSkips
      BY DEF ApiSkips
    <3> QED
      BY <1>1, <1>2, <1>3, <3>1, <3>2, <3>3, SkipFiles
  <2>4. ManifestsOk' /\ ApiOk'
    BY <1>1, <1>3, KeepsManifests, KeepsApi DEF WholeInv
  <2>5. StartOk' /\ ScanOk'
    BY <1>3 DEF StartOk, ScanOk
  <2>6. WholeOk'
    BY <1>1, <1>3, <2>3, SameChange DEF WholeInv, WholeOk, SameEntries
  <2> QED
    BY <2>2, <2>3, <2>4, <2>5, <2>6 DEF WholeInv
<1> QED
  BY <1>1, <1>3, FailedWhole

(* A manifest is read the same from a file record and from its entry.           *)
LEMMA SameReading ==
    ASSUME NEW f, Fact(f)
    PROVE  /\ IsManifest(f) <=> IsManifest(FileFact(f.git))
           /\ ManifestKind[f.path] = ManifestKind[FileFact(f.git).path]
           /\ ReadManifest(f) = ReadManifest(FileFact(f.git)) /\ Unread(f) = Unread(FileFact(f.git))
<1> DEFINE g == FileFact(f.git)
<1>1. f.path = g.path /\ f.oldPath = g.oldPath /\ f.status = g.status /\ f.submodule = g.submodule /\ f.git = g.git
  BY FactFields DEF FileFact
<1> HIDE DEF g
<1>2. SameKind(f) <=> SameKind(g)
  BY <1>1 DEF SameKind
<1>3. Unread(f) = Unread(g) /\ (IsManifest(f) <=> IsManifest(g)) /\ ManifestKind[f.path] = ManifestKind[g.path]
  BY <1>1 DEF Unread, IsManifest
<1>4. ReadManifest(f) = ReadManifest(g)
  BY <1>1, <1>2, <1>3 DEF ReadManifest
<1> QED
  BY <1>3, <1>4 DEF g

LEMMA ManifestsWhole == WholeInv /\ LoadManifests => WholeInv'
<1> SUFFICES ASSUME WholeInv, LoadManifests PROVE WholeInv'
  OBVIOUS
<1> DEFINE rows == {f \in ToSet(files) : IsManifest(f)}
           reads == {f \in rows : ManifestKind[f.path] # "unsupported"}
<1>1. /\ pc = "manifests" /\ UNCHANGED <<world, policy>>
      /\ \/ pc' = "failed" /\ UNCHANGED run
         \/ \E code :
            /\ pc' = "select" /\ failures \subseteq failures' /\ (code # Null => failures' # {})
            /\ manifests' = {IF f \in reads /\ code = Null THEN ReadManifest(f) ELSE Unread(f) : f \in rows}
            /\ UNCHANGED <<base, head, files, api, ready, renameSkipped>>
  <2>1. pc = "manifests" /\ UNCHANGED <<world, policy>>
    BY DEF LoadManifests, World
  <2>2. PICK reply :
           LET code == ReplyError(pc, reply)
               lost == IF code = Null THEN {f \in reads : Missing(f)} ELSE reads IN
           IF code # Null /\ ~Degradable(pc, code) THEN Throw(code)
           ELSE /\ manifests' = {IF f \in reads /\ code = Null THEN ReadManifest(f) ELSE Unread(f) : f \in rows}
                /\ IF code # Null \/ lost # {}
                   THEN Record("manifest", IF code # Null THEN code ELSE "read_failed", {f.path : f \in lost})
                   ELSE UNCHANGED failures
                /\ Go("select")
                /\ UNCHANGED <<raw, rawFirst, observedAt, base, head, files, sized, api, ready, renameSkipped>>
    BY DEF LoadManifests, IsManifest
  <2> DEFINE code == ReplyError(pc, reply)
             lost == IF code = Null THEN {f \in reads : Missing(f)} ELSE reads
             paths == {f.path : f \in lost}
  <2>3. IF code # Null /\ ~Degradable(pc, code) THEN Throw(code)
        ELSE /\ manifests' = {IF f \in reads /\ code = Null THEN ReadManifest(f) ELSE Unread(f) : f \in rows}
             /\ IF code # Null \/ lost # {}
                THEN Record("manifest", IF code # Null THEN code ELSE "read_failed", paths)
                ELSE UNCHANGED failures
             /\ Go("select")
             /\ UNCHANGED <<raw, rawFirst, observedAt, base, head, files, sized, api, ready, renameSkipped>>
    BY <2>2
  <2> HIDE DEF code, lost, paths, reads, rows
  <2>4. CASE code # Null /\ ~Degradable(pc, code)
    BY <2>1, <2>3, <2>4 DEF Throw
  <2>5. CASE ~(code # Null /\ ~Degradable(pc, code))
    <3>1. /\ manifests' = {IF f \in reads /\ code = Null THEN ReadManifest(f) ELSE Unread(f) : f \in rows}
          /\ pc' = "select" /\ UNCHANGED <<base, head, files, api, ready, renameSkipped>>
      BY <2>3, <2>5 DEF Go
    <3>2. failures \subseteq failures' /\ (code # Null => failures' # {})
      BY <2>3, <2>5 DEF Record
    <3> QED
      BY <2>1, <3>1, <3>2
  <2> QED
    BY <2>4, <2>5
<1>2. CASE pc' = "select"
  <2>1. PICK code :
            /\ failures \subseteq failures' /\ (code # Null => failures' # {})
            /\ manifests' = {IF f \in reads /\ code = Null THEN ReadManifest(f) ELSE Unread(f) : f \in rows}
            /\ UNCHANGED <<base, head, files, api, ready, renameSkipped>>
    BY <1>1, <1>2
  <2>2. base \in Commits /\ head \in Commits
    BY <1>1 DEF WholeInv, WorldOk
  <2>3. WorldOk'
    BY <1>1, <1>2, <2>1, <2>2, WorldStays DEF WholeInv
  <2>4. FilesOk' /\ ApiOk'
    BY <2>1, KeepsFiles, KeepsApi DEF WholeInv
  <2>5. StartOk' /\ ScanOk'
    BY <1>2 DEF StartOk, ScanOk
  <2>6. ASSUME NEW f \in rows
        PROVE  /\ FileFact(f.git) \in ManifestFiles /\ Unread(f) = Unread(FileFact(f.git))
               /\ (IF f \in reads THEN ReadManifest(f) ELSE Unread(f)) = ManifestOf(FileFact(f.git))
    <3>1. Fact(f)
      BY DEF WholeInv, FilesOk
    <3>2. f.git \in Changed /\ IsManifest(FileFact(f.git)) /\ Unread(f) = Unread(FileFact(f.git))
          /\ ManifestKind[f.path] = ManifestKind[FileFact(f.git).path]
          /\ ReadManifest(f) = ReadManifest(FileFact(f.git))
      BY <3>1, FactFields, SameReading
    <3> QED
      BY <3>2 DEF ManifestFiles, ManifestOf
  <2>7. ManifestsOk'
    <3>1. \A m \in manifests' : \E f \in ManifestFiles : m \in {ManifestOf(f), Unread(f)}
      BY <2>1, <2>6
    <3> QED
      BY <2>1, <3>1, SameChange DEF ManifestsOk
  <2>8. WholeOk'
    <3>1. ASSUME failures' = {}
          PROVE  manifests' = {ManifestOf(f) : f \in ManifestFiles}
      <4>1. manifests' = {IF f \in reads THEN ReadManifest(f) ELSE Unread(f) : f \in rows}
        BY <2>1, <3>1
      <4>2. \A m \in manifests' : m \in {ManifestOf(f) : f \in ManifestFiles}
        BY <2>6, <4>1
      <4>3. ASSUME NEW g \in ManifestFiles PROVE ManifestOf(g) \in manifests'
        <5>1. PICK d \in Changed : IsManifest(FileFact(d)) /\ g = FileFact(d)
          BY DEF ManifestFiles
        <5>2. PICK f \in ToSet(files) : f.git = d
          BY <1>1, <2>1, <3>1 DEF WholeInv, WholeOk
        <5>3. f \in rows
          <6>1. Fact(f)
            BY DEF WholeInv, FilesOk
          <6> QED
            BY <5>1, <5>2, <6>1, SameReading
        <5>4. (IF f \in reads THEN ReadManifest(f) ELSE Unread(f)) = ManifestOf(g)
          BY <2>6, <5>1, <5>2, <5>3
        <5> QED
          BY <4>1, <5>3, <5>4
      <4> QED
        BY <4>2, <4>3
    <3> QED
      BY <1>1, <1>2, <2>1, <3>1, SameChange DEF WholeInv, WholeOk
  <2> QED
    BY <2>3, <2>4, <2>5, <2>7, <2>8 DEF WholeInv
<1> QED
  BY <1>1, <1>2, FailedWhole

LEMMA SelectWhole == WholeInv /\ SelectApi => WholeInv'
<1> SUFFICES ASSUME WholeInv, SelectApi PROVE WholeInv'
  OBVIOUS
<1> DEFINE W == {f \in ToSet(files) : Scannable(f) /\ ~f.git.utf8}
           clean == {f \in ToSet(files) : Scannable(f) /\ f.git.utf8}
           which == [i \in DOMAIN files |-> Scannable(files[i]) /\ ~files[i].git.utf8]
<1>1. /\ pc = "select" /\ pc' = "patch" /\ UNCHANGED <<world, policy>>
      /\ files' = Skip(which, "non_utf8_path") /\ ready' = Only(files, clean)
      /\ UNCHANGED <<base, head, manifests, api, renameSkipped, failures>>
  BY DEF SelectApi, World, Go
<1>2. Selects(which, W)
  <2>1. \A i \in DOMAIN files : files[i] \in ToSet(files)
    BY DEF ToSet
  <2> QED
    BY <2>1 DEF Selects
<1>3. FilesOk /\ "non_utf8_path" \in ApiSkips /\ "non_utf8_path" # Null
  BY NullAssumption DEF WholeInv, ApiSkips
<1>4. ready' \in Seq(ToSet(ready')) /\ ToSet(ready') = clean
  <2>1. files \in Seq(ToSet(files))
    BY <1>3 DEF FilesOk
  <2>2. /\ Only(files, clean) \in Seq(ToSet(files) \cap clean)
        /\ ToSet(Only(files, clean)) = ToSet(files) \cap clean
    <3> HIDE DEF clean
    <3> QED
      BY <2>1, OnlyFacts
  <2>3. ToSet(files) \cap clean = clean
    OBVIOUS
  <2> QED
    BY <1>1, <2>2, <2>3
<1>5. \A f \in ToSet(ready') : Fact(f) /\ Scannable(f)
  BY <1>3, <1>4 DEF FilesOk
<1> HIDE DEF which
<1>6. FilesOk' /\ Marks(W, "non_utf8_path") /\ SameEntries
  <2> HIDE DEF W
  <2> QED
    BY <1>1, <1>2, <1>3, <1>4, <1>5, SkipFiles
<1>7. WorldOk'
  <2>1. base \in Commits /\ head \in Commits
    BY <1>1 DEF WholeInv, WorldOk
  <2> QED
    BY <1>1, <2>1, WorldStays DEF WholeInv
<1>8. ManifestsOk' /\ ApiOk' /\ StartOk'
  BY <1>1, KeepsManifests, KeepsApi DEF WholeInv, StartOk
<1>9. WholeOk'
  BY <1>1, <1>6, SameChange DEF WholeInv, WholeOk, SameEntries
<1>10. ScanOk'
  <2>1. ASSUME NEW g \in ToSet(files'), Scannable(g)
        PROVE  g \in ToSet(ready')
    <3>1. PICK f \in ToSet(files) : Fact(f) /\ g = Marked(f, W, "non_utf8_path")
      BY <1>6 DEF Marks
    <3>2. f \notin W
      <4>1. g.apiSkipped = IF f \in W THEN "non_utf8_path" ELSE f.apiSkipped
        BY <1>3, <3>1, MarkedFact
      <4>2. g.apiSkipped = Null
        BY <2>1 DEF Scannable
      <4> HIDE DEF W
      <4> QED
        BY <1>3, <4>1, <4>2
    <3>3. g = f
      BY <3>1, <3>2 DEF Marked
    <3> QED
      BY <1>4, <2>1, <3>2, <3>3
  <2> QED
    BY <1>1, <2>1 DEF ScanOk, Scannable
<1> QED
  BY <1>6, <1>7, <1>8, <1>9, <1>10 DEF WholeInv

LEMMA MaxFacts ==
    ASSUME NEW n \in Nat, NEW S \in SUBSET (1..n), S # {}
    PROVE  Max(S) \in S
<1> DEFINE T == {n - x : x \in S}
<1>1. T \in SUBSET Nat /\ T # {}
  <2>1. \A x \in S : x \in Int /\ n - x \in Nat
    OBVIOUS
  <2> QED
    BY <2>1
<1>2. PICK m \in T : \A k \in T : m <= k
  <2> HIDE DEF T
  <2> QED
    BY <1>1, LeastExists
<1>3. PICK x \in S : m = n - x
  BY <1>2
<1>4. ASSUME NEW y \in S PROVE x >= y
  <2>1. n - x <= n - y
    BY <1>2, <1>3
  <2> QED
    BY <2>1
<1>5. \E a \in S : \A y \in S : a >= y
  BY <1>4
<1> QED
  BY <1>5 DEF Max

LEMMA ChunkFacts ==
    ASSUME ready \in Seq(ToSet(ready)), ready # <<>>
    PROVE  \E k \in 1..Len(ready) : NextChunk = SubSeq(ready, 1, k)
<1> DEFINE fit == {n \in DOMAIN ready : \A m \in 1..n : Fits(m)}
           S == {1} \cup fit
<1>1. Len(ready) \in Nat /\ Len(ready) >= 1 /\ DOMAIN ready = 1..Len(ready)
  OBVIOUS
<1>2. fit \subseteq 1..Len(ready)
  BY <1>1
<1>3. NextChunk = SubSeq(ready, 1, Max(S))
  BY DEF NextChunk
<1> HIDE DEF fit
<1>4. Max(S) \in 1..Len(ready)
  <2>1. S \in SUBSET (1..Len(ready)) /\ S # {}
    BY <1>1, <1>2
  <2> HIDE DEF S
  <2>2. Max(S) \in S
    BY <1>1, <2>1, MaxFacts
  <2> QED
    BY <2>1, <2>2
<1> HIDE DEF S
<1> QED
  BY <1>3, <1>4

LEMMA OwnMembers == ASSUME NEW T, NEW s \in Seq(T) PROVE s \in Seq(ToSet(s))
<1>1. \A i \in 1..Len(s) : s[i] \in ToSet(s)
  BY DEF ToSet
<1> QED
  BY <1>1

(* A chunk and what is left of the queue are the queue.                         *)
LEMMA ChunkSplits ==
    ASSUME ready \in Seq(ToSet(ready)), ready # <<>>,
           NEW rest, rest = SubSeq(ready, Len(NextChunk) + 1, Len(ready))
    PROVE  /\ rest \in Seq(ToSet(rest))
           /\ ToSet(ready) = ToSet(NextChunk) \cup ToSet(rest)
<1>1. PICK k \in 1..Len(ready) : NextChunk = SubSeq(ready, 1, k)
  BY ChunkFacts
<1>2. PICK n : n = Len(ready)
  OBVIOUS
<1>3. n \in Nat /\ k \in 1..n /\ DOMAIN ready = 1..n
  BY <1>1, <1>2
<1>4. /\ NextChunk \in Seq(ToSet(ready)) /\ Len(NextChunk) = k
      /\ \A i \in 1..k : NextChunk[i] = ready[i]
  BY <1>1, <1>2, <1>3
<1>5. /\ rest \in Seq(ToSet(ready)) /\ Len(rest) = n - k
      /\ \A i \in 1..(n - k) : rest[i] = ready[k + i]
  <2>1. rest = SubSeq(ready, k + 1, n)
    BY <1>2, <1>4
  <2>2. PICK m : m = k + 1
    OBVIOUS
  <2>3. m \in Int /\ n \in Int /\ \A i \in m..n : ready[i] \in ToSet(ready)
    BY <1>3, <2>2 DEF ToSet
  <2>4. /\ SubSeq(ready, m, n) \in Seq(ToSet(ready))
        /\ Len(SubSeq(ready, m, n)) = (IF m <= n THEN n - m + 1 ELSE 0)
        /\ \A i \in 1..(n - m + 1) : SubSeq(ready, m, n)[i] = ready[m + i - 1]
    BY <2>3, SubSeqProperties
  <2>5. n - m + 1 = n - k /\ (\A i \in 1..(n - k) : m + i - 1 = k + i) /\ (IF m <= n THEN n - k ELSE 0) = n - k
    BY <1>3, <2>2
  <2> QED
    BY <2>1, <2>2, <2>4, <2>5
<1>6. DOMAIN NextChunk = 1..k /\ DOMAIN rest = 1..(n - k)
  BY <1>3, <1>4, <1>5
<1>7. ToSet(NextChunk) = {ready[i] : i \in 1..k}
  BY <1>4, <1>6 DEF ToSet
<1>8. ToSet(rest) = {ready[k + i] : i \in 1..(n - k)}
  BY <1>5, <1>6 DEF ToSet
<1>9. ToSet(ready) = {ready[i] : i \in 1..n}
  BY <1>3 DEF ToSet
<1>10. \A i \in 1..n : i \in 1..k \/ (i - k \in 1..(n - k) /\ k + (i - k) = i)
  BY <1>3
<1>11. \A x \in ToSet(ready) : x \in ToSet(NextChunk) \cup ToSet(rest)
  <2> SUFFICES ASSUME NEW i \in 1..n PROVE ready[i] \in ToSet(NextChunk) \cup ToSet(rest)
    BY <1>9
  <2>1. CASE i \in 1..k
    BY <1>7, <2>1
  <2>2. CASE i - k \in 1..(n - k) /\ k + (i - k) = i
    <3>1. ready[k + (i - k)] \in ToSet(rest)
      BY <1>8, <2>2
    <3> QED
      BY <2>2, <3>1
  <2> QED
    BY <1>10, <2>1, <2>2
<1>12. ToSet(NextChunk) \subseteq ToSet(ready) /\ ToSet(rest) \subseteq ToSet(ready)
  <2>1. \A i \in 1..k : i \in 1..n
    BY <1>3
  <2>2. \A i \in 1..(n - k) : k + i \in 1..n
    BY <1>3
  <2> QED
    BY <1>7, <1>8, <1>9, <2>1, <2>2
<1>13. rest \in Seq(ToSet(rest))
  BY <1>5, OwnMembers
<1> QED
  BY <1>11, <1>12, <1>13

LEMMA PatchWhole == WholeInv /\ DiffPatch => WholeInv'
<1> SUFFICES ASSUME WholeInv, DiffPatch PROVE WholeInv'
  OBVIOUS
<1> DEFINE chunk == ToSet(NextChunk)
           paths == {f.path : f \in chunk}
           mine == [i \in DOMAIN files |-> files[i].path \in paths]
           absent == [i \in DOMAIN files |-> mine[i] /\ ~files[i].git.patched /\ files[i].additions + files[i].deletions > 0]
           found == {f \in chunk : f.git.patched /\ f.git.apiAdded \cup f.git.apiRemoved # {}}
           mineSet == {f \in ToSet(files) : f.path \in paths}
           absentSet == {f \in ToSet(files) : f.path \in paths /\ ~f.git.patched /\ f.additions + f.deletions > 0}
           facts == {[path |-> f.path, added |-> f.git.apiAdded, removed |-> f.git.apiRemoved] : f \in found}
<1>1. /\ pc = "patch" /\ UNCHANGED <<world, policy>> /\ ready # <<>>
      /\ \/ pc' = "failed" /\ UNCHANGED run
         \/ /\ pc' = "patch" /\ ready' = SubSeq(ready, Len(NextChunk) + 1, Len(ready))
            /\ failures \subseteq failures'
            /\ UNCHANGED <<base, head, manifests>>
            /\ renameSkipped' \in BOOLEAN /\ (renameSkipped => renameSkipped')
            /\ \/ failures' # {} /\ files' = Skip(mine, "patch_failed") /\ api' = api
               \/ /\ files' = Skip(absent, "patch_missing") /\ api' = api \cup facts
                  /\ "patch" \in world.renameSkipped => renameSkipped'
  <2>1. PICK reply :
           LET code == ReplyError(pc, reply) IN
           IF code # Null /\ ~Degradable(pc, code) THEN Throw(code)
           ELSE /\ ready' = SubSeq(ready, Len(NextChunk) + 1, Len(ready))
                /\ renameSkipped' = (renameSkipped \/ (code # "spawn_timeout" /\ "patch" \in world.renameSkipped))
                /\ IF code # Null
                   THEN Record("api_patch", code, paths) /\ files' = Skip(mine, "patch_failed") /\ UNCHANGED api
                   ELSE /\ files' = Skip(absent, "patch_missing") /\ UNCHANGED failures
                        /\ api' = api \cup facts
                /\ Go("patch")
                /\ UNCHANGED <<raw, rawFirst, observedAt, base, head, sized, manifests>>
    BY DEF DiffPatch
  <2>2. pc = "patch" /\ UNCHANGED <<world, policy>> /\ ready # <<>>
    BY DEF DiffPatch, World
  <2>3. Null # "spawn_timeout"
    BY NullAssumption
  <2> HIDE DEF paths, mine, absent, facts
  <2> QED
    BY <2>1, <2>2, <2>3 DEF Throw, Go, Record, run
<1>2. CASE pc' = "patch"
  <2>1. FilesOk
    BY DEF WholeInv
  <2>2. ready' \in Seq(ToSet(ready')) /\ ToSet(ready) = chunk \cup ToSet(ready')
    BY <1>1, <1>2, <2>1, ChunkSplits DEF FilesOk
  <2> HIDE DEF chunk
  <2>3. \A f \in chunk \cup ToSet(ready') : Fact(f) /\ Scannable(f)
    BY <2>1, <2>2 DEF FilesOk
  <2>4. \A i \in DOMAIN files : files[i] \in ToSet(files)
    BY DEF ToSet
  <2>5. Selects(mine, mineSet)
    BY <2>4 DEF Selects
  <2>6. Selects(absent, absentSet)
    <3> HIDE DEF paths
    <3> QED
      BY <2>4 DEF Selects
  <2>7. "patch_failed" \in ApiSkips /\ "patch_missing" \in ApiSkips /\ "patch_missing" # Null
    BY NullAssumption DEF ApiSkips
  <2> HIDE DEF mine, absent, mineSet, absentSet
  <2>8. ASSUME files' = Skip(mine, "patch_failed")
        PROVE  FilesOk' /\ SameEntries
    BY <1>1, <1>2, <2>1, <2>2, <2>3, <2>5, <2>7, <2>8, SkipFiles
  <2>9. ASSUME files' = Skip(absent, "patch_missing")
        PROVE  FilesOk' /\ Marks(absentSet, "patch_missing") /\ SameEntries
    BY <1>1, <1>2, <2>1, <2>2, <2>3, <2>6, <2>7, <2>9, SkipFiles
  <2>10. WorldOk'
    <3>1. base \in Commits /\ head \in Commits
      BY <1>1 DEF WholeInv, WorldOk
    <3> QED
      BY <1>1, <1>2, <3>1, WorldStays DEF WholeInv
  <2>11. ManifestsOk' /\ StartOk'
    BY <1>1, <1>2, KeepsManifests DEF WholeInv, StartOk
  <2>12. WholeOk' /\ FilesOk'
    BY <1>1, <1>2, <2>8, <2>9, SameChange DEF WholeInv, WholeOk, SameEntries
  <2>13. ASSUME NEW f \in found
         PROVE  /\ f.git \in Changed /\ Scanned(f.git)
                /\ [path |-> f.path, added |-> f.git.apiAdded, removed |-> f.git.apiRemoved] = ApiFact(f.git)
    <3>1. Fact(f) /\ Scannable(f)
      BY <2>3
    <3>2. /\ f.git \in Changed /\ f.path = f.git.path /\ f.oldPath = f.git.oldPath /\ f.binary = f.git.binary
          /\ f.submodule = ("160000" \in {f.git.oldMode, f.git.newMode})
      BY <3>1, FactFields
    <3> QED
      BY <3>1, <3>2 DEF Scannable, Scanned, HasRule, ApiFact
  <2>14. ApiOk'
    <3>1. \A a \in api' : \E d \in Changed : Scanned(d) /\ a = ApiFact(d)
      <4>1. \A a \in facts : \E d \in Changed : Scanned(d) /\ a = ApiFact(d)
        BY <2>13
      <4> HIDE DEF facts
      <4> QED
        BY <1>1, <1>2, <4>1 DEF WholeInv, ApiOk
    <3> QED
      BY <1>1, <1>2, <3>1, SameChange DEF ApiOk
  <2>15. ScanOk'
    <3> SUFFICES ASSUME failures' = {}, NEW g \in ToSet(files'), Scannable(g)
                 PROVE  g \in ToSet(ready') \/ Given(g)'
      BY <1>2 DEF ScanOk, Scannable, HasRule
    <3>1. failures = {} /\ files' = Skip(absent, "patch_missing") /\ api' = api \cup facts
      BY <1>1, <1>2
    <3>2. PICK f \in ToSet(files) : Fact(f) /\ g = Marked(f, absentSet, "patch_missing")
      BY <2>9, <3>1 DEF Marks
    <3>3. f \notin absentSet /\ g = f
      <4>1. g.apiSkipped = IF f \in absentSet THEN "patch_missing" ELSE f.apiSkipped
        BY <2>7, <3>2, MarkedFact
      <4>2. g.apiSkipped = Null
        BY DEF Scannable
      <4>3. f \notin absentSet
        BY <2>7, <4>1, <4>2
      <4> QED
        BY <3>2, <4>3 DEF Marked
    <3>4. CASE Given(f)
      BY <3>1, <3>3, <3>4 DEF Given
    <3>5. CASE f \in chunk
      <4>1. f.path \in paths
        BY <3>5
      <4>2. CASE f.git.patched
        <5>1. CASE f.git.apiAdded \cup f.git.apiRemoved = {}
          BY <3>3, <5>1 DEF Given
        <5>2. CASE f.git.apiAdded \cup f.git.apiRemoved # {}
          <6>1. f \in found
            BY <3>5, <4>2, <5>2
          <6>2. ApiFact(f.git) \in facts
            BY <2>13, <6>1
          <6> HIDE DEF facts
          <6> QED
            BY <3>1, <3>3, <6>2 DEF Given, ApiFact
        <5> QED
          BY <5>1, <5>2
      <4>3. CASE ~f.git.patched
        <5>1. /\ f.git \in Changed /\ ~f.git.binary
              /\ f.additions = f.git.additions /\ f.deletions = f.git.deletions
          BY <3>2, <3>3, FactFields DEF Scannable
        <5>2. ~(f.git.additions + f.git.deletions > 0)
          <6> HIDE DEF paths
          <6> QED
            BY <3>3, <4>1, <4>3, <5>1 DEF absentSet
        <5>3. base \in Commits /\ head \in Commits
          BY <1>1 DEF WholeInv, WorldOk
        <5>4. /\ f.git.additions \in Nat /\ f.git.deletions \in Nat
              /\ f.git.additions + f.git.deletions = 0 => f.git.apiAdded \cup f.git.apiRemoved = {}
          BY <5>1, <5>3, ChangeKnown
        <5>5. f.git.apiAdded \cup f.git.apiRemoved = {}
          BY <5>2, <5>4
        <5> QED
          BY <3>3, <5>5 DEF Given
      <4> QED
        BY <4>2, <4>3
    <3>6. CASE f \in ToSet(ready')
      BY <3>3, <3>6
    <3> QED
      BY <1>1, <2>2, <3>1, <3>3, <3>4, <3>5, <3>6 DEF WholeInv, ScanOk
  <2> QED
    BY <2>10, <2>11, <2>12, <2>14, <2>15 DEF WholeInv
<1> QED
  BY <1>1, <1>2, FailedWhole

(* What is left to do reads nothing more.                                       *)
LEMMA LastWhole == WholeInv /\ (PatchesRead \/ DecideCollected \/ PrMoves \/ UNCHANGED vars) => WholeInv'
<1> SUFFICES ASSUME WholeInv, PatchesRead \/ DecideCollected \/ PrMoves \/ UNCHANGED vars PROVE WholeInv'
  OBVIOUS
<1>1. /\ UNCHANGED <<world, policy, run>>
      /\ \/ pc = "patch" /\ pc' = "decide" /\ ready = <<>>
         \/ pc = "decide" /\ pc' = "done"
         \/ pc' = pc
  BY DEF PatchesRead, DecideCollected, PrMoves, World, Go, vars
<1>2. FilesOk' /\ ManifestsOk' /\ ApiOk'
  BY <1>1, KeepsFiles, KeepsManifests, KeepsApi DEF WholeInv, run
<1>3. WorldOk'
  BY <1>1 DEF WholeInv, WorldOk, RequireGit, run
<1>4. StartOk' /\ WholeOk'
  BY <1>1, SameChange DEF WholeInv, StartOk, WholeOk, run
<1>5. ScanOk'
  <2>1. ready = <<>> => ToSet(ready) = {}
    BY EmptyToSet
  <2>2. UNCHANGED <<files, ready, api, failures>>
    BY <1>1 DEF run
  <2>3. /\ \A f : Given(f)' <=> Given(f)
        /\ \A f : Scannable(f)' <=> Scannable(f)
        /\ ToSet(files)' = ToSet(files) /\ ToSet(ready)' = ToSet(ready)
    BY <2>2 DEF Given, ApiFact, Scannable, HasRule
  <2>4. ScanOk
    BY DEF WholeInv
  <2> QED
    BY <1>1, <2>1, <2>2, <2>3, <2>4 DEF ScanOk
<1> QED
  BY <1>2, <1>3, <1>4, <1>5 DEF WholeInv

LEMMA NextWhole == IInv /\ WholeInv /\ [Next]_vars => WholeInv'
BY EarlyWhole, RemoteWhole, ResolveWhole, ViewWhole, VerifyWhole, MergeBaseWhole, DiffWhole, LargeWhole,
   ManifestsWhole, SelectWhole, PatchWhole, LastWhole DEF Next, Collect

(* What a check has read so far is the change itself.                           *)
THEOREM WholeInvariance == Spec => []WholeInv
BY InitWhole, NextWhole, Invariance, PTL DEF Spec
--------------------------------------------------------------------------------
(* The community modules' sum is such a sum, for each term the gate adds up:    *)
(* lines, and the names a set of files gains on balance.                        *)
Gain(added, removed) ==
    IF Cardinality(added) - Cardinality(removed) > 0 THEN Cardinality(added) - Cardinality(removed) ELSE 0
Named(D, n) == {d \in D : d[2].name = n}
Gained(added, removed, n) == Gain(Named(added, n), Named(removed, n))
Additions(S) == MapThenSumSet(LAMBDA f : f.additions, S)
Deletions(S) == MapThenSumSet(LAMBDA f : f.deletions, S)
Gains(added, removed, S) == MapThenSumSet(LAMBDA n : Gained(added, removed, n), S)

LEMMA SumOfAdditions ==
    ASSUME NEW S, IsFiniteSet(S)
    PROVE  \E h : SumTo(h, [f \in S |-> f.additions], S) /\ h[S] = Additions(S)
<1> DEFINE g == [f \in S |-> f.additions]
           term(s) == LET f == CHOOSE x \in s : TRUE IN f.additions
           IsIter(h) == h = [s \in SUBSET S |-> IF s = {} THEN 0 ELSE term(s) + h[s \ {CHOOSE x \in s : TRUE}]]
           iter == CHOOSE h : IsIter(h)
<1>1. Additions(S) = iter[S]
  BY DEF Additions, MapThenSumSet, MapThenFoldSet
<1>2. \A h : SumTo(h, g, S) <=> IsIter(h)
  <2>1. ASSUME NEW s \in SUBSET S, s # {} PROVE g[Pick(s)] = term(s)
    <3>1. Pick(s) \in S
      BY <2>1 DEF Pick
    <3> QED
      BY <3>1 DEF Pick
  <2> HIDE DEF g, term
  <2>2. ASSUME NEW h
        PROVE  [s \in SUBSET S |-> IF s = {} THEN 0 ELSE g[Pick(s)] + h[s \ {Pick(s)}]]
               = [s \in SUBSET S |-> IF s = {} THEN 0 ELSE term(s) + h[s \ {CHOOSE x \in s : TRUE}]]
    BY <2>1 DEF Pick
  <2> QED
    BY <2>2 DEF SumTo
<1>3. \E h : SumTo(h, g, S)
  BY SumExists
<1>4. SumTo(iter, g, S)
  <2> HIDE DEF IsIter, g
  <2> QED
    BY <1>2, <1>3
<1> HIDE DEF iter
<1> QED
  BY <1>1, <1>4

LEMMA SumOfDeletions ==
    ASSUME NEW S, IsFiniteSet(S)
    PROVE  \E h : SumTo(h, [f \in S |-> f.deletions], S) /\ h[S] = Deletions(S)
<1> DEFINE g == [f \in S |-> f.deletions]
           term(s) == LET f == CHOOSE x \in s : TRUE IN f.deletions
           IsIter(h) == h = [s \in SUBSET S |-> IF s = {} THEN 0 ELSE term(s) + h[s \ {CHOOSE x \in s : TRUE}]]
           iter == CHOOSE h : IsIter(h)
<1>1. Deletions(S) = iter[S]
  BY DEF Deletions, MapThenSumSet, MapThenFoldSet
<1>2. \A h : SumTo(h, g, S) <=> IsIter(h)
  <2>1. ASSUME NEW s \in SUBSET S, s # {} PROVE g[Pick(s)] = term(s)
    <3>1. Pick(s) \in S
      BY <2>1 DEF Pick
    <3> QED
      BY <3>1 DEF Pick
  <2> HIDE DEF g, term
  <2>2. ASSUME NEW h
        PROVE  [s \in SUBSET S |-> IF s = {} THEN 0 ELSE g[Pick(s)] + h[s \ {Pick(s)}]]
               = [s \in SUBSET S |-> IF s = {} THEN 0 ELSE term(s) + h[s \ {CHOOSE x \in s : TRUE}]]
    BY <2>1 DEF Pick
  <2> QED
    BY <2>2 DEF SumTo
<1>3. \E h : SumTo(h, g, S)
  BY SumExists
<1>4. SumTo(iter, g, S)
  <2> HIDE DEF IsIter, g
  <2> QED
    BY <1>2, <1>3
<1> HIDE DEF iter
<1> QED
  BY <1>1, <1>4

LEMMA SumOfGains ==
    ASSUME NEW added, NEW removed, NEW S, IsFiniteSet(S)
    PROVE  \E h : SumTo(h, [n \in S |-> Gained(added, removed, n)], S) /\ h[S] = Gains(added, removed, S)
<1> DEFINE g == [n \in S |-> Gained(added, removed, n)]
           term(s) == LET n == CHOOSE x \in s : TRUE IN Gained(added, removed, n)
           IsIter(h) == h = [s \in SUBSET S |-> IF s = {} THEN 0 ELSE term(s) + h[s \ {CHOOSE x \in s : TRUE}]]
           iter == CHOOSE h : IsIter(h)
<1>1. Gains(added, removed, S) = iter[S]
  BY DEF Gains, MapThenSumSet, MapThenFoldSet
<1>2. \A h : SumTo(h, g, S) <=> IsIter(h)
  <2>1. ASSUME NEW s \in SUBSET S, s # {} PROVE g[Pick(s)] = term(s)
    <3>1. Pick(s) \in S
      BY <2>1 DEF Pick
    <3> QED
      BY <3>1 DEF Pick
  <2> HIDE DEF g, term
  <2>2. ASSUME NEW h
        PROVE  [s \in SUBSET S |-> IF s = {} THEN 0 ELSE g[Pick(s)] + h[s \ {Pick(s)}]]
               = [s \in SUBSET S |-> IF s = {} THEN 0 ELSE term(s) + h[s \ {CHOOSE x \in s : TRUE}]]
    BY <2>1 DEF Pick
  <2> QED
    BY <2>2 DEF SumTo
<1>3. \E h : SumTo(h, g, S)
  BY SumExists
<1>4. SumTo(iter, g, S)
  <2> HIDE DEF IsIter, g
  <2> QED
    BY <1>2, <1>3
<1> HIDE DEF iter
<1> QED
  BY <1>1, <1>4

LEMMA NetIsSum == ASSUME NEW added, NEW removed PROVE Net(added, removed) = Gains(added, removed, {d[2].name : d \in added})
BY DEF Net, Gains, Gained, Gain, Named

CountedFacts(x) == {a \in api : ApiCounted(a.path, x)}

LEMMA MeasuresAreSums ==
    ASSUME NEW x
    PROVE  /\ MetricsOf(Evidence, x).net_lines = Additions(LineFiles(Evidence, x)) - Deletions(LineFiles(Evidence, x))
           /\ MetricsOf(Evidence, x).churn = Additions(LineFiles(Evidence, x)) + Deletions(LineFiles(Evidence, x))
           /\ MetricsOf(Evidence, x).new_files = Cardinality(NewFiles(Evidence, x))
           /\ MetricsOf(Evidence, x).new_deps = Cardinality(NewDeps(Evidence, x))
           /\ MetricsOf(Evidence, x).new_public_api =
                 Net(Declared(CountedFacts(x), "added"), Declared(CountedFacts(x), "removed"))
                 + Cardinality(NewExecutables(Evidence, x))
<1>1. NetApi(Evidence, x) = Net(Declared(CountedFacts(x), "added"), Declared(CountedFacts(x), "removed"))
                            + Cardinality(NewExecutables(Evidence, x))
  <2>1. CountedFacts(x) = {a \in Evidence.api : ApiCounted(a.path, x)}
    BY DEF CountedFacts, Evidence
  <2> QED
    BY <2>1 DEF NetApi
<1> QED
  BY <1>1 DEF MetricsOf, Additions, Deletions

(* The entries of the change whose lines and whose names count.                 *)
LineEntries(x) ==
    {e \in Changed : ~e.binary /\ "160000" \notin {e.oldMode, e.newMode} /\ e.path \notin Lockfiles \cup x}
ScannedEntries(x) == {e \in Changed : Scanned(e) /\ ApiCounted(e.path, x)}

LEMMA TrueMeasuresAreSums ==
    ASSUME NEW x
    PROVE  /\ TrueLines(x)[1] = Additions(LineEntries(x)) /\ TrueLines(x)[2] = Deletions(LineEntries(x))
           /\ TrueApi(x) = Net(Declared(ScannedEntries(x), "apiAdded"), Declared(ScannedEntries(x), "apiRemoved"))
                           + Cardinality(NewExecutables([files |-> Changed], x))
<1>1. TrueLines(x)[1] = Additions(LineEntries(x)) /\ TrueLines(x)[2] = Deletions(LineEntries(x))
  BY DEF TrueLines, LineEntries, Additions, Deletions
<1> QED
  BY <1>1 DEF TrueApi, ScannedEntries
--------------------------------------------------------------------------------
(* Everything a check collects is finite, so what it measures are numbers.      *)
LEMMA FiniteImage ==
    ASSUME NEW S, IsFiniteSet(S), NEW f
    PROVE  IsFiniteSet({f[x] : x \in S})
<1> DEFINE T == {f[x] : x \in S}
           g == [x \in S |-> f[x]]
<1>1. g \in [S -> T] /\ \A t \in T : \E s \in S : g[s] = t
  OBVIOUS
<1> HIDE DEF T, g
<1>2. g \in Surjection(S, T)
  BY <1>1 DEF Surjection
<1>3. IsFiniteSet(T)
  BY <1>2, FS_Surjection
<1> QED
  BY <1>3 DEF T

LEMMA SameSize ==
    ASSUME NEW S, IsFiniteSet(S), NEW f, \A x, y \in S : f[x] = f[y] => x = y
    PROVE  Cardinality({f[x] : x \in S}) = Cardinality(S)
<1> DEFINE T == {f[x] : x \in S}
           g == [x \in S |-> f[x]]
<1>1. g \in [S -> T] /\ (\A t \in T : \E s \in S : g[s] = t) /\ (\A x, y \in S : g[x] = g[y] => x = y)
  OBVIOUS
<1> HIDE DEF T, g
<1>2. g \in Surjection(S, T) /\ g \in Injection(S, T)
  BY <1>1 DEF Surjection, Injection, IsInjective
<1>3. Cardinality(T) = Cardinality(S)
  BY <1>2, FS_Surjection
<1> QED
  BY <1>3 DEF T

LEMMA SeqFinite ==
    ASSUME NEW T, NEW s \in Seq(T)
    PROVE  IsFiniteSet(ToSet(s))
<1>1. Len(s) \in Nat /\ ToSet(s) = {s[i] : i \in 1..Len(s)}
  BY DEF ToSet
<1>2. IsFiniteSet(1..Len(s))
  <2>1. PICK n \in Nat : n = Len(s)
    BY <1>1
  <2>2. IsFiniteSet(1..n)
    BY <2>1, FS_Interval, SMTT(60)
  <2> QED
    BY <2>1, <2>2
<1>3. IsFiniteSet({s[i] : i \in 1..Len(s)})
  BY <1>2, FiniteImage
<1> QED
  BY <1>1, <1>3

LEMMA ChangedFinite ==
    ASSUME base \in Commits, head \in Commits
    PROVE  IsFiniteSet(Changed)
<1>1. GitDiff \in Seq(ToSet(GitDiff))
  BY InputsAssumption DEF GitDiff, MergeBaseCommit
<1> QED
  BY <1>1, SeqFinite DEF Changed

LEMMA ManifestFinite ==
    ASSUME base \in Commits, head \in Commits, NEW f \in ManifestFiles, NEW m \in {ManifestOf(f), Unread(f)}
    PROVE  /\ IsFiniteSet(m.added) /\ m.unverifiable \in BOOLEAN
           /\ \A d \in m.added \cup m.removed : DepEntryOk(d)
<1>1. PICK d \in Changed : f = FileFact(d)
  BY DEF ManifestFiles
<1>2. f.git = d
  BY <1>1 DEF FileFact
<1>3. ClassesKnown(d.oldDeps) /\ ClassesKnown(d.newDeps)
  BY <1>1, ChangeKnown
<1>4. CASE m = Unread(f)
  BY <1>4, FS_EmptySet DEF Unread
<1>5. CASE m # Unread(f)
  <2> DEFINE was == IF SameKind(f) THEN d.oldDeps ELSE {}
             now == d.newDeps
             names == DiffNames(EntryMap(was), EntryMap(now))
  <2>1. /\ m = [path |-> f.path, added |-> names.added, removed |-> names.removed, unverifiable |-> FALSE]
        /\ now # Null /\ was # Null
    BY <1>2, <1>5 DEF ManifestOf, ReadManifest
  <2>2. names.added \subseteq now /\ names.removed \subseteq was
    BY DEF DiffNames, EntryMap
  <2>3. IsFiniteSet(now) /\ (\A a \in now : DepEntryOk(a)) /\ (\A a \in was : DepEntryOk(a))
    BY <1>3, <2>1 DEF ClassesKnown
  <2> HIDE DEF names, was, now
  <2>4. IsFiniteSet(names.added)
    BY <2>2, <2>3, FS_Subset
  <2> QED
    BY <2>1, <2>2, <2>3, <2>4
<1> QED
  BY <1>4, <1>5

LEMMA EvidenceFinite ==
    ASSUME WholeInv, base \in Commits, head \in Commits
    PROVE  /\ IsFiniteSet(ToSet(files)) /\ IsFiniteSet(manifests) /\ IsFiniteSet(api)
           /\ \A m \in manifests : IsFiniteSet(m.added)
           /\ \A a \in api : IsFiniteSet(a.added) /\ IsFiniteSet(a.removed)
<1>1. IsFiniteSet(Changed)
  BY ChangedFinite
<1>2. IsFiniteSet(ToSet(files))
  BY SeqFinite DEF WholeInv, FilesOk
<1>3. IsFiniteSet(manifests)
  <2> DEFINE of == [d \in Changed |-> ManifestOf(FileFact(d))]
             un == [d \in Changed |-> Unread(FileFact(d))]
  <2>1. \A m \in manifests : m \in {of[d] : d \in Changed} \cup {un[d] : d \in Changed}
    BY DEF WholeInv, ManifestsOk, ManifestFiles
  <2> HIDE DEF of, un
  <2>2. IsFiniteSet({of[d] : d \in Changed}) /\ IsFiniteSet({un[d] : d \in Changed})
    BY <1>1, FiniteImage
  <2>3. IsFiniteSet({of[d] : d \in Changed} \cup {un[d] : d \in Changed})
    BY <2>2, FS_Union
  <2> QED
    BY <2>1, <2>3, FS_Subset
<1>4. IsFiniteSet(api)
  <2> DEFINE g == [d \in Changed |-> ApiFact(d)]
  <2>1. \A a \in api : a \in {g[d] : d \in Changed}
    BY DEF WholeInv, ApiOk
  <2> HIDE DEF g
  <2>2. IsFiniteSet({g[d] : d \in Changed})
    BY <1>1, FiniteImage
  <2> QED
    BY <2>1, <2>2, FS_Subset
<1>5. \A m \in manifests : IsFiniteSet(m.added)
  BY ManifestFinite DEF WholeInv, ManifestsOk
<1>6. ASSUME NEW a \in api PROVE IsFiniteSet(a.added) /\ IsFiniteSet(a.removed)
  <2>1. PICK d \in Changed : a = ApiFact(d)
    BY DEF WholeInv, ApiOk
  <2>2. IsFiniteSet(d.apiAdded) /\ IsFiniteSet(d.apiRemoved)
    BY ChangeKnown
  <2> QED
    BY <2>1, <2>2 DEF ApiFact
<1> QED
  BY <1>2, <1>3, <1>4, <1>5, <1>6

LEMMA SumIsNumber ==
    ASSUME NEW S, IsFiniteSet(S), NEW g \in [S -> Int], NEW h, SumTo(h, g, S)
    PROVE  h[S] \in Int
<1>1. Adds(h, g, S)
  BY SumFacts
<1> QED
  BY <1>1 DEF Adds

LEMMA GainIsNumber ==
    ASSUME NEW S, NEW T, IsFiniteSet(S), IsFiniteSet(T)
    PROVE  Gain(S, T) \in Int
<1>1. Cardinality(S) \in Nat /\ Cardinality(T) \in Nat
  BY FS_CardinalityType
<1>2. Cardinality(S) - Cardinality(T) \in Int
  BY <1>1
<1> QED
  BY <1>2 DEF Gain

LEMMA DeclaredFinite ==
    ASSUME NEW S, IsFiniteSet(S), NEW side, \A c \in S : IsFiniteSet(c[side])
    PROVE  IsFiniteSet(Declared(S, side))
<1> DEFINE g == [c \in S |-> {<<c.path, d>> : d \in c[side]}]
<1>1. Declared(S, side) = UNION {g[c] : c \in S}
  <2>1. {g[c] : c \in S} = {{<<c.path, d>> : d \in c[side]} : c \in S}
    OBVIOUS
  <2> HIDE DEF g
  <2> QED
    BY <2>1 DEF Declared
<1>2. ASSUME NEW c \in S PROVE IsFiniteSet(g[c])
  <2> DEFINE at == c.path
             D == c[side]
             k == [d \in D |-> <<at, d>>]
  <2>1. g[c] = {k[d] : d \in D}
    OBVIOUS
  <2>2. IsFiniteSet(D)
    OBVIOUS
  <2> HIDE DEF k, D, at
  <2>3. IsFiniteSet({k[d] : d \in D})
    BY <2>2, FiniteImage
  <2> QED
    BY <2>1, <2>3
<1> HIDE DEF g
<1>3. IsFiniteSet({g[c] : c \in S})
  BY FiniteImage
<1>4. IsFiniteSet(UNION {g[c] : c \in S})
  BY <1>2, <1>3, FS_UNION
<1> QED
  BY <1>1, <1>4

LEMMA NetIsNumber ==
    ASSUME NEW added, NEW removed, IsFiniteSet(added), IsFiniteSet(removed)
    PROVE  Net(added, removed) \in Int
<1> DEFINE of == [d \in added |-> d[2].name]
           U == {d[2].name : d \in added}
<1>1. IsFiniteSet(U)
  <2>1. U = {of[d] : d \in added}
    OBVIOUS
  <2> HIDE DEF of
  <2>2. IsFiniteSet({of[d] : d \in added})
    BY FiniteImage
  <2> QED
    BY <2>1, <2>2
<1>2. ASSUME NEW n PROVE Gained(added, removed, n) \in Int
  <2>1. IsFiniteSet(Named(added, n)) /\ IsFiniteSet(Named(removed, n))
    BY FS_Subset DEF Named
  <2> QED
    BY <2>1, GainIsNumber DEF Gained
<1> HIDE DEF U
<1>3. PICK h : SumTo(h, [n \in U |-> Gained(added, removed, n)], U) /\ h[U] = Gains(added, removed, U)
  BY <1>1, SumOfGains
<1>4. [n \in U |-> Gained(added, removed, n)] \in [U -> Int]
  BY <1>2
<1>5. h[U] \in Int
  BY <1>1, <1>3, <1>4, SumIsNumber
<1>6. Net(added, removed) = Gains(added, removed, U)
  BY NetIsSum DEF U
<1> QED
  BY <1>3, <1>5, <1>6

LEMMA NewDepsFinite ==
    ASSUME NEW x, IsFiniteSet(manifests), \A m \in manifests : IsFiniteSet(m.added)
    PROVE  IsFiniteSet(NewDeps(Evidence, x))
<1> DEFINE M == {c \in CountedManifests(Evidence, x) : ~c.unverifiable}
           g == [m \in M |-> {<<m.path, d.name>> : d \in {a \in m.added : a.class = "remote"}}]
<1>1. NewDeps(Evidence, x) = UNION {g[m] : m \in M}
  <2>1. {g[m] : m \in M} = {{<<m.path, d.name>> : d \in {a \in m.added : a.class = "remote"}} : m \in M}
    OBVIOUS
  <2> HIDE DEF g
  <2> QED
    BY <2>1 DEF NewDeps
<1>2. IsFiniteSet(M)
  <2>1. M \subseteq manifests
    BY DEF CountedManifests, Evidence
  <2> QED
    BY <2>1, FS_Subset
<1>3. ASSUME NEW m \in M PROVE IsFiniteSet(g[m])
  <2> DEFINE R == {a \in m.added : a.class = "remote"}
             k == [d \in R |-> <<m.path, d.name>>]
  <2>1. m \in manifests
    BY DEF CountedManifests, Evidence
  <2>2. IsFiniteSet(R)
    BY <2>1, FS_Subset
  <2>3. g[m] = {k[d] : d \in R}
    OBVIOUS
  <2> HIDE DEF k, R
  <2>4. IsFiniteSet({k[d] : d \in R})
    BY <2>2, FiniteImage
  <2> QED
    BY <2>3, <2>4
<1> HIDE DEF M, g
<1>4. IsFiniteSet({g[m] : m \in M})
  BY <1>2, FiniteImage
<1>5. IsFiniteSet(UNION {g[m] : m \in M})
  BY <1>3, <1>4, FS_UNION
<1> QED
  BY <1>1, <1>5

LEMMA MetricsAreNumbers ==
    ASSUME WholeInv, base \in Commits, head \in Commits, NEW x
    PROVE  \A k \in Measures : MetricsOf(Evidence, x)[k] \in Int
<1>1. /\ IsFiniteSet(ToSet(files)) /\ IsFiniteSet(manifests) /\ IsFiniteSet(api)
      /\ \A m \in manifests : IsFiniteSet(m.added)
      /\ \A a \in api : IsFiniteSet(a.added) /\ IsFiniteSet(a.removed)
  BY EvidenceFinite
<1>2. Additions(LineFiles(Evidence, x)) \in Int /\ Deletions(LineFiles(Evidence, x)) \in Int
  <2> DEFINE S == LineFiles(Evidence, x)
  <2>1. S \subseteq ToSet(files) /\ IsFiniteSet(S)
    BY <1>1, FS_Subset DEF LineFiles, Evidence
  <2> HIDE DEF S
  <2>2. ASSUME NEW f \in S PROVE f.additions \in Int /\ f.deletions \in Int
    <3>1. Fact(f)
      BY <2>1 DEF WholeInv, FilesOk
    <3>2. f.git \in Changed
      BY <3>1, FactFields
    <3>3. f.git.additions \in Nat /\ f.git.deletions \in Nat
      BY <3>2, ChangeKnown
    <3> QED
      BY <3>1, <3>3, FactFields
  <2>3. Additions(S) \in Int
    <3>1. PICK h : SumTo(h, [f \in S |-> f.additions], S) /\ h[S] = Additions(S)
      BY <2>1, SumOfAdditions
    <3>2. [f \in S |-> f.additions] \in [S -> Int]
      BY <2>2
    <3> QED
      BY <2>1, <3>1, <3>2, SumIsNumber
  <2>4. Deletions(S) \in Int
    <3>1. PICK h : SumTo(h, [f \in S |-> f.deletions], S) /\ h[S] = Deletions(S)
      BY <2>1, SumOfDeletions
    <3>2. [f \in S |-> f.deletions] \in [S -> Int]
      BY <2>2
    <3> QED
      BY <2>1, <3>1, <3>2, SumIsNumber
  <2> QED
    BY <2>3, <2>4 DEF S
<1>3. Cardinality(NewFiles(Evidence, x)) \in Int
  <2>1. NewFiles(Evidence, x) \subseteq ToSet(files)
    BY DEF NewFiles, Evidence
  <2>2. IsFiniteSet(NewFiles(Evidence, x))
    BY <1>1, <2>1, FS_Subset
  <2> QED
    BY <2>2, FS_CardinalityType
<1>4. Cardinality(NewDeps(Evidence, x)) \in Int
  BY <1>1, NewDepsFinite, FS_CardinalityType
<1>5. Cardinality(NewExecutables(Evidence, x)) \in Int
  <2>1. NewExecutables(Evidence, x) \subseteq ToSet(files)
    BY DEF NewExecutables, Evidence
  <2>2. IsFiniteSet(NewExecutables(Evidence, x))
    BY <1>1, <2>1, FS_Subset
  <2> QED
    BY <2>2, FS_CardinalityType
<1>6. Net(Declared(CountedFacts(x), "added"), Declared(CountedFacts(x), "removed")) \in Int
  <2>1. IsFiniteSet(CountedFacts(x))
    BY <1>1, FS_Subset DEF CountedFacts
  <2>2. \A a \in CountedFacts(x) : IsFiniteSet(a["added"]) /\ IsFiniteSet(a["removed"])
    BY <1>1 DEF CountedFacts
  <2>3. IsFiniteSet(Declared(CountedFacts(x), "added")) /\ IsFiniteSet(Declared(CountedFacts(x), "removed"))
    BY <2>1, <2>2, DeclaredFinite
  <2> QED
    BY <2>3, NetIsNumber
<1> QED
  BY <1>2, <1>3, <1>4, <1>5, <1>6, MeasuresAreSums DEF Measures
--------------------------------------------------------------------------------
(* When nothing failed, what was measured is what git knows of the change.      *)
LEMMA LineFact ==
    ASSUME NEW f, Fact(f), NEW x
    PROVE  ExcludeReason(f, x) = Null <=> f.git \in LineEntries(x)
<1>1. /\ f.git \in Changed /\ f.path = f.git.path /\ f.binary = f.git.binary
      /\ f.submodule = ("160000" \in {f.git.oldMode, f.git.newMode})
  BY FactFields
<1>2. f.git \in LineEntries(x) <=> ~f.submodule /\ ~f.binary /\ f.path \notin Lockfiles /\ f.path \notin x
  BY <1>1 DEF LineEntries
<1>3. Null \notin {"submodule", "lockfile", "user_glob", "binary"}
  BY NullAssumption DEF ExcludeReasons
<1>4. ExcludeReason(f, x) = Null <=> ~f.submodule /\ ~f.binary /\ f.path \notin Lockfiles /\ f.path \notin x
  BY <1>3 DEF ExcludeReason
<1> QED
  BY <1>2, <1>4

LEMMA LinesTrue ==
    ASSUME WholeInv, base \in Commits, head \in Commits, failures = {}, pc = "done", NEW x
    PROVE  /\ Additions(LineFiles(Evidence, x)) = Additions(LineEntries(x))
           /\ Deletions(LineFiles(Evidence, x)) = Deletions(LineEntries(x))
<1> DEFINE S == LineFiles(Evidence, x)
           T == LineEntries(x)
           h == [f \in S |-> f.git]
<1>1. \A f \in S : f \in ToSet(files) /\ Fact(f) /\ f.git \in T
  <2>1. ASSUME NEW f \in S PROVE f \in ToSet(files) /\ Fact(f) /\ ExcludeReason(f, x) = Null
    BY DEF LineFiles, Evidence, WholeInv, FilesOk
  <2> QED
    BY <2>1, LineFact
<1>2. \A d \in T : \E f \in S : f.git = d
  <2>1. ASSUME NEW d \in T PROVE \E f \in S : f.git = d
    <3>1. d \in Changed
      BY DEF LineEntries
    <3>2. PICK f \in ToSet(files) : f.git = d
      BY <3>1 DEF WholeInv, WholeOk
    <3>3. ExcludeReason(f, x) = Null
      BY <3>2, LineFact DEF WholeInv, FilesOk
    <3> QED
      BY <3>2, <3>3 DEF LineFiles, Evidence
  <2> QED
    BY <2>1
<1>3. IsFiniteSet(S) /\ IsFiniteSet(T)
  <2>1. S \subseteq ToSet(files) /\ T \subseteq Changed
    BY DEF LineFiles, LineEntries, Evidence
  <2> QED
    BY <2>1, EvidenceFinite, ChangedFinite, FS_Subset
<1>4. \A d \in T : d.additions \in Int /\ d.deletions \in Int /\ ~d.binary
  BY ChangeKnown DEF LineEntries
<1>5. \A f \in S : f.additions = f.git.additions /\ f.deletions = f.git.deletions
  BY <1>1, <1>4, FactFields
<1>6. \A f, g \in S : f.git = g.git => f = g
  BY <1>1 DEF WholeInv, FilesOk
<1> HIDE DEF S, T
<1>7. h \in [S -> T] /\ (\A f, g \in S : h[f] = h[g] => f = g) /\ {h[f] : f \in S} = T
  BY <1>1, <1>2, <1>6
<1>8. Additions(S) = Additions(T)
  <2> DEFINE g == [f \in S |-> f.additions]
             k == [d \in T |-> d.additions]
  <2>1. PICK u : SumTo(u, g, S) /\ u[S] = Additions(S)
    BY <1>3, SumOfAdditions
  <2>2. PICK v : SumTo(v, k, T) /\ v[T] = Additions(T)
    BY <1>3, SumOfAdditions
  <2>3. g \in [S -> Int] /\ k \in [T -> Int] /\ \A f \in S : g[f] = k[h[f]]
    BY <1>1, <1>4, <1>5
  <2> HIDE DEF g, k, h
  <2>4. u[S] = v[{h[f] : f \in S}]
    BY <1>3, <1>7, <2>1, <2>2, <2>3, SameSum
  <2> QED
    BY <1>7, <2>1, <2>2, <2>4
<1>9. Deletions(S) = Deletions(T)
  <2> DEFINE g == [f \in S |-> f.deletions]
             k == [d \in T |-> d.deletions]
  <2>1. PICK u : SumTo(u, g, S) /\ u[S] = Deletions(S)
    BY <1>3, SumOfDeletions
  <2>2. PICK v : SumTo(v, k, T) /\ v[T] = Deletions(T)
    BY <1>3, SumOfDeletions
  <2>3. g \in [S -> Int] /\ k \in [T -> Int] /\ \A f \in S : g[f] = k[h[f]]
    BY <1>1, <1>4, <1>5
  <2> HIDE DEF g, k, h
  <2>4. u[S] = v[{h[f] : f \in S}]
    BY <1>3, <1>7, <2>1, <2>2, <2>3, SameSum
  <2> QED
    BY <1>7, <2>1, <2>2, <2>4
<1> QED
  BY <1>8, <1>9 DEF S, T

(* The strongest class of a name keeps the name.                                *)
LEMMA EntryMapKeepsNames ==
    ASSUME NEW deps, \A a \in deps : DepEntryOk(a)
    PROVE  /\ EntryMap(deps) \subseteq deps /\ NamesIn(EntryMap(deps)) = NamesIn(deps)
           /\ \A a \in deps : a.class = "remote" => a \in EntryMap(deps)
<1>1. EntryMap(deps) \subseteq deps
  BY DEF EntryMap
<1>2. \A a \in deps : a.class \in {"remote", "indirect", "local"}
  BY DEF DepEntryOk
<1>3. Rank["local"] = 1 /\ Rank["indirect"] = 2 /\ Rank["remote"] = 3
  BY DEF Rank
<1>4. ASSUME NEW a \in deps, a.class = "remote" PROVE a \in EntryMap(deps)
  <2>1. ASSUME NEW b \in deps PROVE Rank[b.class] <= Rank[a.class]
    BY <1>2, <1>3, <1>4
  <2> QED
    BY <2>1 DEF EntryMap
<1>5. ASSUME NEW a \in deps PROVE \E b \in EntryMap(deps) : b.name = a.name
  <2>1. CASE \E b \in deps : b.name = a.name /\ b.class = "remote"
    BY <2>1, <1>4
  <2>2. CASE /\ ~\E b \in deps : b.name = a.name /\ b.class = "remote"
             /\ \E b \in deps : b.name = a.name /\ b.class = "indirect"
    <3>1. PICK b \in deps : b.name = a.name /\ b.class = "indirect"
      BY <2>2
    <3>2. ASSUME NEW c \in deps, c.name = b.name PROVE Rank[c.class] <= Rank[b.class]
      BY <1>2, <1>3, <2>2, <3>1, <3>2
    <3> QED
      BY <3>1, <3>2 DEF EntryMap
  <2>3. CASE ~\E b \in deps : b.name = a.name /\ b.class \in {"remote", "indirect"}
    <3>1. ASSUME NEW c \in deps, c.name = a.name PROVE Rank[c.class] <= Rank[a.class]
      <4>1. c.class = "local" /\ a.class = "local"
        BY <1>2, <2>3, <3>1
      <4> QED
        BY <4>1, <1>3
    <3> QED
      BY <3>1 DEF EntryMap
  <2> QED
    BY <2>1, <2>2, <2>3
<1>6. NamesIn(EntryMap(deps)) = NamesIn(deps)
  BY <1>1, <1>5 DEF NamesIn
<1> QED
  BY <1>1, <1>4, <1>6

(* What a manifest that could be read adds is what the change really adds.      *)
LEMMA ManifestReads ==
    ASSUME base \in Commits, head \in Commits, NEW d \in Changed, NEW m, m = ManifestOf(FileFact(d)), ~m.unverifiable
    PROVE  /\ m.path = d.path /\ ManifestKind[d.path] # "unsupported"
           /\ \A a : a \in m.added /\ a.class = "remote" <=>
                     /\ a \in d.newDeps /\ a.class = "remote"
                     /\ SameKind(d) => a.name \notin NamesIn(d.oldDeps)
<1> DEFINE f == FileFact(d)
           was == IF SameKind(f) THEN f.git.oldDeps ELSE {}
           now == f.git.newDeps
           names == DiffNames(EntryMap(was), EntryMap(now))
<1>1. f.git = d /\ f.path = d.path /\ f.oldPath = d.oldPath /\ f.status = d.status
  BY DEF FileFact
<1>2. SameKind(f) <=> SameKind(d)
  BY <1>1 DEF SameKind
<1>3. m # Unread(f)
  BY DEF Unread
<1>4. /\ ManifestKind[d.path] # "unsupported" /\ now # Null /\ was # Null
      /\ m = [path |-> f.path, added |-> names.added, removed |-> names.removed, unverifiable |-> FALSE]
  BY <1>1, <1>3 DEF ManifestOf, ReadManifest
<1>5. ClassesKnown(d.oldDeps) /\ ClassesKnown(d.newDeps)
  BY ChangeKnown
<1>6. (\A a \in now : DepEntryOk(a)) /\ (\A a \in was : DepEntryOk(a))
  BY <1>1, <1>4, <1>5 DEF ClassesKnown
<1>7. names.added = {e \in EntryMap(now) : e.name \notin NamesIn(EntryMap(was))}
  BY DEF DiffNames
<1>8. now = d.newDeps /\ was = IF SameKind(d) THEN d.oldDeps ELSE {}
  BY <1>1, <1>2
<1>9. m.path = d.path /\ m.added = names.added
  BY <1>1, <1>4
<1> HIDE DEF now, was, names
<1>10. /\ EntryMap(now) \subseteq now /\ \A a \in now : a.class = "remote" => a \in EntryMap(now)
       /\ NamesIn(EntryMap(was)) = NamesIn(was)
  BY <1>6, EntryMapKeepsNames
<1>11. NamesIn({}) = {}
  BY DEF NamesIn
<1> QED
  BY <1>4, <1>7, <1>8, <1>9, <1>10, <1>11

DepEntries(x) ==
    {e \in Changed : /\ e.status # "D" /\ "160000" \notin {e.oldMode, e.newMode}
                     /\ ManifestKind[e.path] \notin {"lockfile", "other", "unsupported"}
                     /\ ~ExcludedDepPath(e.path, x)}

LEMMA DepsTrue ==
    ASSUME WholeInv, base \in Commits, head \in Commits, failures = {}, pc = "done", NEW x,
           \A m \in CountedManifests(Evidence, x) : ~m.unverifiable
    PROVE  NewDeps(Evidence, x) = TrueDeps(x)
<1>1. manifests = {ManifestOf(f) : f \in ManifestFiles}
  BY DEF WholeInv, WholeOk
<1>2. \A d \in Changed : IsManifest(FileFact(d)) <=>
          /\ d.status # "D" /\ "160000" \notin {d.oldMode, d.newMode}
          /\ ManifestKind[d.path] \notin {"lockfile", "other"}
  BY DEF IsManifest, FileFact
<1>3. \A p : p \in NewDeps(Evidence, x) <=>
          \E m \in manifests : /\ ~ExcludedDepPath(m.path, x) /\ ~m.unverifiable
                               /\ \E a \in m.added : a.class = "remote" /\ p = <<m.path, a.name>>
  BY DEF NewDeps, CountedManifests, Evidence
<1>4. \A p : p \in TrueDeps(x) <=>
          \E d \in DepEntries(x) : \E a \in d.newDeps :
              /\ a.class = "remote" /\ (SameKind(d) => a.name \notin NamesIn(d.oldDeps)) /\ p = <<d.path, a.name>>
  BY DEF TrueDeps, DepEntries
<1>5. ASSUME NEW m \in manifests, ~ExcludedDepPath(m.path, x)
      PROVE  ~m.unverifiable /\ \E d \in DepEntries(x) : m = ManifestOf(FileFact(d))
  <2>1. ~m.unverifiable
    BY <1>5 DEF CountedManifests, Evidence
  <2>2. PICK d \in Changed : IsManifest(FileFact(d)) /\ m = ManifestOf(FileFact(d))
    BY <1>1 DEF ManifestFiles
  <2>3. m.path = d.path /\ ManifestKind[d.path] # "unsupported"
    BY <2>1, <2>2, ManifestReads
  <2> QED
    BY <1>2, <1>5, <2>1, <2>2, <2>3 DEF DepEntries
<1>6. ASSUME NEW d \in DepEntries(x)
      PROVE  /\ d \in Changed /\ ManifestOf(FileFact(d)) \in manifests /\ ManifestOf(FileFact(d)).path = d.path
             /\ ~ExcludedDepPath(d.path, x)
  <2>1. d \in Changed /\ IsManifest(FileFact(d)) /\ ~ExcludedDepPath(d.path, x)
    BY <1>2 DEF DepEntries
  <2>2. ManifestOf(FileFact(d)) \in manifests
    BY <1>1, <2>1 DEF ManifestFiles
  <2>3. ManifestOf(FileFact(d)).path = d.path
    BY DEF ManifestOf, ReadManifest, Unread, FileFact
  <2> QED
    BY <2>1, <2>2, <2>3
<1>7. ASSUME NEW p \in NewDeps(Evidence, x) PROVE p \in TrueDeps(x)
  <2>1. PICK m \in manifests : /\ ~ExcludedDepPath(m.path, x) /\ ~m.unverifiable
                               /\ \E a \in m.added : a.class = "remote" /\ p = <<m.path, a.name>>
    BY <1>3
  <2>2. PICK a \in m.added : a.class = "remote" /\ p = <<m.path, a.name>>
    BY <2>1
  <2>3. PICK d \in DepEntries(x) : m = ManifestOf(FileFact(d))
    BY <1>5, <2>1
  <2>4. d \in Changed
    BY DEF DepEntries
  <2>5. m.path = d.path /\ a \in d.newDeps /\ (SameKind(d) => a.name \notin NamesIn(d.oldDeps))
    BY <2>1, <2>2, <2>3, <2>4, ManifestReads
  <2> QED
    BY <1>4, <2>2, <2>5
<1>8. ASSUME NEW p \in TrueDeps(x) PROVE p \in NewDeps(Evidence, x)
  <2>1. PICK d \in DepEntries(x) : \E a \in d.newDeps :
              /\ a.class = "remote" /\ (SameKind(d) => a.name \notin NamesIn(d.oldDeps)) /\ p = <<d.path, a.name>>
    BY <1>4
  <2>2. PICK a \in d.newDeps :
              a.class = "remote" /\ (SameKind(d) => a.name \notin NamesIn(d.oldDeps)) /\ p = <<d.path, a.name>>
    BY <2>1
  <2>3. PICK m : m = ManifestOf(FileFact(d))
    OBVIOUS
  <2>4. d \in Changed /\ m \in manifests /\ m.path = d.path /\ ~ExcludedDepPath(m.path, x)
    BY <1>6, <2>3
  <2>5. ~m.unverifiable
    BY <1>5, <2>4
  <2>6. a \in m.added
    BY <2>2, <2>3, <2>4, <2>5, ManifestReads
  <2> QED
    BY <1>3, <2>2, <2>4, <2>5, <2>6
<1> QED
  BY <1>7, <1>8

(* The names of the files that were scanned add up to those of the change.      *)
LEMMA ScannedGiven ==
    ASSUME WholeInv, failures = {}, pc = "done", NEW x, UnmeasuredApi(Evidence, x) = {},
           NEW d \in ScannedEntries(x), d.apiAdded \cup d.apiRemoved # {}
    PROVE  ApiFact(d) \in CountedFacts(x)
<1>1. d \in Changed /\ Scanned(d) /\ ApiCounted(d.path, x)
  BY DEF ScannedEntries
<1>2. PICK f \in ToSet(files) : f.git = d
  BY <1>1 DEF WholeInv, WholeOk
<1>3. Fact(f)
  BY DEF WholeInv, FilesOk
<1>4. /\ f.path = d.path /\ f.oldPath = d.oldPath /\ f.binary = d.binary
      /\ f.submodule = ("160000" \in {d.oldMode, d.newMode})
  BY <1>2, <1>3, FactFields
<1>5. ~f.submodule /\ ~f.binary /\ HasRule(f) /\ ApiCounted(f.path, x)
  BY <1>1, <1>4 DEF Scanned, HasRule
<1>6. f.apiSkipped = Null
  BY <1>2, <1>5 DEF UnmeasuredApi, Evidence
<1>7. Given(f)
  BY <1>2, <1>5, <1>6 DEF Scannable, WholeInv, ScanOk
<1>8. ApiFact(d) \in api
  BY <1>2, <1>7 DEF Given
<1> QED
  BY <1>1, <1>8 DEF CountedFacts, ApiFact

LEMMA ApiTrue ==
    ASSUME WholeInv, failures = {}, pc = "done", NEW x, UnmeasuredApi(Evidence, x) = {}
    PROVE  /\ Declared(CountedFacts(x), "added") = Declared(ScannedEntries(x), "apiAdded")
           /\ Declared(CountedFacts(x), "removed") = Declared(ScannedEntries(x), "apiRemoved")
<1> DEFINE F == CountedFacts(x)
           E == ScannedEntries(x)
<1>1. \A a \in F : \E d \in E : a = ApiFact(d)
  <2>1. ASSUME NEW a \in F PROVE \E d \in E : a = ApiFact(d)
    <3>1. PICK d \in Changed : Scanned(d) /\ a = ApiFact(d)
      BY DEF WholeInv, ApiOk, CountedFacts
    <3>2. ApiCounted(d.path, x)
      BY <3>1 DEF CountedFacts, ApiFact
    <3> QED
      BY <3>1, <3>2 DEF ScannedEntries
  <2> QED
    BY <2>1
<1>2. \A d \in E : d.apiAdded \cup d.apiRemoved # {} => ApiFact(d) \in F
  BY ScannedGiven
<1>3. \A d : ApiFact(d).path = d.path /\ ApiFact(d).added = d.apiAdded /\ ApiFact(d).removed = d.apiRemoved
  BY DEF ApiFact
<1>4. /\ \A p : p \in Declared(F, "added") <=> \E a \in F : \E n \in a.added : p = <<a.path, n>>
      /\ \A p : p \in Declared(F, "removed") <=> \E a \in F : \E n \in a.removed : p = <<a.path, n>>
      /\ \A p : p \in Declared(E, "apiAdded") <=> \E d \in E : \E n \in d.apiAdded : p = <<d.path, n>>
      /\ \A p : p \in Declared(E, "apiRemoved") <=> \E d \in E : \E n \in d.apiRemoved : p = <<d.path, n>>
  BY DEF Declared
<1> HIDE DEF F, E
<1>5. Declared(F, "added") = Declared(E, "apiAdded")
  <2>1. ASSUME NEW p \in Declared(F, "added") PROVE p \in Declared(E, "apiAdded")
    BY <1>1, <1>3, <1>4
  <2>2. ASSUME NEW p \in Declared(E, "apiAdded") PROVE p \in Declared(F, "added")
    <3>1. PICK d \in E : \E n \in d.apiAdded : p = <<d.path, n>>
      BY <1>4
    <3>2. ApiFact(d) \in F
      BY <1>2, <3>1
    <3> QED
      BY <1>3, <1>4, <3>1, <3>2
  <2> QED
    BY <2>1, <2>2
<1>6. Declared(F, "removed") = Declared(E, "apiRemoved")
  <2>1. ASSUME NEW p \in Declared(F, "removed") PROVE p \in Declared(E, "apiRemoved")
    BY <1>1, <1>3, <1>4
  <2>2. ASSUME NEW p \in Declared(E, "apiRemoved") PROVE p \in Declared(F, "removed")
    <3>1. PICK d \in E : \E n \in d.apiRemoved : p = <<d.path, n>>
      BY <1>4
    <3>2. ApiFact(d) \in F
      BY <1>2, <3>1
    <3> QED
      BY <1>3, <1>4, <3>1, <3>2
  <2> QED
    BY <2>1, <2>2
<1> QED
  BY <1>5, <1>6 DEF F, E

(* As many files as entries, when each file of the one set has its entry in the *)
(* other and each entry its file.                                               *)
LEMMA SameFiles ==
    ASSUME WholeInv, base \in Commits, head \in Commits,
           NEW S \in SUBSET ToSet(files), NEW T,
           \A f \in S : f.git \in T, \A d \in T : \E f \in S : f.git = d
    PROVE  Cardinality(S) = Cardinality(T)
<1> DEFINE h == [f \in S |-> f.git]
<1>1. IsFiniteSet(S)
  BY EvidenceFinite, FS_Subset
<1>2. \A f, g \in S : h[f] = h[g] => f = g
  BY DEF WholeInv, FilesOk
<1>3. {h[f] : f \in S} = T
  OBVIOUS
<1> HIDE DEF h
<1>4. Cardinality({h[f] : f \in S}) = Cardinality(S)
  BY <1>1, <1>2, SameSize
<1> QED
  BY <1>3, <1>4

LEMMA FilesTrue ==
    ASSUME WholeInv, base \in Commits, head \in Commits, failures = {}, pc = "done", NEW x
    PROVE  /\ Cardinality(NewFiles(Evidence, x)) = Cardinality(TrueNewFiles(x))
           /\ Cardinality(NewExecutables(Evidence, x)) = Cardinality(NewExecutables([files |-> Changed], x))
<1>1. ASSUME NEW f \in ToSet(files)
      PROVE  /\ f.git \in Changed /\ f.path = f.git.path /\ f.status = f.git.status
             /\ f.oldMode = f.git.oldMode /\ f.newMode = f.git.newMode
             /\ f.submodule = ("160000" \in {f.git.oldMode, f.git.newMode})
  BY FactFields DEF WholeInv, FilesOk
<1>2. \A d \in Changed : \E f \in ToSet(files) : f.git = d
  BY DEF WholeInv, WholeOk
<1>3. Cardinality(NewFiles(Evidence, x)) = Cardinality(TrueNewFiles(x))
  <2> DEFINE S == NewFiles(Evidence, x)
             T == TrueNewFiles(x)
  <2>1. S \in SUBSET ToSet(files)
    BY DEF NewFiles, Evidence
  <2>2. ASSUME NEW f \in S PROVE f.git \in T
    BY <1>1, <2>1 DEF NewFiles, TrueNewFiles
  <2>3. ASSUME NEW d \in T PROVE \E f \in S : f.git = d
    <3>1. d \in Changed
      BY DEF TrueNewFiles
    <3>2. PICK f \in ToSet(files) : f.git = d
      BY <1>2, <3>1
    <3>3. f \in S
      BY <1>1, <3>2 DEF NewFiles, TrueNewFiles, Evidence
    <3> QED
      BY <3>2, <3>3
  <2> HIDE DEF S, T
  <2> QED
    BY <2>1, <2>2, <2>3, SameFiles DEF S, T
<1>4. Cardinality(NewExecutables(Evidence, x)) = Cardinality(NewExecutables([files |-> Changed], x))
  <2> DEFINE S == NewExecutables(Evidence, x)
             T == NewExecutables([files |-> Changed], x)
  <2>1. S \in SUBSET ToSet(files)
    BY DEF NewExecutables, Evidence
  <2>2. ASSUME NEW f \in S PROVE f.git \in T
    BY <1>1, <2>1 DEF NewExecutables
  <2>3. ASSUME NEW d \in T PROVE \E f \in S : f.git = d
    <3>1. d \in Changed
      BY DEF NewExecutables
    <3>2. PICK f \in ToSet(files) : f.git = d
      BY <1>2, <3>1
    <3>3. f \in S
      BY <1>1, <3>2 DEF NewExecutables, Evidence
    <3> QED
      BY <3>2, <3>3
  <2> HIDE DEF S, T
  <2> QED
    BY <2>1, <2>2, <2>3, SameFiles DEF S, T
<1> QED
  BY <1>3, <1>4
--------------------------------------------------------------------------------
(* A verdict that calls its evidence complete has no reason against it.         *)
LEMMA CompleteFacts ==
    ASSUME NEW e, NEW p, Decide(e, p).evidenceComplete
    PROVE  e.failures = {} /\ \A m \in CountedManifests(e, p.exclude) : ~m.unverifiable
<1> DEFINE x == p.exclude
           reasons == Budget(MetricsOf(e, x), p) \cup EvidenceReasons(e, x) \cup InfoReasons(e, x) \cup PrReasons(e)
<1>1. reasons \cap ReasonClass.evidence = {}
  BY DEF Decide
<1>2. "deps_unverifiable" \notin EvidenceReasons(e, x) /\ "evidence_incomplete" \notin EvidenceReasons(e, x)
  <2>1. "deps_unverifiable" \in ReasonClass.evidence /\ "evidence_incomplete" \in ReasonClass.evidence
    BY DEF ReasonClass
  <2> QED
    BY <1>1, <2>1
<1> HIDE DEF reasons
<1>3. ~(\E m \in CountedManifests(e, x) : m.unverifiable) /\ e.failures = {}
  BY <1>2, IfFacts DEF EvidenceReasons
<1> QED
  BY <1>3

LEMMA CoverageFacts ==
    ASSUME NEW e, NEW p, "api_coverage_partial" \notin Decide(e, p).reasons
    PROVE  UnmeasuredApi(e, p.exclude) = {}
BY IfFacts DEF Decide, InfoReasons

(* What a check that has answered is in, by both invariants.                    *)
LEMMA Answered ==
    ASSUME IInv, WholeInv, verdict # Null
    PROVE  pc = "done" /\ verdict = Decide(Evidence, policy) /\ base \in Commits /\ head \in Commits
BY DEF IInv, VerdictOk, WholeInv, WorldOk

(* What is measured when nothing failed is what the change really holds.        *)
LEMMA MeasuredIsTrue ==
    ASSUME WholeInv, base \in Commits, head \in Commits, failures = {}, pc = "done", NEW x,
           \A m \in CountedManifests(Evidence, x) : ~m.unverifiable
    PROVE  LET m == MetricsOf(Evidence, x) IN
           /\ m.new_deps = Cardinality(TrueDeps(x)) /\ m.new_files = Cardinality(TrueNewFiles(x))
           /\ m.net_lines = TrueLines(x)[1] - TrueLines(x)[2] /\ m.churn = TrueLines(x)[1] + TrueLines(x)[2]
           /\ UnmeasuredApi(Evidence, x) = {} => m.new_public_api = TrueApi(x)
<1> DEFINE m == MetricsOf(Evidence, x)
<1>1. /\ m.net_lines = Additions(LineFiles(Evidence, x)) - Deletions(LineFiles(Evidence, x))
      /\ m.churn = Additions(LineFiles(Evidence, x)) + Deletions(LineFiles(Evidence, x))
      /\ m.new_files = Cardinality(NewFiles(Evidence, x)) /\ m.new_deps = Cardinality(NewDeps(Evidence, x))
      /\ m.new_public_api = Net(Declared(CountedFacts(x), "added"), Declared(CountedFacts(x), "removed"))
                            + Cardinality(NewExecutables(Evidence, x))
  BY MeasuresAreSums
<1>2. /\ TrueLines(x)[1] = Additions(LineEntries(x)) /\ TrueLines(x)[2] = Deletions(LineEntries(x))
      /\ TrueApi(x) = Net(Declared(ScannedEntries(x), "apiAdded"), Declared(ScannedEntries(x), "apiRemoved"))
                      + Cardinality(NewExecutables([files |-> Changed], x))
  BY TrueMeasuresAreSums
<1>3. /\ Additions(LineFiles(Evidence, x)) = Additions(LineEntries(x))
      /\ Deletions(LineFiles(Evidence, x)) = Deletions(LineEntries(x))
  BY LinesTrue
<1>4. NewDeps(Evidence, x) = TrueDeps(x)
  BY DepsTrue
<1>5. /\ Cardinality(NewFiles(Evidence, x)) = Cardinality(TrueNewFiles(x))
      /\ Cardinality(NewExecutables(Evidence, x)) = Cardinality(NewExecutables([files |-> Changed], x))
  BY FilesTrue
<1> HIDE DEF m
<1>6. ASSUME UnmeasuredApi(Evidence, x) = {} PROVE m.new_public_api = TrueApi(x)
  <2>1. /\ Declared(CountedFacts(x), "added") = Declared(ScannedEntries(x), "apiAdded")
        /\ Declared(CountedFacts(x), "removed") = Declared(ScannedEntries(x), "apiRemoved")
    BY <1>6, ApiTrue
  <2> QED
    BY <1>1, <1>2, <1>5, <2>1
<1>7. m.new_deps = Cardinality(TrueDeps(x)) /\ m.new_files = Cardinality(TrueNewFiles(x))
  BY <1>1, <1>4, <1>5
<1>8. m.net_lines = TrueLines(x)[1] - TrueLines(x)[2] /\ m.churn = TrueLines(x)[1] + TrueLines(x)[2]
  BY <1>1, <1>2, <1>3
<1> QED
  BY <1>6, <1>7, <1>8 DEF m

(* A verdict that calls its evidence complete measured the whole change: no     *)
(* line, file, dependency or (when coverage is complete) API name was lost to a *)
(* call that failed, a blob that is not local, or a chunk that was skipped.     *)
THEOREM CompleteIsTrue == Spec => []CompleteEvidenceIsTrue
<1>1. IInv /\ WholeInv => CompleteEvidenceIsTrue
  <2> SUFFICES ASSUME IInv, WholeInv, verdict # Null, verdict.evidenceComplete
               PROVE  LET x == policy.exclude
                          m == verdict.metrics IN
                      /\ m.new_deps = Cardinality(TrueDeps(x)) /\ m.new_files = Cardinality(TrueNewFiles(x))
                      /\ m.net_lines = TrueLines(x)[1] - TrueLines(x)[2]
                      /\ m.churn = TrueLines(x)[1] + TrueLines(x)[2]
                      /\ "api_coverage_partial" \notin verdict.reasons => m.new_public_api = TrueApi(x)
    BY DEF CompleteEvidenceIsTrue
  <2> DEFINE x == policy.exclude
  <2>1. pc = "done" /\ verdict = Decide(Evidence, policy) /\ base \in Commits /\ head \in Commits
    BY Answered
  <2>2. failures = {} /\ \A c \in CountedManifests(Evidence, x) : ~c.unverifiable
    <3>1. Evidence.failures = {} /\ \A c \in CountedManifests(Evidence, x) : ~c.unverifiable
      BY <2>1, CompleteFacts
    <3> QED
      BY <3>1 DEF Evidence
  <2>3. verdict.metrics = MetricsOf(Evidence, x)
    BY <2>1 DEF Decide
  <2>4. "api_coverage_partial" \notin verdict.reasons => UnmeasuredApi(Evidence, x) = {}
    BY <2>1, CoverageFacts
  <2> HIDE DEF x
  <2> QED
    BY <2>1, <2>2, <2>3, <2>4, MeasuredIsTrue DEF x
<1> QED
  BY <1>1, Invariance, WholeInvariance, PTL

(* A verdict on a pull request speaks of one state it really had while the      *)
(* check ran: the signals, the commits and the files all belong to it.          *)
THEOREM SnapshotHolds == Spec => []OneSnapshot
<1>1. IInv /\ WholeInv /\ SignalsOfOneState => OneSnapshot
  <2> SUFFICES ASSUME IInv, WholeInv, verdict # Null
               PROVE  {f.git : f \in ToSet(files)} \subseteq ToSet(Diff[MergeBaseOf[verdict.base][verdict.head]][verdict.head])
    BY DEF OneSnapshot
  <2>1. verdict.base = base /\ verdict.head = head
    BY Answered DEF Decide, Evidence
  <2>2. \A f \in ToSet(files) : f.git \in Changed
    BY DEF WholeInv, FilesOk, Fact
  <2> QED
    BY <2>1, <2>2 DEF Changed, GitDiff, MergeBaseCommit
<1> QED
  BY <1>1, Invariance, WholeInvariance, OneState, PTL

(* What a check records passes the validation of a replay.                      *)
LEMMA EvidenceIsValid ==
    ASSUME WholeInv, base \in Commits, head \in Commits
    PROVE  ValidateEvidence(Evidence)
<1>1. ASSUME NEW f \in ToSet(files) PROVE FileFactOk(f)
  <2>1. Fact(f)
    BY DEF WholeInv, FilesOk
  <2>2. f.git \in Changed
    BY <2>1, FactFields
  <2>3. f.git.additions \in Nat /\ f.git.deletions \in Nat /\ f.git.binary \in BOOLEAN
    BY <2>2, ChangeKnown
  <2>4. f.additions \in Nat /\ f.deletions \in Nat
    BY <2>1, <2>3, FactFields
  <2>5. f.binary \in BOOLEAN /\ f.submodule \in BOOLEAN
    <3>1. f.binary = f.git.binary /\ f.submodule = ("160000" \in {f.git.oldMode, f.git.newMode})
      BY <2>1, FactFields
    <3>2. ("160000" \in {f.git.oldMode, f.git.newMode}) \in BOOLEAN
      OBVIOUS
    <3> QED
      BY <2>3, <3>1, <3>2
  <2>6. f.status \in {"A", "M", "D", "R", "T"} /\ f.apiSkipped \in {Null} \cup ApiSkips
    BY <2>1, FactFields DEF StatusOk
  <2> QED
    BY <2>4, <2>5, <2>6 DEF FileFactOk
<1>2. ASSUME NEW m \in manifests
      PROVE  (\A d \in m.added \cup m.removed : DepEntryOk(d)) /\ m.unverifiable \in BOOLEAN
  BY ManifestFinite DEF WholeInv, ManifestsOk
<1>3. (failures = {}) \in BOOLEAN /\ renameSkipped \in BOOLEAN
  BY DEF WholeInv, WholeOk
<1>4. /\ Evidence.files = ToSet(files) /\ Evidence.manifests = manifests
      /\ Evidence.complete = (failures = {}) /\ Evidence.renameSkipped = renameSkipped
  BY DEF Evidence
<1> QED
  BY <1>1, <1>2, <1>3, <1>4 DEF ValidateEvidence

(* What a check records can be decided again: replay accepts the evidence and   *)
(* gives the same answer, and raising or dropping limits never turns a          *)
(* "would merge" into a refusal.                                                *)
THEOREM ReplayAgrees == Spec => []EvidenceReplays
<1>1. IInv /\ WholeInv => EvidenceReplays
  <2> SUFFICES ASSUME IInv, WholeInv, verdict # Null
               PROVE  /\ ReplayOne(Evidence, policy) = Replayed(Null, verdict)
                      /\ \A q \in Policies : Looser(policy, q) /\ q.exclude = policy.exclude /\ verdict.wouldMerge
                                                => ReplayOne(Evidence, q).verdict.wouldMerge
    BY DEF EvidenceReplays
  <2>1. verdict = Decide(Evidence, policy) /\ base \in Commits /\ head \in Commits
    BY Answered
  <2>2. Evidence.v = EvidenceV /\ ~(Evidence.collector > CollectorVersion)
    BY DEF Evidence, CollectorVersion
  <2>3. ASSUME NEW q PROVE ReplayOne(Evidence, q) = Replayed(Null, Decide(Evidence, q))
    BY <2>1, <2>2, EvidenceIsValid DEF ReplayOne
  <2>4. ASSUME NEW q \in Policies, Looser(policy, q), q.exclude = policy.exclude, verdict.wouldMerge
        PROVE  ReplayOne(Evidence, q).verdict.wouldMerge
    <3>1. policy \in Policies
      BY DEF WholeInv, WorldOk
    <3>2. \A k \in Measures : policy[k] \in Int \cup {Null} /\ q[k] \in Int \cup {Null}
      BY <3>1, InputsAssumption
    <3>3. \A k \in Measures : MetricsOf(Evidence, policy.exclude)[k] \in Int
      BY <2>1, MetricsAreNumbers
    <3>4. Decide(Evidence, q).wouldMerge
      BY <2>1, <2>4, <3>2, <3>3, LooserOnlyAllows
    <3> QED
      BY <2>3, <3>4 DEF Replayed
  <2> QED
    BY <2>1, <2>3, <2>4
<1> QED
  BY <1>1, Invariance, WholeInvariance, PTL

(* "would merge" is never the answer of a check that could not look: nothing    *)
(* failed, git could report everything and pair every rename, the limits on     *)
(* lines, churn, new files and new dependencies hold of the real change, and no *)
(* signal of an open pull request was short of a known pass. The limit on the   *)
(* public API holds of it unless the verdict says its coverage is partial: that *)
(* reason does not refuse (registry.ts 146).                                    *)
THEOREM MergeIsEarned == Spec => []WouldMergeIsEarned
<1>1. IInv /\ WholeInv => WouldMergeIsEarned
  <2> SUFFICES ASSUME IInv, WholeInv, verdict # Null, verdict.wouldMerge
               PROVE  /\ failures = {} /\ RequireGit(world.partial) = Null
                      /\ world.attributes \notin {"effective", "unreadable"}
                      /\ "raw" \notin world.renameSkipped /\ ("patch" \in world.renameSkipped => api = {})
                      /\ Changed # {} /\ \A e \in Changed : e.status \in StatusOk
                      /\ PolicyHolds(policy.exclude)
                      /\ raw # Null /\ raw.state = "OPEN" =>
                            /\ ~raw.draft /\ raw.mergeable = "MERGEABLE" /\ raw.review \in {"APPROVED", "", Null}
                            /\ raw.rollup # Null /\ \A c \in raw.rollup : ClassifyCheck(c) \in {"success", "neutral"}
    BY DEF WouldMergeIsEarned
  <2> DEFINE x == policy.exclude
             metrics == MetricsOf(Evidence, x)
  <2>1. pc = "done" /\ verdict = Decide(Evidence, policy) /\ base \in Commits /\ head \in Commits
    BY Answered
  <2>2. Decide(Evidence, policy).wouldMerge
    BY <2>1
  <2>3. /\ Evidence.failures = {} /\ ~Evidence.renameSkipped /\ Evidence.files # {}
        /\ \A m \in CountedManifests(Evidence, x) : ~m.unverifiable
        /\ \A k \in Measures : policy[k] # Null => ~(metrics[k] > policy[k])
        /\ TimingOf(Evidence) = "open" =>
              /\ ~Evidence.pr.draft /\ Evidence.pr.mergeable \in PrSignals.mergeable_pass
              /\ Evidence.pr.review \in PrSignals.review_pass /\ Evidence.pr.rollup # Null
              /\ \A c \in Evidence.pr.rollup : ClassifyCheck(c) \in {"success", "neutral"}
    BY <2>2, FailsClosed
  <2>4. failures = {} /\ ~renameSkipped /\ ToSet(files) # {}
    BY <2>3 DEF Evidence
  <2>5. /\ RequireGit(world.partial) = Null /\ world.attributes \notin {"effective", "unreadable"}
        /\ "raw" \notin world.renameSkipped /\ ("patch" \in world.renameSkipped => api = {})
        /\ \A e \in Changed : e.status \in StatusOk
    BY <2>1, <2>4 DEF WholeInv, WorldOk, WholeOk
  <2>6. Changed # {}
    BY <2>4 DEF WholeInv, FilesOk, Fact
  <2>7. /\ metrics.new_deps = Cardinality(TrueDeps(x)) /\ metrics.new_files = Cardinality(TrueNewFiles(x))
        /\ metrics.net_lines = TrueLines(x)[1] - TrueLines(x)[2]
        /\ metrics.churn = TrueLines(x)[1] + TrueLines(x)[2]
        /\ "api_coverage_partial" \notin verdict.reasons => metrics.new_public_api = TrueApi(x)
    <3>1. "api_coverage_partial" \notin verdict.reasons => UnmeasuredApi(Evidence, x) = {}
      BY <2>1, CoverageFacts
    <3> HIDE DEF x
    <3> QED
      BY <2>1, <2>3, <2>4, <3>1, MeasuredIsTrue
  <2>8. ASSUME NEW k \in Measures, policy[k] # Null PROVE metrics[k] <= policy[k]
    <3>1. metrics[k] \in Int
      BY <2>1, MetricsAreNumbers
    <3>2. policy[k] \in Int
      BY <2>8, InputsAssumption DEF WholeInv, WorldOk
    <3>3. ~(metrics[k] > policy[k])
      BY <2>3, <2>8
    <3> HIDE DEF metrics
    <3> QED
      BY <3>1, <3>2, <3>3
  <2> HIDE DEF metrics, x
  <2>9. PolicyHolds(x)
    <3>1. {"new_deps", "new_files", "net_lines", "churn", "new_public_api"} \subseteq Measures
      BY DEF Measures
    <3>2. /\ policy.new_deps # Null => metrics.new_deps <= policy.new_deps
          /\ policy.new_files # Null => metrics.new_files <= policy.new_files
          /\ policy.net_lines # Null => metrics.net_lines <= policy.net_lines
          /\ policy.churn # Null => metrics.churn <= policy.churn
          /\ policy.new_public_api # Null => metrics.new_public_api <= policy.new_public_api
      BY <2>8, <3>1
    <3> QED
      BY <2>7, <3>2 DEF PolicyHolds
  <2>10. ASSUME raw # Null, raw.state = "OPEN"
         PROVE  /\ ~raw.draft /\ raw.mergeable = "MERGEABLE" /\ raw.review \in {"APPROVED", "", Null}
                /\ raw.rollup # Null /\ \A c \in raw.rollup : ClassifyCheck(c) \in {"success", "neutral"}
    <3>1. TimingOf(Evidence) = "open"
      BY <2>10 DEF TimingOf, Evidence
    <3>2. Evidence.pr = raw
      BY DEF Evidence
    <3> QED
      BY <2>3, <3>1, <3>2 DEF PrSignals
  <2> QED
    BY <2>4, <2>5, <2>6, <2>9, <2>10 DEF x
<1> QED
  BY <1>1, Invariance, WholeInvariance, PTL
--------------------------------------------------------------------------------
(* What the reader of declarations counts.                                      *)
(* Where a source line stands: the maxima in MergeGateParsing, by quantifiers.  *)
IsOpen(s, n, b) == s[b].is = "open" /\ \A e \in b..n : s[e].is \notin {"close", "member_close"}
BlockOf(s, n) == \E b \in 1..n : IsOpen(s, n, b)
Heading(s, k) == s[k].is \in {"open", "export", "decl"}
IsLastHeading(s, n, h) == Heading(s, h) /\ \A k \in (h + 1)..n : ~Heading(s, k)

LEMMA ReadersMax ==
    ASSUME NEW n \in Nat, NEW S \in SUBSET (1..n), S # {}
    PROVE  Readers!Max(S) \in S /\ \A y \in S : Readers!Max(S) >= y
<1> DEFINE T == {n - x : x \in S}
<1>1. T \in SUBSET Nat /\ T # {}
  <2>1. \A x \in S : x \in Int /\ n - x \in Nat
    OBVIOUS
  <2> QED
    BY <2>1
<1>2. PICK m \in T : \A k \in T : m <= k
  <2> HIDE DEF T
  <2> QED
    BY <1>1, LeastExists
<1>3. PICK x \in S : m = n - x
  BY <1>2
<1>4. ASSUME NEW y \in S PROVE x >= y
  <2>1. n - x <= n - y
    BY <1>2, <1>3
  <2> QED
    BY <2>1
<1>5. \E a \in S : \A y \in S : a >= y
  BY <1>4
<1> QED
  BY <1>5 DEF Readers!Max

LEMMA BlockSets ==
    ASSUME NEW s, NEW n \in Nat, NEW opens, NEW ends,
           opens = {i \in 1..n : s[i].is = "open"},
           ends = {i \in 1..n : s[i].is \in Readers!EndsBlock}
    PROVE  (opens # {} /\ (ends = {} \/ Readers!Max(ends) < Readers!Max(opens))) <=> BlockOf(s, n)
<1>1. opens \subseteq 1..n /\ ends \subseteq 1..n
  OBVIOUS
<1>2. opens # {} => Readers!Max(opens) \in opens /\ \A y \in opens : Readers!Max(opens) >= y
  BY <1>1, ReadersMax
<1>3. ends # {} => Readers!Max(ends) \in ends /\ \A y \in ends : Readers!Max(ends) >= y
  BY <1>1, ReadersMax
<1> DEFINE o == Readers!Max(opens)
           e == Readers!Max(ends)
<1>4. opens # {} => o \in opens /\ \A y \in opens : o >= y
  BY <1>2
<1>5. ends # {} => e \in ends /\ \A y \in ends : e >= y
  BY <1>3
<1> HIDE DEF o, e
<1>6. ASSUME opens # {}, ends = {} \/ e < o
      PROVE  BlockOf(s, n)
  <2>1. o \in 1..n /\ s[o].is = "open"
    BY <1>4, <1>6
  <2>2. ASSUME NEW k \in o..n
        PROVE  s[k].is \notin {"close", "member_close"}
    <3>1. k \in 1..n
      BY <2>1
    <3>2. k \notin ends
      BY <1>5, <1>6, <2>1, <3>1
    <3> QED
      BY <3>1, <3>2 DEF Readers!EndsBlock
  <2> QED
    BY <2>1, <2>2 DEF BlockOf, IsOpen
<1>7. ASSUME BlockOf(s, n)
      PROVE  opens # {} /\ (ends = {} \/ e < o)
  <2>1. PICK b \in 1..n : IsOpen(s, n, b)
    BY <1>7 DEF BlockOf
  <2>2. b \in opens /\ o \in 1..n /\ o >= b
    BY <1>4, <2>1 DEF IsOpen
  <2>3. ASSUME ends # {}
        PROVE  e < o
    <3>1. e \in 1..n /\ s[e].is \in {"close", "member_close"}
      BY <1>5, <2>3 DEF Readers!EndsBlock
    <3>2. e \notin b..n
      BY <2>1, <3>1 DEF IsOpen
    <3> QED
      BY <2>2, <3>1, <3>2
  <2> QED
    BY <2>2, <2>3
<1> QED
  BY <1>6, <1>7 DEF o, e

LEMMA BlockIs ==
    ASSUME NEW n \in Nat
    PROVE  (Readers!Block(n) <=> BlockOf(source, n)) /\ (Readers!Block(n)' <=> BlockOf(source', n))
<1>1. Readers!Block(n) <=> BlockOf(source, n)
  BY BlockSets DEF Readers!Block
<1>2. Readers!Block(n)' <=> BlockOf(source', n)
  BY BlockSets DEF Readers!Block
<1> QED
  BY <1>1, <1>2

(* The last heading of the first n lines.                                       *)
LEMMA HeadingIs ==
    ASSUME NEW s, NEW n \in Nat, NEW above, above = {k \in 1..n : s[k].is \in {"open", "export", "decl"}}
    PROVE  /\ above = {} => \A k \in 1..n : ~Heading(s, k)
           /\ above # {} => Readers!Max(above) \in 1..n /\ IsLastHeading(s, n, Readers!Max(above))
<1>1. above # {} => Readers!Max(above) \in above /\ \A y \in above : Readers!Max(above) >= y
  BY ReadersMax
<1> DEFINE h == Readers!Max(above)
<1>2. above # {} => h \in above /\ \A y \in above : h >= y
  BY <1>1
<1> HIDE DEF h
<1>3. ASSUME above # {} PROVE h \in 1..n /\ IsLastHeading(s, n, h)
  <2>1. h \in 1..n /\ Heading(s, h)
    BY <1>2, <1>3 DEF Heading
  <2>2. ASSUME NEW k \in (h + 1)..n PROVE ~Heading(s, k)
    <3>1. k \in 1..n /\ ~(h >= k)
      BY <2>1
    <3> QED
      BY <1>2, <1>3, <3>1 DEF Heading
  <2> QED
    BY <2>1, <2>2 DEF IsLastHeading
<1> QED
  BY <1>3 DEF h, Heading

(* How the lines of a source file follow each other.                            *)
Follows(s, l, k) ==
    IF BlockOf(s, k - 1)
    THEN s[k].is \in {"member", "member_close", "close", "blank"} \/ (l = "go" /\ s[k].is = "statement")
    ELSE /\ s[k].is \notin {"close", "member_close"}
         /\ s[k].is = "member" => \E h \in 1..(k - 1) : IsLastHeading(s, k - 1, h) /\ s[h].is \in {"export", "decl"}

LEMMA BlockGrows ==
    ASSUME NEW s, NEW n \in Nat, n # 0
    PROVE  BlockOf(s, n) <=> s[n].is = "open" \/ (BlockOf(s, n - 1) /\ s[n].is \notin {"close", "member_close"})
<1>1. ASSUME NEW b \in 1..n, IsOpen(s, n, b), s[n].is # "open"
      PROVE  BlockOf(s, n - 1) /\ s[n].is \notin {"close", "member_close"}
  <2>1. b \in 1..(n - 1)
    BY <1>1 DEF IsOpen
  <2>2. IsOpen(s, n - 1, b)
    BY <1>1, <2>1 DEF IsOpen
  <2>3. s[n].is \notin {"close", "member_close"}
    BY <1>1 DEF IsOpen
  <2> QED
    BY <2>1, <2>2, <2>3 DEF BlockOf
<1>2. ASSUME s[n].is = "open" PROVE BlockOf(s, n)
  <2>1. IsOpen(s, n, n)
    BY <1>2 DEF IsOpen
  <2> QED
    BY <2>1 DEF BlockOf
<1>3. ASSUME NEW b \in 1..(n - 1), IsOpen(s, n - 1, b), s[n].is \notin {"close", "member_close"}
      PROVE  BlockOf(s, n)
  <2>1. IsOpen(s, n, b)
    <3>1. ASSUME NEW e \in b..n PROVE s[e].is \notin {"close", "member_close"}
      <4>1. e = n \/ e \in b..(n - 1)
        OBVIOUS
      <4> QED
        BY <1>3, <4>1 DEF IsOpen
    <3> QED
      BY <1>3, <3>1 DEF IsOpen
  <2>2. b \in 1..n
    OBVIOUS
  <2> QED
    BY <2>1, <2>2 DEF BlockOf
<1> QED
  BY <1>1, <1>2, <1>3 DEF BlockOf

LEMMA HeadingGrows ==
    ASSUME NEW s, NEW n \in Nat, n # 0, NEW h
    PROVE  /\ Heading(s, n) => IsLastHeading(s, n, n)
           /\ h \in 1..(n - 1) /\ IsLastHeading(s, n - 1, h) /\ ~Heading(s, n) => IsLastHeading(s, n, h)
<1>1. Heading(s, n) => IsLastHeading(s, n, n)
  BY DEF IsLastHeading
<1>2. ASSUME h \in 1..(n - 1), IsLastHeading(s, n - 1, h), ~Heading(s, n)
      PROVE  IsLastHeading(s, n, h)
  <2>1. \A k \in (h + 1)..n : k = n \/ k \in (h + 1)..(n - 1)
    BY <1>2
  <2> QED
    BY <1>2, <2>1 DEF IsLastHeading
<1> QED
  BY <1>1, <1>2

LEMMA OneLastHeading ==
    ASSUME NEW s, NEW n \in Nat, NEW g \in 1..n, NEW h \in 1..n, IsLastHeading(s, n, g), IsLastHeading(s, n, h)
    PROVE  g = h
<1>1. ~(g < h)
  BY DEF IsLastHeading
<1>2. ~(h < g)
  BY DEF IsLastHeading
<1> QED
  BY <1>1, <1>2

Start(context) == [names |-> {}, block |-> IF context = "open" THEN "context" ELSE "no"]
ScanTo(f, l, c, t, n) == f = [m \in 0..n |-> IF m = 0 THEN Start(c) ELSE Readers!Scanned(l, f[m - 1], t[m])]

LEMMA ScanExists ==
    ASSUME NEW l, NEW c, NEW t, NEW m \in Nat
    PROVE  \E f : ScanTo(f, l, c, t, m)
<1> DEFINE bad == {n \in Nat : ~\E f : ScanTo(f, l, c, t, n)}
<1>1. \E f : ScanTo(f, l, c, t, 0)
  <2> DEFINE f == [i \in 0..0 |-> Start(c)]
  <2>1. f = [i \in 0..0 |-> IF i = 0 THEN Start(c) ELSE Readers!Scanned(l, f[i - 1], t[i])]
    OBVIOUS
  <2> QED
    BY <2>1 DEF ScanTo
<1>2. ASSUME NEW n \in Nat, n # 0, NEW g, ScanTo(g, l, c, t, n - 1)
      PROVE  \E f : ScanTo(f, l, c, t, n)
  <2> DEFINE last == Readers!Scanned(l, g[n - 1], t[n])
             f == [i \in 0..n |-> IF i = n THEN last ELSE g[i]]
  <2>1. ASSUME NEW i \in 0..n
        PROVE  f[i] = IF i = 0 THEN Start(c) ELSE Readers!Scanned(l, f[i - 1], t[i])
    <3>1. CASE i = n
      <4>1. f[i - 1] = g[n - 1] /\ f[i] = last /\ i # 0
        BY <1>2, <3>1
      <4> QED
        BY <3>1, <4>1
    <3>2. CASE i # n
      <4>1. i \in 0..(n - 1) /\ f[i] = g[i] /\ (i # 0 => f[i - 1] = g[i - 1])
        BY <3>2
      <4> HIDE DEF f
      <4>2. g[i] = IF i = 0 THEN Start(c) ELSE Readers!Scanned(l, g[i - 1], t[i])
        BY <1>2, <4>1 DEF ScanTo
      <4> QED
        BY <4>1, <4>2
    <3> QED
      BY <3>1, <3>2
  <2>2. f = [i \in 0..n |-> f[i]]
    OBVIOUS
  <2> HIDE DEF f
  <2>3. ScanTo(f, l, c, t, n)
    BY <2>1, <2>2 DEF ScanTo
  <2> QED
    BY <2>3
<1>3. \A n \in bad : n # 0 /\ n - 1 \in bad
  <2> SUFFICES ASSUME NEW n \in bad
               PROVE  n # 0 /\ n - 1 \in bad
    OBVIOUS
  <2>1. n \in Nat /\ n # 0
    BY <1>1
  <2>2. ~\E f : ScanTo(f, l, c, t, n - 1)
    BY <1>2, <2>1
  <2> QED
    BY <2>1, <2>2
<1>4. bad = {}
  <2> HIDE DEF bad
  <2> QED
    BY <1>3, NoneIsBad DEF bad
<1> QED
  BY <1>4

ScanOf(f, l, c, t) ==
    /\ Readers!ScanHunk(l, c, t) = f[Len(t)].names
    /\ f[0] = Start(c)
    /\ \A n \in 1..Len(t) : f[n] = Readers!Scanned(l, f[n - 1], t[n])

LEMMA ScanDef ==
    ASSUME NEW l, NEW c, NEW t, Len(t) \in Nat
    PROVE  \E f : ScanOf(f, l, c, t)
<1> DEFINE f == CHOOSE g : ScanTo(g, l, c, t, Len(t))
<1>1. ScanTo(f, l, c, t, Len(t))
  BY ScanExists
<1>2. Readers!ScanHunk(l, c, t) = f[Len(t)].names
  BY DEF Readers!ScanHunk, ScanTo, Start
<1> HIDE DEF f
<1>3. \A i \in 0..Len(t) : f[i] = IF i = 0 THEN Start(c) ELSE Readers!Scanned(l, f[i - 1], t[i])
  BY <1>1 DEF ScanTo
<1>4. f[0] = Start(c) /\ \A i \in 1..Len(t) : f[i] = Readers!Scanned(l, f[i - 1], t[i])
  BY <1>3
<1>5. ScanOf(f, l, c, t)
  BY <1>2, <1>4 DEF ScanOf
<1> QED
  BY <1>5

(* What is exported by the lines i to e, and what the reader knows behind them. *)
Exported(s, i, e) ==
    {k \in i..e : s[k].is = "export" \/ (s[k].is \in {"member", "member_close"} /\ BlockOf(s, k - 1))}
Knows(s, i, e, acc) ==
    /\ acc.names = {s[k].name : k \in Exported(s, i, e)}
    /\ acc.block \in {"no", "open", "context"}
    /\ acc.block = "no" => ~BlockOf(s, e)
    /\ acc.block = "open" => BlockOf(s, e)
    /\ acc.block = "context" /\ ~BlockOf(s, e) => \E h \in 1..e : IsLastHeading(s, e, h) /\ s[h].is = "open"

LEMMA ScanStep ==
    ASSUME NEW s, NEW l, NEW i \in Nat, NEW e \in Nat, i # 0, i <= e, Follows(s, l, e),
           NEW acc, Knows(s, i, e - 1, acc)
    PROVE  Knows(s, i, e, Readers!Scanned(l, acc, s[e]))
<1> DEFINE x == s[e]
           next == Readers!Scanned(l, acc, x)
           counts == x.is = "export" \/ (x.is \in {"member", "member_close"} /\ BlockOf(s, e - 1))
<1>1. Exported(s, i, e) = Exported(s, i, e - 1) \cup (IF counts THEN {e} ELSE {})
  <2>1. i..e = (i..(e - 1)) \cup {e}
    OBVIOUS
  <2> QED
    BY <2>1 DEF Exported
<1>2. BlockOf(s, e) <=> x.is = "open" \/ (BlockOf(s, e - 1) /\ x.is \notin {"close", "member_close"})
  BY BlockGrows
<1> DEFINE was == BlockOf(s, e - 1)
           now == BlockOf(s, e)
           heads == \E h \in 1..(e - 1) : IsLastHeading(s, e - 1, h) /\ s[h].is = "open"
           stays == \E h \in 1..e : IsLastHeading(s, e, h) /\ s[h].is = "open"
           is == x.is
<1>3. acc.block \in {"no", "open", "context"} /\ (acc.block = "no" => ~was) /\ (acc.block = "open" => was)
      /\ (acc.block = "context" /\ ~was => heads)
  BY DEF Knows
<1>4. IF was THEN is \in {"member", "member_close", "close", "blank"} \/ (l = "go" /\ is = "statement")
      ELSE is \notin {"close", "member_close"} /\ (heads => is # "member")
  <2>1. ASSUME heads, ~was, is = "member" PROVE FALSE
    <3>1. PICK g \in 1..(e - 1) : IsLastHeading(s, e - 1, g) /\ s[g].is = "open"
      BY <2>1
    <3>2. PICK h \in 1..(e - 1) : IsLastHeading(s, e - 1, h) /\ s[h].is \in {"export", "decl"}
      BY <2>1 DEF Follows
    <3>3. e - 1 \in Nat
      OBVIOUS
    <3>4. g = h
      BY <3>1, <3>2, <3>3, OneLastHeading
    <3> QED
      BY <3>1, <3>2, <3>4
  <2> QED
    BY <2>1 DEF Follows
<1>5. is \notin {"export", "decl"} /\ heads => stays
  <2>1. ASSUME is \notin {"export", "decl"}, heads PROVE stays
    <3>1. PICK h \in 1..(e - 1) : IsLastHeading(s, e - 1, h) /\ s[h].is = "open"
      BY <2>1
    <3>2. CASE is = "open"
      <4>1. IsLastHeading(s, e, e) /\ e \in 1..e
        BY <3>2, HeadingGrows DEF Heading
      <4> QED
        BY <3>2, <4>1
    <3>3. CASE is # "open"
      <4>1. ~Heading(s, e)
        BY <2>1, <3>3 DEF Heading
      <4>2. IsLastHeading(s, e, h) /\ h \in 1..e
        BY <3>1, <4>1, HeadingGrows
      <4> QED
        BY <3>1, <4>2
    <3> QED
      BY <3>2, <3>3
  <2> QED
    BY <2>1
<1>6. next.names = (IF is = "export" \/ (acc.block # "no" /\ is \in {"member", "member_close"})
                    THEN acc.names \cup {x.name} ELSE acc.names)
  BY DEF Readers!Scanned, Readers!IsMember
<1>7. next.block = (IF acc.block # "no" /\ is \in {"close", "member_close"} THEN "no"
                    ELSE IF is = "open" THEN "open"
                    ELSE IF acc.block = "context" /\ (IF l = "go" THEN is \in {"export", "decl"} ELSE is \in {"export", "decl", "statement"})
                    THEN "no" ELSE acc.block)
  BY DEF Readers!Scanned, Readers!EndsBlock, Readers!OutsideBlock
<1>8. counts <=> is = "export" \/ (acc.block # "no" /\ is \in {"member", "member_close"})
  BY <1>3, <1>4
<1>9. next.names = {s[k].name : k \in Exported(s, i, e)}
  <2>1. acc.names = {s[k].name : k \in Exported(s, i, e - 1)}
    BY DEF Knows
  <2> HIDE DEF next, was, heads
  <2>2. CASE counts
    <3>1. next.names = acc.names \cup {s[e].name}
      BY <1>6, <1>8, <2>2
    <3>2. Exported(s, i, e) = Exported(s, i, e - 1) \cup {e}
      BY <1>1, <2>2
    <3> QED
      BY <2>1, <3>1, <3>2
  <2>3. CASE ~counts
    BY <1>1, <1>6, <1>8, <2>1, <2>3
  <2> QED
    BY <2>2, <2>3
<1> DEFINE nb == next.block
           ab == acc.block
<1>10. /\ nb \in {"no", "open", "context"}
       /\ nb = "no" => ~now
       /\ nb = "open" => now
       /\ nb = "context" /\ ~now => stays
  <2>1. now <=> is = "open" \/ (was /\ is \notin {"close", "member_close"})
    BY <1>2
  <2>2. nb = (IF ab # "no" /\ is \in {"close", "member_close"} THEN "no"
                    ELSE IF is = "open" THEN "open"
                    ELSE IF ab = "context" /\ (IF l = "go" THEN is \in {"export", "decl"} ELSE is \in {"export", "decl", "statement"})
                    THEN "no" ELSE ab)
    BY <1>7
  <2>3. ab \in {"no", "open", "context"} /\ (ab = "no" => ~was) /\ (ab = "open" => was)
      /\ (ab = "context" /\ ~was => heads)
    BY <1>3
  <2> HIDE DEF nb, ab, is, now, was, heads, stays, next
  <2> QED
    BY <1>4, <1>5, <2>1, <2>2, <2>3
<1> QED
  BY <1>9, <1>10 DEF Knows

IsSlice(t, s, i, j) == Len(t) = j - i + 1 /\ \A n \in 1..Len(t) : t[n] = s[i + n - 1]
FollowsFrom(s, l, i, j) == \A k \in i..j : Follows(s, l, k)
KnowsFirst(s, i, c) == Knows(s, i, i - 1, Start(c))

LEMMA ScanCounts ==
    ASSUME NEW s, NEW l, NEW c, NEW t, NEW i \in Nat, NEW j \in Nat, i # 0, i <= j,
           FollowsFrom(s, l, i, j), KnowsFirst(s, i, c), IsSlice(t, s, i, j)
    PROVE  Readers!ScanHunk(l, c, t) = {s[k].name : k \in Exported(s, i, j)}
<1> DEFINE L == Len(t)
<1>1. /\ \A k \in i..j : Follows(s, l, k)
      /\ Knows(s, i, i - 1, Start(c))
      /\ L = j - i + 1 /\ \A n \in 1..L : t[n] = s[i + n - 1]
  BY DEF FollowsFrom, KnowsFirst, IsSlice
<1>2. L \in Nat /\ j = i + L - 1
  BY <1>1
<1>3. PICK f : ScanOf(f, l, c, t)
  BY <1>2, ScanDef
<1>4. Readers!ScanHunk(l, c, t) = f[L].names /\ f[0] = Start(c) /\ \A n \in 1..L : f[n] = Readers!Scanned(l, f[n - 1], t[n])
  BY <1>3 DEF ScanOf
<1> DEFINE good(n) == Knows(s, i, i + n - 1, f[n])
           bad == {n \in 0..L : ~good(n)}
<1>5. ASSUME NEW n \in 1..L, good(n - 1) PROVE good(n)
  <2>1. n \in Nat /\ n >= 1 /\ n <= L
    BY <1>2
  <2> DEFINE e == i + n - 1
  <2>2. e \in Nat /\ e \in i..j /\ e - 1 = i + (n - 1) - 1 /\ i <= e
    BY <1>2, <2>1
  <2>3. t[n] = s[e]
    BY <1>1
  <2>4. Follows(s, l, e)
    BY <1>1, <2>2
  <2>5. Knows(s, i, e - 1, f[n - 1])
    BY <1>5, <2>2
  <2>6. f[n] = Readers!Scanned(l, f[n - 1], s[e])
    BY <1>4, <2>3
  <2> HIDE DEF e
  <2>7. Knows(s, i, e, f[n])
    BY <2>2, <2>4, <2>5, <2>6, ScanStep
  <2> QED
    BY <2>7 DEF e
<1>6. good(0)
  <2>1. i + 0 - 1 = i - 1
    OBVIOUS
  <2> QED
    BY <1>1, <1>4, <2>1
<1>7. \A n \in bad : n # 0 /\ n - 1 \in bad
  <2> HIDE DEF good
  <2> SUFFICES ASSUME NEW n \in bad PROVE n # 0 /\ n - 1 \in bad
    OBVIOUS
  <2>1. n \in 0..L /\ ~good(n)
    OBVIOUS
  <2>2. n # 0
    BY <1>6, <2>1
  <2>3. n \in 1..L /\ n - 1 \in 0..L
    BY <1>2, <2>1, <2>2
  <2>4. ~good(n - 1)
    BY <1>5, <2>1, <2>3
  <2> QED
    BY <2>2, <2>3, <2>4
<1>8. bad = {}
  <2>1. bad \in SUBSET Nat
    BY <1>2
  <2> HIDE DEF bad
  <2> QED
    BY <1>7, <2>1, NoneIsBad
<1>9. good(L)
  <2> HIDE DEF good
  <2>1. L \in 0..L
    BY <1>2
  <2> QED
    BY <1>8, <2>1
<1>10. Knows(s, i, j, f[L])
  BY <1>2, <1>9
<1> QED
  BY <1>4, <1>10 DEF Knows

SourceLines == [is : Shapes, name : Nat]
SourceInv ==
    subject = "source" =>
        source \in Seq(SourceLines) /\ \A k \in 1..Len(source) : Follows(source, lang, k)

LEMMA Prefixed ==
    ASSUME NEW s, NEW t, NEW n \in Nat, \A i \in 1..n : s[i] = t[i]
    PROVE  /\ BlockOf(s, n) <=> BlockOf(t, n)
           /\ \A h \in 1..n : IsLastHeading(s, n, h) <=> IsLastHeading(t, n, h)
<1>1. BlockOf(s, n) <=> BlockOf(t, n)
  BY DEF BlockOf, IsOpen
<1>2. ASSUME NEW h \in 1..n
      PROVE  IsLastHeading(s, n, h) <=> IsLastHeading(t, n, h)
  <2>1. \A k \in (h + 1)..n : s[k] = t[k]
    OBVIOUS
  <2>2. s[h] = t[h]
    OBVIOUS
  <2> QED
    BY <2>1, <2>2 DEF IsLastHeading, Heading
<1> QED
  BY <1>1, <1>2

LEMMA FollowsPrefix ==
    ASSUME NEW s, NEW t, NEW l, NEW k \in Nat, k # 0, \A i \in 1..k : s[i] = t[i], Follows(s, l, k)
    PROVE  Follows(t, l, k)
<1>1. k - 1 \in Nat /\ s[k] = t[k] /\ \A i \in 1..(k - 1) : s[i] = t[i]
  OBVIOUS
<1>2. /\ BlockOf(s, k - 1) <=> BlockOf(t, k - 1)
      /\ \A h \in 1..(k - 1) : IsLastHeading(s, k - 1, h) <=> IsLastHeading(t, k - 1, h)
  BY <1>1, Prefixed
<1> QED
  BY <1>1, <1>2 DEF Follows

LEMMA WriteSourceInv ==
    ASSUME SourceInv, Readers!WriteSource
    PROVE  SourceInv'
<1> DEFINE n == Len(source)
<1>1. subject = "source" /\ subject' = subject /\ lang' = lang
  BY DEF Readers!WriteSource
<1>2. source \in Seq(SourceLines) /\ n \in Nat /\ \A k \in 1..n : Follows(source, lang, k)
  BY <1>1 DEF SourceInv
<1> DEFINE headings == {i \in 1..n : source[i].is \in {"open", "export", "decl"}}
<1>3. PICK l \in Shapes :
        /\ IF Readers!Block(n)
           THEN l \in Readers!IsMember \cup {"close", "blank"} \cup (IF lang = "go" THEN {"statement"} ELSE {})
           ELSE /\ l \notin Readers!EndsBlock
                /\ l = "member" => headings # {} /\ source[Readers!Max(headings)].is \in {"export", "decl"}
        /\ source' = Append(source, [is |-> l, name |-> n + 1])
  BY DEF Readers!WriteSource
<1>4. /\ source' \in Seq(SourceLines) /\ Len(source') = n + 1
      /\ source'[n + 1] = [is |-> l, name |-> n + 1] /\ \A i \in 1..n : source'[i] = source[i]
  <2>1. [is |-> l, name |-> n + 1] \in SourceLines
    BY <1>2 DEF SourceLines
  <2> QED
    BY <1>2, <1>3, <2>1
<1>5. ASSUME NEW k \in 1..n PROVE Follows(source', lang, k)
  <2>1. k \in Nat /\ k # 0 /\ \A i \in 1..k : source[i] = source'[i]
    BY <1>2, <1>4
  <2> QED
    BY <1>2, <2>1, FollowsPrefix
<1>6. Follows(source', lang, n + 1)
  <2>1. /\ BlockOf(source, n) <=> BlockOf(source', n)
        /\ \A h \in 1..n : IsLastHeading(source, n, h) <=> IsLastHeading(source', n, h)
    BY <1>2, <1>4, Prefixed
  <2>2. Readers!Block(n) <=> BlockOf(source, n)
    BY <1>2, BlockIs
  <2>3. headings # {} => Readers!Max(headings) \in 1..n /\ IsLastHeading(source, n, Readers!Max(headings))
    BY <1>2, HeadingIs
  <2>4. source'[n + 1].is = l
    BY <1>4
  <2>5. l = "member" /\ ~BlockOf(source, n) =>
            \E h \in 1..n : IsLastHeading(source, n, h) /\ source[h].is \in {"export", "decl"}
    BY <1>3, <2>2, <2>3
  <2>6. n + 1 - 1 = n
    BY <1>2
  <2>7. l = "member" /\ ~BlockOf(source', n) =>
            \E h \in 1..n : IsLastHeading(source', n, h) /\ source'[h].is \in {"export", "decl"}
    <3> HIDE DEF n
    <3> QED
      BY <1>4, <2>1, <2>5
  <2>8. IF BlockOf(source', n)
        THEN l \in {"member", "member_close", "close", "blank"} \/ (lang = "go" /\ l = "statement")
        ELSE l \notin {"close", "member_close"}
    BY <1>3, <2>1, <2>2 DEF Readers!IsMember, Readers!EndsBlock
  <2> DEFINE z == n + 1
  <2>9. z - 1 = n /\ source'[z].is = l
    BY <2>4, <2>6
  <2> HIDE DEF n, z
  <2>10. Follows(source', lang, z)
    BY <2>7, <2>8, <2>9 DEF Follows
  <2> QED
    BY <2>10 DEF z
<1>7. \A k \in 1..(n + 1) : k \in 1..n \/ k = n + 1
  BY <1>2
<1> QED
  BY <1>1, <1>4, <1>5, <1>6, <1>7 DEF SourceInv

LEMMA OtherSourceInv ==
    ASSUME SourceInv, UNCHANGED <<subject, lang, source>>
    PROVE  SourceInv'
BY DEF SourceInv

LEMMA SourceStep == SourceInv /\ [GateNext]_<<vars, readers>> => SourceInv'
<1> SUFFICES ASSUME SourceInv, [GateNext]_<<vars, readers>>
             PROVE  SourceInv'
  OBVIOUS
<1>1. CASE Readers!WriteSource
  BY <1>1, WriteSourceInv
<1>2. CASE Readers!WriteBase \/ Readers!WriteHead
  BY <1>2, OtherSourceInv DEF Readers!WriteBase, Readers!WriteHead
<1>3. CASE Readers!ChangeFile \/ Readers!OpenHunk \/ Readers!ChangeLine
  BY <1>3, OtherSourceInv DEF Readers!ChangeFile, Readers!OpenHunk, Readers!ChangeLine
<1>4. CASE UNCHANGED readers
  BY <1>4, OtherSourceInv DEF readers
<1> QED
  BY <1>1, <1>2, <1>3, <1>4 DEF GateNext, Readers!Next

LEMMA SourceScans == SourceInv => ScanCountsMembers
<1> SUFFICES ASSUME SourceInv, subject = "source", NEW i \in DOMAIN source, NEW j \in i..Len(source)
             PROVE  LET above == {k \in 1..(i - 1) : source[k].is \in {"open", "export", "decl"}}
                        context == IF above = {} THEN "none" ELSE source[Readers!Max(above)].is
                        exported == {k \in i..j : \/ source[k].is = "export"
                                                  \/ source[k].is \in Readers!IsMember /\ Readers!Block(k - 1)} IN
                    Readers!ScanHunk(lang, context, SubSeq(source, i, j)) = {source[k].name : k \in exported}
  BY DEF ScanCountsMembers, Readers!ScanCountsMembers
<1> DEFINE above == {k \in 1..(i - 1) : source[k].is \in {"open", "export", "decl"}}
           context == IF above = {} THEN "none" ELSE source[Readers!Max(above)].is
           exported == {k \in i..j : \/ source[k].is = "export"
                                     \/ source[k].is \in Readers!IsMember /\ Readers!Block(k - 1)}
           t == SubSeq(source, i, j)
           s == source
<1>1. source \in Seq(SourceLines) /\ \A k \in 1..Len(source) : Follows(source, lang, k)
  BY DEF SourceInv
<1>2. i \in Nat /\ i # 0 /\ j \in Nat /\ i <= j /\ j <= Len(s) /\ i - 1 \in Nat
  BY <1>1
<1>3. Len(t) = j - i + 1 /\ \A n \in 1..Len(t) : t[n] = s[i + n - 1]
  BY <1>1, <1>2
<1>4. \A k \in i..j : Follows(s, lang, k)
  BY <1>1, <1>2
<1>5. exported = Exported(s, i, j)
  <2>1. \A k \in i..j : k - 1 \in Nat
    BY <1>2
  <2>2. \A k \in i..j : Readers!Block(k - 1) <=> BlockOf(s, k - 1)
    BY <2>1, BlockIs
  <2> QED
    BY <2>2 DEF Exported, Readers!IsMember
<1>6. Knows(s, i, i - 1, Start(context))
  <2>1. Exported(s, i, i - 1) = {}
    BY <1>2 DEF Exported
  <2>2. Start(context).names = {s[k].name : k \in Exported(s, i, i - 1)}
    BY <2>1 DEF Start
  <2>3. /\ above = {} => \A k \in 1..(i - 1) : ~Heading(s, k)
        /\ above # {} => Readers!Max(above) \in 1..(i - 1) /\ IsLastHeading(s, i - 1, Readers!Max(above))
    BY <1>2, HeadingIs
  <2>4. ASSUME BlockOf(s, i - 1)
        PROVE  context = "open"
    <3>1. PICK b \in 1..(i - 1) : IsOpen(s, i - 1, b)
      BY <2>4 DEF BlockOf
    <3>2. Heading(s, b)
      BY <3>1 DEF IsOpen, Heading
    <3>3. above # {}
      BY <2>3, <3>2
    <3> DEFINE h == Readers!Max(above)
    <3>4. h \in 1..(i - 1) /\ IsLastHeading(s, i - 1, h) /\ context = s[h].is
      BY <2>3, <3>3
    <3> HIDE DEF h, context, above
    <3>5. ~(h < b)
      BY <3>2, <3>4 DEF IsLastHeading
    <3>6. CASE h = b
      BY <3>1, <3>4, <3>6 DEF IsOpen
    <3>7. CASE h > b
      <4>1. IsOpen(s, h - 1, b) /\ b \in 1..(h - 1)
        BY <1>2, <3>1, <3>4, <3>7 DEF IsOpen
      <4>2. BlockOf(s, h - 1)
        BY <4>1 DEF BlockOf
      <4>3. Follows(s, lang, h)
        BY <1>1, <1>2, <3>4
      <4>4. FALSE
        BY <3>4, <4>2, <4>3 DEF Follows, IsLastHeading, Heading
      <4> QED
        BY <4>4
    <3> QED
      BY <1>2, <3>4, <3>5, <3>6, <3>7
  <2>5. ASSUME context = "open"
        PROVE  \E h \in 1..(i - 1) : IsLastHeading(s, i - 1, h) /\ s[h].is = "open"
    BY <2>3, <2>5
  <2> HIDE DEF context
  <2> QED
    BY <2>2, <2>4, <2>5 DEF Knows, Start
<1>7. Readers!ScanHunk(lang, context, t) = {s[k].name : k \in Exported(s, i, j)}
  <2> HIDE DEF context, above, exported, t, s
  <2>1. FollowsFrom(s, lang, i, j) /\ KnowsFirst(s, i, context) /\ IsSlice(t, s, i, j)
    BY <1>3, <1>4, <1>6 DEF FollowsFrom, KnowsFirst, IsSlice
  <2> QED
    BY <1>2, <2>1, ScanCounts
<1> HIDE DEF context, above, exported, t
<1> QED
  BY <1>5, <1>7 DEF context, above, exported, t

(* Whatever part of a source file a hunk shows, and whatever language and lines *)
(* it has, the names the reader counts in it are those the file exports there.  *)
THEOREM ScanHolds == GateSpec => []ScanCountsMembers
<1>1. GateInit => SourceInv
  <2>1. IdleReaders => SourceInv
    BY DEF IdleReaders, SourceInv
  <2>2. Readers!Init => SourceInv
    <3> SUFFICES ASSUME Readers!Init PROVE SourceInv
      OBVIOUS
    <3>1. source = <<>>
      BY DEF Readers!Init
    <3> QED
      BY <3>1 DEF SourceInv
  <2> QED
    BY <2>1, <2>2 DEF GateInit
<1> QED
  BY <1>1, SourceStep, SourceScans, PTL DEF GateSpec
--------------------------------------------------------------------------------
(* What the reader of patches gives back.                                       *)
(* Sequences of anything.                                                       *)
IsSeq(s) == Len(s) \in Nat /\ s = [i \in 1..Len(s) |-> s[i]]
Items(s) == {s[i] : i \in 1..Len(s)}

LEMMA SeqIs ==
    /\ \A s : IsSeq(s) => s \in Seq(Items(s))
    /\ \A S : \A s \in Seq(S) : IsSeq(s)
<1>1. ASSUME NEW s, IsSeq(s) PROVE s \in Seq(Items(s))
  <2> DEFINE n == Len(s)
             f == [i \in 1..n |-> s[i]]
  <2>1. n \in Nat /\ s = f
    BY <1>1 DEF IsSeq
  <2>2. f \in Seq(Items(s))
    <3>1. \A i \in 1..n : s[i] \in Items(s)
      BY DEF Items
    <3>2. f \in [1..n -> Items(s)]
      BY <3>1
    <3> HIDE DEF f, n
    <3> QED
      BY <2>1, <3>2
  <2> HIDE DEF f
  <2> QED
    BY <2>1, <2>2
<1>2. ASSUME NEW S, NEW s \in Seq(S) PROVE IsSeq(s)
  BY <1>2 DEF IsSeq
<1> QED
  BY <1>1, <1>2

LEMMA ConcatIs ==
    ASSUME NEW s, NEW t, IsSeq(s), IsSeq(t)
    PROVE  /\ IsSeq(s \o t) /\ Len(s \o t) = Len(s) + Len(t)
           /\ \A i \in 1..Len(s) : (s \o t)[i] = s[i]
           /\ \A i \in 1..Len(t) : (s \o t)[Len(s) + i] = t[i]
<1> DEFINE S == Items(s) \cup Items(t)
<1>1. s \in Seq(S) /\ t \in Seq(S)
  <2>1. s \in Seq(Items(s)) /\ t \in Seq(Items(t))
    BY SeqIs
  <2> QED
    BY <2>1
<1> HIDE DEF S
<1>2. s \o t \in Seq(S)
  BY <1>1
<1>3. IsSeq(s \o t)
  BY <1>2, SeqIs
<1> QED
  BY <1>1, <1>3

LEMMA SameSeq ==
    ASSUME NEW s, NEW t, IsSeq(s), IsSeq(t), Len(s) = Len(t), \A i \in 1..Len(s) : s[i] = t[i]
    PROVE  s = t
<1>1. [i \in 1..Len(s) |-> s[i]] = [i \in 1..Len(t) |-> t[i]]
  OBVIOUS
<1> QED
  BY <1>1 DEF IsSeq

LEMMA NoLines == /\ IsSeq(<<>>)
                 /\ \A s : IsSeq(s) => s \o <<>> = s /\ <<>> \o s = s
<1>1. IsSeq(<<>>)
  BY DEF IsSeq
<1>2. ASSUME NEW s, IsSeq(s) PROVE s \o <<>> = s /\ <<>> \o s = s
  <2>1. s \in Seq(Items(s))
    BY <1>2, SeqIs
  <2> QED
    BY <2>1
<1> QED
  BY <1>1, <1>2

LEMMA OneLine == \A l : IsSeq(<<l>>) /\ Len(<<l>>) = 1 /\ <<l>>[1] = l
BY DEF IsSeq

LEMMA ThenOne ==
    ASSUME NEW s, NEW l, IsSeq(s)
    PROVE  /\ Append(s, l) = s \o <<l>>
           /\ IsSeq(Append(s, l)) /\ Len(Append(s, l)) = Len(s) + 1
           /\ \A i \in 1..Len(s) : Append(s, l)[i] = s[i]
           /\ Append(s, l)[Len(s) + 1] = l
<1>1. s \in Seq(Items(s) \cup {l})
  <2>1. s \in Seq(Items(s))
    BY SeqIs
  <2> QED
    BY <2>1
<1> DEFINE S == Items(s) \cup {l}
<1>2. s \in Seq(S) /\ l \in S
  BY <1>1
<1> HIDE DEF S
<1>3. Append(s, l) \in Seq(S)
  BY <1>2
<1>4. IsSeq(Append(s, l))
  BY <1>3, SeqIs
<1> QED
  BY <1>2, <1>4

LEMMA ThenMore ==
    ASSUME NEW s, NEW t, NEW u, IsSeq(s), IsSeq(t), IsSeq(u)
    PROVE  (s \o t) \o u = s \o (t \o u)
<1> DEFINE S == Items(s) \cup Items(t) \cup Items(u)
<1>1. s \in Seq(S) /\ t \in Seq(S) /\ u \in Seq(S)
  <2>1. s \in Seq(Items(s)) /\ t \in Seq(Items(t)) /\ u \in Seq(Items(u))
    BY SeqIs
  <2> QED
    BY <2>1
<1> HIDE DEF S
<1> QED
  BY <1>1

(* The first n items of a sequence.                                             *)
First(s, n) == [i \in 1..n |-> s[i]]
LEMMA FirstIs ==
    ASSUME NEW s, NEW n \in Nat
    PROVE  /\ IsSeq(First(s, n)) /\ Len(First(s, n)) = n
           /\ First(s, 0) = <<>>
           /\ First(s, n + 1) = Append(First(s, n), s[n + 1])
           /\ IsSeq(s) => First(s, Len(s)) = s
<1>1. \A m \in Nat : IsSeq(First(s, m)) /\ Len(First(s, m)) = m
  <2> SUFFICES ASSUME NEW m \in Nat PROVE IsSeq(First(s, m)) /\ Len(First(s, m)) = m
    OBVIOUS
  <2> DEFINE S == {s[i] : i \in 1..m}
  <2>1. First(s, m) \in [1..m -> S]
    BY DEF First
  <2> HIDE DEF S
  <2>2. First(s, m) \in Seq(S) /\ Len(First(s, m)) = m
    BY <2>1
  <2> QED
    BY <2>2, SeqIs
<1>2. First(s, 0) = <<>>
  BY DEF First
<1>3. First(s, n + 1) = Append(First(s, n), s[n + 1])
  <2> DEFINE a == First(s, n + 1)
             b == Append(First(s, n), s[n + 1])
  <2>1. IsSeq(a) /\ Len(a) = n + 1
    BY <1>1
  <2>2. /\ IsSeq(b) /\ Len(b) = n + 1 /\ b[n + 1] = s[n + 1]
        /\ \A i \in 1..n : b[i] = First(s, n)[i]
    <3> DEFINE f == First(s, n)
    <3>1. IsSeq(f) /\ Len(f) = n
      BY <1>1
    <3> HIDE DEF f
    <3>2. /\ IsSeq(Append(f, s[n + 1])) /\ Len(Append(f, s[n + 1])) = Len(f) + 1
          /\ \A i \in 1..Len(f) : Append(f, s[n + 1])[i] = f[i]
          /\ Append(f, s[n + 1])[Len(f) + 1] = s[n + 1]
      BY <3>1, ThenOne
    <3> QED
      BY <3>1, <3>2 DEF f
  <2>3. \A i \in 1..(n + 1) : a[i] = s[i]
    BY DEF First
  <2>4. \A i \in 1..n : First(s, n)[i] = s[i]
    BY DEF First
  <2>5. \A i \in 1..(n + 1) : i \in 1..n \/ i = n + 1
    OBVIOUS
  <2> HIDE DEF a, b
  <2>6. \A i \in 1..(n + 1) : a[i] = b[i]
    BY <2>2, <2>3, <2>4, <2>5
  <2>7. a = b
    BY <2>1, <2>2, <2>6, SameSeq
  <2> QED
    BY <2>7 DEF a, b
<1>4. IsSeq(s) => First(s, Len(s)) = s
  BY DEF First, IsSeq
<1> QED
  BY <1>1, <1>2, <1>3, <1>4

(* The parser's state after each line.                                          *)
ParseTo(f, a, t, n) == f = [m \in 0..n |-> IF m = 0 THEN a ELSE Readers!ParseLine(f[m - 1], t[m])]

LEMMA ParseExists ==
    ASSUME NEW a, NEW t, NEW m \in Nat
    PROVE  \E f : ParseTo(f, a, t, m)
<1> DEFINE bad == {n \in Nat : ~\E f : ParseTo(f, a, t, n)}
<1>1. \E f : ParseTo(f, a, t, 0)
  <2> DEFINE f == [i \in 0..0 |-> a]
  <2>1. f = [i \in 0..0 |-> IF i = 0 THEN a ELSE Readers!ParseLine(f[i - 1], t[i])]
    OBVIOUS
  <2> QED
    BY <2>1 DEF ParseTo
<1>2. ASSUME NEW n \in Nat, n # 0, NEW g, ParseTo(g, a, t, n - 1)
      PROVE  \E f : ParseTo(f, a, t, n)
  <2> DEFINE last == Readers!ParseLine(g[n - 1], t[n])
             f == [i \in 0..n |-> IF i = n THEN last ELSE g[i]]
  <2>1. ASSUME NEW i \in 0..n
        PROVE  f[i] = IF i = 0 THEN a ELSE Readers!ParseLine(f[i - 1], t[i])
    <3>1. CASE i = n
      <4>1. f[i - 1] = g[n - 1] /\ f[i] = last /\ i # 0
        BY <1>2, <3>1
      <4> QED
        BY <3>1, <4>1
    <3>2. CASE i # n
      <4>1. i \in 0..(n - 1) /\ f[i] = g[i] /\ (i # 0 => f[i - 1] = g[i - 1])
        BY <3>2
      <4> HIDE DEF f
      <4>2. g[i] = IF i = 0 THEN a ELSE Readers!ParseLine(g[i - 1], t[i])
        BY <1>2, <4>1 DEF ParseTo
      <4> QED
        BY <4>1, <4>2
    <3> QED
      BY <3>1, <3>2
  <2>2. f = [i \in 0..n |-> f[i]]
    OBVIOUS
  <2> HIDE DEF f
  <2>3. ParseTo(f, a, t, n)
    BY <2>1, <2>2 DEF ParseTo
  <2> QED
    BY <2>3
<1>3. \A n \in bad : n # 0 /\ n - 1 \in bad
  <2> SUFFICES ASSUME NEW n \in bad
               PROVE  n # 0 /\ n - 1 \in bad
    OBVIOUS
  <2>1. n \in Nat /\ n # 0
    BY <1>1
  <2>2. ~\E f : ParseTo(f, a, t, n - 1)
    BY <1>2, <2>1
  <2> QED
    BY <2>1, <2>2
<1>4. bad = {}
  <2> HIDE DEF bad
  <2> QED
    BY <1>3, NoneIsBad DEF bad
<1> QED
  BY <1>4

ParseOf(f, a, t) ==
    /\ Readers!Parsed(a, t) = f[Len(t)]
    /\ f[0] = a
    /\ \A n \in 1..Len(t) : f[n] = Readers!ParseLine(f[n - 1], t[n])

LEMMA ParseDef ==
    ASSUME NEW a, NEW t, Len(t) \in Nat
    PROVE  \E f : ParseOf(f, a, t)
<1> DEFINE f == CHOOSE g : ParseTo(g, a, t, Len(t))
<1>1. ParseTo(f, a, t, Len(t))
  BY ParseExists
<1>2. Readers!Parsed(a, t) = f[Len(t)]
  BY DEF Readers!Parsed, ParseTo
<1> HIDE DEF f
<1>3. \A i \in 0..Len(t) : f[i] = IF i = 0 THEN a ELSE Readers!ParseLine(f[i - 1], t[i])
  BY <1>1 DEF ParseTo
<1>4. f[0] = a /\ \A i \in 1..Len(t) : f[i] = Readers!ParseLine(f[i - 1], t[i])
  BY <1>3
<1>5. ParseOf(f, a, t)
  BY <1>2, <1>4 DEF ParseOf
<1> QED
  BY <1>5

(* Reading a line, and reading one sequence of lines after another.             *)
LEMMA ParseOne ==
    ASSUME NEW a, NEW l
    PROVE  Readers!Parsed(a, <<l>>) = Readers!ParseLine(a, l)
<1> DEFINE t == <<l>>
<1>1. Len(t) = 1 /\ t[1] = l
  OBVIOUS
<1> HIDE DEF t
<1>2. PICK f : ParseOf(f, a, t)
  BY <1>1, ParseDef
<1>3. Readers!Parsed(a, t) = f[1] /\ f[0] = a /\ f[1] = Readers!ParseLine(f[1 - 1], t[1])
  BY <1>1, <1>2 DEF ParseOf
<1>4. 1 - 1 = 0
  OBVIOUS
<1> QED
  BY <1>1, <1>3, <1>4 DEF t

LEMMA ParseNone ==
    ASSUME NEW a
    PROVE  Readers!Parsed(a, <<>>) = a
<1> DEFINE t == <<>>
<1>1. Len(t) = 0 /\ Len(t) \in Nat
  OBVIOUS
<1> HIDE DEF t
<1>2. PICK f : ParseOf(f, a, t)
  BY <1>1, ParseDef
<1>3. Readers!Parsed(a, t) = f[0] /\ f[0] = a
  BY <1>1, <1>2 DEF ParseOf
<1> QED
  BY <1>3 DEF t

LEMMA ParseBoth ==
    ASSUME NEW a, NEW s, NEW t, IsSeq(s), IsSeq(t)
    PROVE  Readers!Parsed(a, s \o t) = Readers!Parsed(Readers!Parsed(a, s), t)
<1> DEFINE u == s \o t
           N == Len(s)
           M == Len(t)
<1>1. /\ IsSeq(u) /\ Len(u) = N + M /\ \A i \in 1..N : u[i] = s[i]
      /\ \A i \in 1..M : u[N + i] = t[i]
  BY ConcatIs
<1>2. N \in Nat /\ M \in Nat /\ Len(u) \in Nat
  BY <1>1 DEF IsSeq
<1> HIDE DEF u
<1>3. PICK f : ParseOf(f, a, u)
  BY <1>1, <1>2, ParseDef
<1>4. PICK g : ParseOf(g, a, s)
  BY <1>2, ParseDef
<1> DEFINE b == Readers!Parsed(a, s)
<1>5. PICK h : ParseOf(h, b, t)
  BY <1>2, ParseDef
<1> HIDE DEF b
<1>6. /\ Readers!Parsed(a, u) = f[N + M] /\ f[0] = a
      /\ \A n \in 1..(N + M) : f[n] = Readers!ParseLine(f[n - 1], u[n])
  BY <1>1, <1>3 DEF ParseOf
<1>7. /\ b = g[N] /\ g[0] = a /\ \A n \in 1..N : g[n] = Readers!ParseLine(g[n - 1], s[n])
  BY <1>4 DEF ParseOf, b
<1>8. /\ Readers!Parsed(b, t) = h[M] /\ h[0] = b /\ \A n \in 1..M : h[n] = Readers!ParseLine(h[n - 1], t[n])
  BY <1>5 DEF ParseOf
<1> HIDE DEF N, M
<1>9. \A n \in 0..N : f[n] = g[n]
  <2> DEFINE bad == {n \in 0..N : f[n] # g[n]}
  <2>1. ASSUME NEW n \in bad PROVE n # 0 /\ n - 1 \in bad
    <3>1. n # 0
      BY <1>6, <1>7
    <3>2. n \in 1..N /\ n \in 1..(N + M) /\ n - 1 \in 0..N
      BY <1>2, <3>1
    <3>3. f[n] = Readers!ParseLine(f[n - 1], s[n])
      BY <1>1, <1>6, <3>2
    <3>4. g[n] = Readers!ParseLine(g[n - 1], s[n])
      BY <1>7, <3>2
    <3>5. f[n - 1] # g[n - 1]
      BY <3>3, <3>4
    <3> QED
      BY <3>1, <3>2, <3>5
  <2>2. bad \in SUBSET Nat
    BY <1>2
  <2>3. bad = {}
    <3> HIDE DEF bad
    <3> QED
      BY <2>1, <2>2, NoneIsBad
  <2> QED
    BY <2>3
<1>10. \A n \in 0..M : f[N + n] = h[n]
  <2> DEFINE bad == {n \in 0..M : f[N + n] # h[n]}
  <2>1. ASSUME NEW n \in bad PROVE n # 0 /\ n - 1 \in bad
    <3>1. n # 0
      <4>1. N + 0 = N /\ N \in 0..N
        BY <1>2
      <4>2. f[N] = h[0]
        BY <1>7, <1>8, <1>9, <4>1
      <4> QED
        BY <4>1, <4>2
    <3>2. n \in 1..M /\ N + n \in 1..(N + M) /\ n - 1 \in 0..M /\ (N + n) - 1 = N + (n - 1)
      BY <1>2, <3>1
    <3>3. f[N + n] = Readers!ParseLine(f[N + (n - 1)], t[n])
      <4> DEFINE z == N + n
      <4>1. z \in 1..(N + M) /\ z - 1 = N + (n - 1) /\ u[z] = t[n]
        BY <1>1, <3>2 DEF N, M
      <4> HIDE DEF z
      <4>2. f[z] = Readers!ParseLine(f[z - 1], u[z])
        BY <1>6, <4>1
      <4>3. f[z] = Readers!ParseLine(f[N + (n - 1)], t[n])
        BY <4>1, <4>2
      <4> QED
        BY <4>3 DEF z
    <3>4. h[n] = Readers!ParseLine(h[n - 1], t[n])
      BY <1>8, <3>2
    <3>5. f[N + (n - 1)] # h[n - 1]
      BY <3>3, <3>4
    <3> QED
      BY <3>1, <3>2, <3>5
  <2>2. bad \in SUBSET Nat
    BY <1>2
  <2>3. bad = {}
    <3> HIDE DEF bad
    <3> QED
      BY <2>1, <2>2, NoneIsBad
  <2> QED
    BY <2>3
<1>11. M \in 0..M
  BY <1>2
<1>12. Readers!Parsed(a, u) = Readers!Parsed(b, t)
  BY <1>6, <1>8, <1>10, <1>11
<1> QED
  BY <1>12 DEF u, b

(* What FlattenSeq has put together after each sequence.                        *)
FlatTo(f, ss, n) == f = [m \in 1..n |-> IF m = 1 THEN ss[m] ELSE f[m - 1] \o ss[m]]

LEMMA FlatExists ==
    ASSUME NEW ss, NEW m \in Nat
    PROVE  \E f : FlatTo(f, ss, m)
<1> DEFINE bad == {n \in Nat : ~\E f : FlatTo(f, ss, n)}
<1>1. \E f : FlatTo(f, ss, 0)
  <2> DEFINE f == [i \in 1..0 |-> ss[i]]
  <2>1. f = [i \in 1..0 |-> IF i = 1 THEN ss[i] ELSE f[i - 1] \o ss[i]]
    OBVIOUS
  <2> QED
    BY <2>1 DEF FlatTo
<1>2. ASSUME NEW n \in Nat, n # 0, NEW g, FlatTo(g, ss, n - 1)
      PROVE  \E f : FlatTo(f, ss, n)
  <2> DEFINE last == IF n = 1 THEN ss[n] ELSE g[n - 1] \o ss[n]
             f == [i \in 1..n |-> IF i = n THEN last ELSE g[i]]
  <2>1. ASSUME NEW i \in 1..n
        PROVE  f[i] = IF i = 1 THEN ss[i] ELSE f[i - 1] \o ss[i]
    <3>1. CASE i = n
      <4>1. f[i] = last /\ (i # 1 => f[i - 1] = g[n - 1])
        BY <1>2, <3>1
      <4> QED
        BY <3>1, <4>1
    <3>2. CASE i # n
      <4>1. i \in 1..(n - 1) /\ f[i] = g[i] /\ (i # 1 => f[i - 1] = g[i - 1])
        BY <3>2
      <4> HIDE DEF f
      <4>2. g[i] = IF i = 1 THEN ss[i] ELSE g[i - 1] \o ss[i]
        BY <1>2, <4>1 DEF FlatTo
      <4> QED
        BY <4>1, <4>2
    <3> QED
      BY <3>1, <3>2
  <2>2. f = [i \in 1..n |-> f[i]]
    OBVIOUS
  <2> HIDE DEF f
  <2>3. FlatTo(f, ss, n)
    BY <2>1, <2>2 DEF FlatTo
  <2> QED
    BY <2>3
<1>3. \A n \in bad : n # 0 /\ n - 1 \in bad
  <2> SUFFICES ASSUME NEW n \in bad
               PROVE  n # 0 /\ n - 1 \in bad
    OBVIOUS
  <2>1. n \in Nat /\ n # 0
    BY <1>1
  <2>2. ~\E f : FlatTo(f, ss, n - 1)
    BY <1>2, <2>1
  <2> QED
    BY <2>1, <2>2
<1>4. bad = {}
  <2> HIDE DEF bad
  <2> QED
    BY <1>3, NoneIsBad DEF bad
<1> QED
  BY <1>4

(* The sequences of a sequence put together, as the partial results F.          *)
FlatOf(F, ss) ==
    /\ Readers!FlattenSeq(ss) = F[Len(ss)]
    /\ F[0] = <<>>
    /\ \A n \in 1..Len(ss) : F[n] = F[n - 1] \o ss[n]
    /\ \A n \in 0..Len(ss) : IsSeq(F[n])
AllSeqs(ss) == Len(ss) \in Nat /\ IsSeq(ss) /\ \A n \in 1..Len(ss) : IsSeq(ss[n])

LEMMA FlatDef ==
    ASSUME NEW ss, AllSeqs(ss)
    PROVE  \E F : FlatOf(F, ss)
<1> DEFINE N == Len(ss)
           f == CHOOSE g : FlatTo(g, ss, N)
           F == [n \in 0..N |-> IF n = 0 THEN <<>> ELSE f[n]]
<1>1. N \in Nat /\ \A n \in 1..N : IsSeq(ss[n])
  BY DEF AllSeqs
<1>2. FlatTo(f, ss, N)
  BY <1>1, FlatExists
<1>3. N # 0 => Readers!FlattenSeq(ss) = f[N]
  BY DEF Readers!FlattenSeq, FlatTo
<1>4. N = 0 => Readers!FlattenSeq(ss) = <<>>
  <2>1. N = 0 => ss = <<>>
    BY DEF AllSeqs, IsSeq
  <2> QED
    BY <2>1 DEF Readers!FlattenSeq
<1> HIDE DEF f
<1>5. \A n \in 1..N : f[n] = IF n = 1 THEN ss[n] ELSE f[n - 1] \o ss[n]
  BY <1>2 DEF FlatTo
<1>6. F[0] = <<>> /\ \A n \in 1..N : F[n] = f[n]
  BY <1>1
<1>7. Readers!FlattenSeq(ss) = F[N]
  BY <1>1, <1>3, <1>4, <1>6
<1> HIDE DEF F, N
<1>8. ASSUME NEW n \in 1..N PROVE F[n] = F[n - 1] \o ss[n]
  <2>1. CASE n = 1
    <3>1. F[1] = ss[1] /\ IsSeq(ss[1])
      BY <1>1, <1>5, <1>6, <2>1
    <3>2. <<>> \o ss[1] = ss[1]
      BY <3>1, NoLines
    <3>3. 1 - 1 = 0
      OBVIOUS
    <3> QED
      BY <1>6, <2>1, <3>1, <3>2, <3>3
  <2>2. CASE n # 1
    <3>1. n - 1 \in 1..N
      BY <1>1, <2>2
    <3> QED
      BY <1>5, <1>6, <2>2, <3>1
  <2> QED
    BY <2>1, <2>2
<1>9. \A n \in 0..N : IsSeq(F[n])
  <2> DEFINE bad == {n \in 0..N : ~IsSeq(F[n])}
  <2>1. ASSUME NEW n \in bad PROVE n # 0 /\ n - 1 \in bad
    <3>1. n # 0
      BY <1>6, NoLines
    <3>2. n \in 1..N /\ n - 1 \in 0..N
      BY <1>1, <3>1
    <3>3. ~IsSeq(F[n - 1])
      <4> DEFINE g == F[n - 1]
                 t == ss[n]
      <4>1. F[n] = g \o t /\ IsSeq(t) /\ ~IsSeq(F[n])
        BY <1>1, <1>8, <3>2
      <4> HIDE DEF g, t
      <4>2. IsSeq(g) => IsSeq(g \o t)
        BY <4>1, ConcatIs
      <4>3. ~IsSeq(g)
        BY <4>1, <4>2
      <4> QED
        BY <4>3 DEF g
    <3> QED
      BY <3>1, <3>2, <3>3
  <2>2. bad \in SUBSET Nat
    BY <1>1
  <2>3. bad = {}
    <3> HIDE DEF bad
    <3> QED
      BY <2>1, <2>2, NoneIsBad
  <2> QED
    BY <2>3
<1>10. FlatOf(F, ss)
  BY <1>6, <1>7, <1>8, <1>9 DEF FlatOf, N
<1> QED
  BY <1>10

(* What the parser gives back, line for line.                                   *)
Gives(a, s, b) == IsSeq(s) /\ Readers!Parsed(a, s) = b
LEMMA GivesNone == \A a : Gives(a, <<>>, a)
BY ParseNone, NoLines DEF Gives
LEMMA GivesOne == \A a, l, b : Readers!ParseLine(a, l) = b => Gives(a, <<l>>, b)
BY ParseOne, OneLine DEF Gives
LEMMA GivesBoth ==
    ASSUME NEW a, NEW s, NEW b, NEW t, NEW c, Gives(a, s, b), Gives(b, t, c)
    PROVE  Gives(a, s \o t, c)
<1>1. IsSeq(s) /\ IsSeq(t) /\ IsSeq(s \o t)
  BY ConcatIs DEF Gives
<1>2. Readers!Parsed(a, s \o t) = Readers!Parsed(Readers!Parsed(a, s), t)
  BY <1>1, ParseBoth
<1> QED
  BY <1>1, <1>2 DEF Gives

(* A state of the parser, and a hunk it has filed.                              *)
State(o, n, hunk, hs, ol, nl) == [old |-> o, new |-> n, hunk |-> hunk, oldLeft |-> ol, newLeft |-> nl, hunks |-> hs]
Rec(k, c, a, d) == [file |-> k, context |-> c, added |-> a, removed |-> d]
KeyIn(o, n) == IF n # NoPath THEN n ELSE o

LEMMA RecIs ==
    ASSUME NEW k, NEW c, NEW a, NEW d
    PROVE  Rec(k, c, a, d).added = a /\ Rec(k, c, a, d).removed = d
BY DEF Rec

SetAdded(h, y) == [h EXCEPT !.added = y]
SetRemoved(h, y) == [h EXCEPT !.removed = y]
LEMMA RecSet ==
    ASSUME NEW k, NEW c, NEW a, NEW d, NEW y
    PROVE  /\ SetAdded(Rec(k, c, a, d), y) = Rec(k, c, y, d)
           /\ SetRemoved(Rec(k, c, a, d), y) = Rec(k, c, a, y)
<1>1. [Rec(k, c, a, d) EXCEPT !.added = y] = Rec(k, c, y, d)
  BY DEF Rec
<1>2. [Rec(k, c, a, d) EXCEPT !.removed = y] = Rec(k, c, a, y)
  BY DEF Rec
<1> QED
  BY <1>1, <1>2 DEF SetAdded, SetRemoved

LEMMA StateIs ==
    ASSUME NEW o, NEW n, NEW k, NEW hs, NEW ol, NEW nl
    PROVE  /\ State(o, n, k, hs, ol, nl).hunk = k /\ State(o, n, k, hs, ol, nl).hunks = hs
           /\ State(o, n, k, hs, ol, nl).oldLeft = ol /\ State(o, n, k, hs, ol, nl).newLeft = nl
           /\ State(o, n, k, hs, ol, nl).old = o /\ State(o, n, k, hs, ol, nl).new = n
BY DEF State

SetHunks(s, y) == [s EXCEPT !.hunks = y]
SetOldLeft(s, y) == [s EXCEPT !.oldLeft = y]
SetNewLeft(s, y) == [s EXCEPT !.newLeft = y]
SetHunk(s, y) == [s EXCEPT !.hunk = y]
LEMMA StateSet ==
    ASSUME NEW o, NEW n, NEW k, NEW hs, NEW ol, NEW nl, NEW y
    PROVE  /\ SetHunks(State(o, n, k, hs, ol, nl), y) = State(o, n, k, y, ol, nl)
           /\ SetOldLeft(State(o, n, k, hs, ol, nl), y) = State(o, n, k, hs, y, nl)
           /\ SetNewLeft(State(o, n, k, hs, ol, nl), y) = State(o, n, k, hs, ol, y)
           /\ SetHunk(State(o, n, k, hs, ol, nl), y) = State(o, n, y, hs, ol, nl)
<1>1. [State(o, n, k, hs, ol, nl) EXCEPT !.hunks = y] = State(o, n, k, y, ol, nl)
  BY DEF State
<1>2. [State(o, n, k, hs, ol, nl) EXCEPT !.oldLeft = y] = State(o, n, k, hs, y, nl)
  BY DEF State
<1>3. [State(o, n, k, hs, ol, nl) EXCEPT !.newLeft = y] = State(o, n, k, hs, ol, y)
  BY DEF State
<1>4. [State(o, n, k, hs, ol, nl) EXCEPT !.hunk = y] = State(o, n, y, hs, ol, nl)
  BY DEF State
<1> QED
  BY <1>1, <1>2, <1>3, <1>4 DEF SetHunks, SetOldLeft, SetNewLeft, SetHunk

LEMMA MarkedLine ==
    ASSUME NEW mark, NEW t, IsSeq(t)
    PROVE  (<<mark>> \o t)[1] = mark /\ Tail(<<mark>> \o t) = t
<1>1. t \in Seq(Items(t) \cup {mark}) /\ <<mark>> \in Seq(Items(t) \cup {mark})
  <2>1. t \in Seq(Items(t))
    BY SeqIs
  <2> QED
    BY <2>1
<1> QED
  BY <1>1

LEMMA PushIs ==
    ASSUME NEW hs, IsSeq(hs), NEW k, NEW c, NEW a, NEW d, NEW t
    PROVE  /\ Readers!PushAdded(Append(hs, Rec(k, c, a, d)), t) = Append(hs, Rec(k, c, Append(a, t), d))
           /\ Readers!PushRemoved(Append(hs, Rec(k, c, a, d)), t) = Append(hs, Rec(k, c, a, Append(d, t)))
<1> DEFINE N == Len(hs)
           x == Rec(k, c, a, d)
           u == Append(hs, x)
<1>1. N \in Nat
  BY DEF IsSeq
<1>2. /\ IsSeq(u) /\ Len(u) = N + 1 /\ u[N + 1] = x
      /\ \A i \in 1..N : u[i] = hs[i]
  BY ThenOne
<1>3. ASSUME NEW y PROVE [u EXCEPT ![Len(u)] = y] = Append(hs, y)
  <2> DEFINE v == Append(hs, y)
             w == [u EXCEPT ![Len(u)] = y]
  <2>1. /\ IsSeq(v) /\ Len(v) = N + 1 /\ v[N + 1] = y
        /\ \A i \in 1..N : v[i] = hs[i]
    BY ThenOne
  <2> HIDE DEF v, N
  <2>2. u = [i \in 1..(N + 1) |-> u[i]] /\ v = [i \in 1..(N + 1) |-> v[i]]
    BY <1>2, <2>1 DEF IsSeq
  <2> HIDE DEF u
  <2>3. w = [i \in 1..(N + 1) |-> IF i = N + 1 THEN y ELSE u[i]]
    BY <1>2, <2>2
  <2>4. \A i \in 1..(N + 1) : v[i] = IF i = N + 1 THEN y ELSE u[i]
    <3>1. \A i \in 1..(N + 1) : i \in 1..N \/ i = N + 1
      BY <1>1
    <3> QED
      BY <1>2, <2>1, <3>1
  <2> QED
    BY <2>2, <2>3, <2>4 DEF v
<1>4. Readers!WithAdded(x, t) = Rec(k, c, Append(a, t), d) /\ Readers!WithRemoved(x, t) = Rec(k, c, a, Append(d, t))
  <2> DEFINE y == Append(a, t)
             z == Append(d, t)
  <2>1. Readers!WithAdded(x, t) = SetAdded(x, y) /\ Readers!WithRemoved(x, t) = SetRemoved(x, z)
    <3>1. x.added = a /\ x.removed = d
      BY RecIs
    <3> HIDE DEF x
    <3> QED
      BY <3>1 DEF Readers!WithAdded, Readers!WithRemoved, SetAdded, SetRemoved
  <2> HIDE DEF y, z
  <2>2. SetAdded(x, y) = Rec(k, c, y, d) /\ SetRemoved(x, z) = Rec(k, c, a, z)
    BY RecSet
  <2> HIDE DEF x
  <2> QED
    BY <2>1, <2>2 DEF y, z
<1>5. u[Len(u)] = x
  BY <1>2
<1> HIDE DEF u, x
<1>6. /\ Readers!PushAdded(u, t) = [u EXCEPT ![Len(u)] = Readers!WithAdded(u[Len(u)], t)]
      /\ Readers!PushRemoved(u, t) = [u EXCEPT ![Len(u)] = Readers!WithRemoved(u[Len(u)], t)]
  BY DEF Readers!PushAdded, Readers!PushRemoved
<1>7. /\ Readers!PushAdded(u, t) = Append(hs, Rec(k, c, Append(a, t), d))
      /\ Readers!PushRemoved(u, t) = Append(hs, Rec(k, c, a, Append(d, t)))
  BY <1>3, <1>4, <1>5, <1>6
<1> QED
  BY <1>7 DEF u, x

LEMMA RemovedLine ==
    ASSUME NEW o, NEW n, NEW hs, IsSeq(hs), NEW k, NEW c, NEW a, NEW d, NEW t, IsSeq(t),
           NEW ol \in Nat, ol # 0, NEW nl \in Nat
    PROVE  Readers!ParseLine(State(o, n, "last", Append(hs, Rec(k, c, a, d)), ol, nl), <<"-">> \o t)
               = State(o, n, "last", Append(hs, Rec(k, c, a, Append(d, t))), ol - 1, nl)
<1> DEFINE l == <<"-">> \o t
           u == Append(hs, Rec(k, c, a, d))
           v == Append(hs, Rec(k, c, a, Append(d, t)))
<1>1. l[1] = "-" /\ Tail(l) = t
  BY MarkedLine
<1>2. Readers!PushRemoved(u, t) = v
  BY PushIs
<1> HIDE DEF l, u, v
<1> DEFINE s == State(o, n, "last", u, ol, nl)
<1>3. s.hunk = "last" /\ s.oldLeft = ol /\ s.newLeft = nl /\ s.hunks = u
  BY StateIs
<1>4. Readers!Inside(s) /\ s.oldLeft > 0
  BY <1>3 DEF Readers!Inside
<1> DEFINE z == ol - 1
<1>5. Readers!ParseLine(s, l) = SetOldLeft(SetHunks(s, v), z)
  <2> HIDE DEF s
  <2>1. Readers!ParseLine(s, l) = [s EXCEPT !.hunks = Readers!PushRemoved(@, Tail(l)), !.oldLeft = @ - 1]
    BY <1>1, <1>4 DEF Readers!ParseLine
  <2>2. Readers!PushRemoved(s.hunks, Tail(l)) = v /\ s.oldLeft - 1 = z
    BY <1>1, <1>2, <1>3
  <2> QED
    BY <2>1, <2>2 DEF SetHunks, SetOldLeft
<1>6. SetOldLeft(SetHunks(s, v), z) = State(o, n, "last", v, z, nl)
  <2> HIDE DEF z
  <2> QED
    BY StateSet
<1> QED
  BY <1>5, <1>6 DEF l, u, v

LEMMA AddedLine ==
    ASSUME NEW o, NEW n, NEW hs, IsSeq(hs), NEW k, NEW c, NEW a, NEW d, NEW t, IsSeq(t),
           NEW nl \in Nat, nl # 0, NEW ol \in Nat
    PROVE  Readers!ParseLine(State(o, n, "last", Append(hs, Rec(k, c, a, d)), ol, nl), <<"+">> \o t)
               = State(o, n, "last", Append(hs, Rec(k, c, Append(a, t), d)), ol, nl - 1)
<1> DEFINE l == <<"+">> \o t
           u == Append(hs, Rec(k, c, a, d))
           v == Append(hs, Rec(k, c, Append(a, t), d))
<1>1. l[1] = "+" /\ Tail(l) = t
  BY MarkedLine
<1>2. Readers!PushAdded(u, t) = v
  BY PushIs
<1> HIDE DEF l, u, v
<1> DEFINE s == State(o, n, "last", u, ol, nl)
<1>3. s.hunk = "last" /\ s.oldLeft = ol /\ s.newLeft = nl /\ s.hunks = u
  BY StateIs
<1>4. Readers!Inside(s) /\ s.newLeft > 0
  BY <1>3 DEF Readers!Inside
<1> DEFINE z == nl - 1
<1>5. Readers!ParseLine(s, l) = SetNewLeft(SetHunks(s, v), z)
  <2> HIDE DEF s
  <2>1. Readers!ParseLine(s, l) = [s EXCEPT !.hunks = Readers!PushAdded(@, Tail(l)), !.newLeft = @ - 1]
    BY <1>1, <1>4 DEF Readers!ParseLine
  <2>2. Readers!PushAdded(s.hunks, Tail(l)) = v /\ s.newLeft - 1 = z
    BY <1>1, <1>2, <1>3
  <2> QED
    BY <2>1, <2>2 DEF SetHunks, SetNewLeft
<1>6. SetNewLeft(SetHunks(s, v), z) = State(o, n, "last", v, ol, z)
  <2> HIDE DEF z
  <2> QED
    BY StateSet
<1> QED
  BY <1>5, <1>6 DEF l, u, v

(* The note about a missing newline, inside a hunk and behind its last line.    *)
LEMMA NoteLine ==
    ASSUME NEW o, NEW n, NEW u, NEW nl \in Nat
    PROVE  Readers!ParseLine(State(o, n, "last", u, 0, nl), <<"\\">>) = State(o, n, "last", u, 0, nl)
<1> DEFINE l == <<"\\">>
           s == State(o, n, "last", u, 0, nl)
<1>1. l[1] = "\\" /\ Len(l) = 1
  OBVIOUS
<1>2. s.hunk = "last" /\ s.oldLeft = 0 /\ s.newLeft = nl
  BY StateIs
<1>3. CASE nl > 0
  <2> HIDE DEF l, s
  <2>1. Readers!ParseLine(s, l) = s
    BY <1>1, <1>2, <1>3 DEF Readers!ParseLine, Readers!Inside
  <2> QED
    BY <2>1 DEF l, s
<1>4. CASE nl = 0
  <2>1. ~Readers!Inside(s)
    BY <1>2, <1>4 DEF Readers!Inside
  <2>2. SetNewLeft(SetOldLeft(s, 0), 0) = s
    BY <1>4, StateSet
  <2> HIDE DEF l, s
  <2>3. Readers!ParseLine(s, l) = Readers!Between(s, l)
    BY <1>1, <2>1 DEF Readers!ParseLine
  <2>4. Readers!Between(s, l) = s
    BY <1>1, <2>2 DEF Readers!Between, Readers!IsHeader, SetNewLeft, SetOldLeft
  <2> QED
    BY <2>3, <2>4 DEF l, s
<1> QED
  BY <1>3, <1>4

LEMMA HunkLine ==
    ASSUME NEW o, NEW n, KeyIn(o, n) # NoPath, NEW hunk, NEW hs, NEW ol, NEW nl, NEW c
    PROVE  Readers!ParseLine(State(o, n, hunk, hs, 0, 0), <<"@@", ol, nl, c>>)
               = State(o, n, "last", Append(hs, Rec(KeyIn(o, n), c, <<>>, <<>>)), ol, nl)
<1> DEFINE l == <<"@@", ol, nl, c>>
           s == State(o, n, hunk, hs, 0, 0)
<1>1. l[1] = "@@" /\ l[2] = ol /\ l[3] = nl /\ l[4] = c
  OBVIOUS
<1>2. s.oldLeft = 0 /\ s.newLeft = 0 /\ s.old = o /\ s.new = n
  BY StateIs
<1> DEFINE x == Rec(KeyIn(o, n), c, <<>>, <<>>)
           a == SetNewLeft(SetOldLeft(s, 0), 0)
           z == Append(hs, x)
<1>3. a = s
  BY StateSet
<1>4. SetHunks(SetNewLeft(SetOldLeft(SetHunk(s, "last"), ol), nl), z) = State(o, n, "last", z, ol, nl)
  <2> HIDE DEF z
  <2> QED
    BY StateSet
<1>5. x = Readers!Hunk(KeyIn(o, n), c)
  BY DEF Readers!Hunk, Rec
<1>6. s.hunks = hs
  BY StateIs
<1> HIDE DEF l, s, x
<1>7. Readers!ParseLine(s, l) = Readers!Between(s, l)
  BY <1>1, <1>2 DEF Readers!ParseLine, Readers!Inside
<1>8. Readers!Between(s, l) = SetHunks(SetNewLeft(SetOldLeft(SetHunk(s, "last"), ol), nl), z)
  <2>1. [s EXCEPT !.oldLeft = 0, !.newLeft = 0] = s
    BY <1>3 DEF SetNewLeft, SetOldLeft
  <2>2. Readers!Between(s, l) = [s EXCEPT !.hunk = "last", !.oldLeft = l[2], !.newLeft = l[3],
                                          !.hunks = Append(@, Readers!Hunk(KeyIn(o, n), l[4]))]
    BY <1>1, <1>2, <2>1 DEF Readers!Between, Readers!IsHeader, KeyIn
  <2>3. Append(s.hunks, Readers!Hunk(KeyIn(o, n), l[4])) = z
    BY <1>1, <1>5, <1>6
  <2> HIDE DEF z
  <2> QED
    BY <1>1, <2>2, <2>3 DEF SetNewLeft, SetOldLeft, SetHunks, SetHunk
<1> QED
  BY <1>4, <1>7, <1>8 DEF l, s, x

(* The lines of one side of a hunk, read one by one.                            *)
AllTexts(ts) == IsSeq(ts) /\ \A i \in 1..Len(ts) : IsSeq(ts[i])
SideLines(mark, ts) == [i \in 1..Len(ts) |-> <<mark>> \o ts[i]]

Removing(o, n, hs, k, c, ts, x, m) == State(o, n, "last", Append(hs, Rec(k, c, <<>>, First(ts, m))), Len(ts) - m, x)

LEMMA RemovingIs ==
    ASSUME NEW o, NEW n, NEW hs, IsSeq(hs), NEW k, NEW c, NEW ts, AllTexts(ts), NEW x \in Nat
    PROVE  Gives(Removing(o, n, hs, k, c, ts, x, 0), SideLines("-", ts), Removing(o, n, hs, k, c, ts, x, Len(ts)))
<1> DEFINE N == Len(ts)
           L == SideLines("-", ts)
           X(m) == Removing(o, n, hs, k, c, ts, x, m)
           good(m) == Gives(X(0), First(L, m), X(m))
           bad == {m \in 0..N : ~good(m)}
<1>1. N \in Nat /\ IsSeq(ts) /\ \A i \in 1..N : IsSeq(ts[i])
  BY DEF AllTexts, IsSeq
<1>2. IsSeq(L) /\ Len(L) = N /\ \A i \in 1..N : L[i] = <<"-">> \o ts[i]
  BY <1>1 DEF SideLines, IsSeq
<1>3. ASSUME NEW m \in 0..N, m < N
      PROVE  Readers!ParseLine(X(m), L[m + 1]) = X(m + 1)
  <2> DEFINE z == m + 1
             d == First(ts, m)
             t == ts[z]
             q == N - m
  <2>1. z \in 1..N /\ m \in Nat /\ q \in Nat /\ q # 0 /\ q - 1 = N - z
    BY <1>1, <1>3
  <2>2. IsSeq(t) /\ L[z] = <<"-">> \o t
    <3> HIDE DEF z, L, N
    <3> QED
      BY <1>1, <1>2, <2>1
  <2>3. First(ts, z) = Append(d, t)
    BY <2>1, FirstIs
  <2> HIDE DEF z, d, t, q
  <2>4. Readers!ParseLine(State(o, n, "last", Append(hs, Rec(k, c, <<>>, d)), q, x), <<"-">> \o t)
          = State(o, n, "last", Append(hs, Rec(k, c, <<>>, Append(d, t))), q - 1, x)
    BY <2>1, <2>2, RemovedLine
  <2>5. X(m) = State(o, n, "last", Append(hs, Rec(k, c, <<>>, d)), q, x)
    BY DEF Removing, d, q
  <2>6. X(z) = State(o, n, "last", Append(hs, Rec(k, c, <<>>, Append(d, t))), q - 1, x)
    BY <2>1, <2>3 DEF Removing
  <2> HIDE DEF X, L
  <2> QED
    BY <2>2, <2>4, <2>5, <2>6 DEF z
<1>4. good(0)
  <2>1. First(L, 0) = <<>>
    BY FirstIs
  <2> HIDE DEF X, L
  <2> QED
    BY <2>1, GivesNone
<1> HIDE DEF X, L, N
<1>5. ASSUME NEW m \in 0..N, m < N, good(m) PROVE good(m + 1)
  <2> DEFINE l == L[m + 1]
             p == First(L, m)
             y == X(m + 1)
  <2>1. m \in Nat
    BY <1>1
  <2>2. First(L, m + 1) = Append(p, l) /\ IsSeq(p)
    BY <2>1, FirstIs
  <2>3. Append(p, l) = p \o <<l>>
    <3> HIDE DEF p, l
    <3> QED
      BY <2>2, ThenOne
  <2>4. Readers!ParseLine(X(m), l) = y
    BY <1>3, <1>5
  <2>5. Gives(X(0), p, X(m))
    BY <1>5
  <2> HIDE DEF p, l, y
  <2>6. Gives(X(m), <<l>>, y)
    BY <2>4, GivesOne
  <2>7. Gives(X(0), p \o <<l>>, y)
    BY <2>5, <2>6, GivesBoth
  <2> QED
    BY <2>2, <2>3, <2>7 DEF y
<1>6. ASSUME NEW m \in bad PROVE m # 0 /\ m - 1 \in bad
  <2> HIDE DEF good
  <2>1. m # 0
    BY <1>4
  <2> DEFINE j == m - 1
  <2>2. j \in 0..N /\ j < N /\ j + 1 = m
    BY <1>1, <2>1
  <2> HIDE DEF j
  <2>3. ~good(j)
    <3>1. good(j) => good(j + 1)
      BY <1>5, <2>2
    <3> QED
      BY <2>2, <3>1
  <2> QED
    BY <2>1, <2>2, <2>3 DEF j
<1>7. bad = {}
  <2>1. bad \in SUBSET Nat
    BY <1>1
  <2> HIDE DEF bad
  <2> QED
    BY <1>6, <2>1, NoneIsBad
<1>8. good(N)
  <2> HIDE DEF good
  <2>1. N \in 0..N
    BY <1>1
  <2> QED
    BY <1>7, <2>1
<1>9. First(L, N) = L
  BY <1>2, FirstIs
<1>10. Gives(X(0), L, X(N))
  BY <1>8, <1>9
<1> QED
  BY <1>10 DEF X, L, N

Adding(o, n, hs, k, c, ts, x, m) == State(o, n, "last", Append(hs, Rec(k, c, First(ts, m), x)), 0, Len(ts) - m)

LEMMA AddingIs ==
    ASSUME NEW o, NEW n, NEW hs, IsSeq(hs), NEW k, NEW c, NEW ts, AllTexts(ts), NEW x
    PROVE  Gives(Adding(o, n, hs, k, c, ts, x, 0), SideLines("+", ts), Adding(o, n, hs, k, c, ts, x, Len(ts)))
<1> DEFINE N == Len(ts)
           L == SideLines("+", ts)
           X(m) == Adding(o, n, hs, k, c, ts, x, m)
           good(m) == Gives(X(0), First(L, m), X(m))
           bad == {m \in 0..N : ~good(m)}
<1>1. N \in Nat /\ IsSeq(ts) /\ \A i \in 1..N : IsSeq(ts[i])
  BY DEF AllTexts, IsSeq
<1>2. IsSeq(L) /\ Len(L) = N /\ \A i \in 1..N : L[i] = <<"+">> \o ts[i]
  BY <1>1 DEF SideLines, IsSeq
<1>3. ASSUME NEW m \in 0..N, m < N
      PROVE  Readers!ParseLine(X(m), L[m + 1]) = X(m + 1)
  <2> DEFINE z == m + 1
             d == First(ts, m)
             t == ts[z]
             q == N - m
  <2>1. z \in 1..N /\ m \in Nat /\ q \in Nat /\ q # 0 /\ q - 1 = N - z
    BY <1>1, <1>3
  <2>2. IsSeq(t) /\ L[z] = <<"+">> \o t
    <3> HIDE DEF z, L, N
    <3> QED
      BY <1>1, <1>2, <2>1
  <2>3. First(ts, z) = Append(d, t)
    BY <2>1, FirstIs
  <2> HIDE DEF z, d, t, q
  <2>4. Readers!ParseLine(State(o, n, "last", Append(hs, Rec(k, c, d, x)), 0, q), <<"+">> \o t)
          = State(o, n, "last", Append(hs, Rec(k, c, Append(d, t), x)), 0, q - 1)
    BY <2>1, <2>2, AddedLine
  <2>5. X(m) = State(o, n, "last", Append(hs, Rec(k, c, d, x)), 0, q)
    BY DEF Adding, d, q
  <2>6. X(z) = State(o, n, "last", Append(hs, Rec(k, c, Append(d, t), x)), 0, q - 1)
    BY <2>1, <2>3 DEF Adding
  <2> HIDE DEF X, L
  <2> QED
    BY <2>2, <2>4, <2>5, <2>6 DEF z
<1>4. good(0)
  <2>1. First(L, 0) = <<>>
    BY FirstIs
  <2> HIDE DEF X, L
  <2> QED
    BY <2>1, GivesNone
<1> HIDE DEF X, L, N
<1>5. ASSUME NEW m \in 0..N, m < N, good(m) PROVE good(m + 1)
  <2> DEFINE l == L[m + 1]
             p == First(L, m)
             y == X(m + 1)
  <2>1. m \in Nat
    BY <1>1
  <2>2. First(L, m + 1) = Append(p, l) /\ IsSeq(p)
    BY <2>1, FirstIs
  <2>3. Append(p, l) = p \o <<l>>
    <3> HIDE DEF p, l
    <3> QED
      BY <2>2, ThenOne
  <2>4. Readers!ParseLine(X(m), l) = y
    BY <1>3, <1>5
  <2>5. Gives(X(0), p, X(m))
    BY <1>5
  <2> HIDE DEF p, l, y
  <2>6. Gives(X(m), <<l>>, y)
    BY <2>4, GivesOne
  <2>7. Gives(X(0), p \o <<l>>, y)
    BY <2>5, <2>6, GivesBoth
  <2> QED
    BY <2>2, <2>3, <2>7 DEF y
<1>6. ASSUME NEW m \in bad PROVE m # 0 /\ m - 1 \in bad
  <2> HIDE DEF good
  <2>1. m # 0
    BY <1>4
  <2> DEFINE j == m - 1
  <2>2. j \in 0..N /\ j < N /\ j + 1 = m
    BY <1>1, <2>1
  <2> HIDE DEF j
  <2>3. ~good(j)
    <3>1. good(j) => good(j + 1)
      BY <1>5, <2>2
    <3> QED
      BY <2>2, <3>1
  <2> QED
    BY <2>1, <2>2, <2>3 DEF j
<1>7. bad = {}
  <2>1. bad \in SUBSET Nat
    BY <1>1
  <2> HIDE DEF bad
  <2> QED
    BY <1>6, <2>1, NoneIsBad
<1>8. good(N)
  <2> HIDE DEF good
  <2>1. N \in 0..N
    BY <1>1
  <2> QED
    BY <1>7, <2>1
<1>9. First(L, N) = L
  BY <1>2, FirstIs
<1>10. Gives(X(0), L, X(N))
  BY <1>8, <1>9
<1> QED
  BY <1>10 DEF X, L, N

(* The lines between hunks: a new file, and the names of its two sides.         *)
SetOld(s, y) == [s EXCEPT !.old = y]
SetNew(s, y) == [s EXCEPT !.new = y]
LEMMA NameSet ==
    ASSUME NEW o, NEW n, NEW k, NEW hs, NEW ol, NEW nl, NEW y
    PROVE  /\ SetOld(State(o, n, k, hs, ol, nl), y) = State(y, n, k, hs, ol, nl)
           /\ SetNew(State(o, n, k, hs, ol, nl), y) = State(o, y, k, hs, ol, nl)
<1>1. [State(o, n, k, hs, ol, nl) EXCEPT !.old = y] = State(y, n, k, hs, ol, nl)
  BY DEF State
<1>2. [State(o, n, k, hs, ol, nl) EXCEPT !.new = y] = State(o, y, k, hs, ol, nl)
  BY DEF State
<1> QED
  BY <1>1, <1>2 DEF SetOld, SetNew

LEMMA BetweenHunks ==
    ASSUME NEW o, NEW n, NEW k, NEW hs, NEW l
    PROVE  /\ Readers!ParseLine(State(o, n, k, hs, 0, 0), l) = Readers!Between(State(o, n, k, hs, 0, 0), l)
           /\ SetNewLeft(SetOldLeft(State(o, n, k, hs, 0, 0), 0), 0) = State(o, n, k, hs, 0, 0)
<1> DEFINE s == State(o, n, k, hs, 0, 0)
<1>1. s.oldLeft = 0 /\ s.newLeft = 0
  BY StateIs
<1>2. SetNewLeft(SetOldLeft(s, 0), 0) = s
  BY StateSet
<1> HIDE DEF s
<1>3. Readers!ParseLine(s, l) = Readers!Between(s, l)
  BY <1>1 DEF Readers!ParseLine, Readers!Inside
<1> QED
  BY <1>2, <1>3 DEF s

LEMMA DiffLine ==
    ASSUME NEW o, NEW n, NEW k, NEW hs
    PROVE  Readers!ParseLine(State(o, n, k, hs, 0, 0), <<"diff">>) = State(NoPath, NoPath, "none", hs, 0, 0)
<1> DEFINE l == <<"diff">>
           s == State(o, n, k, hs, 0, 0)
<1>1. l[1] = "diff"
  OBVIOUS
<1>2. Readers!ParseLine(s, l) = Readers!Between(s, l) /\ SetNewLeft(SetOldLeft(s, 0), 0) = s
  BY BetweenHunks
<1>3. SetHunk(SetNew(SetOld(s, NoPath), NoPath), "none") = State(NoPath, NoPath, "none", hs, 0, 0)
  BY NameSet, StateSet
<1> HIDE DEF l, s
<1>4. Readers!Between(s, l) = SetHunk(SetNew(SetOld(s, NoPath), NoPath), "none")
  <2>1. [s EXCEPT !.oldLeft = 0, !.newLeft = 0] = s
    BY <1>2 DEF SetNewLeft, SetOldLeft
  <2> QED
    BY <1>1, <2>1 DEF Readers!Between, SetHunk, SetNew, SetOld
<1> QED
  BY <1>2, <1>3, <1>4 DEF l, s

LEMMA NameIs ==
    ASSUME NEW mark, NEW token, NEW p
    PROVE  /\ Readers!Name(mark, token, p)[1] = mark
           /\ Readers!IsHeader(Readers!Name(mark, token, p), mark, token)
           /\ \A m, t : m # mark => ~Readers!IsHeader(Readers!Name(mark, token, p), m, t)
           /\ Readers!HeaderPath(Readers!Name(mark, token, p)) = p
<1>1. CASE p = NoPath
  <2> DEFINE l == <<mark, token>>
  <2>1. Readers!Name(mark, token, p) = l
    BY <1>1 DEF Readers!Name
  <2>2. l[1] = mark /\ l[2] = token /\ Len(l) = 2
    OBVIOUS
  <2> HIDE DEF l
  <2>3. Readers!HeaderPath(l) = p
    BY <1>1, <2>2 DEF Readers!HeaderPath
  <2> QED
    BY <2>1, <2>2, <2>3 DEF Readers!IsHeader
<1>2. CASE p # NoPath
  <2> DEFINE l == <<mark, token, p>>
  <2>1. Readers!Name(mark, token, p) = l
    BY <1>2 DEF Readers!Name
  <2>2. l[1] = mark /\ l[2] = token /\ l[3] = p /\ Len(l) = 3
    OBVIOUS
  <2> HIDE DEF l
  <2>3. Readers!HeaderPath(l) = p
    BY <2>2 DEF Readers!HeaderPath
  <2> QED
    BY <2>1, <2>2, <2>3 DEF Readers!IsHeader
<1> QED
  BY <1>1, <1>2

OldName(p) == Readers!Name("-", "-- a/", p)
NewName(p) == Readers!Name("+", "++ b/", p)
LEMMA OldLine ==
    ASSUME NEW o, NEW n, NEW k, NEW hs, NEW p
    PROVE  Readers!ParseLine(State(o, n, k, hs, 0, 0), OldName(p)) = State(p, n, k, hs, 0, 0)
<1> DEFINE l == OldName(p)
           s == State(o, n, k, hs, 0, 0)
<1>1. l[1] = "-" /\ Readers!IsHeader(l, "-", "-- a/") /\ Readers!HeaderPath(l) = p
  BY NameIs DEF OldName
<1>2. Readers!ParseLine(s, l) = Readers!Between(s, l) /\ SetNewLeft(SetOldLeft(s, 0), 0) = s
  BY BetweenHunks
<1>3. SetOld(s, p) = State(p, n, k, hs, 0, 0)
  BY NameSet
<1> HIDE DEF l, s
<1>4. Readers!Between(s, l) = SetOld(s, p)
  <2>1. [s EXCEPT !.oldLeft = 0, !.newLeft = 0] = s
    BY <1>2 DEF SetNewLeft, SetOldLeft
  <2> QED
    BY <1>1, <2>1 DEF Readers!Between, SetOld
<1> QED
  BY <1>2, <1>3, <1>4 DEF l, s

LEMMA NewLine ==
    ASSUME NEW o, NEW n, NEW k, NEW hs, NEW p
    PROVE  Readers!ParseLine(State(o, n, k, hs, 0, 0), NewName(p)) = State(o, p, k, hs, 0, 0)
<1> DEFINE l == NewName(p)
           s == State(o, n, k, hs, 0, 0)
<1>1. /\ l[1] = "+" /\ Readers!IsHeader(l, "+", "++ b/") /\ Readers!HeaderPath(l) = p
      /\ ~Readers!IsHeader(l, "-", "-- a/")
  <2>1. l[1] = "+" /\ Readers!IsHeader(l, "+", "++ b/") /\ Readers!HeaderPath(l) = p
    BY NameIs DEF NewName
  <2>2. "-" # "+"
    OBVIOUS
  <2>3. ~Readers!IsHeader(l, "-", "-- a/")
    BY <2>2, NameIs DEF NewName
  <2> QED
    BY <2>1, <2>3
<1>2. Readers!ParseLine(s, l) = Readers!Between(s, l) /\ SetNewLeft(SetOldLeft(s, 0), 0) = s
  BY BetweenHunks
<1>3. SetNew(s, p) = State(o, p, k, hs, 0, 0)
  BY NameSet
<1> HIDE DEF l, s
<1>4. Readers!Between(s, l) = SetNew(s, p)
  <2>1. [s EXCEPT !.oldLeft = 0, !.newLeft = 0] = s
    BY <1>2 DEF SetNewLeft, SetOldLeft
  <2> QED
    BY <1>1, <2>1 DEF Readers!Between, SetNew
<1> QED
  BY <1>2, <1>3, <1>4 DEF l, s

(* A hunk as git prints it.                                                     *)
LEMMA SideIs ==
    ASSUME NEW mark, NEW h, NEW which, NEW a, NEW o, NEW n, NEW u, NEW nl \in Nat,
           AllTexts(h[which]), Gives(a, SideLines(mark, h[which]), State(o, n, "last", u, 0, nl))
    PROVE  Gives(a, Readers!Side(mark, h, which), State(o, n, "last", u, 0, nl))
<1> DEFINE s == State(o, n, "last", u, 0, nl)
           L == SideLines(mark, h[which])
           note == IF h.bare /\ h[which] # <<>> THEN <<<<"\\">>>> ELSE <<>>
<1>1. DOMAIN h[which] = 1..Len(h[which])
  BY DEF AllTexts, IsSeq
<1>2. Readers!Side(mark, h, which) = L \o note
  BY <1>1 DEF Readers!Side, SideLines
<1>3. Readers!ParseLine(s, <<"\\">>) = s
  BY NoteLine
<1> HIDE DEF s, L
<1>4. Gives(s, <<<<"\\">>>>, s) /\ Gives(s, <<>>, s)
  BY <1>3, GivesOne, GivesNone
<1>5. Gives(s, note, s)
  BY <1>4
<1>6. Gives(a, L, s)
  BY DEF s, L
<1> HIDE DEF note
<1>7. Gives(a, L \o note, s)
  BY <1>5, <1>6, GivesBoth
<1> QED
  BY <1>2, <1>7 DEF s

LEMMA PrintedIs ==
    ASSUME NEW o, NEW n, KeyIn(o, n) # NoPath, NEW k, NEW hs, IsSeq(hs),
           NEW h, AllTexts(h.removed), AllTexts(h.added)
    PROVE  Gives(State(o, n, k, hs, 0, 0), Readers!Printed(h),
                 State(o, n, "last", Append(hs, Rec(KeyIn(o, n), h.context, h.added, h.removed)), 0, 0))
<1> DEFINE f == KeyIn(o, n)
           c == h.context
           d == h.removed
           a == h.added
           top == <<"@@", Len(d), Len(a), c>>
           s0 == State(o, n, k, hs, 0, 0)
           s1 == State(o, n, "last", Append(hs, Rec(f, c, <<>>, <<>>)), Len(d), Len(a))
           s2 == State(o, n, "last", Append(hs, Rec(f, c, <<>>, d)), 0, Len(a))
           s3 == State(o, n, "last", Append(hs, Rec(f, c, a, d)), 0, 0)
<1>1. Len(d) \in Nat /\ Len(a) \in Nat /\ IsSeq(d) /\ IsSeq(a)
  BY DEF AllTexts, IsSeq
<1>2. Gives(s0, <<top>>, s1)
  <2>1. Readers!ParseLine(s0, top) = s1
    BY HunkLine
  <2> HIDE DEF s0, top, s1
  <2> QED
    BY <2>1, GivesOne
<1> HIDE DEF f, c, d, a
<1>3. Removing(o, n, hs, f, c, d, Len(a), 0) = s1 /\ Removing(o, n, hs, f, c, d, Len(a), Len(d)) = s2
  <2>1. First(d, 0) = <<>> /\ First(d, Len(d)) = d /\ Len(d) - 0 = Len(d) /\ Len(d) - Len(d) = 0
    BY <1>1, FirstIs
  <2> QED
    BY <2>1 DEF Removing
<1>4. Adding(o, n, hs, f, c, a, d, 0) = s2 /\ Adding(o, n, hs, f, c, a, d, Len(a)) = s3
  <2>1. First(a, 0) = <<>> /\ First(a, Len(a)) = a /\ Len(a) - 0 = Len(a) /\ Len(a) - Len(a) = 0
    BY <1>1, FirstIs
  <2> QED
    BY <2>1 DEF Adding
<1>5. AllTexts(d) /\ AllTexts(a)
  BY DEF d, a
<1>6. Gives(s1, SideLines("-", d), s2)
  <2>1. Gives(Removing(o, n, hs, f, c, d, Len(a), 0), SideLines("-", d), Removing(o, n, hs, f, c, d, Len(a), Len(d)))
    BY <1>1, <1>5, RemovingIs
  <2> HIDE DEF s1, s2
  <2> QED
    BY <1>3, <2>1
<1>7. Gives(s2, SideLines("+", a), s3)
  <2>1. Gives(Adding(o, n, hs, f, c, a, d, 0), SideLines("+", a), Adding(o, n, hs, f, c, a, d, Len(a)))
    BY <1>5, AddingIs
  <2> HIDE DEF s2, s3
  <2> QED
    BY <1>4, <2>1
<1>8. h["removed"] = d /\ h["added"] = a
  BY DEF d, a
<1> DEFINE minus == Readers!Side("-", h, "removed")
           plus == Readers!Side("+", h, "added")
<1>9. Gives(s1, minus, s2)
  <2> HIDE DEF s1
  <2> QED
    BY <1>1, <1>5, <1>6, <1>8, SideIs
<1>10. Gives(s2, plus, s3)
  <2>1. 0 \in Nat
    OBVIOUS
  <2> HIDE DEF s2
  <2> QED
    BY <1>5, <1>7, <1>8, <2>1, SideIs
<1>11. Readers!Printed(h) = (<<top>> \o minus) \o plus
  BY DEF Readers!Printed, c, d, a
<1> HIDE DEF s0, s1, s2, s3, top, minus, plus
<1>12. Gives(s0, (<<top>> \o minus) \o plus, s3)
  <2>1. Gives(s0, <<top>> \o minus, s2)
    BY <1>2, <1>9, GivesBoth
  <2> DEFINE t == <<top>> \o minus
  <2> HIDE DEF t
  <2>2. Gives(s0, t \o plus, s3)
    BY <1>10, <2>1, GivesBoth DEF t
  <2> QED
    BY <2>2 DEF t
<1> QED
  BY <1>11, <1>12 DEF s0, s3, f, c, d, a

(* What a file of a patch is: two names, not both missing, and its hunks.       *)
IsHunk(h) == AllTexts(h.removed) /\ AllTexts(h.added)
IsFile(f) == KeyIn(f.old, f.new) # NoPath /\ IsSeq(f.hunks) /\ \A i \in 1..Len(f.hunks) : IsHunk(f.hunks[i])
Behind(f, hs, m) ==
    State(f.old, f.new, IF m = 0 THEN "none" ELSE "last", hs \o First(Readers!Shown(f), m), 0, 0)

LEMMA ShownIs ==
    ASSUME NEW f, IsFile(f)
    PROVE  /\ IsSeq(Readers!Shown(f)) /\ Len(Readers!Shown(f)) = Len(f.hunks)
           /\ \A i \in 1..Len(f.hunks) : Readers!Shown(f)[i] =
                  Rec(KeyIn(f.old, f.new), f.hunks[i].context, f.hunks[i].added, f.hunks[i].removed)
<1> DEFINE N == Len(f.hunks)
           v == Readers!Shown(f)
<1>1. N \in Nat /\ DOMAIN f.hunks = 1..N
  BY DEF IsFile, IsSeq
<1>2. v = [i \in 1..N |-> Readers!Filed(f, f.hunks[i])]
  BY <1>1 DEF Readers!Shown
<1>3. \A h : Readers!Filed(f, h) = Rec(KeyIn(f.old, f.new), h.context, h.added, h.removed)
  BY DEF Readers!Filed, Rec, KeyIn, Readers!KeyOf
<1> HIDE DEF N, v
<1>4. IsSeq(v) /\ Len(v) = N
  BY <1>1, <1>2 DEF IsSeq
<1>5. \A i \in 1..N : v[i] = Rec(KeyIn(f.old, f.new), f.hunks[i].context, f.hunks[i].added, f.hunks[i].removed)
  BY <1>2, <1>3
<1> QED
  BY <1>4, <1>5 DEF N, v

LEMMA HunkRead ==
    ASSUME NEW f, IsFile(f), NEW hs, IsSeq(hs), NEW m \in 0..Len(f.hunks), m < Len(f.hunks)
    PROVE  Gives(Behind(f, hs, m), Readers!Printed(f.hunks[m + 1]), Behind(f, hs, m + 1))
<1> DEFINE N == Len(f.hunks)
           v == Readers!Shown(f)
           z == m + 1
           h == f.hunks[z]
           x == Rec(KeyIn(f.old, f.new), h.context, h.added, h.removed)
           b == hs \o First(v, m)
<1>1. N \in Nat
  BY DEF IsFile, IsSeq
<1>2. m \in Nat /\ z \in 1..N /\ z # 0
  BY <1>1
<1>3. IsHunk(h) /\ v[z] = x
  <2> HIDE DEF z
  <2> QED
    BY <1>2, ShownIs DEF IsFile
<1>4. First(v, z) = Append(First(v, m), v[z]) /\ IsSeq(First(v, m))
  BY <1>2, FirstIs
<1>5. IsSeq(b)
  BY <1>4, ConcatIs
<1> DEFINE p == First(v, m)
<1>6. hs \o First(v, z) = Append(b, x)
  <2> HIDE DEF p, x, z, v
  <2>1. Append(p, x) = p \o <<x>> /\ Append(hs \o p, x) = (hs \o p) \o <<x>>
    BY <1>4, <1>5, ThenOne DEF p
  <2>2. (hs \o p) \o <<x>> = hs \o (p \o <<x>>)
    <3> DEFINE t == <<x>>
    <3>1. IsSeq(t) /\ IsSeq(p)
      BY <1>4, OneLine DEF p
    <3> HIDE DEF t
    <3>2. (hs \o p) \o t = hs \o (p \o t)
      BY <3>1, ThenMore
    <3> QED
      BY <3>2 DEF t
  <2> QED
    BY <1>3, <1>4, <2>1, <2>2 DEF p
<1> DEFINE k == IF m = 0 THEN "none" ELSE "last"
<1>7. Behind(f, hs, m) = State(f.old, f.new, k, b, 0, 0)
  BY DEF Behind
<1>8. Behind(f, hs, z) = State(f.old, f.new, "last", Append(b, x), 0, 0)
  <2> HIDE DEF x, b, z, v
  <2> QED
    BY <1>2, <1>6 DEF Behind, v
<1>9. KeyIn(f.old, f.new) # NoPath
  BY DEF IsFile
<1> HIDE DEF b, k, z
<1>10. Gives(State(f.old, f.new, k, b, 0, 0), Readers!Printed(h), State(f.old, f.new, "last", Append(b, x), 0, 0))
  BY <1>3, <1>5, <1>9, PrintedIs DEF IsHunk
<1>11. Gives(Behind(f, hs, m), Readers!Printed(h), Behind(f, hs, z))
  BY <1>7, <1>8, <1>10
<1> QED
  BY <1>11 DEF z

LEMMA HunksRead ==
    ASSUME NEW f, IsFile(f), NEW hs, IsSeq(hs), NEW L, AllSeqs(L), Len(L) = Len(f.hunks),
           \A i \in 1..Len(f.hunks) : L[i] = Readers!Printed(f.hunks[i])
    PROVE  Gives(State(f.old, f.new, "none", hs, 0, 0), Readers!FlattenSeq(L), Behind(f, hs, Len(f.hunks)))
<1> DEFINE N == Len(f.hunks)
<1>1. N \in Nat
  BY DEF IsFile, IsSeq
<1>2. PICK F : FlatOf(F, L)
  BY FlatDef
<1>3. /\ Readers!FlattenSeq(L) = F[N] /\ F[0] = <<>>
      /\ \A n \in 1..N : F[n] = F[n - 1] \o L[n]
  BY <1>2 DEF FlatOf
<1> DEFINE s == State(f.old, f.new, "none", hs, 0, 0)
           good(m) == Gives(s, F[m], Behind(f, hs, m))
           bad == {m \in 0..N : ~good(m)}
<1>4. good(0)
  <2>1. hs \o <<>> = hs /\ First(Readers!Shown(f), 0) = <<>>
    BY NoLines, FirstIs
  <2>2. Behind(f, hs, 0) = s
    BY <2>1 DEF Behind
  <2> HIDE DEF s
  <2> QED
    BY <1>3, <2>2, GivesNone
<1> HIDE DEF s
<1>5. ASSUME NEW m \in 0..N, m < N, good(m) PROVE good(m + 1)
  <2> DEFINE z == m + 1
  <2>1. z \in 1..N /\ z - 1 = m
    BY <1>1, <1>5
  <2>2. Gives(Behind(f, hs, m), Readers!Printed(f.hunks[z]), Behind(f, hs, z))
    BY <1>5, HunkRead
  <2> HIDE DEF z
  <2>3. F[z] = F[m] \o L[z] /\ L[z] = Readers!Printed(f.hunks[z])
    BY <1>3, <2>1
  <2>4. Gives(s, F[m], Behind(f, hs, m))
    BY <1>5
  <2>5. Gives(s, F[m] \o L[z], Behind(f, hs, z))
    BY <2>2, <2>3, <2>4, GivesBoth
  <2>6. good(z)
    BY <2>3, <2>5
  <2> QED
    BY <2>6 DEF z
<1>6. ASSUME NEW m \in bad PROVE m # 0 /\ m - 1 \in bad
  <2> HIDE DEF good
  <2>1. m # 0
    BY <1>4
  <2> DEFINE j == m - 1
  <2>2. j \in 0..N /\ j < N /\ j + 1 = m
    BY <1>1, <2>1
  <2> HIDE DEF j
  <2>3. ~good(j)
    <3>1. good(j) => good(j + 1)
      BY <1>5, <2>2
    <3> QED
      BY <2>2, <3>1
  <2> QED
    BY <2>1, <2>2, <2>3 DEF j
<1>7. bad = {}
  <2>1. bad \in SUBSET Nat
    BY <1>1
  <2> HIDE DEF bad
  <2> QED
    BY <1>6, <2>1, NoneIsBad
<1>8. good(N)
  <2> HIDE DEF good
  <2>1. N \in 0..N
    BY <1>1
  <2> QED
    BY <1>7, <2>1
<1> QED
  BY <1>3, <1>8 DEF s

(* A file as git prints it, whatever the parser read before.                    *)
PrintedHunks(f) == [i \in DOMAIN f.hunks |-> Readers!Printed(f.hunks[i])]
LEMMA PrintedSeqs ==
    ASSUME NEW f, IsFile(f)
    PROVE  AllSeqs(PrintedHunks(f)) /\ Len(PrintedHunks(f)) = Len(f.hunks)
           /\ \A i \in 1..Len(f.hunks) : PrintedHunks(f)[i] = Readers!Printed(f.hunks[i])
<1> DEFINE N == Len(f.hunks)
           L == PrintedHunks(f)
<1>1. N \in Nat /\ DOMAIN f.hunks = 1..N
  BY DEF IsFile, IsSeq
<1>2. L = [i \in 1..N |-> Readers!Printed(f.hunks[i])]
  BY <1>1 DEF PrintedHunks
<1> HIDE DEF L, N
<1>3. IsSeq(L) /\ Len(L) = N /\ \A i \in 1..N : L[i] = Readers!Printed(f.hunks[i])
  BY <1>1, <1>2 DEF IsSeq
<1>4. ASSUME NEW i \in 1..N PROVE IsSeq(L[i])
  <2> DEFINE h == f.hunks[i]
  <2>1. IsHunk(h) /\ KeyIn(f.old, f.new) # NoPath /\ IsSeq(<<>>)
    BY NoLines DEF IsFile, N
  <2> HIDE DEF h
  <2>2. Gives(State(f.old, f.new, "none", <<>>, 0, 0), Readers!Printed(h),
              State(f.old, f.new, "last", Append(<<>>, Rec(KeyIn(f.old, f.new), h.context, h.added, h.removed)), 0, 0))
    BY <2>1, PrintedIs DEF IsHunk
  <2>3. IsSeq(Readers!Printed(h))
    BY <2>2 DEF Gives
  <2> QED
    BY <1>3, <2>3 DEF h
<1> QED
  BY <1>1, <1>3, <1>4 DEF AllSeqs, L, N

LEMMA FileRead ==
    ASSUME NEW f, IsFile(f), NEW hs, IsSeq(hs), NEW o, NEW n, NEW k
    PROVE  \E p, q, j : Gives(State(o, n, k, hs, 0, 0), Readers!Render(f),
                              State(p, q, j, hs \o Readers!Shown(f), 0, 0))
<1> DEFINE N == Len(f.hunks)
           v == Readers!Shown(f)
           s0 == State(o, n, k, hs, 0, 0)
           s1 == State(NoPath, NoPath, "none", hs, 0, 0)
<1>1. Gives(s0, <<<<"diff">>>>, s1)
  <2>1. Readers!ParseLine(s0, <<"diff">>) = s1
    BY DiffLine
  <2> HIDE DEF s0, s1
  <2> QED
    BY <2>1, GivesOne
<1>2. IsSeq(v) /\ Len(v) = N /\ N \in Nat
  BY ShownIs DEF IsFile, IsSeq
<1>3. CASE f.hunks = <<>>
  <2>1. N = 0 /\ v = <<>>
    BY <1>2, <1>3 DEF IsSeq
  <2>2. Readers!Render(f) = <<<<"diff">>>> \o <<>>
    BY <1>3 DEF Readers!Render
  <2>3. <<<<"diff">>>> \o <<>> = <<<<"diff">>>>
    BY OneLine, NoLines
  <2>4. hs \o v = hs
    BY <2>1, NoLines
  <2> HIDE DEF s0, v
  <2>5. Gives(s0, Readers!Render(f), State(NoPath, NoPath, "none", hs \o v, 0, 0))
    BY <1>1, <2>2, <2>3, <2>4
  <2> QED
    BY <2>5 DEF s0, v
<1>4. CASE f.hunks # <<>>
  <2> DEFINE a == OldName(f.old)
             b == NewName(f.new)
             s2 == State(f.old, NoPath, "none", hs, 0, 0)
             s3 == State(f.old, f.new, "none", hs, 0, 0)
             L == PrintedHunks(f)
             body == Readers!FlattenSeq(L)
             s4 == Behind(f, hs, N)
  <2>1. Gives(s1, <<a>>, s2)
    <3>1. Readers!ParseLine(s1, a) = s2
      BY OldLine
    <3> HIDE DEF s1, s2, a
    <3> QED
      BY <3>1, GivesOne
  <2>2. Gives(s2, <<b>>, s3)
    <3>1. Readers!ParseLine(s2, b) = s3
      BY NewLine
    <3> HIDE DEF s3, s2, b
    <3> QED
      BY <3>1, GivesOne
  <2>3. Gives(s3, body, s4)
    <3>1. AllSeqs(L) /\ Len(L) = N /\ \A i \in 1..N : L[i] = Readers!Printed(f.hunks[i])
      BY PrintedSeqs
    <3> HIDE DEF L
    <3> QED
      BY <3>1, HunksRead
  <2>4. <<a, b>> = <<a>> \o <<b>>
    <3> HIDE DEF a, b
    <3> DEFINE l == <<a>>
               t == <<b>>
    <3>1. IsSeq(l) /\ Len(l) = 1 /\ l[1] = a /\ IsSeq(t) /\ Len(t) = 1 /\ t[1] = b
      BY OneLine
    <3>2. IsSeq(<<a, b>>) /\ Len(<<a, b>>) = 2 /\ <<a, b>>[1] = a /\ <<a, b>>[2] = b
      BY DEF IsSeq
    <3> HIDE DEF l, t
    <3>3. /\ IsSeq(l \o t) /\ Len(l \o t) = 2
          /\ (l \o t)[1] = a /\ (l \o t)[2] = b
      <4>1. /\ IsSeq(l \o t) /\ Len(l \o t) = Len(l) + Len(t)
            /\ \A i \in 1..Len(l) : (l \o t)[i] = l[i]
            /\ \A i \in 1..Len(t) : (l \o t)[Len(l) + i] = t[i]
        <5>1. IsSeq(l) /\ IsSeq(t)
          BY <3>1
        <5> QED
          BY <5>1, ConcatIs
      <4> DEFINE one == 1
      <4>2. one \in 1..Len(l) /\ one \in 1..Len(t) /\ Len(l) + one = 2
        BY <3>1
      <4>3. (l \o t)[one] = l[one] /\ (l \o t)[Len(l) + one] = t[one]
        <5> HIDE DEF one
        <5> QED
          BY <4>1, <4>2
      <4> QED
        BY <3>1, <4>1, <4>2, <4>3
    <3> DEFINE u == <<a, b>>
               w == l \o t
    <3>4. \A i \in 1..2 : i = 1 \/ i = 2
      OBVIOUS
    <3>5. IsSeq(u) /\ Len(u) = 2 /\ u[1] = a /\ u[2] = b
      BY <3>2
    <3>6. IsSeq(w) /\ Len(w) = 2 /\ w[1] = a /\ w[2] = b
      BY <3>3
    <3> HIDE DEF u, w
    <3>7. Len(u) = Len(w) /\ \A i \in 1..Len(u) : u[i] = w[i]
      BY <3>4, <3>5, <3>6
    <3>8. u = w
      BY <3>5, <3>6, <3>7, SameSeq
    <3> QED
      BY <3>8 DEF u, w, l, t
  <2>5. Readers!Render(f) = <<<<"diff">>>> \o (<<a, b>> \o body)
    BY <1>4 DEF Readers!Render, PrintedHunks, OldName, NewName
  <2>6. First(v, N) = v
    BY <1>2, FirstIs
  <2>7. \E p, q, j : s4 = State(p, q, j, hs \o v, 0, 0)
    BY <2>6 DEF Behind
  <2> HIDE DEF s0, s1, s2, s3, s4, a, b, body
  <2>8. Gives(s1, <<a, b>>, s3)
    BY <2>1, <2>2, <2>4, GivesBoth
  <2> DEFINE u == <<a, b>>
             t == u \o body
  <2>9. Gives(s1, u, s3)
    BY <2>8
  <2> HIDE DEF u
  <2>10. Gives(s1, t, s4)
    BY <2>3, <2>9, GivesBoth
  <2> HIDE DEF t
  <2>11. Gives(s0, <<<<"diff">>>> \o t, s4)
    BY <1>1, <2>10, GivesBoth
  <2>12. Gives(s0, Readers!Render(f), s4)
    BY <2>5, <2>11 DEF t, u
  <2> HIDE DEF v
  <2> QED
    BY <2>7, <2>12 DEF s0, v
<1> QED
  BY <1>3, <1>4

(* A whole patch.                                                               *)
RenderedFiles(fs) == [i \in 1..Len(fs) |-> Readers!Render(fs[i])]
ShownFiles(fs) == [i \in 1..Len(fs) |-> Readers!Shown(fs[i])]
IsPatch(fs) == IsSeq(fs) /\ \A i \in 1..Len(fs) : IsFile(fs[i])

LEMMA FileSeqs ==
    ASSUME NEW fs, IsPatch(fs)
    PROVE  /\ AllSeqs(RenderedFiles(fs)) /\ Len(RenderedFiles(fs)) = Len(fs)
           /\ AllSeqs(ShownFiles(fs)) /\ Len(ShownFiles(fs)) = Len(fs)
           /\ \A i \in 1..Len(fs) : RenderedFiles(fs)[i] = Readers!Render(fs[i]) /\ ShownFiles(fs)[i] = Readers!Shown(fs[i])
<1> DEFINE N == Len(fs)
           R == RenderedFiles(fs)
           V == ShownFiles(fs)
<1>1. N \in Nat /\ \A i \in 1..N : IsFile(fs[i])
  BY DEF IsPatch, IsSeq
<1>2. IsSeq(R) /\ Len(R) = N /\ \A i \in 1..N : R[i] = Readers!Render(fs[i])
  BY <1>1 DEF RenderedFiles, IsSeq
<1>3. IsSeq(V) /\ Len(V) = N /\ \A i \in 1..N : V[i] = Readers!Shown(fs[i])
  BY <1>1 DEF ShownFiles, IsSeq
<1> HIDE DEF N, R, V
<1>4. ASSUME NEW i \in 1..N PROVE IsSeq(R[i]) /\ IsSeq(V[i])
  <2> DEFINE f == fs[i]
  <2>1. IsFile(f) /\ IsSeq(<<>>)
    BY <1>1, NoLines
  <2> HIDE DEF f
  <2>2. PICK p, q, j : Gives(State(NoPath, NoPath, "none", <<>>, 0, 0), Readers!Render(f),
                             State(p, q, j, <<>> \o Readers!Shown(f), 0, 0))
    BY <2>1, FileRead
  <2>3. IsSeq(Readers!Render(f)) /\ IsSeq(Readers!Shown(f))
    BY <2>1, <2>2, ShownIs DEF Gives
  <2> QED
    BY <1>2, <1>3, <2>3 DEF f
<1> QED
  BY <1>1, <1>2, <1>3, <1>4 DEF AllSeqs, N, R, V

LEMMA PatchRead ==
    ASSUME NEW fs, IsPatch(fs)
    PROVE  Readers!ParseUnified(Readers!FlattenSeq(RenderedFiles(fs))) = Readers!FlattenSeq(ShownFiles(fs))
<1> DEFINE N == Len(fs)
           R == RenderedFiles(fs)
           V == ShownFiles(fs)
<1>1. N \in Nat /\ \A i \in 1..N : IsFile(fs[i])
  BY DEF IsPatch, IsSeq
<1>2. /\ AllSeqs(R) /\ Len(R) = N /\ AllSeqs(V) /\ Len(V) = N
      /\ \A i \in 1..N : R[i] = Readers!Render(fs[i]) /\ V[i] = Readers!Shown(fs[i])
  BY FileSeqs
<1> HIDE DEF N, R, V
<1>3. PICK F : FlatOf(F, R)
  BY <1>2, FlatDef
<1>4. PICK G : FlatOf(G, V)
  BY <1>2, FlatDef
<1>5. Readers!FlattenSeq(R) = F[N] /\ F[0] = <<>> /\ \A n \in 1..N : F[n] = F[n - 1] \o R[n]
  BY <1>2, <1>3 DEF FlatOf
<1>6. /\ Readers!FlattenSeq(V) = G[N] /\ G[0] = <<>> /\ \A n \in 1..N : G[n] = G[n - 1] \o V[n]
      /\ \A n \in 0..N : IsSeq(G[n])
  BY <1>2, <1>4 DEF FlatOf
<1> DEFINE s == Readers!NothingRead
           good(m) == \E o, n, k : Gives(s, F[m], State(o, n, k, G[m], 0, 0))
           bad == {m \in 0..N : ~good(m)}
<1>7. good(0)
  <2>1. s = State(NoPath, NoPath, "none", <<>>, 0, 0)
    BY DEF Readers!NothingRead, State
  <2> HIDE DEF s
  <2>2. Gives(s, F[0], State(NoPath, NoPath, "none", G[0], 0, 0))
    BY <1>5, <1>6, <2>1, GivesNone
  <2> QED
    BY <2>2
<1> HIDE DEF s
<1>8. ASSUME NEW m \in 0..N, m < N, good(m) PROVE good(m + 1)
  <2> DEFINE z == m + 1
             f == fs[z]
  <2>1. z \in 1..N /\ z - 1 = m
    BY <1>1, <1>8
  <2> HIDE DEF z
  <2>2. IsFile(f) /\ R[z] = Readers!Render(f) /\ V[z] = Readers!Shown(f)
    BY <1>1, <1>2, <2>1
  <2>3. PICK o, n, k : Gives(s, F[m], State(o, n, k, G[m], 0, 0))
    BY <1>8
  <2>4. IsSeq(G[m])
    BY <1>6
  <2> HIDE DEF f
  <2>5. PICK p, q, j : Gives(State(o, n, k, G[m], 0, 0), Readers!Render(f), State(p, q, j, G[m] \o Readers!Shown(f), 0, 0))
    BY <2>2, <2>4, FileRead
  <2>6. F[z] = F[m] \o Readers!Render(f) /\ G[z] = G[m] \o Readers!Shown(f)
    BY <1>5, <1>6, <2>1, <2>2
  <2>7. Gives(s, F[m] \o Readers!Render(f), State(p, q, j, G[m] \o Readers!Shown(f), 0, 0))
    BY <2>3, <2>5, GivesBoth
  <2>8. good(z)
    BY <2>6, <2>7
  <2> QED
    BY <2>8 DEF z
<1>9. ASSUME NEW m \in bad PROVE m # 0 /\ m - 1 \in bad
  <2> HIDE DEF good
  <2>1. m # 0
    BY <1>7
  <2> DEFINE j == m - 1
  <2>2. j \in 0..N /\ j < N /\ j + 1 = m
    BY <1>1, <2>1
  <2> HIDE DEF j
  <2>3. ~good(j)
    <3>1. good(j) => good(j + 1)
      BY <1>8, <2>2
    <3> QED
      BY <2>2, <3>1
  <2> QED
    BY <2>1, <2>2, <2>3 DEF j
<1>10. bad = {}
  <2>1. bad \in SUBSET Nat
    BY <1>1
  <2> HIDE DEF bad
  <2> QED
    BY <1>9, <2>1, NoneIsBad
<1>11. good(N)
  <2> HIDE DEF good
  <2>1. N \in 0..N
    BY <1>1
  <2> QED
    BY <1>10, <2>1
<1>12. PICK o, n, k : Gives(s, F[N], State(o, n, k, G[N], 0, 0))
  BY <1>11
<1>13. Readers!ParseUnified(F[N]) = State(o, n, k, G[N], 0, 0).hunks
  BY <1>12 DEF Gives, Readers!ParseUnified, s
<1>14. State(o, n, k, G[N], 0, 0).hunks = G[N]
  BY StateIs
<1> QED
  BY <1>5, <1>6, <1>13, <1>14 DEF R, V

(* The patches that git can print here.                                         *)
Hunks == [context : {"heading"}, added : Seq(Texts), removed : Seq(Texts), empty : BOOLEAN, bare : BOOLEAN]
Files == {f \in [old : Paths \cup {NoPath}, new : Paths \cup {NoPath}, hunks : Seq(Hunks)] : {f.old, f.new} # {NoPath}}
PatchInv == subject = "patch" => patch \in Seq(Files)

LEMMA FilesAre == \A f \in Files : IsFile(f)
<1> SUFFICES ASSUME NEW f \in Files PROVE IsFile(f)
  OBVIOUS
<1>1. f.hunks \in Seq(Hunks) /\ KeyIn(f.old, f.new) # NoPath
  BY DEF Files, KeyIn
<1>2. \A t \in Texts : IsSeq(t)
  BY TextsAssumption DEF IsSeq
<1>3. \A ts \in Seq(Texts) : AllTexts(ts)
  <2> SUFFICES ASSUME NEW ts \in Seq(Texts) PROVE AllTexts(ts)
    OBVIOUS
  <2>1. IsSeq(ts)
    BY SeqIs
  <2>2. \A i \in 1..Len(ts) : ts[i] \in Texts
    OBVIOUS
  <2> QED
    BY <1>2, <2>1, <2>2 DEF AllTexts
<1>4. \A h \in Hunks : IsHunk(h)
  BY <1>3 DEF Hunks, IsHunk
<1>5. IsSeq(f.hunks)
  BY <1>1, SeqIs
<1>6. \A i \in 1..Len(f.hunks) : f.hunks[i] \in Hunks
  BY <1>1
<1> QED
  BY <1>1, <1>4, <1>5, <1>6 DEF IsFile

LEMMA PatchReads == PatchInv => PatchRoundTrip
<1> SUFFICES ASSUME subject = "patch", patch \in Seq(Files) PROVE PatchRoundTrip
  BY DEF PatchInv, PatchRoundTrip, Readers!PatchRoundTrip
<1>1. DOMAIN patch = 1..Len(patch)
  OBVIOUS
<1>2. IsPatch(patch)
  <2>1. IsSeq(patch)
    BY SeqIs
  <2>2. \A i \in 1..Len(patch) : patch[i] \in Files
    OBVIOUS
  <2> QED
    BY <2>1, <2>2, FilesAre DEF IsPatch
<1>3. Readers!ParseUnified(Readers!FlattenSeq(RenderedFiles(patch))) = Readers!FlattenSeq(ShownFiles(patch))
  BY <1>2, PatchRead
<1> QED
  BY <1>1, <1>3 DEF PatchRoundTrip, Readers!PatchRoundTrip, RenderedFiles, ShownFiles

LEMMA OtherPatchInv ==
    ASSUME PatchInv, UNCHANGED <<subject, patch>>
    PROVE  PatchInv'
BY DEF PatchInv

LEMMA ChangeFileInv ==
    ASSUME PatchInv, Readers!ChangeFile
    PROVE  PatchInv'
<1>1. PICK o, n \in Paths \cup {NoPath} :
          {o, n} # {NoPath} /\ patch' = Append(patch, [old |-> o, new |-> n, hunks |-> <<>>])
  BY DEF Readers!ChangeFile
<1>2. subject = "patch" /\ patch \in Seq(Files)
  BY DEF Readers!ChangeFile, PatchInv
<1> DEFINE f == [old |-> o, new |-> n, hunks |-> <<>>]
<1>3. f \in Files
  <2>1. f.old = o /\ f.new = n /\ <<>> \in Seq(Hunks)
    OBVIOUS
  <2>2. f \in [old : Paths \cup {NoPath}, new : Paths \cup {NoPath}, hunks : Seq(Hunks)]
    BY <2>1
  <2> HIDE DEF f
  <2>3. {f.old, f.new} # {NoPath}
    BY <1>1, <2>1
  <2> QED
    BY <2>2, <2>3 DEF Files
<1> HIDE DEF f
<1>4. patch' \in Seq(Files)
  BY <1>1, <1>2, <1>3 DEF f
<1> QED
  BY <1>4 DEF PatchInv

(* The last file of a patch, with other hunks.                                  *)
LEMMA LastIs ==
    ASSUME NEW S, NEW s \in Seq(S), s # <<>>
    PROVE  Len(s) \in 1..Len(s) /\ Len(s) \in Nat /\ s[Len(s)] \in S /\ Readers!Last(s) = s[Len(s)]
<1>1. Len(s) \in Nat /\ Len(s) # 0
  OBVIOUS
<1> QED
  BY <1>1 DEF Readers!Last

SetHunksOf(f, hs) == [f EXCEPT !.hunks = hs]
LEMMA FileSet ==
    ASSUME NEW f \in Files, NEW hs \in Seq(Hunks)
    PROVE  SetHunksOf(f, hs) \in Files
<1>1. f \in [old : Paths \cup {NoPath}, new : Paths \cup {NoPath}, hunks : Seq(Hunks)] /\ {f.old, f.new} # {NoPath}
  BY DEF Files
<1> DEFINE g == [f EXCEPT !.hunks = hs]
<1>2. g \in [old : Paths \cup {NoPath}, new : Paths \cup {NoPath}, hunks : Seq(Hunks)] /\ g.old = f.old /\ g.new = f.new
  BY <1>1
<1> HIDE DEF g
<1>3. g \in Files
  BY <1>1, <1>2 DEF Files
<1> QED
  BY <1>3 DEF g, SetHunksOf

LEMMA OpenHunkInv ==
    ASSUME PatchInv, Readers!OpenHunk
    PROVE  PatchInv'
<1>1. PICK bare \in BOOLEAN :
        patch' = [patch EXCEPT ![Len(patch)].hunks =
                     Append(@, [context |-> "heading", added |-> <<>>, removed |-> <<>>, empty |-> TRUE, bare |-> bare])]
  BY DEF Readers!OpenHunk
<1>2. subject = "patch" /\ patch \in Seq(Files) /\ patch # <<>>
  BY DEF Readers!OpenHunk, PatchInv
<1> DEFINE h == [context |-> "heading", added |-> <<>>, removed |-> <<>>, empty |-> TRUE, bare |-> bare]
           f == patch[Len(patch)]
           hs == Append(f.hunks, h)
<1>3. h \in Hunks
  BY DEF Hunks
<1>4. f \in Files /\ Len(patch) \in 1..Len(patch)
  BY <1>2, LastIs
<1>5. f.hunks \in Seq(Hunks)
  BY <1>4 DEF Files
<1> HIDE DEF h
<1>6. hs \in Seq(Hunks)
  BY <1>3, <1>5
<1>7. patch' = [patch EXCEPT ![Len(patch)] = SetHunksOf(f, hs)]
  BY <1>1 DEF h, SetHunksOf
<1> HIDE DEF f, hs
<1>8. SetHunksOf(f, hs) \in Files
  BY <1>4, <1>6, FileSet
<1>9. patch' \in Seq(Files)
  BY <1>2, <1>4, <1>7, <1>8
<1> QED
  BY <1>9 DEF PatchInv

LEMMA ChangeLineInv ==
    ASSUME PatchInv, Readers!ChangeLine
    PROVE  PatchInv'
<1>1. subject = "patch" /\ patch \in Seq(Files) /\ patch # <<>> /\ Readers!Last(patch).hunks # <<>>
  BY DEF Readers!ChangeLine, PatchInv
<1> DEFINE f == patch[Len(patch)]
<1>2. f \in Files /\ Len(patch) \in 1..Len(patch) /\ Readers!Last(patch) = f
  BY <1>1, LastIs
<1>3. f.hunks \in Seq(Hunks) /\ f.hunks # <<>>
  BY <1>1, <1>2 DEF Files
<1> DEFINE h == f.hunks[Len(f.hunks)]
           n == Len(f.hunks)
<1>4. h \in Hunks /\ n \in 1..n /\ Readers!Last(f.hunks) = h
  BY <1>3, LastIs
<1> HIDE DEF f
<1>5. PICK side \in {"added", "removed"}, text \in Texts :
        patch' = [patch EXCEPT ![Len(patch)].hunks[n] = [h EXCEPT ![side] = Append(@, text), !.empty = FALSE]]
  BY <1>2, <1>4 DEF Readers!ChangeLine
<1> DEFINE g == [h EXCEPT ![side] = Append(@, text), !.empty = FALSE]
<1>6. g \in Hunks
  <2>1. CASE side = "added"
    <3>1. g = [h EXCEPT !.added = Append(@, text), !.empty = FALSE]
      BY <2>1
    <3>2. Append(h.added, text) \in Seq(Texts)
      BY <1>4 DEF Hunks
    <3> HIDE DEF g, h
    <3> QED
      BY <1>4, <3>1, <3>2 DEF Hunks
  <2>2. CASE side = "removed"
    <3>1. g = [h EXCEPT !.removed = Append(@, text), !.empty = FALSE]
      BY <2>2
    <3>2. Append(h.removed, text) \in Seq(Texts)
      BY <1>4 DEF Hunks
    <3> HIDE DEF g, h
    <3> QED
      BY <1>4, <3>1, <3>2 DEF Hunks
  <2> QED
    BY <2>1, <2>2
<1> DEFINE hs == [f.hunks EXCEPT ![n] = g]
<1>7. patch' = [patch EXCEPT ![Len(patch)] = SetHunksOf(f, hs)]
  BY <1>5 DEF SetHunksOf, f
<1> HIDE DEF g, h
<1>8. hs \in Seq(Hunks)
  BY <1>3, <1>4, <1>6
<1> HIDE DEF hs
<1>9. SetHunksOf(f, hs) \in Files
  BY <1>2, <1>8, FileSet
<1>10. patch' \in Seq(Files)
  BY <1>1, <1>2, <1>7, <1>9
<1> QED
  BY <1>10 DEF PatchInv

LEMMA PatchStep == PatchInv /\ [GateNext]_<<vars, readers>> => PatchInv'
<1> SUFFICES ASSUME PatchInv, [GateNext]_<<vars, readers>>
             PROVE  PatchInv'
  OBVIOUS
<1>1. CASE Readers!ChangeFile
  BY <1>1, ChangeFileInv
<1>2. CASE Readers!OpenHunk
  BY <1>2, OpenHunkInv
<1>3. CASE Readers!ChangeLine
  BY <1>3, ChangeLineInv
<1>4. CASE Readers!WriteBase \/ Readers!WriteHead \/ Readers!WriteSource
  BY <1>4, OtherPatchInv DEF Readers!WriteBase, Readers!WriteHead, Readers!WriteSource
<1>5. CASE UNCHANGED readers
  BY <1>5, OtherPatchInv DEF readers
<1> QED
  BY <1>1, <1>2, <1>3, <1>4, <1>5 DEF GateNext, Readers!Next

(* Whatever a patch changes and whatever its lines contain, the parser gives    *)
(* back exactly the hunks git printed, under the names of their files.          *)
THEOREM PatchHolds == GateSpec => []PatchRoundTrip
<1>1. GateInit => PatchInv
  <2>1. IdleReaders => PatchInv
    BY DEF IdleReaders, PatchInv
  <2>2. Readers!Init => PatchInv
    <3> SUFFICES ASSUME Readers!Init PROVE PatchInv
      OBVIOUS
    <3>1. patch = <<>>
      BY DEF Readers!Init
    <3> QED
      BY <3>1 DEF PatchInv
  <2> QED
    BY <2>1, <2>2 DEF GateInit
<1> QED
  BY <1>1, PatchStep, PatchReads, PTL DEF GateSpec
================================================================================
