---------------------------- MODULE MergeGateCollect ----------------------------
(* One `merge-gate check`: src/merge-gate/collect.ts over the gateway of        *)
(* exec.ts, then the decision. Every git or gh call is a step that may fail on  *)
(* its own, and the pull request on GitHub moves between any two of them. What  *)
(* the check then does with the verdict is module MergeGateStore.               *)
EXTENDS MergeGateDecision, MergeGateManifests

CONSTANTS
    Commits,
    MergeBaseOf, Diff,      \* [base][head], and what git knows of [from][to]: Seq(entry)
    Ruled, ManifestKind,    \* paths with an API rule; [path -> kind of manifest]
    Policies, PrStates, Worlds,
    LineLimit, BlobLimit, ChunkOutput, ChunkPaths,
    MaxFaults, MaxPrSteps   \* bounds: failing calls, changes of the pull request

ASSUME NullAssumption == Null \notin PrStates /\ Null \notin ApiSkips \cup ExcludeReasons \cup {"spawn_timeout"}

(* What git reports of a change: counts, and each dependency with its class.    *)
ClassesKnown(deps) == deps # Null => IsFiniteSet(deps) /\ \A d \in deps : DepEntryOk(d)
ASSUME InputsAssumption ==
    /\ \A b, c \in Commits :
          /\ MergeBaseOf[b][c] \in Commits /\ Diff[b][c] \in Seq(ToSet(Diff[b][c]))
          /\ \A d, e \in ToSet(Diff[b][c]) : d.path = e.path => d = e
          /\ \A d \in ToSet(Diff[b][c]) :
                /\ d.additions + d.deletions = 0 => d.apiAdded \cup d.apiRemoved = {}
                /\ d.additions \in Nat /\ d.deletions \in Nat /\ d.binary \in BOOLEAN
                /\ IsFiniteSet(d.apiAdded \cup d.apiRemoved)
                /\ ClassesKnown(d.oldDeps) /\ ClassesKnown(d.newDeps)
    /\ \A q \in Policies, m \in Measures : q[m] \in Nat \cup {Null}
    /\ \A place \in PrStates \cup Worlds : place.base \in Commits /\ place.head \in Commits

VARIABLES
    world,          \* the checkout and the command line, fixed for the run
    policy, pc, error,
    history,        \* every state the pull request had, the last one current
    raw, rawFirst, observedAt,
    base, head, files, sized, manifests, api, ready, renameSkipped, failures,
    verdict, faults

run == <<raw, rawFirst, observedAt, base, head, files, sized, manifests, api, ready, renameSkipped, failures>>
vars == <<world, policy, pc, error, history, run, verdict, faults>>

Init ==
    /\ world \in Worlds /\ policy \in Policies
    /\ pc = "version" /\ error = Null /\ verdict = Null /\ faults = 0
    /\ \E pr \in PrStates : history = <<pr>>
    /\ raw = Null /\ rawFirst = Null /\ observedAt = Null /\ base = Null /\ head = Null
    /\ files = <<>> /\ sized = FALSE /\ manifests = {} /\ api = {} /\ ready = <<>>
    /\ renameSkipped = FALSE /\ failures = {}
--------------------------------------------------------------------------------
(* The gateway. A reply is "ok", or a child that failed, printed more than the  *)
(* buffer holds, ran out of time, or is not installed; gh also refuses without  *)
(* a login, and may answer with something that is not the pull request.         *)
Replies(call) == {"ok", "nonzero", "overflow", "timedOut", "missing"}
                 \cup (IF call = "gh" THEN {"auth", "badJson"} ELSE {})

ReplyError(call, reply) ==
    CASE reply = "ok"       -> Null
      [] reply = "missing"  -> IF call = "gh" THEN "gh_missing" ELSE "git_missing"
      [] reply = "timedOut" -> "spawn_timeout"
      [] reply = "auth"     -> "gh_auth"
      [] reply = "badJson"  -> "gh_bad_json"
      [] reply = "overflow" -> IF call \in {"diff", "patch"} THEN "buffer_overflow"
                               ELSE IF call = "gh" THEN "gh_failed" ELSE "git_failed"
      [] reply = "nonzero"  -> IF call \in {"remote", "shallow"} THEN Null
                               ELSE IF call = "toplevel" THEN "not_a_repo"
                               ELSE IF call = "gh" THEN "gh_failed" ELSE "git_failed"

(* Failures of a manifest, size or patch read are recorded, not thrown.         *)
Degradable(call, code) ==
    \/ code \in {"git_failed", "spawn_timeout"} /\ call \in {"sizes", "manifests", "patch"}
    \/ code = "buffer_overflow"

Spend(reply) == faults' = (IF reply = "ok" THEN faults ELSE faults + 1) /\ faults' <= MaxFaults
Throw(code) == pc' = "failed" /\ error' = code /\ UNCHANGED <<run, verdict>>
Record(stage, code, subjects) == failures' = failures \cup {[stage |-> stage, code |-> code, subjects |-> subjects]}
Go(next) == pc' = next /\ UNCHANGED <<error, verdict>>
World == UNCHANGED <<world, policy, history>>

(* A call whose only effect is the error it may throw.                          *)
Call(at, next, wrong) ==
    /\ pc = at /\ World
    /\ \E reply \in Replies(at) :
         /\ Spend(reply)
         /\ LET code == IF ReplyError(at, reply) # Null THEN ReplyError(at, reply) ELSE wrong IN
            IF code # Null THEN Throw(code) ELSE Go(next) /\ UNCHANGED run
--------------------------------------------------------------------------------
(* Before the pull request: version floors, the checkout, its attributes.       *)
RequireGit(partial) ==
    IF world.git = "full" \/ (world.git = "no_lazy_fetch_switch" /\ ~partial) THEN Null
    ELSE "git_unsupported_version"

ReadVersion == Call("version", "safe", RequireGit(FALSE))
ReadSafeDirectories == Call("safe", "toplevel", Null)
ReadToplevel == Call("toplevel", "partial", Null)
ReadPartial == Call("partial", "attributes", RequireGit(world.partial))

InfoAttributes ==
    /\ pc = "attributes" /\ World
    /\ \E reply \in Replies(pc) :
         /\ Spend(reply)
         /\ IF ReplyError(pc, reply) # Null THEN Throw(ReplyError(pc, reply))
            ELSE /\ IF world.attributes \in {"effective", "unreadable"}
                    THEN Record("attributes", "info_attributes", {}) ELSE UNCHANGED failures
                 /\ Go("remote")
                 /\ UNCHANGED <<raw, rawFirst, observedAt, base, head, files, sized, manifests, api, ready, renameSkipped>>

(* A remote that cannot be read is no remote; only a pull request needs one.    *)
ReadRemote ==
    /\ pc = "remote" /\ World /\ UNCHANGED run
    /\ \E reply \in Replies(pc) :
         /\ Spend(reply)
         /\ LET remote == IF reply = "nonzero" THEN "unusable" ELSE world.remote
                code == IF ReplyError(pc, reply) # Null THEN ReplyError(pc, reply)
                        ELSE IF world.mode = "git" THEN Null
                        ELSE IF remote = "unusable" THEN "no_remote"
                        ELSE IF world.byUrl /\ remote = "other" THEN "repo_mismatch" ELSE Null
            IN  IF code # Null THEN pc' = "failed" /\ error' = code /\ UNCHANGED verdict
                ELSE Go(IF world.mode = "git" THEN "base" ELSE "view")

(* A ref that is no commit is looked up under the remote, for the hint only.    *)
Resolve(at, next, commit) ==
    /\ pc = at /\ World
    /\ \E reply \in Replies(at) :
         /\ Spend(reply)
         /\ IF ReplyError(at, reply) # Null THEN Throw(ReplyError(at, reply))
            ELSE IF commit \notin world.local THEN Throw("ref_not_found")
            ELSE /\ Go(next)
                 /\ IF at = "base" THEN base' = commit /\ UNCHANGED head ELSE head' = commit /\ UNCHANGED base
                 /\ UNCHANGED <<raw, rawFirst, observedAt, files, sized, manifests, api, ready, renameSkipped, failures>>
ResolveBase == Resolve("base", "head", world.base)
ResolveHead == Resolve("head", "mergeBase", world.head)
--------------------------------------------------------------------------------
(* The pull request: one response, read again once when GitHub has not worked   *)
(* out whether it merges, and dated before any work on the checkout.            *)
GhView ==
    /\ pc \in {"view", "viewAgain"} /\ World
    /\ \E reply \in Replies("gh") :
         /\ Spend(reply)
         /\ IF ReplyError("gh", reply) # Null THEN Throw(ReplyError("gh", reply))
            ELSE LET now == Last(history)
                     retry == pc = "view" /\ now.state = "OPEN" /\ now.mergeable = "UNKNOWN" IN
                 /\ raw' = now
                 /\ rawFirst' = IF retry THEN now ELSE rawFirst
                 /\ Go(IF retry THEN "viewAgain" ELSE "observe")
                 /\ UNCHANGED <<observedAt, base, head, files, sized, manifests, api, ready, renameSkipped, failures>>

Observe ==
    /\ pc = "observe" /\ World /\ UNCHANGED faults
    /\ IF raw.moved THEN Throw("repo_mismatch")
       ELSE /\ observedAt' = Len(history)
            /\ Go("verifyHead")
            /\ UNCHANGED <<raw, rawFirst, base, head, files, sized, manifests, api, ready, renameSkipped, failures>>

VerifyHead == Call("verifyHead", "verifyBase", Null)
VerifyFirstAnswer ==
    /\ pc = "verifyBase" /\ World
    /\ \E reply \in Replies(pc) :
         /\ Spend(reply)
         /\ LET pr == IF rawFirst = Null THEN raw ELSE rawFirst IN
            IF ReplyError(pc, reply) # Null THEN Throw(ReplyError(pc, reply))
            ELSE IF ~({pr.head, pr.base} \subseteq world.local) THEN Throw("commit_not_local")
            ELSE /\ base' = pr.base /\ head' = pr.head /\ Go("mergeBase")
                 /\ UNCHANGED <<raw, rawFirst, observedAt, files, sized, manifests, api, ready, renameSkipped, failures>>
VerifyBase ==
    /\ pc = "verifyBase" /\ World
    /\ \E reply \in Replies(pc) :
         /\ Spend(reply)
         /\ IF ReplyError(pc, reply) # Null THEN Throw(ReplyError(pc, reply))
            ELSE IF ~({raw.head, raw.base} \subseteq world.local) THEN Throw("commit_not_local")
            ELSE /\ base' = raw.base /\ head' = raw.head /\ Go("mergeBase")
                 /\ UNCHANGED <<raw, rawFirst, observedAt, files, sized, manifests, api, ready, renameSkipped, failures>>

MergeBase ==
    \/ world.related /\ Call("mergeBase", "diff", Null)
    \/ ~world.related /\ Call("mergeBase", "shallow", Null)
IsShallow == Call("shallow", "never", "no_merge_base")
--------------------------------------------------------------------------------
(* The members of s that are in S, in their order.                              *)
Only(s, S) ==
    LET kept[n \in 0..Len(s)] ==
            IF n = 0 THEN <<>> ELSE IF s[n] \in S THEN Append(kept[n - 1], s[n]) ELSE kept[n - 1]
    IN  kept[Len(s)]

MergeBaseCommit == MergeBaseOf[base][head]
GitDiff == Diff[MergeBaseCommit][head]

(* The diff: a status the gate does not know drops the file and is recorded.    *)
StatusWithUnknown == {"A", "M", "D", "R", "T", "X"}
StatusOk == {"A", "M", "D", "R", "T"}
FileFact(d) ==
    [path |-> d.path, oldPath |-> d.oldPath, oldMode |-> d.oldMode, newMode |-> d.newMode,
     status |-> d.status, binary |-> d.binary,
     additions |-> IF d.binary THEN 0 ELSE d.additions, deletions |-> IF d.binary THEN 0 ELSE d.deletions,
     submodule |-> "160000" \in {d.oldMode, d.newMode}, apiSkipped |-> Null, git |-> d]
ParseDropped(entries) == [files |-> SelectSeq([i \in DOMAIN entries |-> FileFact(entries[i])], LAMBDA f : f.status \in StatusOk), badStatus |-> {}]
ParseRawNumstat(entries) ==
    LET known == {d \in ToSet(entries) : d.status \in StatusOk}
        kept == Only(entries, known) IN
    [files |-> [i \in DOMAIN kept |-> FileFact(kept[i])],
     badStatus |-> {d.path : d \in ToSet(entries) \ known}]

DiffRaw ==
    /\ pc = "diff" /\ World
    /\ \E reply \in Replies(pc) :
         /\ Spend(reply)
         /\ LET code == ReplyError(pc, reply)
                parsed == ParseRawNumstat(GitDiff) IN
            IF code = "buffer_overflow"
            THEN /\ Record("diff", code, {}) /\ Go("decide")
                 /\ UNCHANGED <<raw, rawFirst, observedAt, base, head, files, sized, manifests, api, ready, renameSkipped>>
            ELSE IF code # Null THEN Throw(code)
            ELSE /\ files' = parsed.files /\ renameSkipped' = ("raw" \in world.renameSkipped)
                 /\ IF parsed.badStatus # {} THEN Record("diff", "bad_status", parsed.badStatus) ELSE UNCHANGED failures
                 /\ Go("sizes")
                 /\ UNCHANGED <<raw, rawFirst, observedAt, base, head, sized, manifests, api, ready>>

HasRule(f) == f.path \in Ruled \/ f.oldPath \in Ruled
Skip(which, why) == [i \in DOMAIN files |-> IF which[i] THEN [files[i] EXCEPT !.apiSkipped = why] ELSE files[i]]

(* A blob of unknown size counts as small here and as BlobLimit in a chunk.     *)
MarkLarge ==
    /\ pc = "sizes" /\ World
    /\ LET candidate(f) == ~f.binary /\ ~f.submodule /\ HasRule(f)
           long(f) == f.additions + f.deletions > LineLimit
           asked == {f \in ToSet(files) : candidate(f) /\ ~long(f) /\ f.git.blobs # <<>>}
           big(f) == \E b \in ToSet(f.git.blobs) : b # Null /\ b > BlobLimit
           large(known) == [i \in DOMAIN files |->
                               candidate(files[i]) /\ (long(files[i]) \/ (known /\ big(files[i])))]
       IN  \E reply \in IF asked = {} THEN {"ok"} ELSE Replies(pc) :
             /\ Spend(reply)
             /\ LET code == ReplyError(pc, reply) IN
                IF code # Null /\ ~Degradable(pc, code) THEN Throw(code)
                ELSE /\ sized' = (code = Null /\ asked # {})
                     /\ files' = Skip(large(sized'), "too_large")
                     /\ IF code # Null THEN Record("api_size", code, {f.path : f \in {x \in ToSet(files) : candidate(x)}})
                        ELSE UNCHANGED failures
                     /\ Go("manifests")
                     /\ UNCHANGED <<raw, rawFirst, observedAt, base, head, manifests, api, ready, renameSkipped>>
--------------------------------------------------------------------------------
(* Manifests: read from the two blobs, or unverifiable.                         *)
SameKind(f) ==
    f.status # "A" /\ ManifestKind[IF f.oldPath = Null THEN f.path ELSE f.oldPath] = ManifestKind[f.path]
Unread(f) == [path |-> f.path, added |-> {}, removed |-> {}, unverifiable |-> TRUE]
ReadManifest(f) ==
    LET old == IF SameKind(f) THEN f.git.oldDeps ELSE {}
        new == f.git.newDeps
        names == DiffNames(EntryMap(old), EntryMap(new)) IN
    IF new = Null \/ old = Null \/ f.git.unparsable THEN Unread(f)
    ELSE [path |-> f.path, added |-> names.added, removed |-> names.removed, unverifiable |-> FALSE]
Missing(f) == f.git.newDeps = Null \/ (SameKind(f) /\ f.git.oldDeps = Null)

LoadManifests ==
    /\ pc = "manifests" /\ World
    /\ LET rows == {f \in ToSet(files) : f.status # "D" /\ ~f.submodule /\ ManifestKind[f.path] \notin {"lockfile", "other"}}
           reads == {f \in rows : ManifestKind[f.path] # "unsupported"}
       IN  \E reply \in IF reads = {} THEN {"ok"} ELSE Replies(pc) :
             /\ Spend(reply)
             /\ LET code == ReplyError(pc, reply)
                    lost == IF code = Null THEN {f \in reads : Missing(f)} ELSE reads IN
                IF code # Null /\ ~Degradable(pc, code) THEN Throw(code)
                ELSE /\ manifests' = {IF f \in reads /\ code = Null THEN ReadManifest(f) ELSE Unread(f) : f \in rows}
                     /\ IF code # Null \/ lost # {}
                        THEN Record("manifest", IF code # Null THEN code ELSE "read_failed", {f.path : f \in lost})
                        ELSE UNCHANGED failures
                     /\ Go("select")
                     /\ UNCHANGED <<raw, rawFirst, observedAt, base, head, files, sized, api, ready, renameSkipped>>
--------------------------------------------------------------------------------
(* Public API: patches are read in chunks that stay below the output bound.     *)
Scannable(f) == ~f.binary /\ ~f.submodule /\ HasRule(f) /\ f.apiSkipped = Null

SelectApi ==
    /\ pc = "select" /\ World /\ UNCHANGED faults
    /\ LET lossy == [i \in DOMAIN files |-> Scannable(files[i]) /\ ~files[i].git.utf8]
           clean == {f \in ToSet(files) : Scannable(f) /\ f.git.utf8} IN
       /\ files' = Skip(lossy, "non_utf8_path")
       /\ ready' = Only(files, clean)
    /\ Go("patch")
    /\ UNCHANGED <<raw, rawFirst, observedAt, base, head, sized, manifests, api, renameSkipped, failures>>

Specs(f) == IF f.oldPath \notin {Null, f.path} THEN 2 ELSE 1
Cost(f) ==
    LET size(i) == IF sized /\ f.git.blobs[i] # Null THEN f.git.blobs[i] ELSE BlobLimit
    IN  MapThenSumSet(size, DOMAIN f.git.blobs)
Fits(n) ==
    LET cost(i) == Cost(ready[i])
        specs(i) == Specs(ready[i]) IN
    MapThenSumSet(cost, 1..n) <= ChunkOutput /\ MapThenSumSet(specs, 1..n) <= ChunkPaths
NextChunk == SubSeq(ready, 1, Max({1} \cup {n \in DOMAIN ready : \A m \in 1..n : Fits(m)}))

(* A chunk that fails marks its own files and leaves the next chunk to be read. *)
DiffPatch ==
    /\ pc = "patch" /\ ready # <<>> /\ World
    /\ \E reply \in Replies(pc) :
         /\ Spend(reply)
         /\ LET code == ReplyError(pc, reply)
                paths == {f.path : f \in ToSet(NextChunk)}
                mine == [i \in DOMAIN files |-> files[i].path \in paths]
                absent == [i \in DOMAIN files |-> mine[i] /\ ~files[i].git.patched /\ files[i].additions + files[i].deletions > 0]
                found == {f \in ToSet(NextChunk) : f.git.patched /\ f.git.apiAdded \cup f.git.apiRemoved # {}} IN
            IF code # Null /\ ~Degradable(pc, code) THEN Throw(code)
            ELSE /\ ready' = SubSeq(ready, Len(NextChunk) + 1, Len(ready))
                 /\ renameSkipped' = (renameSkipped \/ (code # "spawn_timeout" /\ "patch" \in world.renameSkipped))
                 /\ IF code # Null
                    THEN Record("api_patch", code, paths) /\ files' = Skip(mine, "patch_failed") /\ UNCHANGED api
                    ELSE /\ files' = Skip(absent, "patch_missing") /\ UNCHANGED failures
                         /\ api' = api \cup {[path |-> f.path, added |-> f.git.apiAdded, removed |-> f.git.apiRemoved] : f \in found}
                 /\ Go("patch")
                 /\ UNCHANGED <<raw, rawFirst, observedAt, base, head, sized, manifests>>
PatchesRead == pc = "patch" /\ ready = <<>> /\ World /\ Go("decide") /\ UNCHANGED <<run, faults>>
--------------------------------------------------------------------------------
Evidence ==
    [v |-> EvidenceV, collector |-> CollectorVersion, files |-> ToSet(files), manifests |-> manifests,
     api |-> api, failures |-> failures, complete |-> failures = {}, renameSkipped |-> renameSkipped,
     base |-> base, head |-> head, mergeBase |-> MergeBaseCommit, pr |-> raw, observedAt |-> observedAt]

DecideCollected ==
    /\ pc = "decide" /\ World /\ UNCHANGED <<run, faults, error>>
    /\ verdict' = Decide(Evidence, policy) /\ pc' = "done"

(* GitHub, at any moment: a push, a review, a check, a merge.                   *)
PrMoves ==
    /\ Len(history) <= MaxPrSteps /\ Last(history).state # "MERGED"
    /\ \E pr \in PrStates \ {Last(history)} : history' = Append(history, pr)
    /\ UNCHANGED <<world, policy, pc, error, run, verdict, faults>>

Collect ==
    \/ ReadVersion \/ ReadSafeDirectories \/ ReadToplevel \/ ReadPartial \/ InfoAttributes \/ ReadRemote
    \/ ResolveBase \/ ResolveHead \/ GhView \/ Observe \/ VerifyHead \/ VerifyBase \/ MergeBase \/ IsShallow
    \/ DiffRaw \/ MarkLarge \/ LoadManifests \/ SelectApi \/ DiffPatch \/ PatchesRead \/ DecideCollected
Next == Collect \/ PrMoves
Spec == Init /\ [][Next]_vars
--------------------------------------------------------------------------------
(* What the change is, read off the repository itself, whatever the gateway     *)
(* managed to deliver.                                                          *)
Changed == ToSet(GitDiff)
TrueDeps(x) ==
    UNION {{<<d.path, a.name>> : a \in {n \in d.newDeps : n.class = "remote" /\ (SameKind(d) => n.name \notin NamesIn(d.oldDeps))}} :
           d \in {e \in Changed : /\ e.status # "D" /\ "160000" \notin {e.oldMode, e.newMode}
                                  /\ ManifestKind[e.path] \notin {"lockfile", "other", "unsupported"}
                                  /\ ~ExcludedDepPath(e.path, x)}}
TrueLines(x) ==
    LET counted == {e \in Changed : ~e.binary /\ "160000" \notin {e.oldMode, e.newMode} /\ e.path \notin Lockfiles \cup x}
        plus(e) == e.additions
        minus(e) == e.deletions IN
    <<MapThenSumSet(plus, counted), MapThenSumSet(minus, counted)>>
Scanned(e) == ~e.binary /\ "160000" \notin {e.oldMode, e.newMode} /\ HasRule(e)
TrueNewFiles(x) ==
    {e \in Changed : e.status = "A" /\ "160000" \notin {e.oldMode, e.newMode} /\ e.path \notin Lockfiles \cup x}
TrueApi(x) ==
    LET scanned == {e \in Changed : Scanned(e) /\ ApiCounted(e.path, x)} IN
    Net(Declared(scanned, "apiAdded"), Declared(scanned, "apiRemoved"))
    + Cardinality(NewExecutables([files |-> Changed], x))

(* A verdict that calls its evidence complete measured the whole change: no     *)
(* line, file, dependency or (when coverage is complete) API name was lost to a *)
(* call that failed, a blob that is not local, or a chunk that was skipped.     *)
CompleteEvidenceIsTrue ==
    verdict # Null /\ verdict.evidenceComplete =>
        LET x == policy.exclude
            m == verdict.metrics IN
        /\ m.new_deps = Cardinality(TrueDeps(x)) /\ m.new_files = Cardinality(TrueNewFiles(x))
        /\ m.net_lines = TrueLines(x)[1] - TrueLines(x)[2] /\ m.churn = TrueLines(x)[1] + TrueLines(x)[2]
        /\ "api_coverage_partial" \notin verdict.reasons => m.new_public_api = TrueApi(x)

(* "would merge" is never the answer of a check that could not look: nothing    *)
(* failed, git could report everything and pair every rename, the limits on     *)
(* lines, churn, new files and new dependencies hold of the real change, and no *)
(* signal of an open pull request was short of a known pass. The limit on the   *)
(* public API holds of it unless the verdict says its coverage is partial: that *)
(* reason does not refuse (registry.ts 146).                                    *)
PolicyHolds(x) ==
    /\ policy.new_deps # Null => Cardinality(TrueDeps(x)) <= policy.new_deps
    /\ policy.new_files # Null => Cardinality(TrueNewFiles(x)) <= policy.new_files
    /\ policy.net_lines # Null => TrueLines(x)[1] - TrueLines(x)[2] <= policy.net_lines
    /\ policy.churn # Null => TrueLines(x)[1] + TrueLines(x)[2] <= policy.churn
    /\ policy.new_public_api # Null /\ "api_coverage_partial" \notin verdict.reasons
          => TrueApi(x) <= policy.new_public_api
WouldMergeIsEarned ==
    verdict # Null /\ verdict.wouldMerge =>
        /\ failures = {} /\ RequireGit(world.partial) = Null
        /\ world.attributes \notin {"effective", "unreadable"}
        /\ "raw" \notin world.renameSkipped /\ ("patch" \in world.renameSkipped => api = {})
        /\ Changed # {} /\ \A e \in Changed : e.status \in StatusOk
        /\ PolicyHolds(policy.exclude)
        /\ raw # Null /\ raw.state = "OPEN" =>
              /\ ~raw.draft /\ raw.mergeable = "MERGEABLE" /\ raw.review \in {"APPROVED", "", Null}
              /\ raw.rollup # Null /\ \A c \in raw.rollup : ClassifyCheck(c) \in {"success", "neutral"}

(* A verdict on a pull request speaks of one state it really had while the      *)
(* check ran: the signals, the commits and the files all belong to it.          *)
SignalsOfOneState ==
    verdict # Null /\ world.mode = "pr" =>
        \E i \in 1..observedAt :
            /\ raw = history[i] /\ verdict.base = history[i].base /\ verdict.head = history[i].head
            /\ verdict.timing = "retroactive" <=> history[i].state \in {"MERGED", "CLOSED"}
OneSnapshot ==
    /\ SignalsOfOneState
    /\ verdict # Null /\ world.mode = "pr" =>
          {f.git : f \in ToSet(files)} \subseteq ToSet(Diff[MergeBaseOf[verdict.base][verdict.head]][verdict.head])

(* What a check records can be decided again: replay accepts the evidence and   *)
(* gives the same answer, and raising or dropping limits never turns a          *)
(* "would merge" into a refusal.                                                *)
Looser(p, q) == \A m \in Measures : q[m] = Null \/ (p[m] # Null /\ p[m] <= q[m])
EvidenceReplays ==
    verdict # Null =>
        /\ ReplayOne(Evidence, policy) = Replayed(Null, verdict)
        /\ \A q \in Policies : Looser(policy, q) /\ q.exclude = policy.exclude /\ verdict.wouldMerge
                                   => ReplayOne(Evidence, q).verdict.wouldMerge
================================================================================
