# A TLA+ model of gstack-extend

gstack-extend is a set of command-line tools that agents and hooks call while
they prepare and ship pull requests: a merge gate, two tools that pay an
outside reviewer, an upgrader, the decision when to ask Greptile for its one
review, tools that keep plans, documents, test dependencies and the roadmap in
order, and ledgers of usage and telemetry. Few of them are concurrent inside; nearly all of them
meet another process, a later run, or their own killed predecessor through
files. This project models the parts where that matters: what two processes do
to one directory, what a crash leaves behind, what the next run makes of it,
and the algorithms whose answers the tools act on.

Paths below are relative to the repository (`src/` of this project's
`PROJECT.json` is its root).

## Inventory

| Component | State it keeps | Operations | How it interacts | What makes it correct |
|---|---|---|---|---|
| merge-gate store (`src/merge-gate/store.ts`, `cli.ts`) | `evidence/`, `decisions/<key>.json`, `<key>.logged`, `verdicts.jsonl` | `check`: look up, collect, decide, publish, log, answer | concurrent calls share the directory; no lock, only `link` and exclusive create | one decision per key for good; every answer agrees with it; each decision logged once |
| merge-gate decision core (`collect.ts`, `decide.ts`, `deps.ts`, `diff.ts`, `api.ts`, `exec.ts`, `registry.ts`...) | none | query git and gh, read manifests and patches, decide, replay | called by `check`; the pull request moves meanwhile | fails closed; a verdict is about one state of the pull request; what is recorded decides the same again |
| review-delegate (`src/review-delegate/`) | call directory: `<id>.json`, `<id>.claim` | `run`: snapshot, claim, spawn, wait, check, save, report | runs share the directory and the work tree; providers are child processes | a part is paid for once; an answer counts only if the tree did not change |
| outside-review (`src/outside-review/`) | request directory: `<id>.json`, `<id>.claim` | `run`: phases in order | a resumed invocation shares the directory | a phase is paid for once; no call after a state error; paid answers reach the report |
| upgrade (`bin/update-run`, `bin/lib/run-migrations.sh`) | git checkout and stash; `migrations-hop-from`, `-applied`, `-failed`, `just-upgraded-from` | stash, pull, setup, migrate, restore | the user's own git commands; `setup`; later runs | one result line; checkout put back; no migration lost or repeated |
| update-check (`bin/update-check`) | `last-update-check`, `update-snoozed`, marker | report an available or finished upgrade | called by every skill preamble | a marker is reported once; a cache never outlives its checkout |
| setup (`setup`) | links and install status, `install-status.lock` | install, publish status | called by update-run and by hand | exclusive publication; a crash leaves a usable state |
| greptile-lifecycle (`src/greptile-lifecycle/`) | none; the PR's comments, receipts, an owner journal, MCP and run histories are its input | a snapshot to an action (rules R01-R14) | sessions race over the comments of a PR | one paid trigger for a PR; evidence nobody can trust only restricts; waits end |
| autoplan-lean (`src/autoplan-lean/`) | plan, sidecar, archives, `outputs/`, `history`, `prompt-sizes`, prompts | prompt, archive-phase, seal, check | the session edits plan and outputs between commands; the final message quotes them | a sealed plan and its sidecar agree; no review output or record is lost |
| layout-scaffold (`src/layout-scaffold/`) | the repository's tree and index | plan, apply | git; the user between plan and apply | nothing changes that was not confirmed; no document is lost half way |
| pregate-deps (`src/pregate-deps/`) | the `pregate` policy file | check, write, prune | users edit sources and policy | the file lists the tests that depend on each module |
| roadmap packing and its audit (`src/audit/lib/pack.ts`, `pack-cli.ts`, `checks/`) | ROADMAP.md, kept by people and the roadmap skill | pack, audit, launch | the skill writes what the packer prints; people ship and edit | what can be launched together does not collide |
| quota ledger (`bin/lib/quota/`) | SQLite documents, `identity.key`, lock files | samples, meters, intervals | processes under `flock` with deadlines | one key; the newest observation wins |
| telemetry (`bin/lib/telemetry.py`...) | handoffs, completion markers, appended sinks | start, finish, adopt | a lock per repository and skill; hooks | a run is finished once |
| workflow metrics (`bin/lib/workflow_metrics.py`) | an append-only ledger under `flock` | mutate, summarize | refuses when the lock is busy | a torn tail is repaired; the reducer sees each event once |
| projects registry (`bin/lib/projects-registry.sh`) | one JSON file | upsert | no lock; rename | concurrent upserts (last writer wins) |
| other audit checks, docs-ship, upstream-check, secret-dispositions, scripts | none that survives a run | read and print | | pure |

What is hard here: link and create races between processes; steps that must
reach the disk in order; kills between two steps; saves that fail after money
was spent; best-effort restores; timers against late answers; a world that
moves between the look and the verdict, or between the plan and its apply; and
readers that must not miss what an odd input hides. `PROJECT.json` lists these
under `hazards`, each at its line, with the properties that cover it or the
reason none does.

## Modules

| Module | What it is |
|---|---|
| `DecisionRegister` | abstract: a write-once register per key; an entry is tentative until settled, and a power loss may take a tentative one |
| `MergeGateStore` | `check` on the store, step by step; implements `DecisionRegister` |
| `MergeGateCollect` | `check` before the store: git and gh calls, manifests, patches, the verdict |
| `MergeGateDecision` | the verdict as an operator over evidence and a policy; validation and replay |
| `MergeGateManifests`, `MergeGatePatches` | the readers of manifests, of `git diff -U0` and of API names |
| `MergeGateParsing` | inputs for these readers, grown a line at a time |
| `MergeGate` | a check, or the readers on their inputs: what `MCMergeGate` instantiates and `MergeGateProofs` is about |
| `PaidCalls` | abstract: claim, send, settle, tell; implemented by both reviewers |
| `ReviewDelegate`, `OutsideReview` | the two reviewers |
| `Upgrade` | `update-run` with `run-migrations.sh` |
| `GreptilePolicy` | what the decision reads of reservations, requests and runs, and the history rows |
| `GreptileLifecycle` | sessions that act on `GreptilePolicy` over one pull request |
| `GreptileConfig`, `GreptileFacts`, `GreptileRules` | the whole of `decideGreptileLifecycle`: configuration and tables; consumption, receipts, answers, waivers, ancestry; rows R01 to R14 |
| `GreptileEvidence` | a pull request observed again and again while evidence comes, goes and is written by anybody |
| `AutoplanPlan`, `AutoplanHandoff`, `AutoplanRun` | the plan file as the code reads it, the final message, the commands |
| `LayoutPlan`, `LayoutScaffold` | what a plan reads out of a project; plan and apply |
| `PregateGraph`, `PregateDeps` | the import graph; the tool's run over the policy file |
| `TrackPacking`, `Roadmap` | collisions and packing; packer, audit, people and plan together |
| `Tools` | `AutoplanRun`, `LayoutScaffold` and `PregateDeps` side by side, one to a behaviour: what `MCTools` and `ToolProofs` are about |
| `*Proofs` | theorems about `MergeGateStore` and its log, `MergeGate` (with `MergeGateCollect`, `MergeGateDecision` and the readers), `ReviewDelegate`, `OutsideReview`, `Upgrade`, `GreptileLifecycle`, `GreptileEvidence` and `Tools` |
| `MC...` | the instances TLC checks |

Composition. `MergeGateCollect` extends the decision and the manifest reader:
the verdict it reaches is the one `MergeGateStore` publishes, where it is drawn
from a small set because the store only compares digests. `GreptileLifecycle`
runs sessions against the real history rows of `GreptilePolicy`, and
`GreptileFacts` takes requests and reservations from the same module.
`ReviewDelegate` and `OutsideReview` implement one abstract protocol. `Roadmap`
composes packer, audit and people over one plan. Autoplan, layout, pregate and
roadmap share no state with each other; `Tools` has the first three and
`MCTools` adds the roadmap, one of them per behaviour. (`Roadmap` reaches a
RECURSIVE operator, which the provers cannot, and so stays outside `Tools`.)
`MergeGate` puts `MergeGateParsing` beside `MergeGateCollect` the same way; the
readers under test there are the modules `MergeGateCollect` works with.

### MergeGateStore

Each call `c` is a process. `evidence`, `decision`, `marker` and `log` are the
four kinds of file; `durable` is what is on the platter. `pc[c]` follows
`runCheck` (`cli.ts` 311-389): `LookupHit` or `CollectAndDecide`,
`LinkEvidence`, `SyncEvidence`, `LinkDecision`, `SyncDecision` or, for the
loser of the link, `Reread`, then `ClaimMarker`, `OpenLog`, `WriteLog`,
`SyncLog`, and the answer. `FailAppend` is the path that takes the marker away
again (with `unlinkQuiet`, which may fail without saying so), `Fail` any other
failing step. `Crash` kills a call; `PowerLoss` kills them all and takes the
unsynced entries and log bytes, any subset of them. A log line is two pieces
and a newline, so a short write, the repair of a torn tail, and two appenders
meeting in the middle are real steps. `original` is the complement of the
answer's `idempotent`.

### MergeGateCollect, MergeGateDecision

`pc` names the call that is next in `collect.ts`. Each call is one action over
the gateway of `exec.ts`: `Replies` are the ways a child process comes back and
`ReplyError` the error code the gateway gives each, `Degradable` those that are
recorded as failures instead of thrown. `PrMoves` is GitHub at any moment, with
every state kept in `history`, and `Observe` dates the reply; base and head both
come from it, and may both have moved by the next look. What git knows is in the
constants `MergeBaseOf[base][head]` and `Diff[from][to]`, and whether it gave up
pairing renames in the raw diff or in a patch (`renameSkipped`); a policy, a checkout and the command line are
drawn at the start. `Decide` is `decide.ts` with the reason table of
`registry.ts`; `ReplayOne` has the checks `replay` makes before it decides
again. `TrueDeps`, `TrueLines`, `TrueNewFiles` and `TrueApi` read the change off
`Diff` itself, whatever the gateway delivered: the properties compare the
verdict with them. So "would merge" is shown to keep the limits of the real
change on lines, churn, new files and new dependencies. The limit on the public
API it keeps only where the verdict does not say that coverage was partial: that
reason is information (`registry.ts` 146) and refuses nothing, and what a large
file or a path that is no UTF-8 adds is then not counted. Names are counted as
`netApi` does, each declaration once per line, removed ones against added ones
of the same rule and name.

Left out: globs (a path is in a set or not), canonical JSON and hashes,
redaction and the caps on output.

`MergeGateManifests` takes a manifest as lines of words, TOML as statements;
`EntryMap` and `DiffNames` are shared with `MergeGateCollect`.
`MergeGatePatches` takes a raw line as tokens, so that a source line that looks
like a header is one. Limits of the readers the properties respect:
`docs/merge-gate.md` 328-329 says that a construct outside the grammar on an
unchanged line does not block; an entry that changes from `// indirect` to
direct or from local to remote keeps its name and is not new; and git's hunk
heading is taken to be the last line at block level.

### ReviewDelegate, OutsideReview

A part (a phase) is one call id, with a `.claim` and a `.json`. In
`ReviewDelegate` a run snapshots the tree, starts its parts one after the other
without giving up the thread (`Turn`), handles answers or the deadline, makes
one check for all of them (`Check`), saves best effort (`WriteResult`,
`KeepFails`, with `Torn` for a file caught half-way), and prints. `Kill`
stops a run and leaves its providers running; `WriteTree` is anybody writing.
In `OutsideReview` a run walks its phases in order; a state error sets
`replayOnly`, after which saved results are still read and nothing is sent.
Both are mapped to `PaidCalls` through their history variables: who claimed a
call, whether it was sent, how it came out and who was told.

Assumed: hashing the work tree is one read; a call directory belongs to one
frozen diff, configuration and classifier (`callId` hashes the prompt, so a
different one is another id).

### Upgrade

`pc` is `_STAGE`, with the migration runner's own steps and the three places
where branch and stash are put back (end of the run, failed pull, EXIT trap).
A failing stage goes to `OnExit`, which is silent once a result line is out.
Releases are numbers; `Text` is what the scripts make of a VERSION file, `None`
when it is no version number. A pull lands any release from the last one on,
which stands for releases appearing at any time. The runner scans the scripts
of the pulled tree in ascending order, window or failed-list deciding
(`Should`), with the ledger lines as steps of their own so that a kill falls
between a script and its record. Between runs the user edits, stashes, pops,
switches branches, merges main into a feature branch or bumps its VERSION.

A `git stash pop` ends in one of three ways (`RestoreStash`): it applies; it
conflicts, if the branch is at another release than the entry was taken at, and
then leaves the files with conflict marks in the work tree (`unmerged`) and the
entry on the stash (`ConflictingPop`); or it fails and leaves both as they were
(`FailingPop`), which it does by itself while paths are unmerged. With unmerged
paths `git stash` refuses, so that later runs end before they touch anything,
until the user settles them (`Settle`). `RunPutsItBack` says what is then so: the
changes are all in the entry on top, and whatever of them lies in the work tree
is on the branch they were made on.

`passed` records the two known ways a migration gets behind the window without
being tried, so that `MigrationsAccounted` says there is no third: a branch
whose own VERSION claims to be past it, and a VERSION that is no number.

Left out: the two refusals before the EXIT trap is set (no argument, no git
checkout), which change nothing, and untracked files, which `git stash` leaves.

Assumed: one run at a time; nobody else uses the checkout during a run; `setup`
and migrations leave the checkout alone (`run-migrations.sh` 19-20 demands it).

### GreptilePolicy, GreptileLifecycle

`Decide(o)` is `greptilePath` with what it reads from `computeHistory`: what is
released, who won, what this session's own reservation is worth, what counts as
a request, whether the histories explain each other, then rows R08, R09, R10,
R13, R11 in the code's order. Its argument is one observation, and `Read` works
the released reservations out once, as the memo does.

`GreptileLifecycle` is a caller. The repository has none yet; `decide.ts` 49-60
is its contract, the comments of `types.ts` and `skills/review-and-prep.md`
3382-3427 its procedure, and the test at `tests/greptile-lifecycle.test.ts` 2053
its smallest instance. A session begins (`Begin`) by reading either the
comments or Greptile's histories, reads the other and the journal when it takes
its decision (`TakeDecision`), and then posts a reservation, reads it back,
journals an attempt before making it, sends by MCP or comment, asks, or looks
again. `ProveUnsent` is a not-submitted record arriving later; `Kill`, lost
calls, and an unreadable journal spend `faults`; a comment deleted or edited by
somebody else and a run nobody asked for (`Meddle`) spend two of them.
Greptile's answers (`RunAppears`, `RunEnds`) and the clock are free.

A request that reached Greptile is kept in `reached`, with the time the rules
count it from: an MCP request from its reservation, a comment from itself. `due`
is what had reached it when a session began to look, since a verdict is about
what could be seen.

Assumed: one caller journal for all sessions; no second look between decision
and effect (the contract asks for one, so the model allows more); the clocks of
GitHub, Greptile and the caller agree; the user answers (a), a failed run (R10.E2)
ends the matter. Left out: R01-R07, the local gates of R12 and R14 (they only
put something else in place of what these rows say), waivers, ancestry, several
reporters of one run, and markers of other accounts.

What a ready verdict need not see is part of the property (`InSight`): a request
whose comment somebody changed, since it no longer says when it was; and, for a
verdict without the journal, an MCP request that is not on record yet when
somebody has also meddled. An automatic run counts as explained by what the
verdict finds among submissions, trigger comments and journaled attempts, and a
reservation alone is none of these, so R10 takes the automatic run for the PR's.
`types.ts` 23 promises no more of an unknown journal than that it is no proof of
a fresh owner. `verdict[s]` keeps what the property needs of the decision: the
answers it rests on (`relied`) and whether it had the journal (`blind`).

### GreptileConfig, GreptileFacts, GreptileRules, GreptileEvidence

`DecideGreptileLifecycle(o)` is the exported function, row by row in its order.
An observation has ten families of evidence, each `known`, `failed` or
`incomplete`. `GreptileConfig` has the tables and readers of `policy.ts`: which
settings at base and head let Ready or a push start a review. `GreptileFacts`
has what the rows look at: which run reduces to what, what consumed the
allowance, which receipts and answers can be trusted (written by the running
account and nobody else, for a commit shown to be in the branch), which
waivers and restrictions stand, what the local gates say. `GreptileEvidence`
lets a collector fill or lose any family, anybody write a receipt, Ready be
pressed and the PR be merged, and decides anew each time. Its properties read
the raw evidence, not what the rows made of it.

`UntrustedOnlyRestricts` compares the decision before and after a receipt that
cannot be trusted. Such a receipt brings about no request and no readiness that
was not decided before, with one exception the code has: it may name a request
or a run, true or not, and what is named counts as consumed. That changes which
question is open (E1 asks something else of a consumed allowance, the skip of a
review that cannot come is no longer asked about), and an answer to stay draft
binds only while its question is the same. So the property lets a naming receipt
turn a PR that is held back to one that may get ready, and to a request only
where the configuration says that no review can come. `RecordedAnswersRestrict`
is the same without the exception, as a comment of the code has it.

Left out: the wording of a question; how strings become times; that a
response must parse (an unreadable one is a family that failed).

### AutoplanPlan, AutoplanHandoff, AutoplanRun

A plan is a sequence of lines, a line what the patterns of `plan.ts` make of
it. `Fences`, the sections, the settlements and the split into proper, record
and report follow the code, since a code example that quotes a heading is what
these readers can trip over. A record or text stands for its own hash, so a
match of hashes is equality. In `AutoplanRun` a `job` is the command in flight
and each file operation an action that may fail or be the last: `Prompt`,
`AppendRow`; `ArchivePhase`, `ClearOutput`; `Seal`, `ArchiveSidecar`,
`PublishSidecar`, `PublishPlan`, `RestoreSidecar`. `EditPlan`, `WriteOutput`,
`WriteMessage` and `MoveAside` are the session's. `kept` are staged copies that a
failure or a kill leaves.

A plan may leave a fence open (`opened`). The code does not refuse it, and its
readers then take all that follows for an example, a review record included:
`seal` still says "sealed", `check` fails, and a later `seal --replace` takes the
sidecar for one the plan does not name and overwrites it without archiving
(`given`). `RecordsSurvive` excepts exactly such a record, and `SealLeavesPair`
says what the seal leaves instead of a pair. A seal whose second publication and
restore both fail (`SEAL_RECOVERY_FAILED`) takes two faults and the run has one;
the proof covers any number. What `check` goes on to ask of a sealed pair is in
`HandoffIsCurrent`.

Left out: the outline and criteria reports, which write nothing. Assumed: one
command of a plan at a time. A torn row
of `prompt-sizes` makes every later prompt and seal end `INTERNAL`; this is in
the model and no property says otherwise.

### LayoutPlan, LayoutScaffold

A project is a tree of nodes by real path (volume first), with links,
repositories and unreadable directories, and an index. `BuildPlan` is
`buildPlan`: the moves of the audit's `doc-location` and `doc-type` checks in their order, the
preflight that blocks or refuses them, and the binding whose hash is the plan id
(here the binding itself). `LayoutScaffold` shows a plan, lets the user change
the project, recomputes it and carries it out: directories, `git mv` (which may
die between work tree and index), or link and unlink, or copy and unlink across
volumes, then the check afterwards.

Limits: `root.ts` excludes from its threat model that links change or files
vanish under a running apply, so during one others only add. When a root
document was half moved by a copy that could not keep its time, the two files
afterwards pass for a mirror that was meant; the help (`cli.ts` 103) lists
half-finished moves as blocked, and `HalfFinishedIsBlocked` excepts this one.
Where no link can be made, the look at the destination (`Look`), the exclusive
copy (`CopyFile` begins it, `FinishCopy` ends it) and the removal of what a
failed one left (`CleanUp`) are steps of their own, with kills and other people's
files between any two. The removal goes by the look: when somebody puts a file
at the destination after it, and the copy then fails for another reason than
that file, the tool removes it (`apply.ts` 65-69, whose comment only has the
EEXIST case in mind). `NothingLost` excepts that file and no other (`Raced`).
Left out: spelling and case-folding checks, refusals of the root directory
itself and of operands, the details of unreadable entries. The order of refusals
within the index step is approximate.

### PregateGraph, PregateDeps

A source is the set of statements the regular expressions find in it. `Targets`,
`Dependents` and `Walk` are `graph.ts`; ownership of entries, what is missing
or stale, and merging are `cli.ts`. `PregateDeps` reads policy and sources at
two moments, writes the replacement beside the policy and renames it, while
users edit both. A root without Python files may or may not exist. An edit of
the policy between read and rename is overwritten (no lock is taken and nothing
promises more): `MapIsTheClosure` speaks of runs whose reads are `fresh`. It
checks the walk, the ownership, the merge and the replacement of the file. Which
files one statement names is `Targets` on both sides of it: a relative import or
a package that the code resolves wrongly is a thing the property would not see.
Left out: the regular expressions, `MAX_PATH_LENGTH`.

### TrackPacking, Roadmap

`PackTracks` is `packTracks`: identities, collisions (new paths, folders, shared
documents, protected ones), depth by dependencies, bins with their cap, and the
edges between bins. Names of files are numbers ordered like their text. In
`Roadmap` the packer writes groups behind what is finished (`Regenerate`),
people ship tracks of groups in flight, move, retouch, block and regroup them or
add a Hotfix, and `Audit` computes PACKING, COLLISIONS, GROUP_DEPS and the
unordered collisions of STYLE_LINT. A group is complete when its heading says so
(`CloseGroup`): in a plan with sections the heading alone decides
(`parsers/roadmap.ts` 652-658), and may still stand under the current plan when
all its tracks have shipped, or move under Shipped before they have. A plan
without sections closes a group with its last track, which are some of the same
behaviours. A Hotfix group holds one track, so COLLISIONS has nothing to find in
it and the fixpoint holds of plans with one.

Limits: touches are sets; the critical path, `folderOnly` and the printed text
are left out, and so is the `isHotfix` branch of `packTracks`, which no caller
reaches. On a cycle the tool prints it and no bins. `PackingIsAFixpoint` assumes
distinct identities and groups shipped in order, and the instances hold no plan
that touches more than one protected document (the packer may group such tracks
and COLLISIONS then fails by its rule on instructions). `AuditedFrontierIsSafe` leaves two Hotfix groups at
once aside. Legacy tracks stay outside packing, and edits never give a Hotfix a
dependency, which STRUCTURE fails. `pack.ts` 15 says that two ready bins
never share a path; with overflow or across layers they can, and STYLE_LINT is
what reports it, which is why the property asks for its silence.

## Runs

| Run | Instance | What it shows |
|---|---|---|
| `merge_gate_store` | 3 calls, 1 key, 1 evidence id, 3 faults | the register is implemented; answers, evidence and log are right, or the fault that spoiled them is on record |
| `merge_gate_logged_once` | 2 calls, 1 fault, expected violation | `LoggedAtMostOnce` fails: see Findings |
| `merge_gate_check` | 5 commits, 10 states of a pull request on 2 bases, 13 checkouts, 3 policies, 1 failing call, 1 move of the PR; manifests of 6 kinds of up to 4 lines, patches of 2 files with 2 hunks of 2 lines, sources of 5 lines | complete evidence is the real change, "would merge" is earned, a verdict is about one state, evidence replays; no dependency hides, patches parse back, the API scan counts members |
| `review_delegate` | 2 runs, 2 parts, 2 trees, 1 write, 1 fault, fair | credit, explanations, termination, and `PaidCalls` implemented |
| `outside_review` | 2 runs, 2 phases, 2 faults, fair | reports, exit codes, termination, and `PaidCalls` implemented |
| `upgrade` | 3 releases (2 with migrations, 1 of them unversioned), 2 changes, 2 faults | result line, restore, migrations |
| `upgrade_window_survives` | no fault, expected violation | `WindowSurvivesMiss` fails: see Findings |
| `greptile` | 2 sessions, both transports, 2 faults or 1 deletion, edit or automatic run, ten minutes as 1 tick, clock to 1 | one request, and readiness rests on what is so |
| `greptile_live` | 2 sessions, 1 fault, comments only, runs that complete or fail, fair | no wait, refresh or lost race goes on for ever |
| `greptile_evidence` | 16 first observations, 2 changes out of some 260 (a family's value or loss, a receipt by 3 writers for 3 commits, Ready, merged) | a trigger needs silence, no second review, untrusted records only restrict |
| `greptile_restrictive` | the same, expected violation | `RecordedAnswersRestrict` fails: see Findings |
| `tools` | autoplan: 3 commands, 2 outputs, 1 edit, 1 fault, 4 plans of its own text (one leaves a fence open), 7 messages; layout: 27 projects, 2 commands, 1 edit, 2 faults; pregate: 2 trees, 3 policies, 3 root sets, 2 runs, 1 edit, 1 fault; roadmap: 3 plans of 4 tracks, cap 2, 1 edit | see the modules |

Why the bounds are enough. Keys do not interact, so one key with three calls
holds every race (winner, loser, and one that comes after); a repeated or lost
line needs at most two faults and the third catches a fault during recovery. In
a check, calls follow one another, each failing in its own way and once is
enough to lose what it was to bring; one move of the PR between any two calls
is a mix of two states if the code permits one; limits of 3 lines and 2 bytes
put a small, a large and an unknown blob on both sides of every comparison and
more than one chunk in a patch. Four manifest lines open a block, add an entry,
close it and open another. Two runs and two parts hold a race on a claim, a
replay of a saved result and a check shared by parts. Three releases give a
window of more than one migration, a skipped release and a retry; two changes
are needed to tell the run's stash entry from the user's; two faults give a
failure inside a restore after a failure. In the Greptile runs the clock has two
values, before and after the ten minutes of what was done first, which is all
the rules compare; two faults give a session killed after another's call was
lost. `EverySessionSettles` sets aside what the end of the clock cuts short.
`greptile_evidence` starts from one observation of each kind (fresh, reserved,
asked, reviewed, failed, opening on Ready, held by an answer to stay draft, documents
only, a changed policy...),
and two changes take it from any of them through a second kind to a third.
Three autoplan commands are prompt or archive, seal, and a reseal or check; in
layout two faults are a copy that fails and cannot be removed; two runs of
pregate are one that writes and one that finds the entries. A roadmap of four
tracks has collisions within and across layers, an overflow and a chain.

Symmetry is used where the members are interchangeable, never with a liveness
property. Deadlock is off where processes end; it is on for `Upgrade`. Type
invariants are conjuncts of the proved invariants (`TypeCorrect` in four
modules) or were checked while the module was written; a run is not spent on them.

Fairness. Liveness assumes weak fairness of each run's own steps, `RunStep(r)`:
a process that can go on does. That includes the timer (`setTimeout` in
`spawnProvider`, the timeout of the provider call in outside-review), since a
process's event loop fires it; it does not include an answer from the provider. In
`GreptileLifecycle` the sessions' own steps and the clock are fair; answers of
Greptile or the user are not. A killed run takes no more steps and counts as
ended. The other tools are single commands without waits: nothing is assumed.

Every property is paired in `PROJECT.json` with a mutant: a plausible bug in a
mapped definition, next to it in the module, under which TLC finds the
property violated.

## Findings

* `store.ts` 199 says a verdict line is appended exactly once. When the append
  fails after the bytes are written (its `fsync` fails), the marker is removed
  (219-220) and the retry appends the line again. `LogIsExplained`
  shows that short of a power loss this is the only way.
* `run-migrations.sh` 41-43 says contract failures leave hop-from so that a
  later hop still has the window. With a VERSION that is no version number the
  runner warns, skips the window, and still clears hop-from (208). The release's
  migrations are then behind every later window. `MigrationsAccounted` shows
  that nothing else forgets one.
* `decide.ts` 1433 says that receipts and recorded answers are restrictive
  evidence, also from untrusted records. An answer that names a run counts as a
  review consumed before the skip (1423-1431), which takes the question whether
  a review was skipped away, and with it an answer to stay draft (1630-1641): a
  reservation, or readiness on a standing waiver, then follows where the user had
  to be asked or had asked to wait. `UntrustedOnlyRestricts` shows that a record
  nobody can trust takes away no more than the questions it changes.

## Proofs

All hold for every value of the constants that meets the assumptions the module
names: any number of calls, runs, sessions, releases, faults and ticks. The
bounds of the runs do not appear in them. An invariant a run checks is seldom
inductive, so each has a strengthening, which TLC checked on the run's instance
before it was proved.

* `MergeGateStoreProofs`. The register: `TypeCorrect`, `Authoritative`, `OriginalSurvives`,
  `EvidenceKept` and `Implements` (the store implements `DecisionRegister`).
  `IInv` is `TypeOK` with one conjunct per call (`CallInv`: what a call at each
  step has in hand, what it has linked and what has been synced since) and one
  per key (`KeyInv`: whose verdict the register may hold and that its evidence
  is there). The properties alone are not inductive because an answer is right
  only for what the call has read before.
  The log: `SyncedLineKept` (a line a call has synced stays whole
  through crashes and power losses) and `LogExplained` (a missing or repeated
  line has a failed or killed append, a short write or a power loss behind it,
  and what is logged is the register's verdict). `LogInv` adds where each call's
  line is (`LineInv`: not begun, partly written as a suffix of what it writes,
  whole in the log, whole on the platter) and who stands for a key's marker
  (`MarkerInv`: at most one call, and none without an explanation). A line is
  whole only as long as nothing comes between its pieces; `exposed` says when
  something may have, and the proof is that otherwise nothing did.
* `MergeGateProofs`. Two theorems about the decision alone: `FailsClosed`
  (whatever the evidence and the policy, a verdict that would merge rests on
  whole evidence, limits that hold and signals that are all known passes) and
  `LooserOnlyAllows` (looser limits never refuse what would merge). Then, for a
  pull request that moves while any calls fail:
  - `Invariance`, `OneState` and `WouldMergeLostNothing`. `IInv` follows `pc`:
    from `observe` on, `raw` is a past state of the PR, from `verifyHead` on it
    is one up to `observedAt`, from `mergeBase` on `base` and `head` are its base and head; a verdict
    is `Decide` of what is in the variables, which nothing changes any more.
  - `WholeInvariance`, `CompleteIsTrue`, `SnapshotHolds`, `ReplayAgrees` and
    `MergeIsEarned`. `WholeInv` says how far collecting has come: every file
    record is what git says of one entry of the diff (`FilesOk`), manifests and
    API names are those of such entries, and while no call has failed all
    entries there are, or still wait in `ready`. At the end the evidence agrees
    with `Diff` entry by entry. That its sums agree too is proved of the sums
    themselves: a function on the finite subsets of a set that adds one element
    at a time has one value for a set whatever the order (least counterexample,
    by well-founded induction over cardinality), so that reading the diff in the
    code's order or as a set gives the same numbers.
  - `ScanHolds` and `PatchHolds`, about the readers of a patch. A reader is a fold
    over lines, and what it computes is proved for inputs of any length by least
    counterexample (`NoneIsBad`: a set of numbers that with each holds the one
    before, and not 0, is empty). For the scan, `Knows` says what stands in the
    accumulator behind each line: the names exported so far, and of the block
    that it is open, closed, or open by a heading that no line has contradicted.
    For the patch, reading one text after another is reading the second from
    where the first ended (`Parsed` of a concatenation), so the round trip is
    proved bottom up: a side of a hunk uses up exactly its count, a hunk adds
    itself to the file of the last header, a file its hunks, a patch its files.
    A changed line that looks like a header is never taken for one because it is
    met while a count is open.
* `ReviewDelegateProofs`: `TypeCorrect`, `PaidOnce`, `CreditIsEarned`,
  `FileKeepsTheCheck` and `Implements` (of `PaidCalls`). `IInv` has a part for
  each run and part (`PairInv`: a part between claim and report is its owner's),
  each part (`PartInv`: claimed if sent, saved as checked, sent at most once)
  and each run (`RunInv`: what the phase says of snapshot, check and report).
  `UnresolvedHasACause` (a claim is reported unresolved only if its owner had not
  ended when this run began, or could not make the claim's body or the saved
  result) rests on `HoldInv`: a claim always has an owner that owes the result,
  kept it, or could not, and a run that had printed before owes nothing.
* `OutsideReviewProofs`: `TypeCorrect`, `PaidOnce`, `NoFurtherCall`,
  `OutcomesSurface`, `CleanExitEarned` and `Implements`, for any number of
  phases. `IInv` has a part for each phase (`PhaseInv`: what directory and
  history say of one call), each run (`RunInv`: what its place in the loop says
  of the call it is at) and each pair (`PairInv`, `Tells`: what a run reported of
  a phase it has passed is what the call returned, or that there was no answer).
* `UpgradeProofs`: `TypeCorrect`, `OneResultLine`, `CheckoutPutBack`,
  `ChangesStayHome` and `LedgersComplete`. `IInv` joins who has spoken
  (`SaidInv`: a line is out only where a run ends), where the changes are
  (`PlaceInv`: in the work tree or in the entry on top of the stash that is this
  run's, with no more of them in the work tree then than the conflict marks of a
  pop; and only an empty work tree is taken to another branch), the ledgers
  (`LedgerInv`: whatever lies before a recorded migration or behind hop-from is
  accounted for) and the scan (`ScanInv`: so is what it has passed). Without the
  last two `MigrationsAccounted` is not inductive: that nothing is forgotten
  when hop-from is cleared follows from the ascending scan.
* `GreptileLifecycleProofs`:
  - `SingleAllowance`: one request at most is made, for any sessions. `IInv`
    calls a reservation live when something was or will be sent under it for
    all the records show; `SingleInv` says that one at most is, and that
    everything before it is proven unused. `SessionInv` and `AttemptInv` say
    whose attempt it is and that a record "not submitted" is never wrong.
  - `ReadyHolds`: a session that reports readiness is right about every request
    due to it. `SightInv` has what a session has read first, of either history
    (`ReadInv`: the comments show the requests it has to see; the runs it
    sighted are there, those it did not came later; the records prove unused
    what came before) and what a verdict rests on (`VerdictInv`). The histories
    only grow (`Grows`), but for what tampering takes, so what was so of an
    earlier look stays so; the rest is that the rows of `GreptilePolicy` find in
    these histories the request, its run and its ten minutes.

The proof of `ReadyHolds` corrected the property. As it stood, an `E4` answer in
`answers` had to cover the request; on a longer clock another session's later
answer can replace the one a verdict rested on, and with one more fault than the
run's a verdict without the journal could meet an MCP request that was not on
record and a meddled comment. Neither is a flaw of the code: the first verdict
was right when it was taken, the second is what `types.ts` 23 leaves open.
`relied` and `InSight` now say so for every clock and number of faults.

* `GreptileEvidenceProofs`:
  - `TriggersInSilence` and `ReviewedOnce`, for any observations and whatever is
    collected, lost or written between them. The invariant is short (`IInv`: what
    was observed has the form of an observation, and the verdict is the decision
    on it), because every decision starts anew; the proof is that of the function.
    It goes backwards through the rows: which can say "trigger" or "ready" at all
    (`RowsSay`, `EvaluateSays`), what they have read by then (`PathAsks`), what
    that was worked out of (`MemoIs`), and what has to be so in the raw evidence
    (`Silent...`: with no request left standing, every comment, record, answer and
    journal entry is proven unsent or behind the reservation to be used).
  - `UntrustedReceiptsRestrict`, the action property: two decisions, with the
    receipt and without. What is read of them agrees but for recorded requests
    and answers that answer nothing (`UntrustedLeaves`); where the receipt names
    nothing the rows see no difference (`SilentReceipt`), and where a request
    follows nothing it names counted (`NamingReceipt`: nothing recorded is left
    standing, or the trigger would not have come). Fewer restrictions without the
    receipt, and the same rows after them (`Alike...`), give the same decision.

That proof corrected its property too. `UntrustedOnlyRestricts` spoke of every
question as if a receipt could only take away the one about a skipped review;
that a stay-draft answer to E1 goes with its question came out of the proof, and
the observations that show it are now in the run.

* `ToolProofs`, about three tools that share no state:
  - autoplan-lean: `AutoplanHolds`, and from it `RecordsAreSafe`, `OutputsAreSafe`,
    `SealsLeavePairs` and `HandoffsAreCurrent`. `PlanInv` says that the plan is
    what its text reads as, and leaves no fence open before its record unless the
    session did once; `SealInv`
    what a seal at each step holds (which sidecar it found, which record it is to
    publish); `RecordInv` where each record that was ever named is (the sidecar,
    an archive under its own hash, a staged copy, or replaced behind an open
    fence), and that between archiving and
    publishing it is not the sidecar alone; `OutputInv` that outputs and history
    together hold the writings 1 to `written`, and a record all up to its own
    time. Beneath them lie lemmas on fences: lines two texts share are read
    alike while the same fence is open above them, so what a seal writes reads
    back as proper, record and report (`SealLeavesPair`: every line outside the
    record is as it was), and a message's last block is its last whatever stands
    around it.
  - pregate-deps: `MapHolds`. The walk that adds importers step by step ends in
    the least set closed under them (by cardinality, the repository being finite,
    a walk that still grows has found another file), and merging touches only
    entries the tool owns. `DepsInv`: a run nobody interfered with holds
    the policy it read and then the file the sources call for.
  - layout-scaffold: `MoveHolds`, `NothingIsLost` and `AppliesWhatWasConfirmed`.
    `MoveInv` says that before a source is unlinked its destination is another
    path with the same document, whole if the source is, and that a whole file at
    the destination of a look that found nothing is one that others put there
    since (so the clean-up can only take what `NothingLost` excepts); `ConfInv` that what is
    left to do is on the list whose hash was confirmed, and stays so as the
    apply itself adds directories and files, since none of them is a link.

These proofs changed what the properties say, not what the model does. The
closure is stated by closed sets (`Depends`), not by the walk that computes it;
`SealLeavesPair` by the lines outside the record (`Outside`); the parser's
result as the hunks in order, each under the name it is filed by. And the attempt on
`AuditedFrontierIsSafe` ended in a counterexample: a finished group that is edited
to wait for an unfinished one lets two colliding tracks launch while all audits
pass (tracks b, b2 | c, a; group 2 waits for 3, the finished 3 for 1).
People cannot be told from the packer there, and no check of the repository claims
to see it, so the property now asks for `NoneOvertaken`, as the fixpoint asks for
`ShippedInOrder`.

Assumptions on constants. Most say that a marker value is not one of the values
it stands beside. The others: `Calls` is finite (processes of one machine);
limits are counts or null (`cli.ts` 299); in `Diff` a path comes
once, counts are not negative, an entry without changed lines changes no API
name, the entries of a manifest are finite and classified (`deps.ts` gives each
a class); bases and heads are commits; an observation has its fields, its times and comment
ids are numbers, its journal is finite, and receipts come one by one
(`InputsAssumption`, as `types.ts` has them); migrations are named by releases
after the first; the names and documents of a project are sequences and
no walk meets an empty path (`NamesAssumption`); a repository has finitely many
files; during an apply others add no links (`root.ts`); what a session writes as
a plan's own text holds no record and no report outside of a fence.

Three hypotheses stand in theorems of `ToolProofs` instead, because they
speak of all values and TLC could not evaluate them: that a record is not `Null`
(`RecordsAreNotNull`; the untyped logic does not tell), that messages are texts
whose fences have a kind (`MessagesAreTexts`), and that a project has its parts,
its links name paths, and the user's edits leave it so (`LinksArePaths`).

Each preservation proof has a step per action. For the refinements every action
is shown to map to an abstract step or a stutter.

Only model-checked:

* all liveness (`EveryRunEnds`, `EverySessionSettles`): fairness is out of the
  prover's reach;
* `DepsNeverHidden`: six grammars of manifests, each a fold with its own state;
* `PackingIsAFixpoint` and `AuditedFrontierIsSafe`: `TrackPacking` is recursive
  over a graph (RECURSIVE), which takes the SMT backend away;
* `HalfFinishedIsBlocked`, which does not hold for every value of the constants:
  where the destination resolves into a directory that another plan walks, a
  later apply may move the document on, and the first move is then no
  longer half finished but done. The instance has no such project;
* of `GreptileEvidence`, that nothing but a naming receipt makes
  `RecordedAnswersRestrict` fail is proved; the failure itself is TLC's.

To the provers `@@`, `:>` and `SelectSeq` are names without a meaning; where a
module is proved about, records are written out and selections are operators of
its own with the property they need.


## Not modelled

* `setup`, `update-check` beyond the marker, the projects registry: planned. The
  registry's concurrent upserts are a known loss (a hazard without a property).
* The quota ledger, telemetry and workflow metrics: planned; each keeps state
  under a lock that outlives a process.
* The other audit checks, `docs-ship`, `upstream-check`, `secret-dispositions`
  and the scripts read a tree and print; no state outlives a run and text
  patterns are their substance, which a model would only copy.
* Skills are prose. `PROJECT.json` has the reason beside each component.

## Plan

1. Proofs: `DepsNeverHidden`, grammar by grammar; `TrackPacking` rewritten
   with recursive functions, and then `PackingIsAFixpoint`.
2. `Telemetry` (start, adopt, finish and its retry under the lock, the sinks
   between) and `WorkflowMetrics` (locked append, torn tail, reducer): a run
   finished once, an event counted once.
3. `Setup` (links, the install status and its lock, what a later setup finds),
   `UpdateCheck` (caches, snooze, marker) and `ProjectsRegistry`, composed with
   `Upgrade` where they meet in the state directory.
4. `QuotaStore` (key creation, locks with deadlines, samples and meters): the
   newest observation kept.
