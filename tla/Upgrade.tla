------------------------------ MODULE Upgrade ------------------------------
(***************************************************************************)
(* Upgrading an installed checkout: bin/update-run and the migration       *)
(* runner it calls, bin/lib/run-migrations.sh.                             *)
(*                                                                         *)
(* One run is under way at a time.  Any step may fail, the process may be  *)
(* killed between two steps, and runs follow each other over the same      *)
(* checkout, stash and state directory; in between the user works there.   *)
(* A release is its number, and a migration v<number>.sh the number of the *)
(* release that brings it.                                                 *)
(***************************************************************************)
EXTENDS Naturals, Sequences, FiniteSetsExt

CONSTANTS
    MaxVersion,     \* bound: releases
    Migrations,     \* releases that bring a migration
    Unversioned,    \* releases whose VERSION file does not hold a version number
    Work,           \* the user's uncommitted changes, each made once
    None,
    MaxFaults       \* bound: failed steps and kills

Versions == 1 .. MaxVersion
\* "detached" stands for `git branch --show-current` printing nothing.
Branches == {"main", "feature", "detached"}

ASSUME ConstantsAssumption ==
    /\ MaxVersion \in Nat \ {0} /\ MaxFaults \in Nat
    /\ Migrations \subseteq Versions \ {1} /\ Unversioned \subseteq Versions
    /\ None \notin Versions /\ None \notin Branches

VARIABLES
    remote,     \* the release last pulled from origin/main
    ver,        \* ver[b]: the release checked out on branch b
    cur,        \* the current branch
    worktree,   \* the uncommitted changes in the work tree
    stash,      \* git's stash, newest first
    unmerged,   \* what a pop that conflicted left in the work tree, the entry still stashed
    hop,        \* migrations-hop-from
    applied,    \* migrations-applied
    failed,     \* migrations-failed
    notices,    \* which of just-upgraded-from and last-update-check exist
    pc,         \* the stage of the run: _STAGE, or how the last run ended
    old, new,   \* OLD_VERSION and NEW_VERSION
    prev,       \* _PREV_BRANCH
    stashed,    \* _STASHED
    base,       \* the release the run's entry was taken at
    emitted,    \* _RESULT_EMITTED
    script,     \* the last migration the scan has reached, 0 before the first
    home,       \* home[w]: the branch change w was made on (history)
    before,     \* the checkout the run found (history)
    hitch,      \* a best-effort restore of this run failed (history)
    results,    \* result lines of this run (history)
    landed,     \* releases a run has pulled, and the installed one (history)
    passed,     \* migrations put behind the window without a scan of it (history)
    lapses,     \* lapses[m]: successes of m whose ledger line was not written (history)
    ran,        \* ran[m]: how often m succeeded (history)
    faults

checkout == <<ver, cur, worktree, stash, unmerged>>
ledger == <<hop, applied, failed>>
versions == <<old, new>>
toRestore == <<prev, stashed, base>>
said == <<emitted, results>>
migrated == <<passed, lapses, ran>>
found == <<home, before, hitch>>
vars == <<remote, checkout, ledger, notices, pc, versions, toRestore, said, script,
          found, landed, migrated, faults>>

\* What reading a VERSION file gives; None stands for anything that is no version number.
Text(v) == IF v \in Unversioned THEN None ELSE v

Scanning == {"migrations", "record applied", "record failed"}
\* The two restores happen at the end of a run, after a failed pull and in the EXIT trap.
BranchRestores == {"checkout-restore", "pull failed: checkout", "trap: checkout"}
StashRestores == {"stash-pop", "pull failed: stash-pop", "trap: stash-pop"}
Stages == {"mkdir-state", "read-branch", "stash", "fetch", "checkout-main", "pull-ff-only", "setup",
           "read-new-version", "write-marker", "clear-cache", "on_exit"}
              \cup Scanning \cup BranchRestores \cup StashRestores
Resting == {"idle", "reported"}

Nothing == [cur |-> "main", worktree |-> {}, stash |-> <<>>, unmerged |-> {}]

Init ==
    /\ remote = 1
    /\ ver = [b \in Branches |-> 1]
    /\ cur \in Branches
    /\ worktree = {} /\ stash = <<>> /\ unmerged = {}
    /\ hop = None /\ applied = {} /\ failed = {}
    /\ notices = {}
    /\ pc = "idle"
    /\ old = None /\ new = None /\ prev = None /\ stashed = FALSE /\ base = None
    /\ emitted = FALSE /\ results = 0
    /\ script = 0
    /\ home = [w \in Work |-> None]
    /\ before = Nothing
    /\ hitch = FALSE
    /\ landed = {1} /\ passed = {}
    /\ lapses = [m \in Migrations |-> 0] /\ ran = [m \in Migrations |-> 0]
    /\ faults = 0

Fault ==
    /\ faults < MaxFaults
    /\ faults' = faults + 1

\* The run moves away from this branch; a detached HEAD has no name to return to.
MovedFrom(branch) == branch \notin {"main", "detached", None}

(***************************************************************************)
(* update-run, up to the pull.                                             *)
(***************************************************************************)

Start ==
    /\ pc \in Resting
    /\ pc' = "mkdir-state"
    /\ old' = Text(ver[cur]) /\ new' = None
    /\ prev' = None /\ stashed' = FALSE /\ base' = None
    /\ emitted' = FALSE /\ results' = 0
    /\ script' = 0
    /\ before' = [cur |-> cur, worktree |-> worktree, stash |-> stash, unmerged |-> unmerged]
    /\ hitch' = FALSE
    /\ UNCHANGED <<remote, checkout, ledger, notices, home, landed, migrated, faults>>

\* Migrations the branch's own VERSION claims to be past and no run has brought.
Claimed(v) == {m \in Migrations : m <= v /\ \A r \in landed : r < m}

PersistHopFrom ==
    /\ pc = "mkdir-state"
    /\ pc' = "read-branch"
    /\ IF hop = None /\ old # None
       THEN hop' = old /\ passed' = passed \cup Claimed(old)
       ELSE UNCHANGED <<hop, passed>>
    /\ UNCHANGED <<remote, checkout, applied, failed, notices, versions, toRestore, said, script,
                   found, landed, lapses, ran, faults>>

ReadBranch ==
    /\ pc = "read-branch"
    /\ pc' = "stash"
    /\ prev' = cur
    /\ UNCHANGED <<remote, checkout, ledger, notices, versions, stashed, base, said, script,
                   found, landed, migrated, faults>>

\* With paths unmerged `git stash` refuses, which ends the run.
Stash ==
    /\ pc = "stash"
    /\ pc' = IF unmerged = {} THEN "fetch" ELSE "on_exit"
    /\ IF worktree = {} \/ unmerged # {}
       THEN UNCHANGED <<worktree, stash, stashed, base>>
       ELSE /\ stash' = <<[by |-> "run", work |-> worktree]>> \o stash
            /\ worktree' = {}
            /\ stashed' = TRUE
            /\ base' = ver[cur]
    /\ UNCHANGED <<remote, ver, cur, unmerged, ledger, notices, versions, prev, said, script,
                   found, landed, migrated, faults>>

Fetch ==
    /\ pc = "fetch"
    /\ pc' = IF MovedFrom(prev) THEN "checkout-main" ELSE "pull-ff-only"
    /\ UNCHANGED <<remote, checkout, ledger, notices, versions, toRestore, said, script,
                   found, landed, migrated, faults>>

CheckoutMain ==
    /\ pc = "checkout-main"
    /\ pc' = "pull-ff-only"
    /\ cur' = "main"
    /\ UNCHANGED <<remote, ver, worktree, stash, unmerged, ledger, notices, versions, toRestore, said, script,
                   found, landed, migrated, faults>>

Brought(v) == {m \in Migrations : m <= v}

AfterFailedPull == IF MovedFrom(prev) THEN "pull failed: checkout" ELSE "pull failed: stash-pop"

\* `pull` fetches again, so it lands the release there is now: releases may
\* have appeared at any time since the last pull, and nothing else reads them.
Pull ==
    /\ pc = "pull-ff-only"
    /\ \/ /\ remote' \in remote .. MaxVersion
          /\ ver' = [ver EXCEPT ![cur] = remote']
          /\ landed' = landed \cup {remote'}
          /\ passed' = IF hop = None THEN passed \cup Brought(remote') ELSE passed
          /\ pc' = "setup"
          /\ UNCHANGED faults
       \/ /\ Fault
          /\ pc' = AfterFailedPull
          /\ UNCHANGED <<remote, ver, landed, passed>>
    /\ UNCHANGED <<cur, worktree, stash, unmerged, ledger, notices, versions, toRestore, said, script,
                   found, lapses, ran>>

Setup ==
    /\ pc = "setup"
    /\ pc' = "read-new-version"
    /\ UNCHANGED <<remote, checkout, ledger, notices, versions, toRestore, said, script,
                   found, landed, migrated, faults>>

ReadNewVersion ==
    /\ pc = "read-new-version"
    /\ pc' = "migrations"
    /\ new' = Text(ver[cur])
    /\ old' = IF hop # None THEN hop ELSE old
    /\ UNCHANGED <<remote, checkout, ledger, notices, toRestore, said, script,
                   found, landed, migrated, faults>>

(***************************************************************************)
(* run-migrations.sh: one pass over the scripts of the pulled tree, in     *)
(* ascending order, and the two ledgers.                                   *)
(***************************************************************************)

WindowOk == old # None /\ new # None
InWindow(m) == old < m /\ m <= new

Should(m) ==
    /\ m \notin applied
    /\ \/ WindowOk /\ InWindow(m)
       \/ m \in failed /\ (new = None \/ m <= new)

Candidates == {m \in Migrations : script < m /\ m <= ver[cur] /\ Should(m)}

NextCandidate == Min(Candidates)

ScanEnds == IF MovedFrom(prev) THEN "checkout-restore" ELSE "stash-pop"

RunScript ==
    /\ pc = "migrations" /\ Candidates # {}
    /\ script' = NextCandidate
    /\ \/ /\ ran' = [ran EXCEPT ![NextCandidate] = @ + 1]
          /\ lapses' = [lapses EXCEPT ![NextCandidate] = @ + 1]
          /\ pc' = "record applied"
          /\ UNCHANGED <<failed, faults>>
       \/ /\ Fault
          /\ failed' = failed \cup {NextCandidate}
          /\ UNCHANGED <<ran, lapses, pc>>
    /\ UNCHANGED <<remote, checkout, hop, applied, notices, versions, toRestore, said,
                   found, landed, passed>>

RecordApplied ==
    /\ pc = "record applied"
    /\ pc' = "record failed"
    /\ applied' = applied \cup {script}
    /\ lapses' = [lapses EXCEPT ![script] = @ - 1]
    /\ UNCHANGED <<remote, checkout, hop, failed, notices, versions, toRestore, said, script,
                   found, landed, passed, ran, faults>>

\* A grep that cannot read the ledger leaves it as it is, and the scan goes on.
RecordFailed ==
    /\ pc = "record failed"
    /\ pc' = "migrations"
    /\ \/ failed' = failed \ {script} /\ UNCHANGED faults
       \/ Fault /\ UNCHANGED failed
    /\ UNCHANGED <<remote, checkout, hop, applied, notices, versions, toRestore, said, script,
                   found, landed, migrated>>

FinishScan ==
    /\ pc = "migrations" /\ Candidates = {}
    /\ pc' = ScanEnds
    /\ hop' = None
    /\ passed' = IF WindowOk THEN passed
                 ELSE passed \cup Brought(ver[cur])
    /\ UNCHANGED <<remote, checkout, applied, failed, notices, versions, toRestore, said, script,
                   found, landed, lapses, ran, faults>>

\* Mutant: the helper's EXIT trap clears hop-from like a completed scan.
HelperAbortsCleanly ==
    /\ pc \in Scanning
    /\ Fault
    /\ pc' = ScanEnds
    /\ hop' = None
    /\ UNCHANGED <<remote, checkout, applied, failed, notices, versions, toRestore, said, script,
                   found, landed, migrated>>

\* The helper's EXIT trap: a warning, exit 0, and hop-from stays; update-run goes on.
HelperAborts ==
    /\ pc \in Scanning
    /\ Fault
    /\ pc' = ScanEnds
    /\ UNCHANGED <<remote, checkout, ledger, notices, versions, toRestore, said, script,
                   found, landed, migrated>>

(***************************************************************************)
(* Putting branch and changes back, and the end of the run.                *)
(***************************************************************************)

AfterCheckout ==
    [stage \in BranchRestores |->
        CASE stage = "checkout-restore" -> "stash-pop"
          [] stage = "pull failed: checkout" -> "pull failed: stash-pop"
          [] stage = "trap: checkout" -> "trap: stash-pop"]

RestoreBranch ==
    /\ pc \in BranchRestores
    /\ pc' = AfterCheckout[pc]
    /\ \/ cur' = prev /\ UNCHANGED <<hitch, faults>>
       \/ Fault /\ hitch' = TRUE /\ UNCHANGED cur
    /\ UNCHANGED <<remote, ver, worktree, stash, unmerged, ledger, notices, versions, toRestore, said, script,
                   home, before, landed, migrated>>

\* Where restore_stash returns to, and whether that is with a result line.
AfterStash ==
    [stage \in StashRestores |->
        CASE stage = "stash-pop" -> [pc |-> "write-marker", result |-> FALSE]
          [] stage = "pull failed: stash-pop" -> [pc |-> "on_exit", result |-> TRUE]
          [] stage = "trap: stash-pop" -> [pc |-> "reported", result |-> TRUE]]

\* Mutant: a result line that leaves _RESULT_EMITTED unset.
EmitUnmarked(line) ==
    /\ results' = IF line THEN results + 1 ELSE results
    /\ UNCHANGED emitted

Emit(line) ==
    IF line THEN emitted' = TRUE /\ results' = results + 1 ELSE UNCHANGED said

\* Mutant: _STASHED survives the pop.
AfterPopStill == stashed

\* Mutant: the branch is not looked at before the pop.
MayPopAnywhere == stashed

MayPop == stashed /\ cur = prev

\* _STASHED once the pop has succeeded.
AfterPop == FALSE

PopStash ==
    /\ stash # <<>> /\ unmerged = {}
    /\ worktree' = worktree \cup Head(stash).work
    /\ stash' = Tail(stash)

\* Onto another release than it was taken at, the entry may not apply cleanly: git
\* leaves the files with conflict marks in the work tree, and keeps the entry.
ConflictingPop ==
    /\ stash # <<>> /\ unmerged = {} /\ base # ver[cur]
    /\ unmerged' = Head(stash).work
    /\ UNCHANGED <<worktree, stash>>

\* What is unmerged makes a pop fail by itself.
FailingPop ==
    /\ IF unmerged = {} THEN Fault ELSE UNCHANGED faults
    /\ UNCHANGED <<worktree, stash, unmerged>>

RestoreStash ==
    /\ pc \in StashRestores
    /\ pc' = AfterStash[pc].pc
    /\ Emit(AfterStash[pc].result)
    /\ \/ /\ ~MayPop
          /\ UNCHANGED <<worktree, stash, unmerged, stashed, hitch, faults>>
       \/ /\ MayPop
          /\ PopStash
          /\ stashed' = AfterPop
          /\ UNCHANGED <<unmerged, hitch, faults>>
       \/ /\ MayPop
          /\ (ConflictingPop /\ UNCHANGED faults) \/ FailingPop
          /\ hitch' = TRUE
          /\ UNCHANGED stashed
    /\ UNCHANGED <<remote, ver, cur, ledger, notices, versions, prev, base, script, home, before,
                   landed, migrated>>

WriteMarker ==
    /\ pc = "write-marker"
    /\ pc' = "clear-cache"
    /\ notices' = notices \cup {"just-upgraded-from"}
    /\ UNCHANGED <<remote, checkout, ledger, versions, toRestore, said, script,
                   found, landed, migrated, faults>>

ClearCache ==
    /\ pc = "clear-cache"
    /\ pc' = "reported"
    /\ notices' = notices \ {"last-update-check"}
    /\ Emit(TRUE)
    /\ UNCHANGED <<remote, checkout, ledger, versions, toRestore, script,
                   found, landed, migrated, faults>>

\* Under `set -e` a command that fails ends the run at its stage.
StageFails ==
    /\ pc \in {"mkdir-state", "stash", "fetch", "checkout-main", "setup", "write-marker", "clear-cache"}
    /\ Fault
    /\ pc' = "on_exit"
    /\ UNCHANGED <<remote, checkout, ledger, notices, versions, toRestore, said, script,
                   found, landed, migrated>>

\* The EXIT trap, silent once a result line is out.
OnExit ==
    /\ pc = "on_exit"
    /\ pc' = IF emitted THEN "reported"
             ELSE IF MovedFrom(prev) THEN "trap: checkout" ELSE "trap: stash-pop"
    /\ UNCHANGED <<remote, checkout, ledger, notices, versions, toRestore, said, script,
                   found, landed, migrated, faults>>

\* The shell variables of a run that has ended are gone.
Forget ==
    /\ old' = None /\ new' = None /\ prev' = None /\ stashed' = FALSE /\ base' = None
    /\ emitted' = FALSE /\ results' = 0 /\ script' = 0
    /\ before' = Nothing /\ hitch' = FALSE

\* A kill no trap sees, or a power loss.
Kill ==
    /\ pc \in Stages
    /\ Fault
    /\ pc' = "idle"
    /\ Forget
    /\ UNCHANGED <<remote, checkout, ledger, notices, home, landed, migrated>>

Run ==
    \/ Start \/ PersistHopFrom \/ ReadBranch \/ Stash \/ Fetch \/ CheckoutMain \/ Pull \/ Setup
    \/ ReadNewVersion \/ RunScript \/ RecordApplied \/ RecordFailed \/ FinishScan \/ HelperAborts
    \/ RestoreBranch \/ RestoreStash \/ WriteMarker \/ ClearCache
    \/ StageFails \/ OnExit \/ Kill

(***************************************************************************)
(* The world between runs: the user's own git commands, and the preamble's *)
(* update-check, which consumes the marker.                                *)
(***************************************************************************)

Edit(w) ==
    /\ home[w] = None
    /\ worktree' = worktree \cup {w}
    /\ home' = [home EXCEPT ![w] = cur]
    /\ UNCHANGED <<ver, cur, stash, unmerged, notices>>

UserStash ==
    /\ worktree # {} /\ unmerged = {}
    /\ stash' = <<[by |-> "user", work |-> worktree]>> \o stash
    /\ worktree' = {}
    /\ UNCHANGED <<ver, cur, unmerged, home, notices>>

\* The user settles what a run's pop left unmerged, and drops the entry; or gives
\* it up for now, and keeps the entry.
Settle ==
    /\ unmerged # {} /\ unmerged' = {}
    /\ \/ /\ stash # <<>> /\ Head(stash).work = unmerged
          /\ worktree' = worktree \cup unmerged /\ stash' = Tail(stash)
       \/ UNCHANGED <<worktree, stash>>
    /\ UNCHANGED <<ver, cur, home, notices>>

\* The user pops an entry where it belongs, as the Note line asks, and settles
\* at once what conflicts.
UserPop ==
    /\ stash # <<>> /\ unmerged = {}
    /\ \A w \in Head(stash).work : home[w] = cur
    /\ worktree' = worktree \cup Head(stash).work
    /\ stash' = Tail(stash)
    /\ UNCHANGED <<ver, cur, unmerged, home, notices>>

\* `git checkout <branch>`; a detached HEAD is taken at main's release
\* and, once left, is nobody's.
Switch(branch) ==
    /\ worktree = {} /\ unmerged = {}
    /\ cur' = branch
    /\ ver' = [ver EXCEPT !["detached"] = IF branch = "detached" THEN ver["main"] ELSE 1]
    /\ UNCHANGED <<worktree, stash, unmerged, home, notices>>

\* Work on the feature branch: main is merged, or VERSION is bumped ahead of
\* main, to a number.
Advance ==
    /\ cur = "feature" /\ worktree = {} /\ unmerged = {}
    /\ \E v \in {ver["main"]} \cup ({ver["feature"] + 1} \cap (Versions \ Unversioned)) :
          v > ver["feature"] /\ ver' = [ver EXCEPT !["feature"] = v]
    /\ UNCHANGED <<cur, worktree, stash, unmerged, home, notices>>

\* update-check reports and removes the marker, and leaves a cache behind.
UpdateCheck ==
    /\ notices' = {"last-update-check"}
    /\ UNCHANGED <<checkout, home>>

Between ==
    /\ pc \in Resting
    /\ pc' = "idle"
    /\ \/ \E w \in Work : Edit(w)
       \/ UserStash
       \/ UserPop
       \/ Settle
       \/ \E b \in Branches \ {cur} : Switch(b)
       \/ Advance
       \/ UpdateCheck
    /\ Forget
    /\ UNCHANGED <<remote, ledger, landed, migrated, faults>>

Next == Run \/ Between

Spec == Init /\ [][Next]_vars

(***************************************************************************)
(* Properties.                                                             *)
(***************************************************************************)

\* A run that ends by itself has printed one result line, not none and not
\* two, whichever stages failed (update-run 17-23, the EXIT trap 73-84).
ResultExactlyOnce == pc = "reported" => results = 1

\* The changes the run found are the entry on top of the stash it found.
OnTop ==
    /\ stash # <<>> /\ Tail(stash) = before.stash
    /\ Head(stash).by = "run" /\ Head(stash).work = before.worktree

\* A run that ends by itself leaves the checkout as it found it; when putting it
\* back failed, the changes it found are still on top of the stash, and no more
\* of them is in the work tree than the conflict marks of one pop, on the branch
\* they were made on.  Entries the user or a killed run left there are never
\* touched (restore_stash, 52-71).
RunPutsItBack ==
    pc = "reported" =>
        \/ before = [cur |-> cur, worktree |-> worktree, stash |-> stash, unmerged |-> unmerged]
        \/ /\ hitch
           /\ IF stash = before.stash THEN worktree = before.worktree /\ unmerged = before.unmerged
              ELSE OnTop /\ worktree = {} /\ unmerged \in {{}, before.worktree}
           /\ unmerged # {} => cur = before.cur

\* Changes are only ever in the work tree of the branch they were made on, with
\* or without conflict marks (restore_stash's branch check, 61-65).
WorkStaysHome == \A w \in worktree \cup unmerged : home[w] = cur

\* Once hop-from is cleared, every migration of a release a run has landed is
\* in a ledger, whatever runs were killed or failed in between; the exceptions
\* are those behind a branch whose own VERSION claims to be past them, and
\* those a VERSION that is no number left without a window
\* (run-migrations.sh 12-17).
NoMigrationForgotten ==
    hop = None =>
        \A m \in Migrations, r \in landed :
            m <= r => m \in applied \cup failed \cup passed

\* Migrations are applied in version order: one is applied only when every
\* earlier one is applied, or is listed as failed, or is passed as above
\* (the version-ascending sort, 141-165).
AppliedInOrder ==
    \A n \in applied, m \in Migrations :
        m < n => m \in applied \cup failed \cup passed

\* A migration succeeds once; it runs again only when the success before had
\* not reached the ledger (run-migrations.sh 12-16, 178-180, 198-200).
AppliedOnce == \A m \in Migrations : ran[m] <= 1 + lapses[m]

\* What the migration ledgers promise: complete, in order, each once.
MigrationsAccounted == NoMigrationForgotten /\ AppliedInOrder /\ AppliedOnce

\* run-migrations.sh 41-43: "Contract failures must leave hop-from so a later
\* hop still has the pre-pull window" -- so no migration a run has landed is
\* behind the window of later runs without having been tried.
WindowSurvivesMiss ==
    hop = None => \A m \in Migrations, r \in landed : m <= r => m \in applied \cup failed
=============================================================================
