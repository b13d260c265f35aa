------------------------------- MODULE PregateDeps --------------------------------
(* pregate-deps (src/pregate-deps/cli.ts): the policy file is read, then the     *)
(* sources; the entries the tool owns are recomputed and the file replaced by a *)
(* rename. Users edit sources and policy at any time, also during a run.        *)
EXTENDS PregateGraph

CONSTANTS
    Policies, Trees,            \* the policy file and the sources at first
    PolicyEdits, SourceEdits,   \* what users may turn them into
    RootSets, MaxEntries,       \* values for --root; MAX_DEPENDENCIES_ENTRIES
    Globs,                      \* names with * or ?
    MaxEdits, MaxRuns, MaxFaults

(* A repository holds finitely many files; a policy that does not parse says why. *)
Reads == {"ok", "missing_config", "invalid_config", "invalid_dependencies"}
InputsAssumption ==
    /\ \A tree \in Trees \cup SourceEdits : IsFiniteSet(DOMAIN tree)
    /\ \A text \in Policies \cup PolicyEdits : text.reads \in Reads

VARIABLES policy, sources, scratch, job, last, edits, runs, faults
vars == <<policy, sources, scratch, job, last, edits, runs, faults>>

NoScratch == "none"
Idle == [at |-> "idle"]
NoRun == [code |-> "none"]

Init ==
    /\ policy \in Policies /\ sources \in Trees
    /\ scratch = NoScratch /\ job = Idle /\ last = NoRun
    /\ edits = 0 /\ runs = 0 /\ faults = 0

Fault == faults < MaxFaults /\ faults' = faults + 1
NoFault == UNCHANGED faults
--------------------------------------------------------------------------------
IsOwnedKey(key, value, roots) ==
    /\ Range(key) \cap Globs = {}
    /\ UnderRoot(key, roots) /\ ~IsPyTestFile(key)
    /\ value # {}
Owned(deps, roots) == {key \in DOMAIN deps : IsOwnedKey(key, deps[key], roots)}
Kept(deps, roots) == [key \in DOMAIN deps \ Owned(deps, roots) |-> deps[key]]

(* The derived entries, but for keys a user has taken over, and what they add   *)
(* to and take from the owned ones.                                             *)
Generated(raw, kept) == [key \in DOMAIN raw \ DOMAIN kept |-> raw[key]]
Merged(kept, generated) ==
    [key \in DOMAIN kept \cup DOMAIN generated |-> IF key \in DOMAIN kept THEN kept[key] ELSE generated[key]]
Pairs(deps, keys) == UNION {{<<key, test>> : test \in deps[key]} : key \in keys}
Compared(deps, raw, roots) ==
    LET kept == Kept(deps, roots)
        generated == Generated(raw, kept)
        derived == Pairs(generated, DOMAIN generated)
        recorded == Pairs(deps, Owned(deps, roots))
    IN [merged |-> Merged(kept, generated), missing |-> derived \ recorded, stale |-> recorded \ derived]
--------------------------------------------------------------------------------
(* A run: refusals come in this order, and check and write share them.          *)
End(code) == job' = Idle /\ last' = [code |-> code] /\ UNCHANGED scratch
Ended(code) == job' = Idle /\ last' = [code |-> code, roots |-> job.roots, before |-> job.deps, mode |-> job.mode, fresh |-> job.fresh]

(* A root must be a directory; one that holds no Python file may or may not be. *)
MayBeMissing(root) == \A file \in DOMAIN sources : ~IsStrictPrefix(root, file)

Start ==
    /\ job = Idle /\ runs < MaxRuns /\ runs' = runs + 1
    /\ \E mode \in {"check", "write", "prune"}, roots \in RootSets :
         \/ (\E root \in roots : MayBeMissing(root)) /\ End("missing_root")
         \/ policy.reads # "ok" /\ End(policy.reads)
         \/ /\ policy.reads = "ok" /\ last' = NoRun /\ UNCHANGED scratch
            /\ job' = [at |-> "read", mode |-> mode, roots |-> roots, deps |-> policy.deps, fresh |-> TRUE]
    /\ UNCHANGED <<policy, sources, edits, faults>>

Decide(found) ==
    IF Cardinality(DOMAIN found.merged) > MaxEntries THEN End("limit_exceeded")
    ELSE IF job.mode = "check"
    THEN Ended(IF found.missing = {} /\ found.stale = {} THEN "current" ELSE "stale") /\ UNCHANGED scratch
    ELSE IF found.stale # {} /\ job.mode # "prune" THEN End("stale_entries")
    ELSE IF found.missing = {} /\ found.stale = {} THEN Ended("unchanged") /\ UNCHANGED scratch
    ELSE /\ job' = [at |-> "scratch", mode |-> job.mode, roots |-> job.roots, deps |-> job.deps,
                    fresh |-> job.fresh, next |-> found.merged]
         /\ UNCHANGED <<last, scratch>>

ReadSources ==
    /\ job.at = "read" /\ UNCHANGED <<policy, sources, edits, runs>>
    /\ \/ Fault /\ End("internal")
       \/ /\ NoFault
          /\ \E raw \in {Generate(sources, job.roots)} :
               IF \E key \in DOMAIN raw : Range(key) \cap Globs # {} THEN End("unsupported_path")
               ELSE \E found \in {Compared(job.deps, raw, job.roots)} : Decide(found)

(* The replacement is written beside the policy, which only the rename touches. *)
WriteScratch ==
    /\ job.at = "scratch" /\ UNCHANGED <<policy, sources, edits, runs>>
    /\ \/ NoFault /\ scratch' = job.next /\ job' = [job EXCEPT !.at = "rename"] /\ UNCHANGED last
       \/ Fault /\ End("internal")

Rename ==
    /\ job.at = "rename" /\ UNCHANGED <<sources, edits, runs>>
    /\ scratch' = NoScratch
    /\ \/ NoFault /\ policy' = Policy(scratch) /\ Ended("written")
       \/ Fault /\ UNCHANGED policy /\ job' = Idle /\ last' = [code |-> "internal"]

Kill ==
    /\ job # Idle /\ Fault /\ End("killed") /\ UNCHANGED <<policy, sources, edits, runs>>
--------------------------------------------------------------------------------
(* Users. What a run has read before the edit is not fresh any more.            *)
Edited(read) ==
    /\ edits < MaxEdits /\ edits' = edits + 1 /\ last' = NoRun
    /\ job' = (IF job # Idle /\ read THEN [job EXCEPT !.fresh = FALSE] ELSE job)
    /\ UNCHANGED <<scratch, runs, faults>>
EditPolicy == Edited(TRUE) /\ policy' \in PolicyEdits \ {policy} /\ UNCHANGED sources
EditSources == Edited(job.at # "read") /\ sources' \in SourceEdits \ {sources} /\ UNCHANGED policy

Next == Start \/ ReadSources \/ WriteScratch \/ Rename \/ Kill \/ EditPolicy \/ EditSources
Spec == Init /\ [][Next]_vars
--------------------------------------------------------------------------------
(* A test depends on a module when it is in every set of files that holds the   *)
(* module and what names any file in it that is no test.                        *)
Closed(reverse, files) == \A f \in files : ~IsPyTestFile(f) => reverse[f] \subseteq files
Depends(closed, file, test) == \A files \in closed : file \in files => test \in files

(* When a run says written, unchanged or current and nobody edited what it had  *)
(* read, the policy lists for every module under the roots that no user         *)
(* declared exactly the tests that depend on it; what users declared is as it   *)
(* was, and without --prune nothing recorded is gone. It covers the closure of  *)
(* graph.ts, ownership and merging, and the two-step replacement of the file.   *)
(* Which files a statement names is Targets in the run and in the property.      *)
MapIsTheClosure ==
    last.code \in {"written", "unchanged", "current"} /\ last.fresh =>
        LET deps == policy.deps
            declared == {key \in DOMAIN last.before : ~IsOwnedKey(key, last.before[key], last.roots)}
            modules == {f \in DOMAIN sources \ declared : UnderRoot(f, last.roots) /\ ~IsPyTestFile(f)}
            reverse == Dependents(sources, last.roots)
            closed == {files \in SUBSET DOMAIN sources : Closed(reverse, files)}
            tests == {f \in DOMAIN sources : IsPyTestFile(f)}
            recorded(key) == IF key \in DOMAIN deps THEN deps[key] ELSE {}
        IN /\ \A f \in modules : recorded(f) = {test \in tests : Depends(closed, f, test)}
           /\ \A key \in DOMAIN deps \ declared : key \in modules
           /\ \A key \in declared : recorded(key) = last.before[key] /\ key \in DOMAIN deps
           /\ last.mode # "prune" => \A key \in DOMAIN last.before : last.before[key] \subseteq recorded(key)
================================================================================
