---------------------------------- MODULE Tools -----------------------------------
(* Three tools that share no state: a behaviour is one of them at work. What    *)
(* the others would keep stays Unused, and variables of one name hold what the  *)
(* tool at work keeps under it.                                                 *)
EXTENDS AutoplanPlan, LayoutPlan, PregateGraph

CONSTANTS
    Source, Allowance, Plans, Propers, Shapes, MessageFor(_, _), MaxWrites, MaxCommands,   \* of AutoplanRun
    Worlds, Edits, AfterEdit(_, _), Excludable, Dropped, MaxLayoutFaults, MaxLayoutCommands,  \* of LayoutScaffold
    Policies, Trees, PolicyEdits, SourceEdits, RootSets, MaxEntries, Globs, MaxRuns,       \* of PregateDeps
    MaxEdits, MaxFaults

VARIABLES
    tool,
    plan, sidecar, archives, kept, outputs, history, sizes, prompts, quoted, last, written, named, given, opened,
    world, shown, ended, half,
    policy, sources, scratch, runs,
    job, edits, faults, commands

autoplan == <<plan, sidecar, archives, kept, outputs, history, sizes, prompts, quoted, written, named, given, opened>>
layout == <<world, shown, ended, half>>
pregate == <<policy, sources, scratch, runs>>
vars == <<tool, autoplan, layout, pregate, last, job, edits, faults, commands>>

A == INSTANCE AutoplanRun
L == INSTANCE LayoutScaffold WITH MaxFaults <- MaxLayoutFaults, MaxCommands <- MaxLayoutCommands
P == INSTANCE PregateDeps

ASSUME InputsAssumption == A!InputsAssumption /\ L!InputsAssumption /\ P!InputsAssumption

Unused == "unused"
NoAutoplan == /\ plan = Unused /\ sidecar = Unused /\ archives = Unused /\ kept = Unused
              /\ outputs = Unused /\ history = Unused /\ sizes = Unused /\ prompts = Unused
              /\ quoted = Unused /\ written = Unused /\ named = Unused /\ given = Unused /\ opened = Unused
NoLayout == world = Unused /\ shown = Unused /\ ended = Unused /\ half = Unused
NoPregate == policy = Unused /\ sources = Unused /\ scratch = Unused /\ runs = Unused

Init ==
    \/ tool = "autoplan" /\ A!Init /\ NoLayout /\ NoPregate
    \/ tool = "layout" /\ L!Init /\ NoAutoplan /\ NoPregate /\ last = Unused
    \/ tool = "pregate" /\ P!Init /\ NoAutoplan /\ NoLayout /\ commands = Unused
Next ==
    /\ UNCHANGED tool
    /\ \/ tool = "autoplan" /\ A!Next /\ UNCHANGED <<layout, pregate>>
       \/ tool = "layout" /\ L!Next /\ UNCHANGED <<autoplan, pregate, last>>
       \/ tool = "pregate" /\ P!Next /\ UNCHANGED <<autoplan, layout, commands>>
Spec == Init /\ [][Next]_vars
--------------------------------------------------------------------------------
(* autoplan-lean. What a plan records about its reviews is not lost, except as  *)
(* AutoplanRun says of a fence left open.                                       *)
RecordsSurvive == tool = "autoplan" => A!RecordsSurvive
(* A seal leaves a plan that names the sidecar beside it, unless a fence was    *)
(* left open; a failed one leaves what was there.                               *)
SealLeavesPair == tool = "autoplan" => A!SealLeavesPair
(* No review output of a phase is lost when the phase is archived.              *)
EveryOutputIsKept == tool = "autoplan" => A!EveryOutputIsKept
(* A handoff is accepted only for the plan and commit it was written for.       *)
HandoffIsCurrent == tool = "autoplan" => A!HandoffIsCurrent
(* layout-scaffold. No step of it loses the content of a document, except for   *)
(* the clean-up LayoutScaffold names.                                           *)
NothingLost == [][tool = "layout" => L!LosesNothing]_vars
(* Apply changes only what the user was shown and confirmed.                    *)
OnlyConfirmed == [][tool = "layout" => L!ChangesWhatWasConfirmed]_vars
(* A move left half done is shown as blocked by every later plan.               *)
HalfFinishedIsBlocked == tool = "layout" => L!HalfFinishedIsBlocked
(* pregate-deps. The written dependencies are the closure of the imports.       *)
MapIsTheClosure == tool = "pregate" => P!MapIsTheClosure
================================================================================
