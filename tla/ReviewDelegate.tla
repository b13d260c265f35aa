-------------------------- MODULE ReviewDelegate --------------------------
(***************************************************************************)
(* `review-delegate run` (src/review-delegate/cli.ts): one paid, read-only *)
(* provider call for each review part, kept in a call directory that later *)
(* runs of the branch share.                                               *)
(*                                                                         *)
(* All runs review the same frozen diff with the same configuration, so a  *)
(* part stands for one call id (callId hashes prompt, command and model).  *)
(* A run starts its parts one after the other without an await and handles *)
(* replies after that; several runs may be under way, each may be killed   *)
(* at any step, and providers, the host or anybody may write in the work   *)
(* tree.                                                                   *)
(***************************************************************************)
EXTENDS Naturals, FiniteSets

CONSTANTS
    Runs,       \* processes, each one `review-delegate run`
    Parts,      \* delegated parts; each is one call id
    Trees,      \* contents the work tree may have
    None,
    Torn,       \* a file that was created and does not parse
    MaxWrites,  \* bound: changes of the work tree
    MaxFaults   \* bound: kills, failed file operations, failed spawns, unreadable trees

ASSUME ConstantsAssumption ==
    /\ None \notin Runs \cup {Torn, "credited", "spent", "discarded"}
    /\ {None, Torn} \cap [outcome : {"credited", "fell-back"}, changed : BOOLEAN] = {}
    /\ None \notin [Parts -> {"credited", "discarded", "host"}]
    /\ MaxWrites \in Nat /\ MaxFaults \in Nat

VARIABLES
    saved,      \* saved[p]: <id>.json: None, Torn or a Saved record
    claimed,    \* parts whose <id>.claim exists
    tree,       \* what worktreeState hashes
    phase,      \* phase[r]: where run r is in main
    before,     \* before[r]: the tree run r found
    changed,    \* changed[r]: the shared check found another tree, or none it could read
    at,         \* at[r][p]: where part p is in runPart, and then in the save loop
    got,        \* got[r][p]: what run r knows of p's reply, or None
    report,     \* report[r]: what run r printed, or None
    exit,       \* exit[r]: its exit code, or None
    sent,       \* sent[p]: processes spawned for p (history)
    owner,      \* owner[p]: the run that created p's claim (history)
    verdict,    \* verdict[p]: how p's call came out of the shared check (history)
    earlier,    \* earlier[r]: runs that had printed when r began (history)
    writes,     \* changes of the tree so far, up to MaxWrites
    faults      \* faults so far, up to MaxFaults

disk == <<saved, claimed>>
history == <<sent, owner, verdict, earlier>>
vars == <<saved, claimed, tree, phase, before, changed, at, got, report, exit,
          sent, owner, verdict, earlier, writes, faults>>

\* What decide makes of a provider's output; the same output gives the same outcome.
Outcome == {"credited", "fell-back"}
Saved == [outcome : Outcome, changed : BOOLEAN]

Starting == {"todo", "absent", "claimed"}
\* runPart has returned.
Finished == {"returned", "replayed", "unreadable", "unresolved", "failed"}
Saving == {"keeping", "kept", "unkept"}
\* This run sent the call, or tried to.
Dispatched == {"returned"} \cup Saving

TypeOK ==
    /\ saved \in [Parts -> {None, Torn} \cup Saved]
    /\ claimed \subseteq Parts
    /\ tree \in Trees
    /\ phase \in [Runs -> {"start", "calls", "save", "printed", "refused", "dead"}]
    /\ before \in [Runs -> Trees \cup {None}]
    /\ changed \in [Runs -> BOOLEAN]
    /\ at \in [Runs -> [Parts -> Starting \cup {"running"} \cup Finished \cup Saving]]
    /\ got \in [Runs -> [Parts -> Saved \cup {None}]]
    /\ report \in [Runs -> [Parts -> {"credited", "discarded", "host"}] \cup {None}]
    /\ exit \in [Runs -> {"ok", "refused", "fell back", None}]
    /\ sent \in [Parts -> Nat]
    /\ owner \in [Parts -> Runs \cup {None}]
    /\ verdict \in [Parts -> {"credited", "spent", "discarded", None}]
    /\ earlier \in [Runs -> SUBSET Runs]
    /\ writes \in 0 .. MaxWrites
    /\ faults \in 0 .. MaxFaults

Init ==
    /\ saved = [p \in Parts |-> None]
    /\ claimed = {}
    /\ tree \in Trees
    /\ phase = [r \in Runs |-> "start"]
    /\ before = [r \in Runs |-> None]
    /\ changed = [r \in Runs |-> FALSE]
    /\ at = [r \in Runs |-> [p \in Parts |-> "todo"]]
    /\ got = [r \in Runs |-> [p \in Parts |-> None]]
    /\ report = [r \in Runs |-> None]
    /\ exit = [r \in Runs |-> None]
    /\ sent = [p \in Parts |-> 0]
    /\ owner = [p \in Parts |-> None]
    /\ verdict = [p \in Parts |-> None]
    /\ earlier = [r \in Runs |-> {}]
    /\ writes = 0
    /\ faults = 0

Move(r, p, step) == at' = [at EXCEPT ![r][p] = step]
Enter(r, step) == phase' = [phase EXCEPT ![r] = step]

Fault ==
    /\ faults < MaxFaults
    /\ faults' = faults + 1

(***************************************************************************)
(* main, up to the calls.                                                  *)
(***************************************************************************)

\* worktreeState and the frozen diff are taken before any call.
Snapshot(r) ==
    /\ phase[r] = "start"
    /\ Enter(r, "calls")
    /\ before' = [before EXCEPT ![r] = tree]
    /\ earlier' = [earlier EXCEPT ![r] = {s \in Runs : phase[s] = "printed"}]
    /\ UNCHANGED <<disk, tree, changed, at, got, report, exit, sent, owner, verdict,
                   writes, faults>>

\* prepare refuses, or the repository cannot be read: no call is made.
Refuse(r) ==
    /\ phase[r] = "start"
    /\ Enter(r, "refused")
    /\ exit' = [exit EXCEPT ![r] = "refused"]
    /\ UNCHANGED <<disk, tree, before, changed, at, got, report, history, writes, faults>>

(***************************************************************************)
(* runPart.  Promise.all starts the parts in turn: from the look at the    *)
(* saved result to the spawn no other part of the same run takes a step.   *)
(***************************************************************************)
Turn(r, p) ==
    /\ phase[r] = "calls"
    /\ \A q \in Parts \ {p} : at[r][q] \notin {"absent", "claimed"}

\* A bug: the stored worktree_changed is not carried into the replay.
ReadSavedForgetful(r, p) ==
    /\ Turn(r, p)
    /\ at[r][p] = "todo"
    /\ saved[p] # None
    /\ IF saved[p] = Torn
       THEN Move(r, p, "unreadable") /\ UNCHANGED got
       ELSE /\ Move(r, p, "replayed")
            /\ got' = [got EXCEPT ![r][p] =
                          [outcome |-> saved[p].outcome, changed |-> FALSE]]
    /\ UNCHANGED <<disk, tree, phase, before, changed, report, exit, history, writes, faults>>

\* A saved result replays with no spawn; one that does not parse is `failed`.
ReadSaved(r, p) ==
    /\ Turn(r, p)
    /\ at[r][p] = "todo"
    /\ saved[p] # None
    /\ IF saved[p] = Torn
       THEN Move(r, p, "unreadable") /\ UNCHANGED got
       ELSE Move(r, p, "replayed") /\ got' = [got EXCEPT ![r][p] = saved[p]]
    /\ UNCHANGED <<disk, tree, phase, before, changed, report, exit, history, writes, faults>>

\* The saved file is there and cannot be read this time: `failed` as well.
ReadFails(r, p) ==
    /\ Turn(r, p)
    /\ at[r][p] = "todo"
    /\ saved[p] # None
    /\ Fault
    /\ Move(r, p, "unreadable")
    /\ UNCHANGED <<disk, tree, phase, before, changed, got, report, exit, history, writes>>

FindNothing(r, p) ==
    /\ Turn(r, p)
    /\ at[r][p] = "todo"
    /\ saved[p] = None
    /\ Move(r, p, "absent")
    /\ UNCHANGED <<disk, tree, phase, before, changed, got, report, exit, history,
                   writes, faults>>

\* Exclusive create of the claim.
ClaimCall(r, p) ==
    /\ Turn(r, p)
    /\ at[r][p] = "absent"
    /\ p \notin claimed
    /\ claimed' = claimed \cup {p}
    /\ owner' = [owner EXCEPT ![p] = r]
    /\ Move(r, p, "claimed")
    /\ UNCHANGED <<saved, tree, phase, before, changed, got, report, exit, sent, verdict,
                   earlier, writes, faults>>

\* A bug: a claim without a result is taken over and sent again.
ClaimTakenOver(r, p) ==
    /\ Turn(r, p)
    /\ at[r][p] = "absent"
    /\ p \in claimed
    /\ Move(r, p, "claimed")
    /\ UNCHANGED <<disk, tree, phase, before, changed, got, report, exit, history,
                   writes, faults>>

\* A bug: a run that finds the claim waits for its result.
ClaimAwaited(r, p) ==
    /\ Turn(r, p)
    /\ at[r][p] = "absent"
    /\ p \in claimed
    /\ saved[p] # None
    /\ Move(r, p, "unresolved")
    /\ UNCHANGED <<disk, tree, phase, before, changed, got, report, exit, history,
                   writes, faults>>

\* EEXIST: somebody claimed the call before; it is never sent again.
ClaimTaken(r, p) ==
    /\ Turn(r, p)
    /\ at[r][p] = "absent"
    /\ p \in claimed
    /\ Move(r, p, "unresolved")
    /\ UNCHANGED <<disk, tree, phase, before, changed, got, report, exit, history,
                   writes, faults>>

\* Any other error; the file may have been created and stays.
ClaimFails(r, p) ==
    /\ Turn(r, p)
    /\ at[r][p] = "absent"
    /\ p \notin claimed
    /\ Fault
    /\ \/ UNCHANGED <<claimed, owner>>
       \/ claimed' = claimed \cup {p} /\ owner' = [owner EXCEPT ![p] = r]
    /\ Move(r, p, "failed")
    /\ UNCHANGED <<saved, tree, phase, before, changed, got, report, exit, sent, verdict,
                   earlier, writes>>

\* spawnProvider starts the process.
Spawn(r, p) ==
    /\ Turn(r, p)
    /\ at[r][p] = "claimed"
    /\ sent' = [sent EXCEPT ![p] = @ + 1]
    /\ Move(r, p, "running")
    /\ UNCHANGED <<disk, tree, phase, before, changed, got, report, exit, owner, verdict,
                   earlier, writes, faults>>

Reply(r, p, outcome) ==
    /\ Move(r, p, "returned")
    /\ got' = [got EXCEPT ![r][p] = [outcome |-> outcome, changed |-> FALSE]]

\* No private directory, or the command does not start: the call counts as dispatched.
SpawnFails(r, p) ==
    /\ Turn(r, p)
    /\ at[r][p] = "claimed"
    /\ Fault
    /\ Reply(r, p, "fell-back")
    /\ UNCHANGED <<disk, tree, phase, before, changed, report, exit, history, writes>>

\* The event loop is reached: every part is started.
Waiting(r) == phase[r] = "calls" /\ \A p \in Parts : at[r][p] \notin Starting

\* The process ends by itself and decide reads its output.
Return(r, p) ==
    /\ Waiting(r)
    /\ at[r][p] = "running"
    /\ \E outcome \in Outcome : Reply(r, p, outcome)
    /\ UNCHANGED <<disk, tree, phase, before, changed, report, exit, history, writes, faults>>

\* The timer kills the process group: `timeout`.
Deadline(r, p) ==
    /\ Waiting(r)
    /\ at[r][p] = "running"
    /\ Reply(r, p, "fell-back")
    /\ UNCHANGED <<disk, tree, phase, before, changed, report, exit, history, writes, faults>>

(***************************************************************************)
(* main, after the calls.                                                  *)
(***************************************************************************)
DispatchedBy(r) == {p \in Parts : at[r][p] \in Dispatched}

\* How the shared check settles a call that run r dispatched.
VerdictOf(r, p, dirty) ==
    IF dirty THEN "discarded"
    ELSE IF got[r][p].outcome = "credited" THEN "credited" ELSE "spent"

\* The second worktreeState, once every part has returned; `undefined` differs too.
Check(r) ==
    /\ phase[r] = "calls"
    /\ \A p \in Parts : at[r][p] \in Finished
    /\ \E unreadable \in BOOLEAN :
          LET dirty == unreadable \/ tree # before[r]
          IN /\ IF unreadable THEN Fault ELSE UNCHANGED faults
             /\ changed' = [changed EXCEPT ![r] = dirty]
             /\ verdict' = [p \in Parts |-> IF p \in DispatchedBy(r) THEN VerdictOf(r, p, dirty)
                                            ELSE verdict[p]]
    /\ Enter(r, "save")
    /\ UNCHANGED <<disk, tree, before, at, got, report, exit, sent, owner, earlier, writes>>

\* The loop saves one dispatched part after the other.
SaveTurn(r, p) ==
    /\ phase[r] = "save"
    /\ \A q \in Parts \ {p} : at[r][q] # "keeping"

\* A bug: only credited results are saved.
KeepCreditedOnly(r, p) ==
    /\ SaveTurn(r, p)
    /\ at[r][p] = "returned"
    /\ saved[p] = None
    /\ IF got[r][p].outcome = "credited"
       THEN saved' = [saved EXCEPT ![p] = Torn] /\ Move(r, p, "keeping")
       ELSE Move(r, p, "kept") /\ UNCHANGED saved
    /\ UNCHANGED <<claimed, tree, phase, before, changed, got, report, exit, history,
                   writes, faults>>

\* Exclusive create: from here to the write the file is there and does not parse.
Keep(r, p) ==
    /\ SaveTurn(r, p)
    /\ at[r][p] = "returned"
    /\ saved[p] = None
    /\ saved' = [saved EXCEPT ![p] = Torn]
    /\ Move(r, p, "keeping")
    /\ UNCHANGED <<claimed, tree, phase, before, changed, got, report, exit, history,
                   writes, faults>>

WriteResult(r, p) ==
    /\ SaveTurn(r, p)
    /\ at[r][p] = "keeping"
    /\ saved' = [saved EXCEPT ![p] = [outcome |-> got[r][p].outcome, changed |-> changed[r]]]
    /\ Move(r, p, "kept")
    /\ UNCHANGED <<claimed, tree, phase, before, changed, got, report, exit, history,
                   writes, faults>>

\* The create or the write throws; the catch drops the error.
KeepFails(r, p) ==
    /\ SaveTurn(r, p)
    /\ at[r][p] \in {"returned", "keeping"}
    /\ Fault
    /\ Move(r, p, "unkept")
    /\ UNCHANGED <<disk, tree, phase, before, changed, got, report, exit, history, writes>>

\* What the run prints of a part.
ReportOf(r, p) ==
    LET discard == IF at[r][p] \in Dispatched THEN changed[r] ELSE got[r][p].changed
    IN IF at[r][p] \notin Dispatched \cup {"replayed"} THEN "host"
       ELSE IF discard THEN "discarded"
       ELSE IF got[r][p].outcome = "credited" THEN "credited" ELSE "host"

ExitOf(r) ==
    IF changed[r] \/ \E p \in Parts : ReportOf(r, p) = "discarded" THEN "refused"
    ELSE IF \A p \in Parts : ReportOf(r, p) = "credited" THEN "ok" ELSE "fell back"

\* The one line on stdout, and the end.
PrintReport(r) ==
    /\ phase[r] = "save"
    /\ \A p \in Parts : at[r][p] \notin {"returned", "keeping"}
    /\ report' = [report EXCEPT ![r] = [p \in Parts |-> ReportOf(r, p)]]
    /\ exit' = [exit EXCEPT ![r] = ExitOf(r)]
    /\ Enter(r, "printed")
    /\ UNCHANGED <<disk, tree, before, changed, at, got, history, writes, faults>>

(***************************************************************************)
(* The environment.                                                        *)
(***************************************************************************)

\* The run is killed; a provider it started lives on in its own process group.
Kill(r) ==
    /\ phase[r] \in {"calls", "save"}
    /\ Fault
    /\ Enter(r, "dead")
    /\ UNCHANGED <<disk, tree, before, changed, at, got, report, exit, history, writes>>

\* A provider, the host or anybody else writes in the work tree, or restores it.
WriteTree ==
    /\ writes < MaxWrites
    /\ writes' = writes + 1
    /\ tree' \in Trees \ {tree}
    /\ UNCHANGED <<disk, phase, before, changed, at, got, report, exit, history, faults>>

PartStep(r, p) ==
    \/ ReadSaved(r, p) \/ FindNothing(r, p)
    \/ ClaimCall(r, p) \/ ClaimTaken(r, p)
    \/ Spawn(r, p) \/ Return(r, p) \/ Deadline(r, p)
    \/ Keep(r, p) \/ WriteResult(r, p)

RunStep(r) ==
    \/ Snapshot(r) \/ Refuse(r) \/ Check(r) \/ PrintReport(r)
    \/ \E p \in Parts : PartStep(r, p)

Mishap(r) ==
    \/ Kill(r)
    \/ \E p \in Parts : ReadFails(r, p) \/ ClaimFails(r, p) \/ SpawnFails(r, p) \/ KeepFails(r, p)

Next ==
    \/ \E r \in Runs : RunStep(r) \/ Mishap(r)
    \/ WriteTree

Spec == Init /\ [][Next]_vars

\* The scheduler lets a live run take its steps.  Nothing is assumed of a provider: the
\* timer of spawnProvider stands in for a reply that never comes.
FairSpec == Spec /\ \A r \in Runs : WF_vars(RunStep(r))

(***************************************************************************)
(* Properties.                                                             *)
(***************************************************************************)

\* A call is paid for at most once, whatever runs overlap, die or start again: the claim
\* is never removed and unknown completion never licenses another call.
SentAtMostOnce == \A p \in Parts : sent[p] <= 1

\* A part is credited only if the run that sent its call found the work tree unchanged,
\* also when another run replays the saved result.
CreditNeedsCleanCheck ==
    \A r \in Runs, p \in Parts :
        phase[r] = "printed" /\ report[r][p] = "credited" => verdict[p] = "credited"

\* A whole saved file carries what the shared check found, never the reply alone.
SavedAfterCheck ==
    \A p \in Parts : saved[p] \notin {None, Torn} =>
        /\ verdict[p] # None
        /\ saved[p].changed <=> verdict[p] = "discarded"

\* `unresolved-claim` has a cause: the claim's owner had not ended when this run began, or
\* it could not make the claim's body or the saved result.
UnresolvedIsExplained ==
    \A r \in Runs, p \in Parts : at[r][p] = "unresolved" =>
        /\ owner[p] \in Runs
        /\ owner[p] \in earlier[r] => at[owner[p]][p] \in {"failed", "unkept"}

\* A run that is not killed ends, whether or not its providers ever answer and whoever
\* else holds a claim.
EveryRunEnds == \A r \in Runs : <>(phase[r] \in {"printed", "refused", "dead"})

(***************************************************************************)
(* The promise the runs implement.                                         *)
(***************************************************************************)
Calls == INSTANCE PaidCalls WITH Ids <- Parts, reports <- report

ImplementsPaidCalls == Calls!Spec
=============================================================================
