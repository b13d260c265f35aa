------------------------------ MODULE LayoutScaffold ------------------------------
(* layout-scaffold (src/layout-scaffold/cli.ts, apply.ts): a plan is shown, the  *)
(* user changes the project and confirms, apply recomputes the plan and carries *)
(* it out one file operation at a time, any of which may fail or be the last.   *)
(* While apply runs others only add to the project: links changing and files     *)
(* vanishing under it are outside its threat model (root.ts, first comment).    *)
EXTENDS LayoutPlan

CONSTANTS
    Worlds,                     \* [tree, index, git, lock, sparse] at first
    Edits, AfterEdit(_, _),        \* what the user may do to one
    Excludable, Dropped,        \* paths for --exclude; [path, node] others add
    MaxEdits, MaxFaults, MaxCommands

(* Nobody puts links under a running apply.                                     *)
InputsAssumption == \A made \in Dropped : made.node.type # "link"

VARIABLES world, shown, job, ended, half, edits, faults, commands
vars == <<world, shown, job, ended, half, edits, faults, commands>>

Nothing == [id |-> <<>>]
Idle == [at |-> "idle"]
Options == [scaffoldOnly : {FALSE}, excludes : SUBSET Excludable] \cup [scaffoldOnly : {TRUE}, excludes : {{}}]

Init ==
    /\ world \in Worlds /\ shown = Nothing /\ job = Idle /\ ended = "none"
    /\ half = {} /\ edits = 0 /\ faults = 0 /\ commands = 0

Fault == faults < MaxFaults /\ faults' = faults + 1
NoFault == UNCHANGED faults
Begin == job = Idle /\ commands < MaxCommands /\ commands' = commands + 1
--------------------------------------------------------------------------------
(* main: usage, stale, refused, needs-authorization, ok, in this order.         *)
Status(plan, authorize) ==
    IF plan.refused \/ (authorize /\ ~WritesOutside(plan.id)) THEN "refused"
    ELSE IF WritesOutside(plan.id) /\ ~authorize THEN "needs-authorization" ELSE "ok"

Plan(plan) == shown' = [id |-> plan.id] /\ ended' = Status(plan, FALSE) /\ UNCHANGED job

(* Directories first, then the moves.                                           *)
Operations(id) ==
    LET missing == Where(id.directories, {i \in DOMAIN id.directories : ~id.directories[i].exists})
    IN [i \in DOMAIN missing |-> [kind |-> "directory", path |-> missing[i].resolved]]
       \o [i \in DOMAIN id.moves |->
             [kind |-> IF id.moves[i].tracking = "tracked" THEN "git" ELSE "file", move |-> id.moves[i].move,
              to |-> Append(id.moves[i].resolvedParent, Last(id.moves[i].move.destination))]]

Started(plan, authorize, confirmed) ==
    job' = [at |-> "step", id |-> plan.id, todo |-> Operations(plan.id), attempted |-> FALSE, absent |-> FALSE,
            authorized |-> authorize, confirmed |-> confirmed]

Outline(id) == <<id.scaffoldOnly, [i \in DOMAIN id.directories |-> id.directories[i].requested], [i \in DOMAIN id.moves |-> id.moves[i].move]>>
RecomputedOutline(plan, authorize, confirmed) ==
    IF confirmed /\ Outline(plan.id) # Outline(shown.id) THEN ended' = "stale" /\ UNCHANGED job
    ELSE IF Status(plan, authorize) # "ok" THEN ended' = Status(plan, authorize) /\ UNCHANGED job
    ELSE Started(plan, authorize, confirmed) /\ ended' = "none"
Recomputed(plan, authorize, confirmed) ==
    IF confirmed /\ plan.id # shown.id THEN ended' = "stale" /\ UNCHANGED job
    ELSE IF Status(plan, authorize) # "ok" THEN ended' = Status(plan, authorize) /\ UNCHANGED job
    ELSE Started(plan, authorize, confirmed) /\ ended' = "none"

Apply(plan, authorize) == shown # Nothing /\ Recomputed(plan, authorize, TRUE) /\ UNCHANGED shown

(* apply --scaffold-only without --plan-id.                                     *)
OneShot(plan) == plan.id.scaffoldOnly /\ Recomputed(plan, FALSE, FALSE) /\ UNCHANGED shown

Command ==
    /\ Begin
    /\ \E o \in Options : \E plan \in {BuildPlan(world, o)} :
         Plan(plan) \/ (\E authorize \in BOOLEAN : Apply(plan, authorize)) \/ OneShot(plan)
    /\ UNCHANGED <<world, half, edits, faults>>
--------------------------------------------------------------------------------
(* One operation of apply at a time.                                            *)
tree == world.tree
Operation(kind) == job.at = "step" /\ job.todo # <<>> /\ Head(job.todo).kind = kind
Done == job' = [job EXCEPT !.at = "step", !.todo = Tail(@), !.attempted = TRUE] /\ UNCHANGED ended
Stop(status) == job' = Idle /\ ended' = status
Put(t, path, node) == [p \in DOMAIN t \cup {path} |-> IF p = path THEN node ELSE t[p]]
World(t, index) == [tree |-> t, index |-> index, git |-> world.git, lock |-> world.lock, sparse |-> world.sparse]
With(path, node) == world' = World(Put(tree, path, node), world.index)
Moved(from, to, node) == Put(Put(tree, to, node), from, Absent)
MayCreate(path) == NodeAt(tree, path).type = "none" /\ NodeAt(tree, Front(path)).type = "dir"
From(op) == Located(tree, op.move.source)
(* A move whose document is at both its paths, or the beginning of it.          *)
Halves == {op \in {Head(job.todo)} : NodeAt(tree, op.to).type = "file" /\ NodeAt(tree, op.to).doc = NodeAt(tree, From(op)).doc}
Unchanged == UNCHANGED <<shown, half, edits, commands>>

MakeDirectory ==
    /\ Operation("directory") /\ Unchanged
    /\ LET path == Head(job.todo).path IN
         \/ NoFault /\ MayCreate(path) /\ With(path, Dir) /\ Done
         \/ NoFault /\ NodeAt(tree, path).type = "dir" /\ Done /\ UNCHANGED world
         \/ NoFault /\ ~MayCreate(path) /\ NodeAt(tree, path).type # "dir" /\ Stop("partial") /\ UNCHANGED world
         \/ Fault /\ Stop("partial") /\ UNCHANGED world

(* git mv renames in the work tree, then writes the index; it may die between.  *)
GitMove ==
    /\ Operation("git") /\ Unchanged
    /\ LET op == Head(job.todo)
           to == Located(tree, op.move.destination)
           possible == NodeAt(tree, From(op)).type = "file" /\ MayCreate(to)
           renamed == Moved(From(op), to, NodeAt(tree, From(op)))
           indexed == {IF e.path = op.move.source THEN [e EXCEPT !.path = op.move.destination] ELSE e : e \in world.index}
       IN \/ NoFault /\ possible /\ world' = World(renamed, indexed) /\ Done
          \/ NoFault /\ ~possible /\ Stop("partial") /\ UNCHANGED world
          \/ /\ Fault /\ Stop("partial")
             /\ \/ UNCHANGED world
                \/ possible /\ world' = World(renamed, world.index)
                \/ possible /\ world' = World(renamed, indexed)

(* The stat of the source comes before the first attempt to change anything.    *)
SourceThere == NodeAt(tree, From(Head(job.todo))).type = "file"
StatFails ==
    /\ Operation("file") /\ Unchanged /\ UNCHANGED world
    /\ (SourceThere /\ Fault) \/ (~SourceThere /\ NoFault)
    /\ Stop(IF job.attempted THEN "partial" ELSE "refused")

LinkFile ==
    /\ Operation("file") /\ SourceThere /\ Unchanged
    /\ LET op == Head(job.todo)
           near == op.to[1] = From(op)[1]
       IN \/ NoFault /\ MayCreate(op.to) /\ near /\ With(op.to, NodeAt(tree, From(op)))
             /\ job' = [job EXCEPT !.at = "unlink", !.attempted = TRUE] /\ UNCHANGED ended
          \/ NoFault /\ MayCreate(op.to) /\ ~near
             /\ job' = [job EXCEPT !.at = "look", !.attempted = TRUE] /\ UNCHANGED <<ended, world>>
          \/ Fault /\ job' = [job EXCEPT !.at = "look", !.attempted = TRUE] /\ UNCHANGED <<ended, world>>
          \/ NoFault /\ ~MayCreate(op.to) /\ Stop("partial") /\ UNCHANGED world
          \/ Fault /\ Stop("partial") /\ UNCHANGED world

(* Without a link: a look at the destination, the exclusive copy, and after a    *)
(* failed one the clean-up, which removes what is there if nothing was at the   *)
(* look. Each is a call of its own, and others may add a file between any two.  *)
To == Head(job.todo).to
Look ==
    /\ job.at = "look" /\ Unchanged /\ UNCHANGED world
    /\ \/ NoFault /\ job' = [job EXCEPT !.at = "copy", !.absent = (NodeAt(tree, To).type = "none")] /\ UNCHANGED ended
       \/ Fault /\ Stop("partial")

Copied(node, mtime, whole) == [File(node.doc) EXCEPT !.inode = "copy", !.mtime = mtime, !.whole = whole]
Copies(mtime, whole) == With(To, Copied(NodeAt(tree, From(Head(job.todo))), mtime, whole))
CopyFails == IF job.absent THEN job' = [job EXCEPT !.at = "clean"] /\ UNCHANGED ended ELSE Stop("partial")
CopyFileOver ==             \* the slip of a copy that is not exclusive
    /\ job.at = "copy" /\ Unchanged /\ NoFault
    /\ Copies("now", FALSE) /\ job' = [job EXCEPT !.at = "copying"] /\ UNCHANGED ended
(* What is in the way is EEXIST; any other failure may come before that is seen. *)
CopyFile ==
    /\ job.at = "copy" /\ Unchanged
    /\ \/ NoFault /\ MayCreate(To) /\ Copies("now", FALSE) /\ job' = [job EXCEPT !.at = "copying"] /\ UNCHANGED ended
       \/ NoFault /\ ~MayCreate(To) /\ Stop("partial") /\ UNCHANGED world
       \/ Fault /\ CopyFails /\ UNCHANGED world
(* The last write, and the times of the source.                                 *)
FinishCopy ==
    /\ job.at = "copying" /\ Unchanged
    /\ \/ NoFault /\ Copies("then", TRUE) /\ job' = [job EXCEPT !.at = "unlink"] /\ UNCHANGED ended
       \/ Fault /\ Copies("now", TRUE) /\ job' = [job EXCEPT !.at = "unlink"] /\ UNCHANGED ended
       \/ Fault /\ CopyFails /\ UNCHANGED world
CleanUp ==
    /\ job.at = "clean" /\ UNCHANGED <<shown, edits, commands>> /\ Stop("partial")
    /\ \/ NoFault /\ NodeAt(tree, To).type = "file" /\ With(To, Absent) /\ UNCHANGED half
       \/ NoFault /\ NodeAt(tree, To).type # "file" /\ UNCHANGED <<world, half>>
       \/ Fault /\ half' = half \cup Halves /\ UNCHANGED world

UnlinkSource ==
    /\ job.at = "unlink" /\ UNCHANGED <<shown, edits, commands>>
    /\ LET op == Head(job.todo) IN
         \/ NoFault /\ With(From(op), Absent) /\ Done /\ UNCHANGED half
         \/ Fault /\ Stop("partial") /\ half' = half \cup {op} /\ UNCHANGED world

(* The post-apply check: whatever it finds must have been shown.                *)
Unexpected(id) ==
    IF id.scaffoldOnly
    THEN {d.requested : d \in {e \in Range(id.directories) : ~IsDir(tree, e.requested) \/ Real(tree, e.requested) # e.resolved}}
    ELSE LET identity(item) == <<item.check, item.source>>
             allowed == {identity(item) : item \in id.blocked \cup id.excluded}
         IN ({identity(item) : item \in Range(LayoutMoves(tree)) \cup BothExist(tree)} \ allowed)
            \cup (Unreadable(tree) \ id.unreadableDirs)
PostCheck ==
    /\ job.at = "step" /\ job.todo = <<>> /\ Unchanged /\ UNCHANGED world
    /\ \/ NoFault /\ Stop(IF Unexpected(job.id) = {} THEN "applied" ELSE "incomplete")
       \/ Fault /\ Stop("incomplete")

Kill ==
    /\ job # Idle /\ Fault /\ Stop("none") /\ UNCHANGED <<world, shown, edits, commands>>
    /\ half' = IF job.at \in {"copying", "clean", "unlink"} THEN half \cup Halves ELSE half
--------------------------------------------------------------------------------
(* The user between commands, and somebody who adds an entry during one.        *)
Edit(e) ==
    /\ job = Idle /\ shown # Nothing /\ edits < MaxEdits /\ edits' = edits + 1
    /\ world' = AfterEdit(world, e) /\ world' # world /\ half' = {}
    /\ UNCHANGED <<shown, job, ended, faults, commands>>

Drop ==
    /\ job # Idle /\ edits < MaxEdits /\ edits' = edits + 1
    /\ \E made \in Dropped : MayCreate(made.path) /\ With(made.path, made.node)
    /\ UNCHANGED <<shown, job, ended, half, faults, commands>>

Next ==
    \/ Command \/ MakeDirectory \/ GitMove \/ StatFails \/ LinkFile \/ Look \/ CopyFile \/ FinishCopy \/ CleanUp
    \/ UnlinkSource \/ PostCheck \/ Kill
    \/ (\E e \in Edits : Edit(e)) \/ Drop
Spec == Init /\ [][Next]_vars
--------------------------------------------------------------------------------
Step == job # Idle /\ edits' = edits
Documents(t) == {t[path].doc : path \in {p \in DOMAIN t : t[p].type = "file" /\ t[p].whole}}

(* No file operation of apply, and no failure or kill at one, takes the last    *)
(* whole copy of a document from the disk: the link, copy, clean-up and unlink  *)
(* of apply.ts. One exception: after a copy that failed, the clean-up removes a *)
(* file that somebody put at the destination since the look (65-69).            *)
Raced == {made.node.doc : made \in {m \in Dropped : job.at = "clean" /\ m.path = To /\ m.node = NodeAt(tree, To)}}
LosesNothing == Step => Documents(world.tree) \ Documents(world'.tree) \subseteq Raced
NothingLost == [][LosesNothing]_vars

Listed(id) ==
    {d.resolved : d \in {e \in Range(id.directories) : ~e.exists}}
    \cup {Append(m.resolvedParent, Last(m.move.destination)) : m \in Range(id.moves)}
    \cup {Project \o m.move.source : m \in Range(id.moves)}
Touched == {path \in DOMAIN world'.tree : world'.tree[path] # NodeAt(world.tree, path)}

(* What apply changes is on the list the user was shown and confirmed, where it *)
(* resolved when it was shown, and outside the project only when that was       *)
(* authorized; without a plan id it makes directories of the project only.      *)
ChangesWhatWasConfirmed ==
    Step => \A path \in Touched :
        /\ ~InProject(path) => job.authorized
        /\ IF job.confirmed THEN path \in Listed(shown.id)
           ELSE world'.tree[path] = Dir /\ path \in {Target(tree, d).resolved : d \in Range(CanonicalDirs)}
OnlyConfirmed == [][ChangesWhatWasConfirmed]_vars

(* A move that ended with the document at both its paths, or a part of it at    *)
(* the second, by a failed unlink or clean-up or a kill, is shown as blocked by *)
(* every later plan until somebody acts: the next plan never calls such a       *)
(* project canonical. For the root documents this needs the times the copy was  *)
(* to keep.                                                                     *)
HalfFinishedIsBlocked ==
    job = Idle /\ half # {} =>
        \A op \in half :
            Last(op.to) \notin Range(RootDocs) \/ SameFile(NodeAt(tree, From(op)), NodeAt(tree, op.to)) =>
                \E item \in Blocked(tree, LayoutMoves(tree)) : item.source = op.move.source
================================================================================
