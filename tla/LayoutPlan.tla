-------------------------------- MODULE LayoutPlan --------------------------------
(* What `layout-scaffold plan` reads out of a project: the audit's moves        *)
(* (src/audit/checks/doc-location.ts, doc-type.ts), the preflight of            *)
(* src/layout-scaffold/preflight.ts and the plan of plan.ts. A real path starts *)
(* with its volume, the project being <<"root">>; a requested path is relative  *)
(* to the project. The plan id is the hash of the binding: here the binding.    *)
EXTENDS Naturals, Sequences, SequencesExt

CONSTANTS
    ProjectDocs, RootDocs,      \* the names of doc-location.ts, in its order
    WalkOrder,                  \* every other .md path the walk may meet, sorted
    Shape(_),                   \* of a document: "design", "inbox" or "text"
    Hidden                      \* the names with hidden characters

NamesAssumption ==
    /\ \A seq \in {ProjectDocs, RootDocs, WalkOrder} \cup Range(WalkOrder) : seq \in Seq(Range(seq))
    /\ <<>> \notin Range(WalkOrder)
ASSUME NamesAssumption

(* The elements of s at these positions, in their order.                        *)
Where(s, places) ==
    LET f[n \in 0..Len(s)] == IF n = 0 THEN <<>> ELSE IF n \in places THEN Append(f[n - 1], s[n]) ELSE f[n - 1]
    IN f[Len(s)]

Absent == [type |-> "none"]
Dir == [type |-> "dir", repo |-> FALSE, readable |-> TRUE]
Link(to) == [type |-> "link", to |-> to]
File(doc) == [type |-> "file", doc |-> doc, inode |-> "first", mtime |-> "then", whole |-> TRUE]

Project == <<"root">>
GitDir == <<"root", ".git">>
CanonicalDirs == << <<"docs">>, <<"docs", "archive">>, <<"docs", "designs">> >>
--------------------------------------------------------------------------------
(* Lookups: a link names a path on the tree, and only a directory is looked     *)
(* through.                                                                     *)
NodeAt(t, path) == IF path \in DOMAIN t THEN t[path] ELSE Absent
Real(t, path) ==
    LET real[n \in 0..Len(path)] ==
            IF n = 0 THEN Project
            ELSE LET next == Append(real[n - 1], path[n]) IN
                 IF NodeAt(t, next).type = "link" THEN NodeAt(t, next).to ELSE next
    IN real[Len(path)]
Located(t, path) == Append(Real(t, Front(path)), Last(path))
Lstat(t, path) == NodeAt(t, Located(t, path))
Stat(t, path) == NodeAt(t, Real(t, path))
IsFile(t, path) == Stat(t, path).type = "file"
IsDir(t, path) == Stat(t, path).type = "dir"
IsRepo(t, path) == IsDir(t, path) /\ Stat(t, path).repo
Parts(path) == {SubSeq(path, 1, n) : n \in 1..Len(path)}
Beneath(path, dir) == IsPrefix(dir, path)
--------------------------------------------------------------------------------
(* The audit.                                                                   *)
Found(check, source, destination, missingParent, blocked) ==
    [check |-> check, source |-> source, destination |-> destination, missingParent |-> missingParent, blocked |-> blocked]
Known(path) == Last(path) \in Range(ProjectDocs) \cup Range(RootDocs)
InDocs(name) == <<"docs", name>>
InRoot(name) == <<name>>

DocLocationMoves(t) ==
    LET down == Where(ProjectDocs, {i \in DOMAIN ProjectDocs : IsFile(t, InRoot(ProjectDocs[i])) /\ ~IsFile(t, InDocs(ProjectDocs[i]))})
        up == Where(RootDocs, {i \in DOMAIN RootDocs : IsFile(t, InDocs(RootDocs[i])) /\ ~IsFile(t, InRoot(RootDocs[i]))})
    IN [i \in DOMAIN down |-> Found("location", InRoot(down[i]), InDocs(down[i]),
                                    IF IsDir(t, <<"docs">>) THEN <<>> ELSE <<"docs">>, "no")]
       \o [i \in DOMAIN up |-> Found("location", InDocs(up[i]), InRoot(up[i]), <<>>, "no")]

Above(path) == Parts(path) \ {path}
Walked(t, path) == IsFile(t, path) /\ \A dir \in Above(path) : IsDir(t, dir) /\ Stat(t, dir).readable
Unreadable(t) == {dir \in UNION {Above(WalkOrder[i]) : i \in DOMAIN WalkOrder} : IsDir(t, dir) /\ ~Stat(t, dir).readable}
Designs == <<"docs", "designs">>

DocTypeMoves(t) ==
    LET shape(path) == Shape(Stat(t, path).doc)
        wrong(path) == shape(path) = "inbox" \/ (shape(path) = "design" /\ ~Beneath(path, Designs))
        misplaced == Where(WalkOrder, {i \in DOMAIN WalkOrder : Walked(t, WalkOrder[i]) /\ wrong(WalkOrder[i])})
        recordFor(path, destination) ==
            Found("type", path, destination, IF Stat(t, Designs).type = "none" THEN Designs ELSE <<>>,
                  IF Stat(t, destination).type = "none" THEN "no" ELSE "collision")
    IN [i \in DOMAIN misplaced |->
          IF shape(misplaced[i]) = "inbox" THEN Found("type", misplaced[i], <<>>, <<>>, "inbox")
          ELSE recordFor(misplaced[i], Append(Designs, Last(misplaced[i])))]

IsHidden(move) == \E path \in {move.source, move.destination, move.missingParent} : Range(path) \cap Hidden # {}

(* A directory alias can show one design document under two paths.              *)
Alias(t, move) ==
    /\ move.check = "type" /\ move.blocked = "collision" /\ ~IsHidden(move)
    /\ Lstat(t, move.source).type # "link"
    /\ Real(t, move.source) = Real(t, move.destination)
LayoutMoves(t) ==
    LET moves == DocLocationMoves(t) \o DocTypeMoves(t) IN
    Where(moves, {i \in DOMAIN moves : ~Alias(t, moves[i])})

Item(check, source, destination) == [check |-> check, source |-> source, destination |-> destination]
SameFile(a, b) ==
    /\ a.type = "file" /\ b.type = "file"
    /\ a.doc = b.doc /\ (a.inode = b.inode \/ (a.mtime = b.mtime /\ a.whole = b.whole))
BothExistByInode(t) ==
    {Item("taxonomy", InRoot(n), InDocs(n)) : n \in {m \in Range(ProjectDocs) : IsFile(t, InRoot(m)) /\ IsFile(t, InDocs(m))}}
    \cup {Item("location", InDocs(n), InRoot(n)) : n \in
            {m \in Range(RootDocs) : IsFile(t, InRoot(m)) /\ Lstat(t, InRoot(m)) = Lstat(t, InDocs(m))}}
BothExist(t) ==
    {Item("taxonomy", InRoot(name), InDocs(name)) : name \in {n \in Range(ProjectDocs) : IsFile(t, InRoot(n)) /\ IsFile(t, InDocs(n))}}
    \cup {Item("location", InDocs(name), InRoot(name)) : name \in {n \in Range(RootDocs) : SameFile(Lstat(t, InRoot(n)), Lstat(t, InDocs(n)))}}
--------------------------------------------------------------------------------
(* The preflight. A refusal is a code at a path; below a path that failed       *)
(* nothing more is checked.                                                     *)
Failed(refusals, path) == \E r \in refusals : Beneath(path, r[2])
Adding(refusals, more) == refusals \cup {r \in more : ~Failed(refusals, r[2])}

TypeRefusals(t) ==
    {<<"preflight_type", path>> : path \in {d \in Range(CanonicalDirs) : Lstat(t, d).type # "none" /\ ~IsDir(t, d)}}

SourceRefusal(w, path) ==
    LET entry == Lstat(w.tree, path) IN
    CASE entry.type = "none" -> "resolve_error"
      [] entry.type = "link" -> "source_symlink"
      [] entry.type = "dir" -> "preflight_type"
      [] OTHER ->
           IF \E dir \in Above(path) : Lstat(w.tree, dir).type # "dir" \/ IsRepo(w.tree, dir) THEN "source_component"
           ELSE IF w.git /\ Beneath(Real(w.tree, path), GitDir) THEN "git_dir_target" ELSE "ok"

DestinationRefusal(t, moves, live, i) ==
    IF Lstat(t, moves[i].destination).type # "none" THEN "dest_exists"
    ELSE IF \E j \in live : j < i /\ moves[j].destination = moves[i].destination THEN "dest_duplicate" ELSE "ok"

(* Climb to the nearest entry there is; a dangling link is an entry.            *)
Target(t, path) ==
    LET there == {n \in 0..Len(path) : n = 0 \/ Lstat(t, SubSeq(path, 1, n)).type # "none"}
        n == CHOOSE k \in there : \A other \in there : other <= k
    IN [resolved |-> Real(t, SubSeq(path, 1, n)) \o SubSeq(path, n + 1, Len(path)),
        broken |-> n > 0 /\ Stat(t, SubSeq(path, 1, n)).type # "dir", volume |-> Real(t, SubSeq(path, 1, n))[1]]

InProject(real) == Beneath(real, Project)
RelativeTo(real) == Tail(real)

TargetRefusal(w, path) ==
    LET real == Target(w.tree, path).resolved IN
    IF Target(w.tree, path).broken THEN "resolve_error"
    ELSE IF w.git /\ Beneath(real, GitDir) THEN "git_dir_target"
    ELSE IF \/ \E dir \in Parts(path) : IsRepo(w.tree, dir)
            \/ InProject(real) /\ \E n \in 2..Len(real) : IsRepo(w.tree, SubSeq(real, 2, n)) THEN "nested_repo" ELSE "ok"

(* What the index says of a move. A path is named as requested and, when the    *)
(* parent resolves inside the project, as it resolves.                          *)
ParentOf(t, path) == Target(t, Front(path)).resolved
IndexNames(t, path) ==
    {path} \cup IF InProject(ParentOf(t, path)) THEN {Append(RelativeTo(ParentOf(t, path)), Last(path))} ELSE {}
Entries(w, path) == {e \in w.index : e.path = path}
Tracked(w, path) == Entries(w, path) # {}

TrackedSourceRefusal(w, path) ==
    IF \E e \in Entries(w, path) : e.state = "unmerged" THEN "unmerged_source"
    ELSE IF \E e \in Entries(w, path) : e.state = "skipped" THEN "skip_worktree" ELSE "ok"
TrackedDestinationRefusal(w, move) ==
    IF \E name \in IndexNames(w.tree, move.destination), e \in w.index : Beneath(e.path, name) \/ Beneath(name, e.path) THEN "dest_in_index"
    ELSE IF ~Tracked(w, move.source) THEN "ok"
    ELSE IF \E dir \in Above(move.destination) : Lstat(w.tree, dir).type = "link" THEN "tracked_through_link"
    ELSE IF Target(w.tree, Front(move.destination)).volume # "root" THEN "cross_device" ELSE "ok"

Gitlinked(w, name) == \E e \in w.index : e.state = "gitlink" /\ Beneath(name, e.path)
GitlinkRefusals(w, moves) ==
    {<<"gitlink", path>> : path \in
        {d \in Range(CanonicalDirs) : \/ Gitlinked(w, d)
                                      \/ LET real == Target(w.tree, d).resolved IN InProject(real) /\ Gitlinked(w, RelativeTo(real))}
        \cup {moves[i].source : i \in {j \in DOMAIN moves : Gitlinked(w, moves[j].source)}}
        \cup {moves[i].destination : i \in {j \in DOMAIN moves : \E n \in IndexNames(w.tree, moves[j].destination) : Gitlinked(w, n)}}}

Codes(indices, code(_), path(_)) == {<<code(i), path(i)>> : i \in {j \in indices : code(j) # "ok"}}
Live(moves, refusals) == {i \in DOMAIN moves : ~Failed(refusals, moves[i].source) /\ ~Failed(refusals, moves[i].destination)}

WithSources(w, moves, refusals) ==
    Adding(refusals, Codes(DOMAIN moves, LAMBDA i : SourceRefusal(w, moves[i].source), LAMBDA i : moves[i].source))
WithDestinations(w, moves, refusals) ==
    LET live == Live(moves, refusals)
    IN Adding(refusals, Codes(live, LAMBDA i : DestinationRefusal(w.tree, moves, live, i), LAMBDA i : moves[i].destination))
WithTargets(w, refusals) ==
    Adding(refusals, {r \in {<<TargetRefusal(w, d), d>> : d \in Range(CanonicalDirs)} : r[1] # "ok"})
WithIndex(w, moves, refusals) ==
    Adding(refusals, Codes(Live(moves, refusals), LAMBDA i : TrackedSourceRefusal(w, moves[i].source), LAMBDA i : moves[i].source)
                     \cup Codes(Live(moves, refusals), LAMBDA i : TrackedDestinationRefusal(w, moves[i]), LAMBDA i : moves[i].destination))
    \cup IF \E i \in DOMAIN moves : Tracked(w, moves[i].source)
         THEN {r \in {<<"index_locked", GitDir>>, <<"sparse_checkout", <<>> >>} : IF r[1] = "index_locked" THEN w.lock ELSE w.sparse}
         ELSE {}

Preflighted(w, moves) == WithTargets(w, WithDestinations(w, moves, WithSources(w, moves, TypeRefusals(w.tree))))
WithGitlinks(w, moves, refusals) == Adding(refusals, GitlinkRefusals(w, moves))
Refusals(w, moves, preflighted) ==
    IF w.git THEN WithIndex(w, moves, WithGitlinks(w, moves, preflighted)) ELSE preflighted
--------------------------------------------------------------------------------
Directories(t, refusals) ==
    LET sound == Where(CanonicalDirs, {i \in DOMAIN CanonicalDirs : ~Failed(refusals, CanonicalDirs[i])})
    IN [i \in DOMAIN sound |-> [requested |-> sound[i], resolved |-> Target(t, sound[i]).resolved,
                                exists |-> Lstat(t, sound[i]).type # "none"]]

BoundMoves(w, records, refusals) ==
    [i \in DOMAIN records |->
        [move |-> records[i],
         tracking |-> IF ~w.git THEN "plain" ELSE IF Tracked(w, records[i].source) THEN "tracked" ELSE "untracked",
         resolvedParent |-> IF Failed(refusals, records[i].destination) THEN <<>> ELSE ParentOf(w.tree, records[i].destination)]]

External(directories, moves, scaffoldOnly) ==
    {[requested |-> d.requested, resolved |-> d.resolved,
      write |-> ~d.exists \/ scaffoldOnly \/ \E m \in Range(moves) : Beneath(m.move.destination, d.requested)] :
        d \in {e \in Range(directories) : ~InProject(e.resolved)}}

(* The plan: what the caller is shown, and the binding its id is the hash of;   *)
(* what the index forbids is refused and does not change the id.                *)
Manual(move) == move.blocked # "no" \/ IsHidden(move)
Blocked(t, moves) == {Item(m.check, m.source, m.destination) : m \in {r \in Range(moves) : Manual(r)}} \cup BothExist(t)
Considered(o, found) == Where(found, {i \in DOMAIN found : found[i].source \notin o.excludes})
Movable(moves) == Where(moves, {i \in DOMAIN moves : ~Manual(moves[i])})

Binding(w, o, found, directories, moves) ==
    [git |-> w.git, scaffoldOnly |-> o.scaffoldOnly, directories |-> directories, moves |-> moves,
     external |-> External(directories, moves, o.scaffoldOnly),
     blocked |-> IF o.scaffoldOnly THEN {} ELSE Blocked(w.tree, Considered(o, found)),
     excluded |-> {m \in Range(found) : m.source \in o.excludes}, excludes |-> o.excludes,
     unreadableDirs |-> IF o.scaffoldOnly THEN {} ELSE Unreadable(w.tree)]
Checked(w, o, found, records, preflighted) ==
    [refused |-> Refusals(w, records, preflighted) # {} \/ \E path \in o.excludes : \A m \in Range(found) : m.source # path,
     id |-> Binding(w, o, found, Directories(w.tree, preflighted), BoundMoves(w, records, preflighted))]
Drafted(w, o, found, records) == Checked(w, o, found, records, Preflighted(w, records))
Listing(w, o, found) == Drafted(w, o, found, Movable(Considered(o, found)))
BuildPlan(w, o) == Listing(w, o, IF o.scaffoldOnly THEN <<>> ELSE LayoutMoves(w.tree))

WritesOutside(id) == \E pair \in id.external : pair.write
================================================================================
