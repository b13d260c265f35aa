----------------------------- MODULE MCLayoutScaffold -----------------------------
(* A project with a misplaced project document, a misplaced root document and a *)
(* design document outside docs/designs, and what may be different about it.    *)
EXTENDS LayoutPlan
MCShape(doc) == IF doc \in {"arch", "twin"} THEN "design" ELSE IF doc = "list" THEN "inbox" ELSE "text"
MCWalkOrder == << <<"arch">>, <<"docs", "designs", "arch">>, <<"notes", "arch">>, <<"notes", "list">>, <<"odd">> >>

MCProjectDocs == <<"TODOS">>
MCRootDocs == <<"README">>
MCExcludable == {<<"arch">>}

Under(path, node) == (Project \o path) :> node
Without(t, dir) == [p \in {q \in DOMAIN t : ~IsPrefix(Project \o dir, q)} |-> t[p]]
Misplaced ==
    [tree |-> (Project :> Dir) @@ (GitDir :> Dir) @@ (<<"away">> :> Dir) @@ Under(<<"manual">>, Dir) @@ Under(<<"docs">>, Dir)
              @@ Under(<<"notes">>, Dir) @@ Under(<<"TODOS">>, File("todos")) @@ Under(<<"docs", "README">>, File("readme"))
              @@ Under(<<"arch">>, File("arch")),
     index |-> {[path |-> <<"arch">>, state |-> "clean"]}, git |-> TRUE, lock |-> FALSE, sparse |-> FALSE]

Put(w, path, node) == [w EXCEPT !.tree = Under(path, node) @@ @]
Replace(w, dir, node) == [w EXCEPT !.tree = Under(dir, node) @@ Without(@, dir)]
Index(w, path, state) == [w EXCEPT !.index = {e \in @ : e.path # path} \cup {[path |-> path, state |-> state]}]
Untrack(w) == [w EXCEPT !.index = {}]

MCEdits == {"docs gone", "docs away", "docs manual", "docs git", "designs away", "designs dangling", "designs a repo", "archive a file",
            "twin", "twin in a repo", "todos twice", "readme mirror", "todos added", "lock", "sparse", "arch unmerged", "arch skipped",
            "index collision", "archive a submodule", "design in place", "notes unreadable", "inbox", "hidden", "source link", "plain",
            "untracked"}
MCEdited(w, e) ==
    CASE e = "docs gone" -> [w EXCEPT !.tree = Without(@, <<"docs">>)]
      [] e = "docs away" -> Replace(w, <<"docs">>, Link(<<"away">>))
      [] e = "docs manual" -> Replace(w, <<"docs">>, Link(<<"root", "manual">>))
      [] e = "docs git" -> Replace(w, <<"docs">>, Link(GitDir))
      [] e = "designs away" -> Replace(w, Designs, Link(<<"away">>))
      [] e = "designs dangling" -> Replace(w, Designs, Link(<<"away", "lost">>))
      [] e = "designs a repo" -> Replace(w, Designs, [Dir EXCEPT !.repo = TRUE])
      [] e = "archive a file" -> Put(w, <<"docs", "archive">>, File("note"))
      [] e = "twin" -> Put(w, <<"notes", "arch">>, File("twin"))
      [] e = "twin in a repo" -> Put(Put(w, <<"notes">>, [Dir EXCEPT !.repo = TRUE]), <<"notes", "arch">>, File("twin"))
      [] e = "todos twice" -> Put(w, <<"docs", "TODOS">>, File("todos2"))
      [] e = "readme mirror" -> Put(w, <<"README">>, [File("readme") EXCEPT !.inode = "copy"])
      [] e = "todos added" -> Index(w, <<"TODOS">>, "clean")
      [] e = "lock" -> [w EXCEPT !.lock = TRUE]
      [] e = "sparse" -> [w EXCEPT !.sparse = TRUE]
      [] e = "arch unmerged" -> Index(w, <<"arch">>, "unmerged")
      [] e = "arch skipped" -> Index(w, <<"arch">>, "skipped")
      [] e = "index collision" -> Index(w, <<"docs", "designs", "arch">>, "clean")
      [] e = "archive a submodule" -> Index(w, <<"docs", "archive">>, "gitlink")
      [] e = "design in place" -> Put(Put(w, Designs, Dir), <<"docs", "designs", "arch">>, File("arch2"))
      [] e = "notes unreadable" -> Put(w, <<"notes">>, [Dir EXCEPT !.readable = FALSE])
      [] e = "inbox" -> Put(w, <<"notes", "list">>, File("list"))
      [] e = "hidden" -> Put(w, <<"odd">>, File("twin"))
      [] e = "source link" -> Put(w, <<"arch">>, Link(<<"root", "TODOS">>))
      [] e = "plain" -> [w EXCEPT !.git = FALSE, !.index = {}]
      [] e = "untracked" -> Untrack(w)
MCWorlds == {Misplaced} \cup {MCEdited(Misplaced, e) : e \in MCEdits}
Others(path, node) == [path |-> path, node |-> node]
MCDropped == {Others(p, File("other")) : p \in {Project \o <<"docs">>, Project \o <<"docs", "TODOS">>, Project \o <<"README">>,
                                               <<"away", "TODOS">>, Project \o <<"notes", "arch">>}}
             \cup {Others(Project \o <<"docs", "archive">>, Dir)}
================================================================================
