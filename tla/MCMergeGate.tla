------------------------------ MODULE MCMergeGate ------------------------------
(* One commit that fits the limits, one that hides its growth in a manifest, a  *)
(* large blob and a file git renames, one with statuses and paths the gate      *)
(* cannot read, and the base itself. A pull request may move to a base that has *)
(* the first commit already.                                                    *)
EXTENDS MergeGate
CONSTANTS b0, c1, c2, c3, c4, src, lib, pkg, gem, tool, lock, p, q

MCManifestKind == [file \in {src, lib, tool} |-> "other"] @@ (pkg :> "package.json") @@ (gem :> "unsupported") @@ (lock :> "lockfile")
Plain(file) == [path |-> file, oldPath |-> Null, oldMode |-> "100644", newMode |-> "100644", status |-> "M",
             additions |-> 1, deletions |-> 0, binary |-> FALSE, utf8 |-> TRUE, blobs |-> <<1, 1>>, patched |-> TRUE,
             oldDeps |-> {}, newDeps |-> {}, unparsable |-> FALSE, apiAdded |-> {}, apiRemoved |-> {}]
Dep(n, c) == [name |-> n, class |-> c]
Decl(n, line) == [name |-> n, line |-> line]
FromB0 ==
    (b0 :> <<>>) @@
    (c1 :> <<[Plain(src) EXCEPT !.apiAdded = {Decl("f", 1)}, !.additions = 2],
             [Plain(lib) EXCEPT !.apiRemoved = {Decl("f", 1)}, !.deletions = 2],
             [Plain(pkg) EXCEPT !.oldDeps = {Dep("a", "remote")}, !.newDeps = {Dep("a", "remote"), Dep("b", "local")}],
             [Plain(lock) EXCEPT !.additions = 9]>>) @@
    (c2 :> <<[Plain(src) EXCEPT !.status = "R", !.oldPath = lib, !.apiAdded = {Decl("f", 1), Decl("f", 2), Decl("g", 3)}, !.additions = 3, !.blobs = <<1, 2>>],
             [Plain(pkg) EXCEPT !.status = "A", !.newDeps = {Dep("a", "remote")}, !.blobs = <<2>>],
             [Plain(lib) EXCEPT !.apiAdded = {Decl("h", 1)}, !.blobs = <<Null, 2>>],
             [Plain(tool) EXCEPT !.newMode = "100755"]>>) @@
    (c3 :> <<[Plain(lib) EXCEPT !.status = "X"], [Plain(src) EXCEPT !.utf8 = FALSE, !.apiAdded = {Decl("f", 1)}],
             [Plain(tool) EXCEPT !.binary = TRUE], [Plain(gem) EXCEPT !.blobs = <<3>>],
             [Plain(pkg) EXCEPT !.oldDeps = Null, !.status = "M"]>>) @@
    (c4 :> <<[Plain(lib) EXCEPT !.status = "X"], Plain(tool)>>)
FromC1 == [c \in Commits |-> IF c = c2 THEN <<Plain(src), [Plain(pkg) EXCEPT !.additions = 3]>> ELSE <<>>]
MCDiff == [from \in Commits |-> IF from = b0 THEN FromB0 ELSE FromC1]
MCMergeBaseOf == [b \in Commits |-> [h \in Commits |-> IF b = c1 /\ h \in {c1, c2} THEN c1 ELSE b0]]

Strict == [net_lines |-> 3, new_files |-> 0, new_deps |-> 0, new_public_api |-> 0, churn |-> 8, exclude |-> {}]
MCPolicies == {Strict, LoadPolicy([new_deps |-> 1], [churn |-> 9, exclude |-> {}]),
               [Strict EXCEPT !.exclude = {lib}, !.new_public_api = Null, !.churn = Null]}

RunOf(st, con) == [kind |-> "run", status |-> st, conclusion |-> con]
Ready(c) == [state |-> "OPEN", base |-> b0, head |-> c, moved |-> FALSE, draft |-> FALSE, mergeable |-> "MERGEABLE",
             review |-> "APPROVED", rollup |-> {RunOf("COMPLETED", "SUCCESS")}, full |-> FALSE]
MCPrStates ==
    {Ready(c1), Ready(c2), [Ready(c2) EXCEPT !.base = c1], [Ready(c3) EXCEPT !.rollup = {}], Ready(c4), [Ready(c1) EXCEPT !.mergeable = "UNKNOWN"],
     [Ready(c1) EXCEPT !.state = "MERGED", !.draft = TRUE],
     [Ready(c1) EXCEPT !.mergeable = "UNKNOWN", !.rollup = {RunOf("QUEUED", Null), [kind |-> "status", state |-> "ERROR"]}],
     [Ready(c2) EXCEPT !.mergeable = "UNKNOWN", !.full = TRUE],
     [Ready(c1) EXCEPT !.review = "REVIEW_REQUIRED", !.moved = TRUE]}

World0 == [mode |-> "pr", git |-> "full", partial |-> FALSE, attributes |-> "comments", remote |-> "match",
           byUrl |-> FALSE, base |-> b0, head |-> c1, local |-> {b0, c1, c2, c3, c4}, related |-> TRUE, renameSkipped |-> {}]
MCWorlds ==
    {World0, [World0 EXCEPT !.git = "old"], [World0 EXCEPT !.git = "no_lazy_fetch_switch", !.partial = TRUE],
     [World0 EXCEPT !.attributes = "effective"], [World0 EXCEPT !.remote = "other", !.byUrl = TRUE],
     [World0 EXCEPT !.local = {b0, c1}], [World0 EXCEPT !.related = FALSE, !.remote = "other"],
     [World0 EXCEPT !.mode = "git", !.renameSkipped = {"raw"}], [World0 EXCEPT !.renameSkipped = {"patch"}], [World0 EXCEPT !.mode = "git", !.remote = "unusable"],
     [World0 EXCEPT !.mode = "git", !.head = b0], [World0 EXCEPT !.mode = "git", !.head = c2, !.local = {b0}],
     [World0 EXCEPT !.mode = "git", !.base = c1, !.head = c2]}
--------------------------------------------------------------------------------
(* Manifest lines for model checking: every construct the grammars name, and    *)
(* two that leave each of them.                                                 *)
S(text) == [v |-> "string", text |-> text, of |-> <<>>]
AtPath == [v |-> "path_string", text |-> "here", of |-> <<>>]
True == [v |-> "true", text |-> "", of |-> <<>>]
List(of) == [v |-> "list", text |-> "", of |-> of]
Inline(of) == [v |-> "inline", text |-> "", of |-> of]
At(key, value) == [key |-> key, value |-> value]
Table(path) == [word |-> "table", path |-> path, array |-> FALSE, key |-> <<>>, value |-> S("")]
Key(key, value) == [word |-> "key", path |-> <<>>, array |-> FALSE, key |-> key, value |-> value]

Cargo == {Table(<<"dependencies">>), Table(<<"dependencies", "a">>), Table(<<"package">>),
          [Table(<<"dependencies", "b">>) EXCEPT !.array = TRUE],
          Key(<<"a">>, S("1")), Key(<<"a", "path">>, S("x")), Key(<<"b">>, Inline(<<At(<<"workspace">>, True)>>)),
          Key(<<"dependencies">>, Inline(<<At(<<"a">>, S("1")), At(<<"b", "version">>, S("1"))>>)),
          Key(<<"target">>, Inline(<<At(<<"unix", "dependencies">>, Inline(<<At(<<"b">>, S("1"))>>))>>)),
          [Key(<<>>, S("")) EXCEPT !.word = "odd"]}
Pyproject == {Table(<<"project">>), Table(<<"tool", "poetry", "group", "dev", "dependencies">>), Table(<<"tool">>),
              Key(<<"dependencies">>, List(<<S("a"), AtPath>>)), Key(<<"dependencies">>, List(<<S("odd")>>)),
              Key(<<"optional-dependencies">>, Inline(<<At(<<"x">>, List(<<S("b")>>))>>)),
              Key(<<"a">>, List(<<Inline(<<At(<<"path">>, S("x"))>>), Inline(<<At(<<"version">>, S("1"))>>)>>)),
              Key(<<"poetry">>, Inline(<<At(<<"dependencies">>, Inline(<<At(<<"a">>, S("1"))>>))>>)),
              Key(<<"python">>, S("1"))}
Word(word, directive, text, indirect, continues) ==
    [word |-> word, directive |-> directive, text |-> text, indirect |-> indirect, continues |-> continues]
GoMod == {Word("open", "require", "", FALSE, FALSE), Word("open", "replace", "", FALSE, FALSE),
          Word("close", "", "", FALSE, FALSE), Word("module_version", "", "a", FALSE, FALSE),
          Word("module_version", "", "b", TRUE, FALSE), Word("module_version", "require", "b", FALSE, FALSE),
          Word("blank", "", "", FALSE, FALSE), Word("other", "module", "m", FALSE, FALSE)}
Requirements == {Word("name", "", "a", FALSE, FALSE), Word("url", "", "b", FALSE, FALSE), Word("path", "", "c", FALSE, FALSE),
                 Word("include", "", "r", FALSE, FALSE), Word("editable", "", "e", FALSE, TRUE),
                 Word("name", "", "a", FALSE, TRUE), Word("hash", "", "h", FALSE, FALSE),
                 Word("ignored_option", "", "i", FALSE, FALSE), Word("blank", "", "", FALSE, TRUE),
                 Word("name_at_path", "", "d", FALSE, FALSE)}
Gemfile == {Word("gem", "", "a", FALSE, FALSE), Word("gem", "", "b", FALSE, TRUE), Word("option", "", "o", FALSE, FALSE),
            Word("path_option", "", "p", FALSE, TRUE), Word("allowed", "", "s", FALSE, FALSE), Word("gemspec", "", "g", FALSE, FALSE)}

Json(word, text, class) == [word |-> word, text |-> text, class |-> class]
PackageJson == {Json("dep", "a", "remote"), Json("dep", "a", "local"), Json("dep", "b", "remote"), Json("odd", "", "")}

MCKinds == {"package.json", "cargo", "pyproject", "gomod", "requirements", "gemfile"}
MCPool == [k \in MCKinds |-> CASE k = "cargo" -> Cargo [] k = "pyproject" -> Pyproject [] k = "gomod" -> GoMod
                               [] k = "requirements" -> Requirements [] k = "gemfile" -> Gemfile
                               [] k = "package.json" -> PackageJson]
--------------------------------------------------------------------------------
(* Names and lines of patches, the lines of a source file, and the check that   *)
(* rests while a reader is read.                                                *)
MCPaths == {p, q}
MCTexts == {<<"++ b/", q>>, <<"-- a/">>, <<"@@", 1, 1, "heading">>}
MCShapes == {"open", "member", "member_close", "close", "export", "decl", "statement", "blank"}
MCResting == <<World0, Strict, <<Ready(c1)>>>>
================================================================================
