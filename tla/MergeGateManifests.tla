--------------------------- MODULE MergeGateManifests ---------------------------
(* What src/merge-gate/deps.ts reads out of a manifest and its base version. A  *)
(* manifest is a sequence of lines, a line a record of the words that matter to *)
(* the grammar of its kind; a name is a sequence of words, because a URL        *)
(* requirement is named by its whole text. TOML is taken statement by           *)
(* statement: how characters make up a key or a value is left out.              *)
EXTENDS Integers, SequencesExt

NoBase == "no base"         \* the manifest is new, or was another kind of file
Entry(name, class) == [name |-> name, class |-> class]
Rank == [local |-> 1, indirect |-> 2, remote |-> 3]

(* The strongest class a name has in any section.                               *)
EntryMapWeakest(entries) ==
    {e \in entries : \A f \in entries : f.name = e.name => Rank[f.class] >= Rank[e.class]}
EntryMap(entries) ==
    {e \in entries : \A f \in entries : f.name = e.name => Rank[f.class] <= Rank[e.class]}
NamesIn(entries) == {e.name : e \in entries}
Unverifiable == [added |-> {}, removed |-> {}, unverifiable |-> TRUE]
DiffNames(old, new) ==
    [added |-> {e \in new : e.name \notin NamesIn(old)},
     removed |-> {e \in old : e.name \notin NamesIn(new)}, unverifiable |-> FALSE]

(* A statement: its lines, the entries it defines, whether it leaves the        *)
(* grammar.                                                                     *)
Stmt(lines, entries, violation) == [lines |-> lines, entries |-> entries, violation |-> violation]
Good(entries) == [entries |-> entries, violation |-> FALSE]
Bad == [entries |-> {}, violation |-> TRUE]
Entries(stmts) == UNION {s.entries : s \in ToSet(stmts)}

(* A line of the head is added when the base has fewer copies of it than the    *)
(* head has up to that line.                                                    *)
Added(base, head, i) ==
    base = NoBase \/ Cardinality({j \in 1..i : head[j] = head[i]}) >
                     Cardinality({j \in DOMAIN base : base[j] = head[i]})
--------------------------------------------------------------------------------
(* requirements*.txt and Gemfile: a statement is what a joined line says.        *)
TextOf(words) == [i \in DOMAIN words |-> words[i].text]

RequirementStmt(words) ==
    LET plain(w) == w.word # "hash"
        body == SelectSeq(words, plain)
        first == words[1].word IN
    IF words = <<>> THEN Good({})
    ELSE IF first = "editable"
         THEN Good({Entry(TextOf(words), IF Len(words) > 1 /\ words[2].word = "path" THEN "local" ELSE "remote")})
    ELSE IF first = "ignored_option" THEN Good({})
    ELSE IF first \in {"include", "option", "hash"} THEN Bad
    ELSE IF first = "path" THEN Good({Entry(TextOf(body), "local")})
    ELSE IF first = "url" THEN Good({Entry(TextOf(body), "remote")})
    ELSE IF first \in {"name", "name_at_path"} /\ Len(body) = 1
         THEN Good({Entry(TextOf(body), IF first = "name" THEN "remote" ELSE "local")})
    ELSE Bad

GemStmt(words) ==
    LET rest == {words[i].word : i \in 2..Len(words)} IN
    IF words = <<>> THEN Good({})
    ELSE IF words[1].word = "gem" /\ rest \subseteq {"option", "path_option"}
         THEN Good({Entry(<<words[1].text>>, IF "path_option" \in rest THEN "local" ELSE "remote")})
    ELSE IF words[1].word = "allowed" /\ rest = {} THEN Good({}) ELSE Bad

(* Physical lines joined into statements.                                       *)
Joined(kind, lines) ==
    LET Read(words) == IF kind = "gemfile" THEN GemStmt(words) ELSE RequirementStmt(words)
        step(acc, i) ==
            LET words == IF lines[i].word = "blank" THEN acc.words ELSE Append(acc.words, lines[i])
                at == acc.at \cup {i}
                done == Read(words) IN
            IF lines[i].continues THEN [acc EXCEPT !.words = words, !.at = at]
            ELSE [out |-> Append(acc.out, Stmt(at, done.entries, done.violation)), words |-> <<>>, at |-> {}]
        end == FoldLeft(step, [out |-> <<>>, words |-> <<>>, at |-> {}], [i \in DOMAIN lines |-> i])
        rest == Read(end.words)
    IN  IF end.at = {} THEN end.out ELSE Append(end.out, Stmt(end.at, rest.entries, rest.violation))
--------------------------------------------------------------------------------
(* go.mod: directives, and blocks opened by `directive (`.                      *)
GoRequire == "require"
GoIgnored == {"module", "go", "toolchain", "godebug", "tool"}
(* Inside a block a line is taken whole: `require x v1` has a word too many and  *)
(* `require (` is a module and a version.                                       *)
InBlock(l) ==
    IF l.directive = "" THEN l
    ELSE IF l.word = "open" THEN [l EXCEPT !.word = "module_version", !.text = l.directive]
    ELSE [l EXCEPT !.word = "odd"]
GoDirectiveBad(directive) == directive \notin {GoRequire} \cup GoIgnored
GoStmt(i, directive, l) ==
    IF directive # GoRequire THEN Stmt({i}, {}, GoDirectiveBad(directive))
    ELSE IF l.word = "module_version"
         THEN Stmt({i}, {Entry(<<l.text>>, IF l.indirect THEN "indirect" ELSE "remote")}, FALSE)
    ELSE Stmt({i}, {}, TRUE)

ReadGoMod(lines) ==
    LET step(acc, i) ==
            LET l == lines[i] IN
            IF l.word = "blank" THEN acc
            ELSE IF acc.block # "none"
                 THEN IF l.word = "close" THEN [acc EXCEPT !.block = "none"]
                      ELSE [acc EXCEPT !.out = Append(@, GoStmt(i, acc.block, InBlock(l)))]
            ELSE IF l.word = "close" \/ l.directive = "" THEN [acc EXCEPT !.out = Append(@, Stmt({i}, {}, TRUE))]
            ELSE IF l.word = "open" THEN [block |-> l.directive, out |-> Append(acc.out, Stmt({i}, {}, GoDirectiveBad(l.directive)))]
            ELSE [acc EXCEPT !.out = Append(@, GoStmt(i, l.directive, l))]
    IN  FoldLeft(step, [block |-> "none", out |-> <<>>], [i \in DOMAIN lines |-> i]).out
--------------------------------------------------------------------------------
(* TOML. A value is a string, `true`, a list of values, an inline table (a      *)
(* sequence of key and value), or something the grammar has no name for.        *)
CargoTables == {"dependencies", "dev-dependencies", "dev_dependencies", "build-dependencies", "build_dependencies"}
None == [kind |-> "none"]
HasPrefix(full, prefix) == IsPrefix(prefix, full)
DepAt(full, idx) ==
    IF Len(full) = idx THEN [kind |-> "table"]
    ELSE [kind |-> "dep", name |-> <<full[idx + 1]>>, def |-> SubSeq(full, 1, idx + 1), attrs |-> SubSeq(full, idx + 2, Len(full))]

CargoLoc(full) ==
    IF full[1] \in CargoTables THEN DepAt(full, 1)
    ELSE IF HasPrefix(full, <<"workspace", "dependencies">>) THEN DepAt(full, 2)
    ELSE IF full[1] = "target" /\ Len(full) >= 3 /\ full[3] \in CargoTables THEN DepAt(full, 3)
    ELSE None

PyprojectLoc(full) ==
    LET poetry(t) == HasPrefix(full, <<"tool", "poetry", t>>)
        idx == IF poetry("dependencies") \/ poetry("dev-dependencies") THEN 3
               ELSE IF Len(full) >= 5 /\ poetry("group") /\ full[5] = "dependencies" THEN 5 ELSE 0 IN
    IF full = <<"project", "dependencies">> THEN [kind |-> "pep508"]
    ELSE IF HasPrefix(full, <<"project", "optional-dependencies">>)
         THEN [kind |-> CASE Len(full) = 2 -> "pep508-groups" [] Len(full) = 3 -> "pep508" [] OTHER -> "unsupported"]
    ELSE IF idx = 0 \/ (Len(full) > idx /\ full[idx + 1] = "python") THEN None
    ELSE DepAt(full, idx)

Locate(kind, full) == IF kind = "cargo" THEN CargoLoc(full) ELSE PyprojectLoc(full)

Strings == {"string", "path_string"}    \* any string; one that requires a path
IsLocalAttr(attrs, value) == attrs[1] = "path" \/ (attrs[1] = "workspace" /\ value.v = "true")
LocalTable(value) == \E e \in ToSet(value.of) : IsLocalAttr(e.key, e.value)
ClassifySpec(value) ==
    CASE value.v \in Strings -> "remote"
      [] value.v = "inline" -> IF LocalTable(value) THEN "local" ELSE "remote"
      [] value.v = "list" /\ value.of # <<>> /\ (\A t \in ToSet(value.of) : t.v = "inline") ->
             IF \A t \in ToSet(value.of) : LocalTable(t) THEN "local" ELSE "remote"
      [] OTHER -> "none"

(* An array of requirement strings; "odd" is text the requirement grammar lacks. *)
Pep508(value) ==
    IF value.v # "list" \/ \E t \in ToSet(value.of) : t.v \notin Strings \/ t.text = "odd" THEN Bad
    ELSE Good({Entry(<<t.text>>, IF t.v = "path_string" THEN "local" ELSE "remote") : t \in ToSet(value.of)})

(* Everything a value holds: what inline tables nest, by its path below it.     *)
InlineDepth == 3        \* bound: how deep inline tables nest
Held(value) ==
    LET inner(x) == IF x.value.v # "inline" THEN {}
                    ELSE {[key |-> x.key \o e.key, value |-> e.value] : e \in ToSet(x.value.of)}
        grow(S, i) == S \cup UNION {inner(x) : x \in S}
    IN  FoldLeft(grow, {[key |-> <<>>, value |-> value]}, [i \in 1..InlineDepth |-> i])

(* An inline table under a key of no interest may still reach a dependency.     *)
HidesDeps(kind, path, value) ==
    \E x \in Held(value) : x.key # <<>> /\ Locate(kind, path \o x.key).kind # "none"

(* One key and value whose full path is `full`.                                 *)
TomlValue(kind, full, value) ==
    LET loc == Locate(kind, full)
        specs == ToSet(value.of)
        at(e) == Locate(kind, full \o e.key)
        class(e) == IF at(e).attrs = <<>> THEN ClassifySpec(e.value)
                    ELSE IF IsLocalAttr(at(e).attrs, e.value) THEN "local" ELSE "remote"
        known == {e \in specs : at(e).kind # "none"}
    IN  CASE loc.kind = "unsupported" -> Bad
          [] loc.kind = "pep508" -> Pep508(value)
          [] loc.kind = "pep508-groups" ->
                 IF value.v # "inline" \/ \E e \in specs : Pep508(e.value).violation THEN Bad
                 ELSE Good(UNION {Pep508(e.value).entries : e \in specs})
          [] loc.kind = "table" ->
                 IF value.v # "inline" \/ \E e \in known : at(e).kind # "dep" \/ class(e) = "none" THEN Bad
                 ELSE Good({Entry(at(e).name, class(e)) : e \in known})
          [] loc.kind = "dep" ->        \* attrs is empty: one dependency and its spec
                 IF ClassifySpec(value) = "none" THEN [entries |-> {Entry(loc.name, "remote")}, violation |-> TRUE]
                 ELSE Good({Entry(loc.name, ClassifySpec(value))})
          [] loc.kind = "none" -> IF HidesDeps(kind, full, value) THEN Bad ELSE Good({})

(* A dependency may be spread over a sub-table and dotted keys: it is local when *)
(* any of them says so.                                                         *)
ReadToml(kind, lines) ==
    LET headers(i) == {j \in 1..i : lines[j].word = "table"}
        table(i) == IF headers(i) = {} THEN [path |-> <<>>, array |-> FALSE] ELSE lines[Max(headers(i))]
        full(i) == IF lines[i].word = "table" THEN lines[i].path ELSE table(i).path \o lines[i].key
        loc(i) == Locate(kind, full(i))
        defines(i) == /\ lines[i].word # "odd" /\ loc(i).kind = "dep" /\ ~table(i).array
                      /\ lines[i].word = "table" \/ loc(i).attrs # <<>>
        read(i) ==
            IF lines[i].word = "odd" THEN Bad
            ELSE IF table(i).array /\ loc(i).kind # "none" THEN Bad
            ELSE IF lines[i].word = "table" THEN IF loc(i).kind = "unsupported" THEN Bad ELSE Good({})
            ELSE IF defines(i) THEN Good({}) ELSE TomlValue(kind, full(i), lines[i].value)
        group(def) == {i \in DOMAIN lines : defines(i) /\ loc(i).def = def}
        local(i) == lines[i].word = "key" /\ IsLocalAttr(loc(i).attrs, lines[i].value)
        defs == {loc(i).def : i \in {j \in DOMAIN lines : defines(j)}}
        defStmt(def) == Stmt(group(def), {Entry(Locate(kind, def).name, IF \E i \in group(def) : local(i) THEN "local" ELSE "remote")}, FALSE)
    IN  [i \in DOMAIN lines |-> Stmt({i}, read(i).entries, read(i).violation)] \o SetToSeq({defStmt(d) : d \in defs})
--------------------------------------------------------------------------------
ReadStmts(kind, lines) ==
    CASE kind \in {"requirements", "gemfile"} -> Joined(kind, lines)
      [] kind = "gomod"                      -> ReadGoMod(lines)
      [] kind \in {"cargo", "pyproject"}     -> ReadToml(kind, lines)

(* package.json: entries, or "odd" where it is no JSON or a spec no string.     *)
ReadPackageJson(lines) == EntryMap({Entry(<<l.text>>, l.class) : l \in ToSet(lines)})
InvalidJson(lines) == \E l \in ToSet(lines) : l.word = "odd"

ParsePackageJson(base, head) ==
    LET old == IF base = NoBase THEN <<>> ELSE base IN
    IF InvalidJson(head) \/ InvalidJson(old) THEN Unverifiable
    ELSE DiffNames(ReadPackageJson(old), ReadPackageJson(head))

ParseManifest(kind, base, head) ==
    LET new == ReadStmts(kind, head)
        old == IF base = NoBase THEN <<>> ELSE ReadStmts(kind, base) IN
    IF kind = "package.json" THEN ParsePackageJson(base, head)
    ELSE IF \E s \in ToSet(new) : s.violation /\ \E i \in s.lines : Added(base, head, i) THEN Unverifiable
    ELSE DiffNames(EntryMap(Entries(old)), EntryMap(Entries(new)))
================================================================================
