------------------------------- MODULE PregateGraph -------------------------------
(* src/pregate-deps/graph.ts: which Python tests depend on a module, directly   *)
(* or through other modules. A file or a module is its sequence of names, "src" *)
(* "pkg" "__init__" for src/pkg/__init__.py; a source is the set of statements  *)
(* that name modules, which the regular expressions of the code find.           *)
EXTENDS Naturals, FiniteSets, Sequences, SequencesExt

CONSTANTS
    TestNames,      \* of files that PY_TEST_FILE_RE matches
    TestDirs        \* of TEST_TREE_RE, wherever in a path they are

(* The policy file: how its text parses, and the dependencies in it.             *)
Policy(deps) == [reads |-> "ok", deps |-> deps]
BadPolicy(why) == [reads |-> why, deps |-> <<>>]

IsPyTestFile(file) == Last(file) \in TestNames
ScansLiterals(file) == Range(Front(file)) \cap TestDirs # {} \/ IsPyTestFile(file) \/ Head(file) = "bin"
UnderRoot(file, roots) == \E root \in roots : IsStrictPrefix(root, file)

(* import a.b, or a quoted dotted name; from ..a import b, c                    *)
Import(mod) == [by |-> "import", mod |-> mod]
Literal(mod) == [by |-> "literal", mod |-> mod]
FromImport(dots, rest, names) == [by |-> "from", dots |-> dots, rest |-> rest, names |-> names]

(* The package a relative import counts its dots from; Len + 1 of them leave it. *)
FromBase(file, s) == IF s.dots = 0 THEN s.rest ELSE SubSeq(file, 1, Len(file) - s.dots) \o s.rest
FromModules(file, s) ==
    IF s.dots > Len(file) THEN {}
    ELSE ({FromBase(file, s)} \ {<<>>}) \cup {Append(FromBase(file, s), name) : name \in s.names}

ModuleFiles(files, base, mod) ==
    LET path == base \o mod
        found == {path, Append(path, "__init__")} \cap files
        inits == {Append(base \o SubSeq(mod, 1, i), "__init__") : i \in 1..(Len(mod) - 1)}
    IN IF found = {} THEN {} ELSE found \cup (inits \cap files)

(* A patch target ends in the longest prefix that is a module.                  *)
PatchTarget(files, base, ref) ==
    LET hits == {n \in 1..Len(ref) : ModuleFiles(files, base, SubSeq(ref, 1, n)) # {}}
    IN IF hits = {} THEN {}
       ELSE ModuleFiles(files, base, SubSeq(ref, 1, CHOOSE n \in hits : \A m \in hits : m <= n))

Targets(files, roots, file, s) ==
    LET bases == {<<>>} \cup roots IN
    CASE s.by = "import" -> UNION {ModuleFiles(files, base, s.mod) : base \in bases}
      [] s.by = "from" -> UNION {ModuleFiles(files, base, mod) : mod \in FromModules(file, s),
                                                                base \in IF s.dots > 0 THEN {<<>>} ELSE bases}
      [] s.by = "literal" -> IF ScansLiterals(file) /\ Len(s.mod) > 1
                             THEN UNION {PatchTarget(files, base, s.mod) : base \in bases} ELSE {}

Dependents(sources, roots) ==
    LET targets == [file \in DOMAIN sources |->
            UNION {Targets(DOMAIN sources, roots, file, s) : s \in sources[file]} \ {file}]
    IN [dependency \in DOMAIN sources |-> {file \in DOMAIN sources : dependency \in targets[file]}]

(* The breadth-first walk: a test is reached and not walked through.            *)
WalkThroughTests(reverse, size, file) ==
    LET seen[n \in 0..size] == IF n = 0 THEN {file} ELSE seen[n - 1] \cup UNION {reverse[node] : node \in seen[n - 1]}
    IN {node \in seen[size] : IsPyTestFile(node)}
Walk(reverse, size, file) ==
    LET seen[n \in 0..size] ==
            IF n = 0 THEN {file}
            ELSE LET before == seen[n - 1]
                 IN before \cup UNION {reverse[node] : node \in {m \in before : ~IsPyTestFile(m)}}
    IN {node \in seen[size] : IsPyTestFile(node)}

Generate(sources, roots) ==
    LET reverse == Dependents(sources, roots)
        reached == [file \in {f \in DOMAIN sources : ~IsPyTestFile(f) /\ UnderRoot(f, roots)} |->
                        Walk(reverse, Cardinality(DOMAIN sources), file)]
    IN [file \in {f \in DOMAIN reached : reached[f] # {}} |-> reached[file]]
================================================================================
