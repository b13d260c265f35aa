---------------------------- MODULE MergeGateParsing ----------------------------
(* Inputs of the two parsers, grown one line at a time: a manifest and its base *)
(* version, a patch as git prints it, and a source file whose changes git shows *)
(* as hunks without the lines around them.                                      *)
EXTENDS MergeGateManifests, MergeGatePatches

CONSTANTS
    Kinds, Pool,                \* manifest kinds; [kind -> lines a manifest may have]
    Paths, Texts,               \* file names and contents of changed lines
    Langs, Shapes,              \* languages with blocks; what a source line may be
    MaxManifest, MaxFiles, MaxHunks, MaxLines, MaxSource   \* bounds

VARIABLES subject, kind, base, head, patch, lang, source
vars == <<subject, kind, base, head, patch, lang, source>>

Init ==
    /\ subject \in {"manifest", "patch", "source"}
    /\ IF subject = "manifest" THEN kind \in Kinds /\ base \in {NoBase, <<>>} ELSE kind = "other" /\ base = NoBase
    /\ IF subject = "source" THEN lang \in Langs ELSE lang = "none"
    /\ head = <<>> /\ patch = <<>> /\ source = <<>>

WriteBase ==
    /\ subject = "manifest" /\ base # NoBase /\ Len(base) < MaxManifest - 1 /\ head = <<>>
    /\ \E l \in Pool[kind] : base' = Append(base, l)
    /\ UNCHANGED <<subject, kind, head, patch, lang, source>>
WriteHead ==
    /\ subject = "manifest" /\ Len(head) + (IF base = NoBase THEN 0 ELSE Len(base)) < MaxManifest
    /\ \E l \in Pool[kind] : head' = Append(head, l)
    /\ UNCHANGED <<subject, kind, base, patch, lang, source>>

(* A patch of git: per file, the two names and the hunks. A change of type is a *)
(* deletion and an addition under one name.                                     *)
KeyOf(f) == IF f.new # NoPath THEN f.new ELSE f.old
HunkDone == IF patch = <<>> THEN TRUE ELSE Last(patch).hunks # <<>> => ~Last(Last(patch).hunks).empty
ChangeFile ==
    /\ subject = "patch" /\ Len(patch) < MaxFiles
    /\ HunkDone
    /\ \E o, n \in Paths \cup {NoPath} :
         /\ {o, n} # {NoPath}
         /\ patch' = Append(patch, [old |-> o, new |-> n, hunks |-> <<>>])
    /\ UNCHANGED <<subject, kind, base, head, lang, source>>
OpenHunk ==
    /\ subject = "patch" /\ patch # <<>> /\ Len(Last(patch).hunks) < MaxHunks
    /\ HunkDone
    /\ \A h \in ToSet(Last(patch).hunks) : ~h.bare         \* only the end of a file lacks its newline
    /\ \E bare \in BOOLEAN :
         patch' = [patch EXCEPT ![Len(patch)].hunks = Append(@, [context |-> "heading", added |-> <<>>, removed |-> <<>>,
                                                                 empty |-> TRUE, bare |-> bare])]
    /\ UNCHANGED <<subject, kind, base, head, lang, source>>
Size == LET hunks == FlattenSeq([i \in DOMAIN patch |-> patch[i].hunks])
            size(i) == Len(hunks[i].added) + Len(hunks[i].removed) IN MapThenSumSet(size, DOMAIN hunks)
ChangeLine ==
    /\ subject = "patch" /\ patch # <<>> /\ Last(patch).hunks # <<>>
    /\ \E side \in {"added", "removed"}, text \in Texts :
         LET h == Last(Last(patch).hunks) IN
         /\ Size < MaxLines
         /\ side = "removed" => Last(patch).old # NoPath
         /\ side = "added" => Last(patch).new # NoPath
         /\ patch' = [patch EXCEPT ![Len(patch)].hunks[Len(Last(patch).hunks)] =
                         [h EXCEPT ![side] = Append(@, text), !.empty = FALSE]]
    /\ UNCHANGED <<subject, kind, base, head, lang, source>>

(* A source file: blocks do not nest, and a statement that looks like a member  *)
(* stands in the body of a declaration.                                         *)
Block(n) == LET b == {i \in 1..n : source[i].is = "open"}
                e == {i \in 1..n : source[i].is \in EndsBlock} IN
            b # {} /\ (e = {} \/ Max(e) < Max(b))
WriteSource ==
    /\ subject = "source" /\ Len(source) < MaxSource
    /\ \E l \in Shapes :
         /\ LET n == Len(source)
                headings == {i \in 1..n : source[i].is \in {"open", "export", "decl"}} IN
            IF Block(n) THEN l \in IsMember \cup {"close", "blank"} \cup (IF lang = "go" THEN {"statement"} ELSE {})
            ELSE /\ l \notin EndsBlock
                 /\ l = "member" => headings # {} /\ source[Max(headings)].is \in {"export", "decl"}
         /\ source' = Append(source, [is |-> l, name |-> Len(source) + 1])
    /\ UNCHANGED <<subject, kind, base, head, patch, lang>>

Next == WriteBase \/ WriteHead \/ ChangeFile \/ OpenHunk \/ ChangeLine \/ WriteSource
Spec == Init /\ [][Next]_vars
--------------------------------------------------------------------------------
(* What a package manager reads: which names line i of a manifest requires from *)
(* elsewhere, following blocks, tables and inline tables to wherever they lead. *)
TableOf(lines, i) == LET h == {j \in 1..i : lines[j].word = "table"} IN IF h = {} THEN <<>> ELSE lines[Max(h)].path
Leaves(lines, i) ==
    IF lines[i].word = "odd" THEN {}
    ELSE IF lines[i].word = "table" THEN {[full |-> lines[i].path, value |-> lines[i].value]}
    ELSE {[full |-> TableOf(lines, i) \o lines[i].key \o x.key, value |-> x.value] : x \in Held(lines[i].value)}
Deps(lines, i) == {x \in Leaves(lines, i) : Locate(kind, x.full).kind = "dep"}
LocalName(lines, n) ==
    \E i \in DOMAIN lines : \E x \in Deps(lines, i) :
        /\ Locate(kind, x.full).name = n
        /\ \/ x.value.v = "list" /\ ClassifySpec(x.value) = "local"
           \/ Locate(kind, x.full).attrs # <<>> /\ IsLocalAttr(Locate(kind, x.full).attrs, x.value)
OpenBlock(lines, i) ==      \* blocks do not nest: the first opener since the last closer
    LET closes == {0} \cup {j \in 1..(i - 1) : lines[j].word = "close"}
        opens == {j \in (Max(closes) + 1)..(i - 1) : lines[j].word = "open"} IN
    IF opens = {} THEN "" ELSE lines[Min(opens)].directive
(* The lines a backslash or a comma joins to line i.                            *)
Starts(lines) == {i \in DOMAIN lines : i = 1 \/ ~lines[i - 1].continues}
Logical(lines, i) ==
    LET ends == {j \in i..Len(lines) : j = Len(lines) \/ ~lines[j].continues} IN SubSeq(lines, i, Min(ends))
(* With `any`, the names it mentions at all: local, indirect and pinned ones.   *)
Requires(lines, i, any) ==
    CASE kind = "package.json" ->
             IF lines[i].word = "dep" /\ (any \/ lines[i].class = "remote") THEN {<<lines[i].text>>} ELSE {}
      [] kind \in {"cargo", "pyproject"} ->
             {n \in {Locate(kind, x.full).name : x \in Deps(lines, i)} : any \/ ~LocalName(lines, n)}
             \cup UNION {{<<t.text>> : t \in {u \in ToSet(x.value.of) : u.v \in Strings /\ (any \/ u.v = "string")}} :
                         x \in {y \in Leaves(lines, i) : Locate(kind, y.full).kind = "pep508" /\ y.value.v = "list"}}
      [] kind = "gomod" ->
             IF lines[i].word = "module_version" /\ (any \/ ~lines[i].indirect)
                /\ {lines[i].directive, OpenBlock(lines, i)} \in {{GoRequire, ""}}
             THEN {<<lines[i].text>>} ELSE {}
      [] kind = "requirements" ->
             LET said == SelectSeq(Logical(lines, i), LAMBDA l : l.word \notin {"blank", "hash"}) IN
             IF i \in Starts(lines) /\ said # <<>>
                /\ \/ said[1].word = "url" \/ (any /\ said[1].word \in {"path", "editable"})
                   \/ said[1].word \in {"name"} \cup (IF any THEN {"name_at_path"} ELSE {}) /\ Len(said) = 1
             THEN {TextOf(said)} ELSE {}
      [] kind = "gemfile" ->
             IF i \in Starts(lines) /\ lines[i].word = "gem"
                /\ \A l \in ToSet(Tail(Logical(lines, i))) : any \/ l.word = "option"
             THEN {<<lines[i].text>>} ELSE {}
Mentioned(lines) == UNION {Requires(lines, i, TRUE) : i \in DOMAIN lines}

(* A dependency that a changed line brings in is counted, or the manifest is    *)
(* reported as unverifiable: no block, continuation, sub-table, dotted key or   *)
(* inline table hides it.                                                       *)
DepsNeverHidden ==
    subject = "manifest" =>
        LET result == ParseManifest(kind, base, head)
            old == IF base = NoBase THEN <<>> ELSE base IN
        ~result.unverifiable =>
            \A i \in DOMAIN head : Added(base, head, i) =>
                Requires(head, i, FALSE) \ Mentioned(old) \subseteq {e.name : e \in {a \in result.added : a.class = "remote"}}

(* What git prints for the patch: the header lines of a file that has hunks,    *)
(* then per hunk its counts, the removed lines and the added ones, each side    *)
(* followed by a note when it ends without a newline.                           *)
Side(mark, h, which) ==
    [i \in DOMAIN h[which] |-> <<mark>> \o h[which][i]]
    \o (IF h.bare /\ h[which] # <<>> THEN <<<<"\\">>>> ELSE <<>>)
Printed(h) == <<<<"@@", Len(h.removed), Len(h.added), h.context>>>> \o Side("-", h, "removed") \o Side("+", h, "added")
Name(mark, token, p) == IF p = NoPath THEN <<mark, token>> ELSE <<mark, token, p>>
Render(f) ==
    <<<<"diff">>>> \o (IF f.hunks = <<>> THEN <<>> ELSE
        <<Name("-", "-- a/", f.old), Name("+", "++ b/", f.new)>> \o FlattenSeq([i \in DOMAIN f.hunks |-> Printed(f.hunks[i])]))

(* The parser gives back exactly the hunks git printed, each under the name of  *)
(* its file, whatever the changed lines contain: text that looks like a header, *)
(* a hunk or another file's patch, missing final newlines, deletions, and two   *)
(* patches under one name.                                                      *)
Filed(f, h) == [file |-> KeyOf(f), context |-> h.context, added |-> h.added, removed |-> h.removed]
Shown(f) == [i \in DOMAIN f.hunks |-> Filed(f, f.hunks[i])]
PatchRoundTrip ==
    subject = "patch" =>
        ParseUnified(FlattenSeq([i \in DOMAIN patch |-> Render(patch[i])])) = FlattenSeq([i \in DOMAIN patch |-> Shown(patch[i])])

(* Whatever part of a file a hunk shows, the names counted in it are those the  *)
(* file really exports there, though the hunk omits the line that opened the    *)
(* block and names a heading whose block may be closed already.                 *)
ScanCountsMembers ==
    subject = "source" =>
        \A i \in DOMAIN source : \A j \in i..Len(source) :
            LET above == {k \in 1..(i - 1) : source[k].is \in {"open", "export", "decl"}}
                context == IF above = {} THEN "none" ELSE source[Max(above)].is
                exported == {k \in i..j : \/ source[k].is = "export"
                                          \/ source[k].is \in IsMember /\ Block(k - 1)} IN
            ScanHunk(lang, context, SubSeq(source, i, j)) = {source[k].name : k \in exported}
================================================================================
