---------------------------- MODULE MergeGatePatches ----------------------------
(* What src/merge-gate/diff.ts and api.ts read out of `git diff -U0`. A raw     *)
(* line is a sequence of tokens, the first its mark: a source line that begins  *)
(* with "++ b/" and is added prints as <<"+", "++ b/", name>>, the very tokens  *)
(* of a file header.                                                            *)
EXTENDS Integers, SequencesExt
CONSTANT NoPath

HeaderPath(line) == IF Len(line) = 3 THEN line[3] ELSE NoPath      \* /dev/null has no third token
IsHeader(line, mark, name) == line[1] = mark /\ Len(line) >= 2 /\ line[2] = name
(* The map of the code holds, for every file, the hunks filed under it here.    *)
Hunk(file, context) == [file |-> file, context |-> context, added |-> <<>>, removed |-> <<>>]
InsideUntilAdded(acc) == acc.hunk # "none" /\ acc.newLeft > 0
Inside(acc) == acc.hunk # "none" /\ (acc.oldLeft > 0 \/ acc.newLeft > 0)
(* Headers count only between hunks; inside one, the counts of its header say   *)
(* how many lines of each side follow. A line that fits neither ends it early.  *)
Between(acc, l) ==
    LET key == IF acc.new # NoPath THEN acc.new ELSE acc.old
        a == [acc EXCEPT !.oldLeft = 0, !.newLeft = 0] IN
    IF l[1] = "diff" THEN [a EXCEPT !.old = NoPath, !.new = NoPath, !.hunk = "none"]
    ELSE IF IsHeader(l, "-", "-- a/") THEN [a EXCEPT !.old = HeaderPath(l)]
    ELSE IF IsHeader(l, "+", "++ b/") THEN [a EXCEPT !.new = HeaderPath(l)]
    ELSE IF l[1] = "@@" /\ key # NoPath
         THEN [a EXCEPT !.hunk = "last", !.oldLeft = l[2], !.newLeft = l[3], !.hunks = Append(@, Hunk(key, l[4]))]
    ELSE a
WithAdded(h, text) == [h EXCEPT !.added = Append(@, text)]
WithRemoved(h, text) == [h EXCEPT !.removed = Append(@, text)]
PushAdded(hunks, text) == [hunks EXCEPT ![Len(hunks)] = WithAdded(@, text)]
PushRemoved(hunks, text) == [hunks EXCEPT ![Len(hunks)] = WithRemoved(@, text)]
ParseLine(acc, l) ==
    IF Inside(acc) /\ l[1] = "+" /\ acc.newLeft > 0
    THEN [acc EXCEPT !.hunks = PushAdded(@, Tail(l)), !.newLeft = @ - 1]
    ELSE IF Inside(acc) /\ l[1] = "-" /\ acc.oldLeft > 0
    THEN [acc EXCEPT !.hunks = PushRemoved(@, Tail(l)), !.oldLeft = @ - 1]
    ELSE IF Inside(acc) /\ l[1] = " " /\ acc.oldLeft > 0 /\ acc.newLeft > 0
    THEN [acc EXCEPT !.oldLeft = @ - 1, !.newLeft = @ - 1]
    ELSE IF Inside(acc) /\ l[1] = "\\" THEN acc
    ELSE Between(acc, l)
Parsed(acc, lines) ==
    LET parse[n \in 0..Len(lines)] == IF n = 0 THEN acc ELSE ParseLine(parse[n - 1], lines[n])
    IN  parse[Len(lines)]
NothingRead == [old |-> NoPath, new |-> NoPath, hunk |-> "none", oldLeft |-> 0, newLeft |-> 0, hunks |-> <<>>]
ParseUnified(lines) == Parsed(NothingRead, lines).hunks
--------------------------------------------------------------------------------
(* The public names on one side of a hunk. A line is what it is to the table of *)
(* rules: an export of its own, the opener, a member or the closer of a block   *)
(* of exports (a member may stand before the closer on its line), some other    *)
(* declaration, a statement, or blank. Git names the nearest heading above a    *)
(* hunk, whose block may have been closed since.                                *)
EndsBlock == {"close", "member_close"}
IsMember == {"member", "member_close"}
(* What cannot stand inside the block: only a keyword in Go, where the content  *)
(* of a raw string may sit at column zero; any non-member in an export list.    *)
OutsideBlockNever(lang, line) == FALSE
OutsideBlock(lang, line) ==
    IF lang = "go" THEN line.is \in {"export", "decl"} ELSE line.is \in {"export", "decl", "statement"}

Scanned(lang, acc, l) ==
    [names |-> IF l.is = "export" \/ (acc.block # "no" /\ l.is \in IsMember)
               THEN acc.names \cup {l.name} ELSE acc.names,
     block |-> IF acc.block # "no" /\ l.is \in EndsBlock THEN "no"
               ELSE IF l.is = "open" THEN "open"
               ELSE IF acc.block = "context" /\ OutsideBlock(lang, l) THEN "no"
               ELSE acc.block]
ScanHunk(lang, context, lines) ==
    LET scan[n \in 0..Len(lines)] ==
            IF n = 0 THEN [names |-> {}, block |-> IF context = "open" THEN "context" ELSE "no"]
            ELSE Scanned(lang, scan[n - 1], lines[n])
    IN  scan[Len(lines)].names
================================================================================
