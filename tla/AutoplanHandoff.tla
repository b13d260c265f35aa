----------------------------- MODULE AutoplanHandoff -----------------------------
(* The final message as transport.ts reads it: where its copyable /implement    *)
(* prompt is, and whether that prompt and the stage line are bound to the plan. *)
(* A "run" line carries nothing (every plan here has one path), a "branch" line *)
(* its commit; one "fields" line stands for the nine other labelled fields and  *)
(* says whether each is there once and filled in.                               *)
EXTENDS AutoplanPlan

Unstaged(message) == IF message # <<>> /\ Last(message).is = "stage" THEN Front(message) ELSE message

(* handoffBlock: the first prompt that starts outside any fence and runs to the *)
(* end, or the first fence around one that closes on the last line.             *)
Wraps(raw, i) ==
    LET n == Len(raw) IN
    /\ Opens(raw[i]) /\ ~raw[i].of.indented /\ ~Within(raw, i)
    /\ n > i + 1 /\ raw[i + 1].is = "run" /\ Closes(raw[n], raw[i].of)
    /\ ~\E k \in (i + 1)..(n - 1) : Closes(raw[k], raw[i].of)
HandoffBlock(message, fencedOnly) ==
    LET raw == Unstaged(message)
        bare == IF fencedOnly THEN {} ELSE Unfenced(raw, {"run"})
        wrapped == {i \in DOMAIN raw : Wraps(raw, i)}
        start == FirstOf(bare \cup wrapped, 0) IN
    IF start = 0 THEN <<>>
    ELSE IF start \in bare THEN SubSeq(raw, start, Len(raw)) ELSE SubSeq(raw, start + 1, Len(raw) - 1)

(* checkMessage. An indented line continues the bullet before it, also when it  *)
(* is the fence that closes the block.                                          *)
BoundTo(fields, binding) ==
    /\ fields.complete /\ fields.plan = binding.plan /\ fields.tier = binding.tier
    /\ fields.record = binding.record /\ fields.verify = binding.verify
FieldLines(block, kind) == At(SubSeq(block, 1, FirstOf(At(block, {"auto"}), 0) - 1), {kind})
CheckMessage(message, binding) ==
    LET block == HandoffBlock(message, FALSE)
        auto == FirstOf(At(block, {"auto"}), 0)
        fields == FieldLines(block, "fields") IN
    /\ auto # 0 /\ auto < Len(block)
    /\ Cardinality(fields) = 1 /\ Cardinality(FieldLines(block, "branch")) = 1
    /\ \A i \in fields : BoundTo(block[i].of, binding)
    /\ \A i \in (auto + 1)..Len(block) :
         \/ block[i].is = "bullet" \/ (block[i].is = "none" /\ Len(block) = auto + 1)
         \/ i > auto + 1 /\ (block[i].is = "continued" \/ (block[i].is = "fence" /\ block[i].of.indented))

(* checkStageLine: the legacy reader may pick raw text before the fence, so the *)
(* fenced block is checked by itself.                                           *)
StageBound(message, binding) ==
    LET block == HandoffBlock(message, TRUE)
        branch == FieldLines(block, "branch") IN
    /\ Cardinality(At(message, {"stage", "stage like"})) = 1 /\ Last(message).is = "stage"
    /\ Last(message).of.goes /\ Last(message).of.plan = binding.plan
    /\ branch # {} /\ block[Max(branch)].of = Last(message).of.head
(* The slip of checking only what the legacy reader picks.                      *)
StageBoundOnly(message, binding) == StageBound(message, binding)
CheckStageLine(message, binding) ==
    StageBound(message, binding) /\ CheckMessage(HandoffBlock(message, TRUE), binding)

CheckHandoff(text, binding, sidecar, message) ==
    /\ CheckPlan(text, sidecar)
    /\ binding # Null
    /\ CheckMessage(message, binding) /\ CheckStageLine(message, binding)
================================================================================
