------------------------------ MODULE AutoplanPlan ------------------------------
(* The plan file as src/autoplan-lean reads it: plan.ts, and the shape checks   *)
(* of transport.ts. A plan is a sequence of lines; `is` says which of the       *)
(* patterns a line matches, `of` what it carries (an ID, a fence, a seal).      *)
EXTENDS Integers, SequencesExt, FiniteSetsExt

CONSTANTS
    Null,
    Phases, Voices, Kinds   \* of PHASES, of VOICES, of the output files of a phase
ConstantsAssumption ==
    /\ Voices \subseteq {"native", "outside"} /\ Kinds \subseteq {"review", "native", "outside"}
    /\ "native" \in Voices \cap Kinds
    /\ Null \notin Nat \cup Kinds
ASSUME ConstantsAssumption

Foreign == [bytes |-> "other"]   \* a sidecar this plan never sealed

Line(is, of) == [is |-> is, of |-> of]
Heading(is) == Line(is, Null)
H2 == {"record", "report", "decisions", "tasks", "variant", "h2"}  \* a variant names a section its own way

(* scanLines: a fence is closed by a bare one of its character that is at least *)
(* as long. Fences[i] is the fence open after line i.                           *)
Closes(l, open) == l.is = "fence" /\ l.of.char = open.char /\ l.of.len >= open.len
Opens(l) == l.is \in {"fence", "info"}
NextFence(l, open) ==
    IF open = Null THEN IF Opens(l) THEN l.of ELSE Null
    ELSE IF Closes(l, open) THEN Null ELSE open
Fences(text) ==
    LET f[i \in 0..Len(text)] == IF i = 0 THEN Null ELSE NextFence(text[i], f[i - 1]) IN f
Within(text, i) == Fences(text)[i - 1] # Null
Fenced(text, i) == Opens(text[i]) \/ Within(text, i)
Unfenced(text, kinds) == {i \in DOMAIN text : text[i].is \in kinds /\ ~Fenced(text, i)}
Plain(text) ==
    LET shown == SelectSeq([i \in DOMAIN text |-> i], LAMBDA i : ~Fenced(text, i)) IN
    [n \in DOMAIN shown |-> text[shown[n]]]
NoFenceOpen(text) == Fences(text)[Len(text)] = Null   \* at its end
FirstOf(S, otherwise) == IF S = {} THEN otherwise ELSE Min(S)

(* A section runs from its heading to the next one of its rank.                 *)
SectionEnd(text, start) == FirstOf({i \in Unfenced(text, H2) : i > start}, Len(text) + 1)
Section(text, heading) ==
    LET start == FirstOf(Unfenced(text, {heading}), 0) IN
    IF start = 0 THEN {} ELSE (start + 1)..(SectionEnd(text, start) - 1)

(* splitPlan: the plan proper ends at the record, or at a report before it.     *)
Proper(text) == SubSeq(text, 1, FirstOf(Unfenced(text, {"record", "report"}), Len(text) + 1) - 1)
RecordOf(text) ==
    LET start == FirstOf(Unfenced(text, {"record"}), 0) IN
    IF start = 0 THEN <<>> ELSE SubSeq(text, start, SectionEnd(text, start) - 1)
(* readSeal looks at lines whether fenced or not.                               *)
ReadSeal(record) ==
    LET seals == {i \in DOMAIN record : record[i].is = "seal"} IN
    IF seals = {} THEN Null ELSE record[Min(seals)].of
RecordSection(hash) == <<Heading("record"), Line("seal", hash)>>
(* What the plan holds beside its record.                                       *)
Outside(text) ==
    LET start == FirstOf(Unfenced(text, {"record"}), 0) IN
    IF start = 0 THEN text ELSE SubSeq(text, 1, start - 1) \o SubSeq(text, SectionEnd(text, start), Len(text))

(* withRecord: in place of the section, before the report, or at the end.       *)
WithRecord(text, section) ==
    LET start == FirstOf(Unfenced(text, {"record"}), 0)
        report == FirstOf(Unfenced(text, {"report"}), 0) IN
    IF start # 0 THEN SubSeq(text, 1, start - 1) \o section \o SubSeq(text, SectionEnd(text, start), Len(text))
    ELSE IF report # 0 THEN SubSeq(text, 1, report - 1) \o section \o SubSeq(text, report, Len(text))
    ELSE text \o section
--------------------------------------------------------------------------------
(* parseSettlements: tagged bullets, and indented lines that continue them. A   *)
(* bullet that runs over the limit, by itself or by what continues it, is long. *)
RawOutput(proper) == Unfenced(proper, {"raw"}) # {}
SettlementsValid(proper) ==
    LET section == Section(proper, "decisions")
        bullets == {i \in section : proper[i].is = "settle"} IN
    /\ Unfenced(proper, {"variant"}) = {}
    /\ \A i \in section :
         /\ ~Fenced(proper, i)
         /\ proper[i].is \in {"settle", "continued", "blank"}
         /\ proper[i].is = "continued" => \E j \in bullets : j < i
    /\ \A i, j \in bullets : proper[i].of.id = proper[j].of.id => proper[i].of.phase = proper[j].of.phase
    /\ \A i \in bullets : ~proper[i].of.long
Settled(proper) == {proper[i].of.id : i \in {j \in Section(proper, "decisions") : proper[j].is = "settle"}}
TaskRefs(proper) ==
    {proper[i].of : i \in {j \in Section(proper, "tasks") : j \in Unfenced(proper, {"cite"})}}

(* properForReview drops trailing newlines; size and budget in lines here.      *)
ForReview(proper) ==
    LET kept == {i \in DOMAIN proper : proper[i].is # "blank"} IN
    SubSeq(proper, 1, FirstOf({n \in 0..Len(proper) : \A i \in kept : i <= n}, 0))
Budget(source, allowance) == (3 * source) \div 2 + allowance
--------------------------------------------------------------------------------
(* checkPlan, up to the sidecar, and promptBindingForPlan. A "tier" line stands *)
(* alone; a styled one is read by both, a quoted one (quotes, numbering) counts *)
(* for ambiguity only; likewise "verify" and a quoted verify.                   *)
BeforeRecord(text) ==
    LET plain == Plain(text)
        records == {i \in DOMAIN plain : plain[i].is = "record"} IN
    SubSeq(plain, 1, FirstOf(records, Len(plain) + 1) - 1)
At(text, kinds) == {i \in DOMAIN text : text[i].is \in kinds}
Values(text, kinds) == {text[i].of : i \in At(text, kinds)}
Acceptance(text) ==
    \E i \in At(text, {"acceptance"}), j \in At(text, {"item"}) :
        i < j /\ ~\E k \in At(text, H2) : i < k /\ k < j
ShapeOk(text) ==
    LET before == BeforeRecord(text)
        tasks == Unfenced(text, {"tasks", "variant"})
        records == Unfenced(text, {"record"})
        last == Unfenced(text, H2) IN
    /\ Acceptance(before)
    /\ At(before, {"tier"}) # {} /\ Cardinality(Values(before, {"tier", "styled tier"})) = 1
    /\ At(before, {"verify"}) # {}
    /\ Cardinality(tasks) = 1 /\ \A t \in tasks, r \in records : t < r
    /\ ~RawOutput(Proper(text))
    /\ Cardinality(records) = 1
    /\ last # {} /\ text[Max(last)].is = "report"
CheckPlan(text, sidecar) == ShapeOk(text) /\ ReadSeal(RecordOf(text)) # Null /\ sidecar = ReadSeal(RecordOf(text))

(* The values a handoff must quote, when unambiguous. A text is its own hash.   *)
BindingFor(text) ==
    LET before == BeforeRecord(text)
        tiers == Values(before, {"tier"})
        commands == Values(before, {"verify"})
        only(S) == CHOOSE x \in S : TRUE IN
    IF /\ Cardinality(tiers) = 1 /\ Values(before, {"styled tier", "quoted tier"}) \subseteq tiers
       /\ Cardinality(commands) = 1 /\ Values(before, {"quoted verify"}) \subseteq commands
       /\ \A i \in At(before, {"verify"}) : i < Len(before) => before[i + 1].is # "continued"
       /\ Cardinality(At(RecordOf(text), {"seal"})) = 1
    THEN [plan |-> text, tier |-> only(tiers), verify |-> only(commands), record |-> ReadSeal(RecordOf(text))]
    ELSE Null
================================================================================
