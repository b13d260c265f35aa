------------------------------- MODULE AutoplanRun -------------------------------
(* A run of /autoplan-lean on one plan: the commands of src/autoplan-lean/cli.ts *)
(* that write (prompt, archive-phase, seal) with a failure or a kill at every   *)
(* file operation, the check, and the session that edits the plan, writes       *)
(* reviewer outputs and composes the final message between commands. One        *)
(* command runs at a time. A record or a text stands for its own SHA-256.       *)
EXTENDS AutoplanHandoff

CONSTANTS
    Source, Allowance,      \* lines of restore.md (Null: it is missing), of the allowance
    Plans,                  \* what the plan file may be at first
    Propers,                \* what the session may turn the part before the record into
    Shapes, MessageFor(_, _),   \* final messages, by shape and the values they quote
    MaxWrites, MaxCommands, MaxEdits, MaxFaults     \* bounds

(* What the session writes holds no record and no report of its own outside a   *)
(* fence. It may leave a fence open, which hides whatever follows.              *)
Refusals == {"SOURCE_MISSING", "PLAN_EMPTY", "RAW_OUTPUT_IN_PLAN", "SETTLEMENTS_INVALID", "TASK_REF_UNRESOLVED",
             "PLAN_OVER_BUDGET", "SIDECAR_EXISTS", "HISTORY_INVALID", "INTERNAL"}
InputsAssumption ==
    /\ Null \notin Refusals
    /\ \A text \in Plans \cup Propers : text \in Seq(ToSet(text))
    /\ \A p \in Propers : Unfenced(p, {"record", "report"}) = {}

VARIABLES
    plan,                   \* the plan file, with what each command reads from it
    sidecar, archives, kept,            \* files: kept are staged copies left behind
    outputs, history, sizes, prompts,   \* the run directory
    quoted,                 \* the values the final message quotes
    job, last,              \* the command in flight; how the last one ended
    named, given, opened,   \* records the plan named, those seal replaced since; whether a fence was left open
    written, edits, faults, commands

files == <<plan, sidecar, archives, kept>>
dir == <<outputs, history, sizes, prompts>>
session == <<quoted, written, edits>>
past == <<named, given, opened>>
vars == <<files, dir, session, job, last, past, faults, commands>>

Torn == [bytes |-> "part"]       \* a partial copy, half a row
Idle == [at |-> "idle"]
NoCommand == [code |-> "none"]
NoOutputs == [k \in Kinds |-> Null]

Parsed(text) ==
    LET proper == Proper(text) IN
    [text |-> text, proper |-> proper, review |-> ForReview(proper), seal |-> ReadSeal(RecordOf(text)),
     raw |-> RawOutput(proper), settlements |-> SettlementsValid(proper),
     dangling |-> TaskRefs(proper) \ Settled(proper), binding |-> BindingFor(text)]

Init ==
    /\ plan \in {Parsed(text) : text \in Plans}
    /\ sidecar \in {Null, Foreign} /\ archives = <<>> /\ kept = {}
    /\ outputs = [p \in Phases |-> NoOutputs] /\ history = <<>> /\ sizes = <<>>
    /\ prompts = [p \in Phases |-> [v \in Voices |-> Null]]
    /\ quoted = Null /\ job = Idle /\ last = NoCommand
    /\ named = {} /\ given = {} /\ opened = ~NoFenceOpen(plan.proper)
    /\ written = 0 /\ edits = 0 /\ faults = 0 /\ commands = 0
--------------------------------------------------------------------------------
(* The session: one file at a time, and an output only where none is current.   *)
EditPlan ==
    /\ job = Idle /\ edits < MaxEdits /\ edits' = edits + 1
    /\ \E p \in Propers :
         /\ p # plan.proper
         /\ plan' = Parsed(p \o SubSeq(plan.text, Len(plan.proper) + 1, Len(plan.text)))
         /\ opened' = (opened \/ ~NoFenceOpen(p))
    /\ last' = NoCommand /\ UNCHANGED <<sidecar, archives, kept, dir, quoted, written, job, named, given, faults, commands>>

WriteOutput ==
    /\ job = Idle /\ written < MaxWrites /\ written' = written + 1
    /\ \E p \in Phases, k \in Kinds :
         /\ outputs[p][k] = Null
         /\ outputs' = [outputs EXCEPT ![p][k] = written']
    /\ last' = NoCommand /\ UNCHANGED <<files, history, sizes, prompts, quoted, edits, job, past, faults, commands>>

WriteMessage ==
    /\ job = Idle /\ plan.binding \notin {Null, quoted}
    /\ quoted' = plan.binding
    /\ last' = NoCommand /\ UNCHANGED <<files, dir, written, edits, job, past, faults, commands>>

(* What a refusal told the session to move out of the way.                      *)
MoveAside ==
    /\ job = Idle /\ last.code = "SIDECAR_EXISTS"
    /\ \/ sidecar # Null /\ kept' = kept \cup {sidecar} /\ sidecar' = Null /\ UNCHANGED archives
       \/ \E name \in DOMAIN archives :
            /\ archives[name] # name
            /\ archives' = [n \in DOMAIN archives \ {name} |-> archives[n]]
            /\ UNCHANGED <<sidecar, kept>>
    /\ last' = NoCommand
    /\ UNCHANGED <<plan, dir, session, job, past, faults, commands>>
--------------------------------------------------------------------------------
(* Ends of a command. A kill leaves everything where it was, staged files too.  *)
End(code) == job' = Idle /\ last' = [code |-> code]
Refuse(code) == End(code) /\ UNCHANGED <<files, dir, past, faults>>
Begin == job = Idle /\ commands < MaxCommands /\ commands' = commands + 1
Fault == faults < MaxFaults /\ faults' = faults + 1
NoFault == UNCHANGED faults

Kill ==
    /\ job # Idle /\ Fault
    /\ End("killed")
    /\ kept' = IF job.at \in {"archive", "sidecar", "plan", "restore"} /\ job.existing # Null THEN kept \cup {job.existing} ELSE kept
    /\ UNCHANGED <<plan, sidecar, archives, dir, session, past, commands>>

OverBudget == Len(plan.review) > Budget(Len(ForReview(Proper(Source))), Allowance)

(* prompt: the text is published, then its size row is appended, perhaps in     *)
(* part. Rows that do not parse fail every later prompt and seal.               *)
PromptRefusal(over) ==
    IF Source = Null THEN "SOURCE_MISSING"
    ELSE IF plan.review = <<>> THEN "PLAN_EMPTY"
    ELSE IF plan.raw THEN "RAW_OUTPUT_IN_PLAN"
    ELSE IF ~plan.settlements THEN "SETTLEMENTS_INVALID"
    ELSE IF OverBudget /\ ~over THEN "PLAN_OVER_BUDGET"
    ELSE IF Torn \in ToSet(sizes) THEN "INTERNAL" ELSE Null
RowsOf(phase, voice) == SelectSeq(sizes, LAMBDA r : r.phase = phase /\ r.voice = voice)

Prompt ==
    /\ Begin /\ UNCHANGED session
    /\ \E phase \in Phases, voice \in Voices, over \in BOOLEAN :
         IF PromptRefusal(over) # Null THEN Refuse(PromptRefusal(over))
         ELSE \/ Fault /\ End("INTERNAL") /\ UNCHANGED <<files, dir, past>>
              \/ /\ NoFault /\ prompts' = [prompts EXCEPT ![phase][voice] = plan.review]
                 /\ job' = [at |-> "row", row |->
                      [phase |-> phase, voice |-> voice, attempt |-> Len(RowsOf(phase, voice)) + 1, over |-> OverBudget,
                       ceo |-> IF phase = "ceo" THEN 0 ELSE Len(RowsOf("ceo", voice))]]
                 /\ UNCHANGED <<files, outputs, history, sizes, last, past>>
AppendRow ==
    /\ job.at = "row"
    /\ \/ NoFault /\ sizes' = Append(sizes, job.row) /\ End("ok")
       \/ Fault /\ sizes' \in {sizes, Append(sizes, Torn)} /\ End("INTERNAL")
    /\ UNCHANGED <<files, outputs, history, prompts, session, past, commands>>

(* archive-phase: the history is replaced whole, then the outputs are removed.  *)
AttemptsOf(rows, phase) == SelectSeq(rows, LAMBDA r : r.phase = phase)
HistoryValid(rows) ==
    \A i \in DOMAIN rows :
        /\ rows[i].attempt = Len(AttemptsOf(SubSeq(rows, 1, i - 1), rows[i].phase)) + 1
        /\ rows[i].outputs # NoOutputs
        /\ rows[i].voice = "native" => \A k \in Kinds \ {"native"} : rows[i].outputs[k] = Null
ClearFirst ==               \* the slip of clearing before the history is written
    /\ Begin /\ UNCHANGED session
    /\ \E phase \in Phases :
         /\ outputs[phase] # NoOutputs
         /\ \/ Fault /\ outputs' = [outputs EXCEPT ![phase] = NoOutputs] /\ End("INTERNAL") /\ UNCHANGED history
            \/ /\ NoFault /\ outputs' = [outputs EXCEPT ![phase] = NoOutputs] /\ End("archived")
               /\ history' = Append(history, [phase |-> phase, attempt |-> Len(AttemptsOf(history, phase)) + 1,
                                              voice |-> Null, outputs |-> outputs[phase]])
    /\ UNCHANGED <<files, sizes, prompts, past>>
ArchivePhase ==
    /\ Begin /\ UNCHANGED session
    /\ \E phase \in Phases, voice \in {Null, "native"} :
         LET current == [k \in Kinds |-> IF voice \in {Null, k} THEN outputs[phase][k] ELSE Null]
             row == [phase |-> phase, attempt |-> Len(AttemptsOf(history, phase)) + 1, voice |-> voice, outputs |-> current] IN
         IF ~HistoryValid(history) THEN Refuse("HISTORY_INVALID")
         ELSE IF current = NoOutputs THEN Refuse("empty")
         ELSE \/ Fault /\ End("INTERNAL") /\ UNCHANGED <<files, dir, past>>
              \/ /\ NoFault /\ history' = Append(history, row)
                 /\ job' = [at |-> "clear", phase |-> phase, left |-> {k \in Kinds : current[k] # Null}]
                 /\ UNCHANGED <<files, outputs, sizes, prompts, last, past>>
ClearOutput ==
    /\ job.at = "clear"
    /\ \/ Fault /\ End("INTERNAL") /\ UNCHANGED outputs
       \/ /\ NoFault
          /\ \E k \in job.left :
               /\ outputs' = [outputs EXCEPT ![job.phase][k] = Null]
               /\ IF job.left = {k} THEN End("archived") ELSE job' = [job EXCEPT !.left = @ \ {k}] /\ UNCHANGED last
    /\ UNCHANGED <<files, history, sizes, prompts, session, past, commands>>
--------------------------------------------------------------------------------
(* seal. All reading and refusing comes first.                                  *)
SealedHere == sidecar # Null /\ plan.seal = sidecar
Archived == IF sidecar \in DOMAIN archives THEN archives[sidecar] ELSE Null
ArchiveRefusedNever == FALSE        \* the slip of trusting an archive by its name
ArchiveRefused == Archived \notin {Null, sidecar}
SealRefusal(replace, over) ==
    IF plan.raw THEN "RAW_OUTPUT_IN_PLAN"
    ELSE IF ~plan.settlements THEN "SETTLEMENTS_INVALID"
    ELSE IF plan.dangling # {} THEN "TASK_REF_UNRESOLVED"
    ELSE IF Source = Null THEN "SOURCE_MISSING"
    ELSE IF OverBudget /\ ~over THEN "PLAN_OVER_BUDGET"
    ELSE IF SealedHere /\ ArchiveRefused THEN "SIDECAR_EXISTS"
    ELSE IF sidecar # Null /\ ~SealedHere /\ ~replace THEN "SIDECAR_EXISTS"
    ELSE IF Torn \in ToSet(sizes) THEN "INTERNAL"
    ELSE IF ~HistoryValid(history) THEN "HISTORY_INVALID" ELSE Null

(* assembleSidecar: everything the run directory holds, current and archived.   *)
AssembleSidecar ==
    [previous |-> IF SealedHere THEN sidecar ELSE Null, over |-> OverBudget,
     sizes |-> sizes, history |-> history, outputs |-> outputs]

Seal ==
    /\ Begin /\ UNCHANGED session
    /\ \E replace, over \in BOOLEAN :
         IF SealRefusal(replace, over) # Null THEN Refuse(SealRefusal(replace, over))
         ELSE \/ Fault /\ End("INTERNAL") /\ UNCHANGED <<files, dir, past>>     \* a file cannot be read or staged
              \/ /\ NoFault
                 /\ job' = [at |-> IF SealedHere /\ Archived = Null THEN "archive" ELSE "sidecar", before |-> plan,
                            existing |-> sidecar, record |-> AssembleSidecar, next |-> Parsed(WithRecord(plan.text, RecordSection(AssembleSidecar)))]
                 /\ UNCHANGED <<files, dir, last, past>>

(* A copy that fails or is cut off may leave part of the archive behind.        *)
ArchivedAs(bytes) == [n \in DOMAIN archives \cup {job.existing} |-> IF n = job.existing THEN bytes ELSE archives[n]]
ArchiveSidecar ==
    /\ job.at = "archive"
    /\ \/ NoFault /\ archives' = ArchivedAs(job.existing) /\ job' = [job EXCEPT !.at = "sidecar"] /\ UNCHANGED last
       \/ /\ Fault /\ archives' \in {archives, ArchivedAs(Torn)}
          /\ \E code \in {"INTERNAL", "killed"} : End(code)
    /\ UNCHANGED <<plan, sidecar, kept, dir, session, past, commands>>
PublishSidecar ==
    /\ job.at = "sidecar"
    /\ \/ /\ NoFault /\ sidecar' = job.record /\ job' = [job EXCEPT !.at = "plan"] /\ UNCHANGED last
          /\ given' = given \cup ({job.existing} \ {Null, plan.seal})
       \/ Fault /\ End("INTERNAL") /\ UNCHANGED <<sidecar, given>>
    /\ UNCHANGED <<plan, archives, kept, dir, session, named, opened, commands>>
PublishPlan ==
    /\ job.at = "plan"
    /\ \/ /\ NoFault /\ plan' = job.next /\ job' = Idle /\ last' = [code |-> "sealed", job |-> job]
          /\ named' = named \cup {job.record} /\ given' = given \ {job.record}
       \/ Fault /\ job' = [job EXCEPT !.at = "restore"] /\ UNCHANGED <<plan, named, given, last>>
    /\ UNCHANGED <<sidecar, archives, kept, dir, session, opened, commands>>
RestoreRemoves ==           \* the slip of only taking the new sidecar away
    /\ job.at = "restore"
    /\ NoFault /\ sidecar' = Null /\ job' = Idle /\ last' = [code |-> "SEAL_WRITE_FAILED", job |-> job] /\ UNCHANGED kept
    /\ UNCHANGED <<plan, archives, dir, session, past, commands>>
(* The plan could not be replaced: put the old sidecar back, or keep its copy.  *)
RestoreSidecar ==
    /\ job.at = "restore"
    /\ \/ NoFault /\ sidecar' = job.existing /\ job' = Idle /\ last' = [code |-> "SEAL_WRITE_FAILED", job |-> job] /\ UNCHANGED kept
       \/ /\ Fault /\ UNCHANGED sidecar /\ job' = Idle /\ last' = [code |-> "SEAL_RECOVERY_FAILED", job |-> job]
          /\ kept' = kept \cup ({job.existing} \ {Null})
    /\ UNCHANGED <<plan, archives, dir, session, past, commands>>

Check ==
    /\ Begin /\ NoFault
    /\ \E shape \in Shapes :
         LET message == MessageFor(shape, quoted) IN
         /\ quoted # Null
         /\ job' = Idle /\ last' = [code |-> IF CheckHandoff(plan.text, plan.binding, sidecar, message) THEN "CHECK: ok" ELSE "CHECK: fail", message |-> message]
    /\ UNCHANGED <<files, dir, session, past>>

Next ==
    \/ EditPlan \/ WriteOutput \/ WriteMessage \/ MoveAside \/ Kill
    \/ Prompt \/ AppendRow \/ ArchivePhase \/ ClearOutput
    \/ Seal \/ ArchiveSidecar \/ PublishSidecar \/ PublishPlan \/ RestoreSidecar \/ Check
Spec == Init /\ [][Next]_vars
--------------------------------------------------------------------------------
(* No record the plan ever named is lost: it is the sidecar, an archive under   *)
(* its own hash, or a copy a failed seal left; whatever was killed or failed,   *)
(* and though seal may be told to replace a sidecar. One exception: a fence     *)
(* left open hides the record from readSeal, and a seal then told to replace    *)
(* the sidecar takes it for one the plan does not name (sealCmd).               *)
Preserved(r) == r = sidecar \/ r \in kept \/ (r \in DOMAIN archives /\ archives[r] = r)
RecordsSurvive == \A r \in named : Preserved(r) \/ (opened /\ r \in given)

(* A seal that says sealed leaves a plan that names the sidecar beside it, all  *)
(* but its record as it was; or, if the plan leaves a fence open, the old text  *)
(* with a record after it that no reader sees. One whose publication failed     *)
(* leaves the old pair, or the old plan and the old sidecar's copy.             *)
SealLeavesPair ==
    LET j == last.job IN
    job = Idle =>
    /\ last.code = "sealed" =>
         /\ sidecar = j.record
         /\ IF NoFenceOpen(j.before.proper)
            THEN plan.seal = sidecar /\ plan.proper = j.before.proper /\ Outside(plan.text) = Outside(j.before.text)
            ELSE plan.seal = Null /\ plan.text = j.before.text \o RecordSection(j.record)
    /\ last.code \in {"SEAL_WRITE_FAILED", "SEAL_RECOVERY_FAILED"} => plan = j.before
    /\ last.code = "SEAL_WRITE_FAILED" => sidecar = j.existing
    /\ last.code = "SEAL_RECOVERY_FAILED" /\ j.existing # Null => j.existing \in kept

(* Every output a reviewer wrote is current or in the history, which parses,    *)
(* whatever a rerun, a retry, a failure or a kill did; and the record the plan  *)
(* names holds all that were written when it was assembled.                     *)
InOutputs(o) == {o[p][k] : p \in Phases, k \in Kinds}
InHistory(rows) == UNION {{r.outputs[k] : k \in Kinds} : r \in ToSet(rows)}
EveryOutputIsKept ==
    /\ HistoryValid(history)
    /\ 1..written \subseteq InOutputs(outputs) \cup InHistory(history)
    /\ \A r \in named : \E n \in 0..written : (InOutputs(r.outputs) \cup InHistory(r.history)) \ {Null} = 1..n

(* A message that passes the check hands off this plan: what the reader copies, *)
(* the last fenced block, quotes the plan as it is, its record is the sidecar,  *)
(* and the stage line names the plan and the block's commit.                    *)
Copied(m) ==
    LET starts == {i \in DOMAIN m : Opens(m[i]) /\ ~Within(m, i)} IN
    IF starts = {} THEN {} ELSE {m[i] : i \in {n \in Max(starts)..Len(m) : Fenced(m, n)}}
HandoffIsCurrent ==
    job = Idle /\ last.code = "CHECK: ok" =>
        LET message == last.message
            stage == Last(message).of
            copied(kind) == {l.of : l \in {c \in Copied(message) : c.is = kind}} IN
        /\ copied("fields") # {} /\ \A f \in copied("fields") : BoundTo(f, plan.binding) /\ f.record = sidecar
        /\ copied("branch") = {stage.head} /\ stage.plan = plan.text
================================================================================
