-------------------------- MODULE MergeGateStore --------------------------
(***************************************************************************)
(* The store behind `merge-gate check` (src/merge-gate/store.ts) and the   *)
(* command that drives it (runCheck in src/merge-gate/cli.ts).             *)
(*                                                                         *)
(* Each member of Calls is one process running one check.  Calls share the *)
(* store directory and nothing else: there is no lock, only link() and     *)
(* exclusive create.  A process may be killed between any two steps, a     *)
(* filesystem step may fail, and the machine may lose power, after which   *)
(* each directory entry is what was last synced or what was last written.  *)
(* A verdict carries the call that computed it: decided_at makes two       *)
(* verdicts differ, and equal bytes are handled as "already there" anyway. *)
(***************************************************************************)
EXTENDS Integers, Sequences, FiniteSets

CONSTANTS
    Calls,          \* processes, each running one `merge-gate check`
    Keys,           \* decision keys: repository, pull request, decision id
    Evidence,       \* evidence ids (sha256 of the collected bytes)
    NoKey,          \* a check without --decision-id
    None,
    MaxFaults       \* bound: short writes, failed steps, kills and power losses

ASSUME ConstantsAssumption ==
    /\ IsFiniteSet(Calls)
    /\ NoKey \notin Keys
    /\ None \notin Calls
    /\ None \notin [by : Calls, evidence : Evidence]
    /\ MaxFaults \in Nat

VARIABLES
    evidence,   \* evidence/<id>.json files that exist
    decision,   \* decisions/<key>.json: its verdict, or None
    marker,     \* keys whose decisions/<key>.logged exists
    log,        \* verdicts.jsonl as a sequence of pieces
    durable,    \* what is on the platter: last synced directories, log length
    pc,         \* where each call is in runCheck
    key,        \* the key of each call, or NoKey
    mine,       \* the verdict the call itself computed
    winner,     \* with a key: the verdict the call logs and prints
    original,   \* the call's own publish created the decision file
    rest,       \* pieces of its log line the call has still to write
    exposed,    \* a short write fell between the call's open and its last write (history)
    lost,       \* the machine has lost power (history)
    faults      \* faults so far, up to MaxFaults

disk == <<evidence, decision, marker, log, durable>>
history == <<lost, faults>>
local == <<key, mine, winner, original>>
vars == <<evidence, decision, marker, log, durable, pc, key, mine, winner,
          original, rest, exposed, lost, faults>>

Verdict == [by : Calls, evidence : Evidence]

(***************************************************************************)
(* A log line is the body of one verdict and a newline.  The body is two   *)
(* pieces so that a write may stop inside it.                              *)
(***************************************************************************)
Newline == [part |-> "newline", by |-> None]
BodyStart(c) == [part |-> "start", by |-> c]
BodyEnd(c) == [part |-> "end", by |-> c]
Piece == [part : {"start", "end"}, by : Calls] \cup {Newline}

Line(c) == <<BodyStart(c), BodyEnd(c), Newline>>

TornTail == log # <<>> /\ log[Len(log)] # Newline

\* readVerdictLog: a line parses when it is one whole body between newlines.
Readable(c) ==
    \E i \in 1 .. Len(log) - 1 :
        /\ log[i] = BodyStart(c) /\ log[i + 1] = BodyEnd(c)
        /\ i = 1 \/ log[i - 1] = Newline
        /\ i + 1 = Len(log) \/ log[i + 2] = Newline

LinesFor(k) == {c \in Calls : key[c] = k /\ Readable(c)}

Appending == {"open", "write", "sync log"}
Working == {"lookup", "evidence", "sync evidence", "publish",
            "sync decision", "reread", "claim"} \cup Appending
Ended == {"done", "done earlier", "dead", "failed append", "crashed append"}

TypeOK ==
    /\ evidence \subseteq Evidence
    /\ decision \in [Keys -> Verdict \cup {None}]
    /\ marker \subseteq Keys
    /\ log \in Seq(Piece)
    /\ durable \in [evidence : SUBSET Evidence, decision : [Keys -> Verdict \cup {None}],
                    marker : SUBSET Keys, log : Nat]
    /\ pc \in [Calls -> Working \cup Ended]
    /\ key \in [Calls -> Keys \cup {NoKey}]
    /\ mine \in [Calls -> Verdict \cup {None}]
    /\ winner \in [Calls -> Verdict \cup {None}]
    /\ original \in [Calls -> BOOLEAN]
    /\ rest \in [Calls -> Seq(Piece)]
    /\ exposed \in [Calls -> BOOLEAN]
    /\ lost \in BOOLEAN
    /\ faults \in 0 .. MaxFaults

Init ==
    /\ evidence = {}
    /\ decision = [k \in Keys |-> None]
    /\ marker = {}
    /\ log = <<>>
    /\ durable = [evidence |-> {}, decision |-> [k \in Keys |-> None],
                  marker |-> {}, log |-> 0]
    /\ pc = [c \in Calls |-> "lookup"]
    /\ key \in [Calls -> Keys \cup {NoKey}]
    /\ mine = [c \in Calls |-> None]
    /\ winner = [c \in Calls |-> None]
    /\ original = [c \in Calls |-> FALSE]
    /\ rest = [c \in Calls |-> <<>>]
    /\ exposed = [c \in Calls |-> FALSE]
    /\ lost = FALSE
    /\ faults = 0

Goto(c, step) == pc' = [pc EXCEPT ![c] = step]

\* One of the MaxFaults faults a behaviour may have.
Fault ==
    /\ faults < MaxFaults
    /\ faults' = faults + 1

(***************************************************************************)
(* The steps of one call.                                                  *)
(***************************************************************************)

\* runCheck, readDecision: the key already has a decision.
LookupHit(c) ==
    /\ pc[c] = "lookup"
    /\ key[c] # NoKey
    /\ decision[key[c]] # None
    /\ winner' = [winner EXCEPT ![c] = decision[key[c]]]
    /\ Goto(c, "claim")
    /\ UNCHANGED <<disk, key, mine, original, rest, exposed, history>>

\* A bug: the decision is published before the evidence it names.
DecideBeforeEvidence(c) ==
    /\ pc[c] = "lookup"
    /\ \E e \in Evidence : mine' = [mine EXCEPT ![c] = [by |-> c, evidence |-> e]]
    /\ Goto(c, IF key[c] = NoKey THEN "open" ELSE "publish")
    /\ UNCHANGED <<disk, key, winner, original, rest, exposed, history>>

\* No decision id, no decision yet, or remoteRepo could not name the repository:
\* collect and decide, on the pull request as this call observes it.
CollectAndDecide(c) ==
    /\ pc[c] = "lookup"
    /\ \E e \in Evidence : mine' = [mine EXCEPT ![c] = [by |-> c, evidence |-> e]]
    /\ Goto(c, "evidence")
    /\ UNCHANGED <<disk, key, winner, original, rest, exposed, history>>

AfterEvidence(c) == IF key[c] = NoKey THEN "open" ELSE "publish"

\* writeEvidence: publishOnce links the file, or finds the same bytes there.
LinkEvidence(c) ==
    /\ pc[c] = "evidence"
    /\ evidence' = evidence \cup {mine[c].evidence}
    /\ Goto(c, IF mine[c].evidence \in evidence THEN AfterEvidence(c) ELSE "sync evidence")
    /\ UNCHANGED <<decision, marker, log, durable, local, rest, exposed, history>>

\* publishOnce, fsyncDir on the evidence directory.
SyncEvidence(c) ==
    /\ pc[c] = "sync evidence"
    /\ durable' = [durable EXCEPT !.evidence = evidence]
    /\ Goto(c, AfterEvidence(c))
    /\ UNCHANGED <<evidence, decision, marker, log, local, rest, exposed, history>>

\* A bug the link() guards against: a rename would replace the first decision.
LinkDecisionByRename(c) ==
    /\ pc[c] = "publish"
    /\ decision' = [decision EXCEPT ![key[c]] = mine[c]]
    /\ Goto(c, "sync decision")
    /\ UNCHANGED <<evidence, marker, log, durable, local, rest, exposed, history>>

\* publishDecision: link() fails with EEXIST when the key has a decision.
LinkDecision(c) ==
    /\ pc[c] = "publish"
    /\ IF decision[key[c]] = None
       THEN /\ decision' = [decision EXCEPT ![key[c]] = mine[c]]
            /\ Goto(c, "sync decision")
       ELSE /\ Goto(c, "reread")
            /\ UNCHANGED decision
    /\ UNCHANGED <<evidence, marker, log, durable, local, rest, exposed, history>>

\* publishOnce, fsyncDir on the decisions directory: decisions and markers.
SyncDecision(c) ==
    /\ pc[c] = "sync decision"
    /\ durable' = [durable EXCEPT !.decision = decision, !.marker = marker]
    /\ winner' = [winner EXCEPT ![c] = mine[c]]
    /\ original' = [original EXCEPT ![c] = TRUE]
    /\ Goto(c, "claim")
    /\ UNCHANGED <<evidence, decision, marker, log, key, mine, rest, exposed, history>>

\* A bug: the loser of the race keeps its own verdict.
RereadOwnVerdict(c) ==
    /\ pc[c] = "reread"
    /\ winner' = [winner EXCEPT ![c] = mine[c]]
    /\ Goto(c, "claim")
    /\ UNCHANGED <<disk, key, mine, original, rest, exposed, history>>

\* The loser reads the winner's file; `?? verdict` covers a file that is gone.
Reread(c) ==
    /\ pc[c] = "reread"
    /\ winner' = [winner EXCEPT ![c] =
                     IF decision[key[c]] # None THEN decision[key[c]] ELSE mine[c]]
    /\ Goto(c, "claim")
    /\ UNCHANGED <<disk, key, mine, original, rest, exposed, history>>

\* A bug: who creates the marker leaves the append to the others.
ClaimMarkerInverted(c) ==
    /\ pc[c] = "claim"
    /\ marker' = marker \cup {key[c]}
    /\ Goto(c, IF key[c] \in marker THEN "open" ELSE "done")
    /\ UNCHANGED <<evidence, decision, log, durable, local, rest, exposed, history>>

\* ensureLogged: exclusive create of the marker; who finds it there does not append.
ClaimMarker(c) ==
    /\ pc[c] = "claim"
    /\ marker' = marker \cup {key[c]}
    /\ Goto(c, IF key[c] \in marker THEN "done" ELSE "open")
    /\ UNCHANGED <<evidence, decision, log, durable, local, rest, exposed, history>>

\* A bug: a torn tail is not terminated before the new line.
OpenLogNoRepair(c) ==
    /\ pc[c] = "open"
    /\ rest' = [rest EXCEPT ![c] = Line(c)]
    /\ Goto(c, "write")
    /\ UNCHANGED <<disk, local, exposed, history>>

\* appendVerdict: open with O_APPEND and look at the last byte.
OpenLog(c) ==
    /\ pc[c] = "open"
    /\ rest' = [rest EXCEPT ![c] = (IF TornTail THEN <<Newline>> ELSE <<>>) \o Line(c)]
    /\ Goto(c, "write")
    /\ UNCHANGED <<disk, local, exposed, history>>

\* writeAll: one write() of all that is left, or a short one and another turn.
WriteLog(c) ==
    /\ pc[c] = "write"
    /\ \E n \in 1 .. Len(rest[c]) :
          /\ IF n < Len(rest[c]) THEN Fault ELSE UNCHANGED faults
          /\ log' = log \o SubSeq(rest[c], 1, n)
          /\ rest' = [rest EXCEPT ![c] = SubSeq(rest[c], n + 1, Len(rest[c]))]
          /\ exposed' = [d \in Calls |->
                            exposed[d] \/ (n < Len(rest[c]) /\ pc[d] = "write")]
          /\ Goto(c, IF n = Len(rest[c]) THEN "sync log" ELSE "write")
    /\ UNCHANGED <<evidence, decision, marker, durable, local, lost>>

\* appendVerdict, fsync.
SyncLog(c) ==
    /\ pc[c] = "sync log"
    /\ durable' = [durable EXCEPT !.log = Len(log)]
    /\ Goto(c, "done")
    /\ UNCHANGED <<evidence, decision, marker, log, local, rest, exposed, history>>

(***************************************************************************)
(* What may go wrong.                                                      *)
(***************************************************************************)

\* The process ends without an answer; what it held in memory is gone.
End(c, status) ==
    /\ Goto(c, status)
    /\ mine' = [mine EXCEPT ![c] = None]
    /\ winner' = [winner EXCEPT ![c] = None]
    /\ original' = [original EXCEPT ![c] = FALSE]
    /\ rest' = [rest EXCEPT ![c] = <<>>]
    /\ exposed' = [exposed EXCEPT ![c] = FALSE]
    /\ Fault
    /\ UNCHANGED <<key, lost>>

\* The append throws: ensureLogged removes its marker (unlinkQuiet may fail in silence).
FailAppend(c) ==
    /\ pc[c] \in Appending
    /\ IF key[c] = NoKey
       THEN UNCHANGED marker
       ELSE marker' \in {marker, marker \ {key[c]}}
    /\ End(c, "failed append")
    /\ UNCHANGED <<evidence, decision, log, durable>>

\* Any other step throws a GateError: exit 1, no verdict printed.
Fail(c) ==
    /\ pc[c] \in Working \ Appending
    /\ End(c, "dead")
    /\ UNCHANGED disk

DeadAt(step) == IF step \in Appending THEN "crashed append" ELSE "dead"

\* The process is killed in its append: no handler runs and the marker stays.
\* (Killed elsewhere, it leaves what Fail leaves.)
Crash(c) ==
    /\ pc[c] \in Appending
    /\ End(c, DeadAt(pc[c]))
    /\ UNCHANGED disk

\* Every running call dies; unsynced entries and log pieces may or may not be there.
PowerLoss ==
    /\ Fault
    /\ lost' = TRUE
    /\ LET Running(c) == pc[c] \in Working \ {"lookup"}
           Gone(f, none) == [c \in Calls |-> IF Running(c) THEN none ELSE f[c]]
       IN /\ pc' = [c \in Calls |-> IF Running(c) THEN DeadAt(pc[c])
                                    ELSE IF pc[c] = "done" THEN "done earlier" ELSE pc[c]]
          /\ mine' = Gone(mine, None)
          /\ winner' = Gone(winner, None)
          /\ original' = Gone(original, FALSE)
          /\ rest' = Gone(rest, <<>>)
          /\ exposed' = Gone(exposed, FALSE)
    /\ \E es \in SUBSET (evidence \ durable.evidence) : evidence' = durable.evidence \cup es
    /\ \E ks \in SUBSET Keys :
          decision' = [k \in Keys |-> IF k \in ks THEN durable.decision[k] ELSE decision[k]]
    /\ \E ks \in SUBSET Keys :
          marker' = (marker \ ks) \cup (durable.marker \cap ks)
    /\ \E n \in durable.log .. Len(log) : log' = SubSeq(log, 1, n)
    /\ durable' = [evidence |-> evidence', decision |-> decision',
                   marker |-> marker', log |-> Len(log')]
    /\ UNCHANGED key

CallStep(c) ==
    \/ LookupHit(c) \/ CollectAndDecide(c)
    \/ LinkEvidence(c) \/ SyncEvidence(c)
    \/ LinkDecision(c) \/ SyncDecision(c) \/ Reread(c)
    \/ ClaimMarker(c) \/ OpenLog(c) \/ WriteLog(c) \/ SyncLog(c)

Next ==
    \/ \E c \in Calls : CallStep(c) \/ FailAppend(c) \/ Fail(c) \/ Crash(c)
    \/ PowerLoss

Spec == Init /\ [][Next]_vars

(***************************************************************************)
(* Properties.                                                             *)
(***************************************************************************)

HasAnswered(c) == pc[c] \in {"done", "done earlier"} /\ key[c] # NoKey

\* Every call that answers for a key since the last power loss answers with the
\* decision file's verdict, whoever published it and however the calls interleave
\* (ENG-4: the first decision file for a key is authoritative).
AnswersAreAuthoritative ==
    \A c \in Calls : pc[c] = "done" /\ key[c] # NoKey => winner[c] = decision[key[c]]

\* A call that answers without `idempotent` created the decision, and that decision
\* is still the key's after any later power loss: link(), fsync of the directory,
\* then the answer.
OriginalAnswerSurvives ==
    \A c \in Calls : HasAnswered(c) /\ original[c] =>
        winner[c].by = c /\ decision[key[c]] = winner[c]

\* A published decision never names evidence that is not in the store, unless a
\* power loss took a file another call had linked and not yet synced.
DecisionHasEvidence ==
    ~lost => \A k \in Keys : decision[k] # None => decision[k].evidence \in evidence

\* A line that was appended and synced stays one readable line, through later torn
\* tails and power losses, unless another short write fell between this call's look at
\* the last byte and its own write (ENG-2: repair a torn tail, one write, fsync).
SyncedLineSurvives ==
    \A c \in Calls :
        /\ pc[c] \in {"done", "done earlier"} /\ ~exposed[c]
        /\ \E i \in 1 .. Len(log) : log[i] = BodyStart(c)
        => Readable(c)

\* Who found the marker and answered without appending was right to do so, unless the
\* call that claimed the marker is still appending, died or failed in its append, or
\* had its line damaged by a short write.
UnloggedDecisionIsExplained ==
    ~lost => \A k \in marker : LinesFor(k) # {} \/
        \E c \in Calls :
            /\ key[c] = k
            /\ pc[c] \in Appending \cup {"failed append", "crashed append"} \/ exposed[c]

\* The log repeats a decision only after a failed append that had reached the file.
DuplicateLineIsExplained ==
    ~lost => \A k \in Keys :
        Cardinality(LinesFor(k)) <=
            1 + Cardinality({c \in Calls : key[c] = k /\ pc[c] = "failed append"})

\* Whoever appends a key's line, the line is the authoritative verdict.
LogAgreesWithDecision ==
    \A k \in Keys : \A c \in LinesFor(k) : pc[c] = "done" => winner[c] = decision[k]

\* The log is complete, free of repetition and true to the register, but for what a failure
\* between marker and append explains (ensureLogged, store.ts 199-225).
LogIsExplained == UnloggedDecisionIsExplained /\ DuplicateLineIsExplained /\ LogAgreesWithDecision

\* What the comment on ensureLogged says: a decision's verdict line is appended
\* exactly once.
LoggedAtMostOnce == \A k \in Keys : Cardinality(LinesFor(k)) <= 1

(***************************************************************************)
(* The register the store implements.                                      *)
(***************************************************************************)

\* What each key holds, and how firmly.
RegView ==
    [k \in Keys |->
        IF decision[k] = None THEN [status |-> "empty", verdict |-> None]
        ELSE [status |-> IF durable.decision[k] = decision[k] THEN "final" ELSE "tentative",
              verdict |-> decision[k]]]

AnswerOf(c) == [key |-> key[c], verdict |-> winner[c], original |-> original[c]]

AnswersView == [c \in Calls |-> IF HasAnswered(c) THEN AnswerOf(c) ELSE None]

Register == INSTANCE DecisionRegister WITH reg <- RegView, answers <- AnswersView

\* Every behaviour of the store is a behaviour of the register: a step of a call or a
\* power loss is a step of the register or leaves it as it is.
ImplementsRegister == Register!Spec
===========================================================================
