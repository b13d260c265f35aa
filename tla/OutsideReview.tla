--------------------------- MODULE OutsideReview ---------------------------
(***************************************************************************)
(* The outside review (run in src/outside-review/run.ts): the phases of    *)
(* one request, one paid call each, in order, kept in a private directory  *)
(* that a resumed invocation shares.                                       *)
(*                                                                         *)
(* A state error (a saved file that does not parse, a claim that is there  *)
(* or cannot be made, a send or a save that throws) ends the calls of the  *)
(* run and not its loop: later saved results are still read.               *)
(***************************************************************************)
EXTENDS Naturals

CONSTANTS
    Runs,       \* invocations of the command over the same request and directory
    Last,       \* number of phases: 1, or 2 with `structured`
    None,
    Torn,       \* a saved file that does not parse
    MaxFaults   \* bound: kills and failed steps

ASSUME ConstantsAssumption ==
    /\ Last \in Nat \ {0}
    /\ MaxFaults \in Nat
    /\ None \notin Runs \cup {Torn, "clean", "findings", "uncredited"}
    /\ Torn \notin {"clean", "findings", "uncredited"}

Phases == 1 .. Last

VARIABLES
    saved,      \* saved[p]: what p's <id>.json says, None or Torn
    claimed,    \* phases whose <id>.claim exists
    step,       \* step[r]: where run r is in its loop
    phase,      \* phase[r]: the phase it works on
    replayOnly, \* replayOnly[r]: a state error has happened
    response,   \* response[r]: what this phase's send returned, or None
    results,    \* results[r][p]: [outcome, replay, error], or None
    exit,       \* exit[r]: the exit code, or None
    sent,       \* sent[p]: calls made for phase p (history)
    owner,      \* owner[p]: the run that claimed p (history)
    verdict,    \* verdict[p]: what p's call returned, or None (history)
    had,        \* had[r]: results that were whole when r began (history)
    faults

disk == <<saved, claimed>>
history == <<sent, owner, verdict, had>>
vars == <<saved, claimed, step, phase, replayOnly, response, results, exit,
          sent, owner, verdict, had, faults>>

\* What recover makes of a response.
Outcome == {"clean", "findings", "uncredited"}

Init ==
    /\ saved = [p \in Phases |-> None]
    /\ claimed = {}
    /\ step = [r \in Runs |-> "start"]
    /\ phase = [r \in Runs |-> 1]
    /\ replayOnly = [r \in Runs |-> FALSE]
    /\ response = [r \in Runs |-> None]
    /\ results = [r \in Runs |-> [p \in Phases |-> None]]
    /\ exit = [r \in Runs |-> None]
    /\ sent = [p \in Phases |-> 0]
    /\ owner = [p \in Phases |-> None]
    /\ verdict = [p \in Phases |-> None]
    /\ had = [r \in Runs |-> {}]
    /\ faults = 0

Fault ==
    /\ faults < MaxFaults
    /\ faults' = faults + 1

Goto(r, s) == step' = [step EXCEPT ![r] = s]
At(r, s) == step[r] = s /\ (s = "look" => phase[r] <= Last)

\* results.push at the end of a turn of the loop, and on to the next phase.
Push(r, result) ==
    /\ results' = [results EXCEPT ![r][phase[r]] = result]
    /\ replayOnly' = [replayOnly EXCEPT ![r] = @ \/ result.error # "none"]
    /\ response' = [response EXCEPT ![r] = None]
    /\ phase' = [phase EXCEPT ![r] = @ + 1]
    /\ Goto(r, "look")

\* The catch, and `response ??= error`: what the call returned is kept, if it returned.
AfterError(r, error) ==
    [outcome |-> IF response[r] = None THEN "uncredited" ELSE response[r],
     replay |-> FALSE, error |-> error]

Begin(r) ==
    /\ At(r, "start")
    /\ Goto(r, "look")
    /\ had' = [had EXCEPT ![r] = {p \in Phases : saved[p] \notin {None, Torn}}]
    /\ UNCHANGED <<disk, phase, replayOnly, response, results, exit, sent, owner, verdict, faults>>

\* A bug: after a state error saved results are not read any more.
ReadSavedUnlessBlocked(r) ==
    /\ At(r, "look") /\ saved[phase[r]] # None
    /\ IF saved[phase[r]] = Torn THEN Push(r, AfterError(r, "read-result"))
       ELSE IF replayOnly[r] THEN Push(r, AfterError(r, "blocked-by-state-error"))
       ELSE Push(r, [outcome |-> saved[phase[r]], replay |-> TRUE, error |-> "none"])
    /\ UNCHANGED <<disk, exit, history, faults>>

\* A saved result is read and replayed, also after a state error.
ReadSaved(r) ==
    /\ At(r, "look") /\ saved[phase[r]] # None
    /\ IF saved[phase[r]] = Torn THEN Push(r, AfterError(r, "read-result"))
       ELSE Push(r, [outcome |-> saved[phase[r]], replay |-> TRUE, error |-> "none"])
    /\ UNCHANGED <<disk, exit, history, faults>>

\* The saved file is there and cannot be read this time.
ReadFails(r) ==
    /\ At(r, "look") /\ saved[phase[r]] # None
    /\ Fault
    /\ Push(r, AfterError(r, "read-result"))
    /\ UNCHANGED <<disk, exit, history>>

\* Nothing saved: claim the call, or stop here after a state error.
FindNothing(r) ==
    /\ At(r, "look") /\ saved[phase[r]] = None
    /\ IF replayOnly[r]
       THEN Push(r, AfterError(r, "blocked-by-state-error"))
       ELSE Goto(r, "claim") /\ UNCHANGED <<phase, replayOnly, response, results>>
    /\ UNCHANGED <<disk, exit, history, faults>>

\* A bug: the claim is opened for writing without `wx`.
ClaimShared(r) ==
    /\ At(r, "claim")
    /\ claimed' = claimed \cup {phase[r]}
    /\ owner' = [owner EXCEPT ![phase[r]] = r]
    /\ Goto(r, "send")
    /\ UNCHANGED <<saved, phase, replayOnly, response, results, exit, sent, verdict, had, faults>>

\* A bug: who meets a claim waits for its result.
ClaimAwaited(r) ==
    /\ At(r, "claim")
    /\ phase[r] \in claimed => saved[phase[r]] # None
    /\ claimed' = claimed \cup {phase[r]}
    /\ IF phase[r] \in claimed
       THEN Push(r, AfterError(r, "claim")) /\ UNCHANGED owner
       ELSE /\ owner' = [owner EXCEPT ![phase[r]] = r]
            /\ Goto(r, "send")
            /\ UNCHANGED <<phase, replayOnly, response, results>>
    /\ UNCHANGED <<saved, exit, sent, verdict, had, faults>>

\* Exclusive create of the claim.
Claim(r) ==
    /\ At(r, "claim")
    /\ IF phase[r] \in claimed
       THEN /\ Push(r, AfterError(r, "claim"))
            /\ UNCHANGED <<claimed, owner>>
       ELSE /\ claimed' = claimed \cup {phase[r]}
            /\ owner' = [owner EXCEPT ![phase[r]] = r]
            /\ Goto(r, "send")
            /\ UNCHANGED <<phase, replayOnly, response, results>>
    /\ UNCHANGED <<saved, exit, sent, verdict, had, faults>>

\* The create or the write of the claim fails; a file it made stays.
ClaimFails(r) ==
    /\ At(r, "claim") /\ phase[r] \notin claimed
    /\ Fault
    /\ \/ UNCHANGED <<claimed, owner>>
       \/ claimed' = claimed \cup {phase[r]} /\ owner' = [owner EXCEPT ![phase[r]] = r]
    /\ Push(r, AfterError(r, "claim"))
    /\ UNCHANGED <<saved, exit, sent, verdict, had>>

\* runClaudeCode starts the provider.
Send(r) ==
    /\ At(r, "send")
    /\ sent' = [sent EXCEPT ![phase[r]] = @ + 1]
    /\ Goto(r, "wait")
    /\ UNCHANGED <<disk, phase, replayOnly, response, results, exit, owner, verdict, had, faults>>

\* It returns; the transport's own timeout makes it return.
Answer(r) ==
    /\ At(r, "wait")
    /\ \E outcome \in Outcome :
          /\ response' = [response EXCEPT ![r] = outcome]
          /\ verdict' = [verdict EXCEPT ![phase[r]] = outcome]
    /\ Goto(r, "save")
    /\ UNCHANGED <<disk, phase, replayOnly, results, exit, sent, owner, had, faults>>

\* It throws before or after the provider was reached; the claim stays.
SendThrows(r) ==
    /\ step[r] \in {"send", "wait"}
    /\ Fault
    /\ Push(r, AfterError(r, "dispatch"))
    /\ UNCHANGED <<disk, exit, history>>

\* Exclusive create of the saved file, not yet written.
Create(r) ==
    /\ At(r, "save") /\ saved[phase[r]] = None
    /\ saved' = [saved EXCEPT ![phase[r]] = Torn]
    /\ Goto(r, "saving")
    /\ UNCHANGED <<claimed, phase, replayOnly, response, results, exit, history, faults>>

\* A bug: only the reply text is saved, so a failed call replays as a clean one.
SaveTextOnly(r) ==
    /\ At(r, "saving")
    /\ saved' = [saved EXCEPT ![phase[r]] =
                    IF response[r] = "uncredited" THEN "clean" ELSE response[r]]
    /\ Push(r, [outcome |-> response[r], replay |-> FALSE, error |-> "none"])
    /\ UNCHANGED <<claimed, exit, history, faults>>

Save(r) ==
    /\ At(r, "saving")
    /\ saved' = [saved EXCEPT ![phase[r]] = response[r]]
    /\ Push(r, [outcome |-> response[r], replay |-> FALSE, error |-> "none"])
    /\ UNCHANGED <<claimed, exit, history, faults>>

SaveFails(r) ==
    /\ step[r] \in {"save", "saving"}
    /\ Fault
    /\ Push(r, AfterError(r, "save-result"))
    /\ UNCHANGED <<disk, exit, history>>

\* main: a state error outranks missing credit, which outranks findings.
ExitOf(r) ==
    LET errors == {results[r][p].error : p \in Phases}
        outcomes == {results[r][p].outcome : p \in Phases}
    IN IF errors # {"none"} THEN "error"
       ELSE IF "uncredited" \in outcomes THEN "uncredited"
       ELSE IF "findings" \in outcomes THEN "findings" ELSE "clean"

Finish(r) ==
    /\ step[r] = "look" /\ phase[r] = Last + 1
    /\ exit' = [exit EXCEPT ![r] = ExitOf(r)]
    /\ Goto(r, "done")
    /\ UNCHANGED <<disk, phase, replayOnly, response, results, history, faults>>

\* The process is killed, or an exception leaves main: no output.
Kill(r) ==
    /\ step[r] \notin {"start", "done", "dead"}
    /\ Fault
    /\ Goto(r, "dead")
    /\ UNCHANGED <<disk, phase, replayOnly, response, results, exit, history>>

RunStep(r) ==
    \/ Begin(r) \/ ReadSaved(r) \/ FindNothing(r) \/ Claim(r) \/ Send(r) \/ Answer(r)
    \/ Create(r) \/ Save(r) \/ Finish(r)

Next ==
    \E r \in Runs :
        \/ RunStep(r)
        \/ ReadFails(r) \/ ClaimFails(r) \/ SendThrows(r) \/ SaveFails(r) \/ Kill(r)

Spec == Init /\ [][Next]_vars

\* A live process goes on; runClaudeCode has a timeout, so a send ends as well.
FairSpec == Spec /\ \A r \in Runs : WF_vars(RunStep(r))

(***************************************************************************)
(* Properties.                                                             *)
(***************************************************************************)

Errors == {"none", "read-result", "blocked-by-state-error", "claim", "dispatch", "save-result"}
Result == [outcome : Outcome, replay : BOOLEAN, error : Errors]
Steps == {"start", "look", "claim", "send", "wait", "save", "saving", "done", "dead"}

\* Every file, response, result and exit code has the type the code gives it.
TypeOK ==
    /\ saved \in [Phases -> Outcome \cup {None, Torn}]
    /\ claimed \subseteq Phases
    /\ step \in [Runs -> Steps]
    /\ phase \in [Runs -> 1 .. Last + 1]
    /\ replayOnly \in [Runs -> BOOLEAN]
    /\ response \in [Runs -> Outcome \cup {None}]
    /\ results \in [Runs -> [Phases -> Result \cup {None}]]
    /\ exit \in [Runs -> {None, "error", "uncredited", "findings", "clean"}]
    /\ sent \in [Phases -> Nat]
    /\ owner \in [Phases -> Runs \cup {None}]
    /\ verdict \in [Phases -> Outcome \cup {None}]
    /\ had \in [Runs -> SUBSET Phases]
    /\ faults \in Nat

\* After a state error the run makes no further call; it replays or reports an error.
NoCallAfterStateError ==
    \A r \in Runs, p, q \in Phases :
        /\ p < q /\ q < phase[r]
        /\ results[r][p].error # "none"
        => results[r][q].replay \/ results[r][q].error # "none"

\* A result that was saved when the run began is in its output as it was returned, whatever
\* state error an earlier phase had, unless its own file could not be read.
SavedResultsSurface ==
    \A r \in Runs : step[r] = "done" => \A p \in had[r] :
        \/ results[r][p].error = "read-result"
        \/ results[r][p] = [outcome |-> verdict[p], replay |-> TRUE, error |-> "none"]

\* What a call returned is in the output of the run that paid for it, also when it could
\* not be saved.
PaidResultReported ==
    \A r \in Runs, p \in Phases :
        step[r] = "done" /\ owner[p] = r /\ verdict[p] # None
            => results[r][p].outcome = verdict[p]

\* No paid result is lost on the way to the caller: neither one a run saved earlier nor one
\* this run could not save (run.ts 49-73).
PaidOutcomesSurface == SavedResultsSurface /\ PaidResultReported

\* Exit 0: every phase has a call, by this run or an earlier one, that came back clean.
CleanExitIsEarned ==
    \A r \in Runs : exit[r] = "clean" => \A p \in Phases : verdict[p] = "clean"

\* A run that is not killed ends, whatever claims it meets.
EveryRunEnds == \A r \in Runs : <>(step[r] \in {"done", "dead"})

(***************************************************************************)
(* The promise the runs implement.                                         *)
(***************************************************************************)
Credit(outcome, none) ==
    CASE outcome \in {"clean", "findings"} -> "credited"
      [] outcome = "uncredited" -> none
      [] OTHER -> None

VerdictView == [p \in Phases |-> Credit(verdict[p], "spent")]
ReportView ==
    [r \in Runs |-> IF step[r] # "done" THEN None
                    ELSE [p \in Phases |-> Credit(results[r][p].outcome, "host")]]

Calls == INSTANCE PaidCalls WITH Ids <- Phases, verdict <- VerdictView, reports <- ReportView

ImplementsPaidCalls == Calls!Spec
=============================================================================
