------------------------ MODULE OutsideReviewProofs ------------------------
(***************************************************************************)
(* Proofs about OutsideReview for any runs, any number of phases and any   *)
(* number of faults.                                                       *)
(***************************************************************************)
EXTENDS OutsideReview, TLAPS

(***************************************************************************)
(* The inductive invariant.  Whatever a run says of a phase it has passed  *)
(* is what the call returned, or that there was no answer; a run that pays *)
(* owns the phase, and owns none it has not reached.                       *)
(***************************************************************************)
Paying == {"send", "wait", "save", "saving"}

\* What the directory and the history say of one call.
PhaseInv(p) ==
    /\ p \notin claimed => owner[p] = None /\ sent[p] = 0 /\ verdict[p] = None
    /\ sent[p] \in {0, 1}
    /\ verdict[p] # None => sent[p] = 1
    /\ saved[p] \in Outcome => verdict[p] = saved[p]

\* What run r's place in its loop says of the call of its phase.
RunInv(r) ==
    /\ step[r] = "start" => phase[r] = 1 /\ had[r] = {}
    /\ step[r] \in Paying \cup {"claim"} =>
          phase[r] \in Phases /\ ~replayOnly[r] /\ phase[r] \notin had[r]
    /\ step[r] = "done" => phase[r] = Last + 1
    /\ step[r] \in Paying => owner[phase[r]] = r
    /\ step[r] = "send" => sent[phase[r]] = 0 /\ verdict[phase[r]] = None
    /\ step[r] = "wait" => sent[phase[r]] = 1 /\ verdict[phase[r]] = None
    /\ step[r] \in {"save", "saving"} => response[r] \in Outcome /\ verdict[phase[r]] = response[r]
    /\ step[r] = "saving" => saved[phase[r]] = Torn
    /\ step[r] \notin {"save", "saving", "dead"} => response[r] = None

\* What run r pushed for p is true of p's call.
Tells(r, p, result) ==
    /\ result \in Result
    /\ (result.outcome # "uncredited" \/ result.error = "none" \/ (owner[p] = r /\ verdict[p] # None))
          => result.outcome = verdict[p]
    /\ p \in had[r] => \/ result.error = "read-result"
                       \/ result = [outcome |-> verdict[p], replay |-> TRUE, error |-> "none"]

PairInv(r, p) ==
    /\ owner[p] = r => p < phase[r] \/ (p = phase[r] /\ step[r] \in Paying \cup {"dead"})
    /\ p \in had[r] => saved[p] \in Outcome
    /\ p < phase[r] => Tells(r, p, results[r][p])
    /\ p < phase[r] /\ results[r][p].error # "none" => replayOnly[r]
    /\ exit[r] = "clean" => verdict[p] = "clean"

IInv ==
    /\ TypeOK
    /\ \A p \in Phases : PhaseInv(p)
    /\ \A r \in Runs : RunInv(r)
    /\ \A r \in Runs, p \in Phases : PairInv(r, p)
    /\ NoCallAfterStateError

LEMMA NoneApart == None \notin Runs /\ None \notin Outcome /\ Torn \notin Outcome /\ Torn # None
BY ConstantsAssumption DEF Outcome

LEMMA PhasesAreNumbers ==
    Phases \subseteq Nat /\ (\A p \in 1 .. Last + 1 : p \in Phases <=> p <= Last) /\ Last + 1 \notin Phases
BY ConstantsAssumption DEF Phases

LEMMA FaultType == ASSUME faults \in Nat, Fault PROVE faults' \in Nat
BY DEF Fault

(***************************************************************************)
(* The frame of a step of one run.                                         *)
(***************************************************************************)

\* Nothing of another run moves.
OnlyRun(r) ==
    \A s \in Runs \ {r} :
        /\ step'[s] = step[s] /\ phase'[s] = phase[s] /\ replayOnly'[s] = replayOnly[s]
        /\ response'[s] = response[s] /\ results'[s] = results[s]
        /\ exit'[s] = exit[s] /\ had'[s] = had[s]

\* A run changes only its own calls, takes over none, and unsays nothing.
KeepsOthers(r) ==
    \A p \in Phases :
        /\ owner'[p] = owner[p] \/ (owner[p] = None /\ owner'[p] = r)
        /\ sent'[p] = sent[p] \/ owner[p] = r
        /\ verdict'[p] = verdict[p] \/ (owner[p] = r /\ verdict[p] = None)
        /\ saved'[p] = saved[p] \/ (owner[p] = r /\ saved[p] \notin Outcome)

LEMMA OthersKeep ==
    ASSUME IInv, NEW r \in Runs, NEW s \in Runs \ {r}, OnlyRun(r), KeepsOthers(r)
    PROVE  RunInv(s)' /\ \A p \in Phases : PairInv(s, p)'
<1>1. /\ step'[s] = step[s] /\ phase'[s] = phase[s] /\ replayOnly'[s] = replayOnly[s]
      /\ response'[s] = response[s] /\ results'[s] = results[s]
      /\ exit'[s] = exit[s] /\ had'[s] = had[s]
  BY DEF OnlyRun
<1>2. RunInv(s) /\ s # r /\ s # None
  BY NoneApart DEF IInv
<1>3. RunInv(s)'
  <2>1. CASE step[s] \in Paying
    <3>1. phase[s] \in Phases /\ owner[phase[s]] = s
      BY <1>2, <2>1 DEF RunInv
    <3>2. /\ owner'[phase[s]] = owner[phase[s]] /\ sent'[phase[s]] = sent[phase[s]]
          /\ verdict'[phase[s]] = verdict[phase[s]] /\ saved'[phase[s]] = saved[phase[s]]
      BY <1>2, <3>1 DEF KeepsOthers
    <3> QED
      BY <1>1, <1>2, <3>2 DEF RunInv
  <2>2. CASE step[s] \notin Paying
    BY <1>1, <1>2, <2>2 DEF RunInv, Paying
  <2> QED
    BY <2>1, <2>2
<1>4. ASSUME NEW p \in Phases
      PROVE  PairInv(s, p)'
  <2>1. PairInv(s, p)
    BY DEF IInv
  <2>2. owner'[p] = s <=> owner[p] = s
    BY <1>2 DEF KeepsOthers
  <2>3. p \in had[s] => saved'[p] \in Outcome
    BY <2>1 DEF PairInv, KeepsOthers
  <2>4. verdict'[p] = verdict[p] \/ (verdict[p] = None /\ owner[p] # s)
    BY <1>2 DEF KeepsOthers
  <2>5. p < phase[s] => Tells(s, p, results[s][p])'
    <3>1. SUFFICES ASSUME Tells(s, p, results[s][p]), verdict'[p] # verdict[p]
                   PROVE  Tells(s, p, results[s][p])'
      BY <1>1, <2>1, <2>2 DEF PairInv, Tells
    <3>2. verdict[p] = None /\ owner[p] # s
      BY <2>4, <3>1
    <3>3. results[s][p].outcome # verdict[p]
      BY <3>1, <3>2, NoneApart DEF Tells, Result
    <3> QED
      BY <1>1, <2>2, <3>1, <3>2, <3>3 DEF Tells
  <2> QED
    BY <1>1, <2>1, <2>2, <2>3, <2>4, <2>5, NoneApart DEF PairInv, Outcome
<1> QED
  BY <1>3, <1>4

\* What a step of run r leaves to show.
LEMMA RunStepInv ==
    ASSUME IInv, NEW r \in Runs, OnlyRun(r), KeepsOthers(r), TypeOK', RunInv(r)',
           \A p \in Phases : PhaseInv(p)' /\ PairInv(r, p)', NoCallAfterStateError'
    PROVE  IInv'
BY OthersKeep DEF IInv

(***************************************************************************)
(* The end of a phase.                                                     *)
(***************************************************************************)
SameCalls == UNCHANGED <<saved, claimed, owner, sent, verdict>>

LEMMA SameCallsKeep ==
    ASSUME IInv, NEW r \in Runs, SameCalls
    PROVE  KeepsOthers(r) /\ \A p \in Phases : PhaseInv(p)'
BY DEF IInv, SameCalls, KeepsOthers, PhaseInv

LEMMA PushFacts ==
    ASSUME TypeOK, NEW r \in Runs, phase[r] \in Phases, NEW result \in Result, Push(r, result)
    PROVE  /\ step'[r] = "look" /\ phase'[r] = phase[r] + 1 /\ response'[r] = None
           /\ replayOnly'[r] <=> replayOnly[r] \/ result.error # "none"
           /\ results'[r][phase[r]] = result
           /\ \A q \in Phases \ {phase[r]} : results'[r][q] = results[r][q]
           /\ \A s \in Runs \ {r} :
                 /\ step'[s] = step[s] /\ phase'[s] = phase[s] /\ replayOnly'[s] = replayOnly[s]
                 /\ response'[s] = response[s] /\ results'[s] = results[s]
           /\ step' \in [Runs -> Steps] /\ phase' \in [Runs -> 1 .. Last + 1]
           /\ replayOnly' \in [Runs -> BOOLEAN] /\ response' \in [Runs -> Outcome \cup {None}]
           /\ results' \in [Runs -> [Phases -> Result \cup {None}]]
<1>1. step'[r] = "look" /\ response'[r] = None
  BY DEF TypeOK, Push, Goto
<1>2. phase'[r] = phase[r] + 1 /\ phase' \in [Runs -> 1 .. Last + 1]
  BY ConstantsAssumption DEF TypeOK, Push, Phases
<1>3. /\ replayOnly'[r] <=> replayOnly[r] \/ result.error # "none"
      /\ replayOnly' \in [Runs -> BOOLEAN]
  BY DEF TypeOK, Push
<1>4. /\ results'[r][phase[r]] = result
      /\ \A q \in Phases \ {phase[r]} : results'[r][q] = results[r][q]
      /\ results' \in [Runs -> [Phases -> Result \cup {None}]]
  BY DEF TypeOK, Push
<1>5. \A s \in Runs \ {r} :
         /\ step'[s] = step[s] /\ phase'[s] = phase[s] /\ replayOnly'[s] = replayOnly[s]
         /\ response'[s] = response[s] /\ results'[s] = results[s]
  BY DEF TypeOK, Push, Goto
<1>6. step' \in [Runs -> Steps] /\ response' \in [Runs -> Outcome \cup {None}]
  BY DEF TypeOK, Push, Goto, Steps
<1> QED
  BY <1>1, <1>2, <1>3, <1>4, <1>5, <1>6

\* A run that pushes something true about its phase goes on to the next.
LEMMA PushIInv ==
    ASSUME IInv, NEW r \in Runs, NEW p \in Phases, p = phase[r],
           NEW result \in Result, Push(r, result), Tells(r, p, result)',
           result.error = "none" /\ ~result.replay => ~replayOnly[r],
           KeepsOthers(r), \A q \in Phases : PhaseInv(q)',
           \A q \in Phases \ {p} : owner'[q] = owner[q],
           UNCHANGED <<exit, had, sent, verdict>>,
           saved' \in [Phases -> Outcome \cup {None, Torn}], claimed' \subseteq Phases,
           owner' \in [Phases -> Runs \cup {None}], faults' \in Nat
    PROVE  IInv'
<1>1. TypeOK /\ RunInv(r) /\ NoCallAfterStateError
  BY DEF IInv
<1>2. /\ step'[r] = "look" /\ phase'[r] = phase[r] + 1 /\ response'[r] = None
      /\ replayOnly'[r] <=> replayOnly[r] \/ result.error # "none"
      /\ results'[r][p] = result
      /\ \A q \in Phases \ {p} : results'[r][q] = results[r][q]
  BY <1>1, PushFacts
<1>3. /\ \A s \in Runs \ {r} : /\ phase'[s] = phase[s] /\ results'[s] = results[s]
      /\ OnlyRun(r)
  BY <1>1, PushFacts DEF OnlyRun
<1>4. TypeOK'
  <2>1. /\ step' \in [Runs -> Steps] /\ phase' \in [Runs -> 1 .. Last + 1]
        /\ replayOnly' \in [Runs -> BOOLEAN] /\ response' \in [Runs -> Outcome \cup {None}]
        /\ results' \in [Runs -> [Phases -> Result \cup {None}]]
    BY <1>1, PushFacts
  <2> QED
    BY <1>1, <2>1 DEF TypeOK
<1>5. RunInv(r)'
  BY <1>2 DEF RunInv, Paying
<1>6. ASSUME NEW q \in Phases
      PROVE  PairInv(r, q)'
  <2>1. PairInv(r, q)
    BY DEF IInv
  <2>2. q \in had'[r] => saved'[q] \in Outcome
    BY <2>1 DEF PairInv, KeepsOthers
  <2>3. owner'[q] = r => q < phase'[r]
    <3>1. owner'[q] = r => q <= phase[r]
      BY <2>1, PhasesAreNumbers DEF PairInv
    <3> QED
      BY <1>2, <3>1, PhasesAreNumbers
  <2>4. CASE q = p
    BY <1>1, <1>2, <2>1, <2>2, <2>3, <2>4 DEF PairInv
  <2>5. CASE q # p
    <3>1. q < phase'[r] => q < phase[r]
      BY <1>2, <2>5, PhasesAreNumbers
    <3>2. results'[r][q] = results[r][q] /\ owner'[q] = owner[q]
      BY <1>2, <2>5
    <3>3. q < phase'[r] => Tells(r, q, results[r][q])'
      BY <2>1, <3>1, <3>2 DEF PairInv, Tells
    <3> QED
      BY <1>2, <2>1, <2>2, <2>3, <3>1, <3>2, <3>3 DEF PairInv
  <2> QED
    BY <2>4, <2>5
<1>7. NoCallAfterStateError'
  <2> SUFFICES ASSUME NEW s \in Runs, NEW a \in Phases, NEW b \in Phases,
                      a < b, b < phase'[s], results'[s][a].error # "none"
               PROVE  results'[s][b].replay \/ results'[s][b].error # "none"
    BY DEF NoCallAfterStateError
  <2>1. CASE s # r
    BY <1>1, <1>3, <2>1 DEF NoCallAfterStateError
  <2>2. CASE s = r /\ b # p
    <3>1. a # p /\ b < phase[r]
      BY <1>2, <2>2, PhasesAreNumbers
    <3> QED
      BY <1>1, <1>2, <2>2, <3>1 DEF NoCallAfterStateError
  <2>3. CASE s = r /\ b = p
    <3>1. a # p /\ a < phase[r] /\ PairInv(r, a)
      BY <2>3, PhasesAreNumbers DEF IInv
    <3>2. replayOnly[r]
      BY <1>2, <2>3, <3>1 DEF PairInv
    <3> QED
      BY <1>2, <2>3, <3>2
  <2> QED
    BY <2>1, <2>2, <2>3
<1> QED
  BY <1>3, <1>4, <1>5, <1>6, <1>7, RunStepInv

(***************************************************************************)
(* Initial states, and one lemma per action.                               *)
(***************************************************************************)
LEMMA InitIInv == Init => IInv
<1> SUFFICES ASSUME Init
             PROVE  IInv
  OBVIOUS
<1>1. TypeOK
  BY ConstantsAssumption DEF Init, TypeOK, Steps
<1>2. \A p \in Phases : PhaseInv(p)
  BY NoneApart DEF Init, PhaseInv
<1>3. \A r \in Runs : RunInv(r)
  BY DEF Init, RunInv, Paying
<1>4. ASSUME NEW r \in Runs, NEW p \in Phases
      PROVE  PairInv(r, p)
  <2>1. /\ phase[r] = 1 /\ had[r] = {} /\ exit[r] = None /\ owner[p] = None
        /\ r # None /\ ~(p < 1) /\ None # "clean"
    BY NoneApart, ConstantsAssumption DEF Init, Phases
  <2> QED
    BY <2>1 DEF PairInv
<1>5. NoCallAfterStateError
  BY PhasesAreNumbers, ConstantsAssumption DEF Init, NoCallAfterStateError, Phases
<1> QED
  BY <1>1, <1>2, <1>3, <1>4, <1>5 DEF IInv

\* Before its claim a run owns nothing at its phase.
LEMMA NotYetPaid ==
    ASSUME IInv, NEW r \in Runs, NEW p \in Phases, p = phase[r], step[r] \in {"look", "claim"}
    PROVE  owner[p] # r /\ response[r] = None
<1>1. PairInv(r, p) /\ RunInv(r)
  BY DEF IInv
<1>2. step[r] \notin Paying /\ ~(p < p)
  BY PhasesAreNumbers DEF Paying
<1> QED
  BY <1>1, <1>2 DEF PairInv, RunInv

\* An error keeps what the call has returned, so what it pushes is true.
LEMMA ErrorTells ==
    ASSUME IInv, NEW r \in Runs, NEW p \in Phases, p = phase[r],
           step[r] \in {"look", "claim"} \cup Paying,
           NEW error \in Errors \ {"none"}, p \in had[r] => error = "read-result"
    PROVE  /\ AfterError(r, error) \in Result
           /\ AfterError(r, error).error = error
           /\ Tells(r, p, AfterError(r, error))
<1>1. RunInv(r) /\ TypeOK
  BY DEF IInv
<1>2. response[r] = None \/ (response[r] \in Outcome /\ response[r] = verdict[p])
  BY <1>1 DEF RunInv, Paying
<1>3. response[r] = None /\ owner[p] = r => verdict[p] = None
  BY <1>1, NotYetPaid, NoneApart DEF RunInv, Paying
<1>4. AfterError(r, error) \in Result /\ AfterError(r, error).error = error
  BY <1>2 DEF AfterError, Result, Outcome
<1>5. CASE response[r] = None
  <2>1. AfterError(r, error).outcome = "uncredited"
    BY <1>5 DEF AfterError
  <2> QED
    BY <1>3, <1>4, <1>5, <2>1 DEF Tells
<1>6. CASE response[r] # None
  <2>1. AfterError(r, error).outcome = verdict[p]
    BY <1>2, <1>6 DEF AfterError
  <2> QED
    BY <1>4, <2>1 DEF Tells
<1> QED
  BY <1>4, <1>5, <1>6

\* A failing step that changes no call.
LEMMA ErrorIInv ==
    ASSUME IInv, NEW r \in Runs, NEW p \in Phases, p = phase[r],
           step[r] \in {"look", "claim"} \cup Paying,
           NEW error \in Errors \ {"none"}, p \in had[r] => error = "read-result",
           Push(r, AfterError(r, error)), SameCalls, UNCHANGED <<exit, had>>, faults' \in Nat
    PROVE  IInv'
<1>1. PICK result \in Result : result = AfterError(r, error)
  BY ErrorTells
<1>2. Tells(r, p, result) /\ result.error # "none" /\ Push(r, result)
  BY <1>1, ErrorTells
<1>3. Tells(r, p, result)'
  BY <1>2 DEF Tells, SameCalls
<1>4. TypeOK
  BY DEF IInv
<1> QED
  BY <1>2, <1>3, <1>4, SameCallsKeep, PushIInv DEF SameCalls, TypeOK

LEMMA ReadSavedIInv == ASSUME IInv, NEW r \in Runs, ReadSaved(r)
                       PROVE  IInv'
<1>1. PICK p \in Phases : p = phase[r]
  BY PhasesAreNumbers DEF IInv, TypeOK, ReadSaved, At
<1>2. TypeOK /\ PhaseInv(p) /\ step[r] = "look" /\ SameCalls
  BY DEF IInv, ReadSaved, At, SameCalls, disk, history
<1>3. UNCHANGED <<exit, had>> /\ faults' \in Nat
  BY DEF IInv, TypeOK, ReadSaved, history
<1>4. CASE saved[p] = Torn
  <2>1. Push(r, AfterError(r, "read-result"))
    BY <1>1, <1>4 DEF ReadSaved
  <2> QED
    BY <1>1, <1>2, <1>3, <2>1, ErrorIInv DEF Errors
<1>5. CASE saved[p] # Torn
  <2>1. saved[p] \in Outcome /\ verdict[p] = saved[p]
    BY <1>1, <1>2, <1>5 DEF ReadSaved, TypeOK, PhaseInv
  <2>2. PICK result \in Result : result = [outcome |-> saved[p], replay |-> TRUE, error |-> "none"]
    BY <2>1 DEF Result, Errors
  <2>3. Push(r, result) /\ result.outcome = verdict[p] /\ result.error = "none" /\ result.replay
    BY <1>1, <1>5, <2>1, <2>2 DEF ReadSaved
  <2>4. Tells(r, p, result)'
    BY <1>2, <1>3, <2>1, <2>2, <2>3 DEF Tells, SameCalls
  <2> QED
    BY <1>1, <1>2, <1>3, <2>3, <2>4, SameCallsKeep, PushIInv DEF SameCalls, TypeOK
<1> QED
  BY <1>4, <1>5

LEMMA ReadFailsIInv == ASSUME IInv, NEW r \in Runs, ReadFails(r)
                       PROVE  IInv'
<1>1. PICK p \in Phases : p = phase[r]
  BY PhasesAreNumbers DEF IInv, TypeOK, ReadFails, At
<1>2. step[r] = "look" /\ SameCalls /\ UNCHANGED <<exit, had>>
  BY DEF ReadFails, At, SameCalls, disk, history
<1>3. faults' \in Nat
  BY FaultType DEF IInv, TypeOK, ReadFails
<1> QED
  BY <1>1, <1>2, <1>3, ErrorIInv DEF ReadFails, Errors

LEMMA SendThrowsIInv == ASSUME IInv, NEW r \in Runs, SendThrows(r)
                        PROVE  IInv'
<1>1. RunInv(r) /\ step[r] \in Paying
  BY DEF IInv, SendThrows, Paying
<1>2. PICK p \in Phases : p = phase[r] /\ p \notin had[r]
  BY <1>1 DEF RunInv
<1>3. SameCalls /\ UNCHANGED <<exit, had>>
  BY DEF SendThrows, SameCalls, disk, history
<1>4. faults' \in Nat
  BY FaultType DEF IInv, TypeOK, SendThrows
<1> QED
  BY <1>1, <1>2, <1>3, <1>4, ErrorIInv DEF SendThrows, Errors

LEMMA SaveFailsIInv == ASSUME IInv, NEW r \in Runs, SaveFails(r)
                       PROVE  IInv'
<1>1. RunInv(r) /\ step[r] \in Paying
  BY DEF IInv, SaveFails, Paying
<1>2. PICK p \in Phases : p = phase[r] /\ p \notin had[r]
  BY <1>1 DEF RunInv
<1>3. SameCalls /\ UNCHANGED <<exit, had>>
  BY DEF SaveFails, SameCalls, disk, history
<1>4. faults' \in Nat
  BY FaultType DEF IInv, TypeOK, SaveFails
<1> QED
  BY <1>1, <1>2, <1>3, <1>4, ErrorIInv DEF SaveFails, Errors

\* A step within a phase.
LEMMA StayIInv ==
    ASSUME IInv, NEW r \in Runs, OnlyRun(r), KeepsOthers(r), TypeOK', RunInv(r)',
           \A p \in Phases : PhaseInv(p)',
           UNCHANGED <<phase, replayOnly, results, had, exit>>,
           \A p \in Phases : p # phase[r] => owner'[p] = owner[p] /\ verdict'[p] = verdict[p],
           step[r] \in Paying \/ owner'[phase[r]] = r
              => step'[r] \in Paying \cup {"dead"} \/ (phase[r] \notin Phases)
    PROVE  IInv'
<1>1. ASSUME NEW p \in Phases
      PROVE  PairInv(r, p)'
  <2>1. PairInv(r, p) /\ RunInv(r)
    BY DEF IInv
  <2>2. p < phase[r] => owner'[p] = owner[p] /\ verdict'[p] = verdict[p]
    BY PhasesAreNumbers
  <2>3. p \in had[r] => saved'[p] \in Outcome
    BY <2>1 DEF PairInv, KeepsOthers
  <2>4. owner'[p] = r => p < phase[r] \/ (p = phase[r] /\ step'[r] \in Paying \cup {"dead"})
    <3>1. CASE p = phase[r]
      BY <3>1
    <3>2. CASE p # phase[r]
      BY <2>1, <3>2 DEF PairInv
    <3> QED
      BY <3>1, <3>2
  <2>5. exit[r] = "clean" => verdict'[p] = "clean"
    BY <2>1, NoneApart DEF PairInv, KeepsOthers, Outcome
  <2>6. p < phase[r] => Tells(r, p, results[r][p])'
    BY <2>1, <2>2 DEF PairInv, Tells
  <2> QED
    BY <2>1, <2>3, <2>4, <2>5, <2>6 DEF PairInv
<1>2. NoCallAfterStateError'
  BY DEF IInv, NoCallAfterStateError
<1> QED
  BY <1>1, <1>2, RunStepInv

LEMMA GotoFacts ==
    ASSUME TypeOK, NEW r \in Runs, NEW s \in Steps, Goto(r, s)
    PROVE  /\ step'[r] = s /\ step' \in [Runs -> Steps]
           /\ \A q \in Runs \ {r} : step'[q] = step[q]
BY DEF TypeOK, Goto

LEMMA BeginIInv == ASSUME IInv, NEW r \in Runs, Begin(r)
                   PROVE  IInv'
<1>1. TypeOK /\ RunInv(r) /\ step[r] = "start" /\ SameCalls
  BY DEF IInv, Begin, At, SameCalls, disk
<1>2. /\ step'[r] = "look" /\ step' \in [Runs -> Steps]
      /\ \A s \in Runs \ {r} : step'[s] = step[s]
  BY <1>1, GotoFacts DEF Begin, Steps
<1>3. /\ had' \in [Runs -> SUBSET Phases]
      /\ had'[r] = {p \in Phases : saved[p] \notin {None, Torn}}
      /\ \A s \in Runs \ {r} : had'[s] = had[s]
  BY <1>1 DEF Begin, TypeOK
<1>4. OnlyRun(r) /\ TypeOK'
  BY <1>1, <1>2, <1>3 DEF Begin, OnlyRun, TypeOK, disk
<1>5. RunInv(r)'
  BY <1>1, <1>2 DEF Begin, RunInv, Paying
<1>6. ASSUME NEW p \in Phases
      PROVE  PairInv(r, p)'
  <2>1. PairInv(r, p) /\ step[r] \notin Paying \cup {"dead"} /\ ~(p < phase[r])
    BY <1>1 DEF IInv, RunInv, Paying, Phases
  <2>2. p \in had'[r] => saved'[p] \in Outcome
    BY <1>1, <1>3 DEF SameCalls, TypeOK
  <2> QED
    BY <1>1, <2>1, <2>2 DEF Begin, PairInv, SameCalls
<1>7. NoCallAfterStateError'
  BY DEF IInv, Begin, NoCallAfterStateError
<1> QED
  BY <1>1, <1>4, <1>5, <1>6, <1>7, SameCallsKeep, RunStepInv

LEMMA FindNothingIInv == ASSUME IInv, NEW r \in Runs, FindNothing(r)
                         PROVE  IInv'
<1>1. PICK p \in Phases : p = phase[r]
  BY PhasesAreNumbers DEF IInv, TypeOK, FindNothing, At
<1>2. /\ TypeOK /\ RunInv(r) /\ PairInv(r, p) /\ step[r] = "look" /\ SameCalls
      /\ saved[p] = None /\ UNCHANGED <<exit, had>> /\ faults' = faults
  BY <1>1 DEF IInv, FindNothing, At, SameCalls, disk, history
<1>3. p \notin had[r]
  BY <1>2, NoneApart DEF PairInv
<1>4. CASE replayOnly[r]
  <2>1. Push(r, AfterError(r, "blocked-by-state-error")) /\ faults' \in Nat
    BY <1>2, <1>4 DEF FindNothing, TypeOK
  <2> QED
    BY <1>1, <1>2, <1>3, <2>1, ErrorIInv DEF Errors
<1>5. CASE ~replayOnly[r]
  <2>1. Goto(r, "claim") /\ UNCHANGED <<phase, replayOnly, response, results>>
    BY <1>5 DEF FindNothing
  <2>2. /\ step'[r] = "claim" /\ step' \in [Runs -> Steps]
        /\ \A s \in Runs \ {r} : step'[s] = step[s]
    BY <1>2, <2>1, GotoFacts DEF Steps
  <2>3. OnlyRun(r) /\ TypeOK'
    BY <1>2, <2>1, <2>2 DEF OnlyRun, TypeOK, SameCalls
  <2>4. RunInv(r)'
    BY <1>1, <1>2, <1>3, <1>5, <2>1, <2>2 DEF RunInv, Paying
  <2>5. owner'[phase[r]] # r /\ step[r] \notin Paying
    BY <1>1, <1>2, NotYetPaid DEF SameCalls, Paying
  <2> QED
    BY <1>2, <2>1, <2>3, <2>4, <2>5, SameCallsKeep, StayIInv DEF SameCalls
<1> QED
  BY <1>4, <1>5

\* A new claim, also one whose run then fails.
LEMMA TakingKeeps ==
    ASSUME IInv, NEW r \in Runs, NEW p \in Phases, p \notin claimed,
           claimed' = claimed \cup {p}, owner' = [owner EXCEPT ![p] = r],
           UNCHANGED <<saved, sent, verdict>>
    PROVE  /\ KeepsOthers(r) /\ \A q \in Phases : PhaseInv(q)'
           /\ owner' \in [Phases -> Runs \cup {None}] /\ claimed' \subseteq Phases
           /\ owner'[p] = r /\ \A q \in Phases \ {p} : owner'[q] = owner[q]
           /\ sent[p] = 0 /\ verdict[p] = None
<1>1. TypeOK /\ PhaseInv(p)
  BY DEF IInv
<1>2. /\ owner' \in [Phases -> Runs \cup {None}] /\ claimed' \subseteq Phases
      /\ owner'[p] = r /\ \A q \in Phases \ {p} : owner'[q] = owner[q]
  BY <1>1 DEF TypeOK
<1>3. owner[p] = None /\ sent[p] = 0 /\ verdict[p] = None
  BY <1>1 DEF PhaseInv
<1>4. KeepsOthers(r)
  BY <1>2, <1>3 DEF KeepsOthers
<1>5. \A q \in Phases : PhaseInv(q)'
  BY <1>2 DEF IInv, PhaseInv
<1> QED
  BY <1>2, <1>3, <1>4, <1>5

LEMMA ClaimIInv == ASSUME IInv, NEW r \in Runs, Claim(r)
                   PROVE  IInv'
<1>1. TypeOK /\ RunInv(r) /\ step[r] = "claim"
  BY DEF IInv, Claim, At
<1>2. PICK p \in Phases : p = phase[r] /\ p \notin had[r] /\ ~replayOnly[r]
  BY <1>1 DEF RunInv
<1>3. UNCHANGED <<saved, sent, verdict, exit, had, faults>>
  BY DEF Claim
<1>4. CASE p \in claimed
  <2>1. Push(r, AfterError(r, "claim")) /\ SameCalls /\ faults' \in Nat
    BY <1>1, <1>2, <1>3, <1>4 DEF Claim, SameCalls, TypeOK
  <2> QED
    BY <1>1, <1>2, <1>3, <2>1, ErrorIInv DEF Errors
<1>5. CASE p \notin claimed
  <2>1. /\ claimed' = claimed \cup {p} /\ owner' = [owner EXCEPT ![p] = r]
        /\ Goto(r, "send") /\ UNCHANGED <<phase, replayOnly, response, results>>
    BY <1>2, <1>5 DEF Claim
  <2>2. /\ KeepsOthers(r) /\ \A q \in Phases : PhaseInv(q)'
        /\ owner' \in [Phases -> Runs \cup {None}] /\ claimed' \subseteq Phases
        /\ owner'[p] = r /\ \A q \in Phases \ {p} : owner'[q] = owner[q]
        /\ sent[p] = 0 /\ verdict[p] = None
    BY <1>3, <1>5, <2>1, TakingKeeps
  <2>3. /\ step'[r] = "send" /\ step' \in [Runs -> Steps]
        /\ \A s \in Runs \ {r} : step'[s] = step[s]
    BY <1>1, <2>1, GotoFacts DEF Steps
  <2>4. OnlyRun(r) /\ TypeOK'
    BY <1>1, <1>3, <2>1, <2>2, <2>3 DEF OnlyRun, TypeOK
  <2>5. RunInv(r)'
    BY <1>1, <1>2, <1>3, <2>1, <2>2, <2>3 DEF RunInv, Paying
  <2> QED
    BY <1>2, <1>3, <2>1, <2>2, <2>3, <2>4, <2>5, StayIInv DEF Paying
<1> QED
  BY <1>4, <1>5

LEMMA ClaimFailsIInv == ASSUME IInv, NEW r \in Runs, ClaimFails(r)
                        PROVE  IInv'
<1>1. TypeOK /\ RunInv(r) /\ step[r] = "claim"
  BY DEF IInv, ClaimFails, At
<1>2. PICK p \in Phases : p = phase[r] /\ p \notin had[r] /\ ~replayOnly[r] /\ p \notin claimed
  BY <1>1 DEF RunInv, ClaimFails
<1>3. UNCHANGED <<saved, sent, verdict, exit, had>> /\ faults' \in Nat
  BY <1>1, FaultType DEF ClaimFails, TypeOK
<1>4. Push(r, AfterError(r, "claim"))
  BY DEF ClaimFails
<1>5. CASE UNCHANGED <<claimed, owner>>
  BY <1>1, <1>2, <1>3, <1>4, <1>5, ErrorIInv DEF Errors, SameCalls
<1>6. CASE claimed' = claimed \cup {p} /\ owner' = [owner EXCEPT ![p] = r]
  <2>1. /\ KeepsOthers(r) /\ \A q \in Phases : PhaseInv(q)'
        /\ owner' \in [Phases -> Runs \cup {None}] /\ claimed' \subseteq Phases
        /\ owner'[p] = r /\ \A q \in Phases \ {p} : owner'[q] = owner[q]
        /\ sent[p] = 0 /\ verdict[p] = None
    BY ZenonT(30), <1>2, <1>3, <1>6, TakingKeeps
  <2>2. PICK result \in Result : result = AfterError(r, "claim") /\ Tells(r, p, result)
    BY <1>1, <1>2, ErrorTells DEF Errors
  <2>3. result.error # "none" /\ result.outcome = "uncredited"
    BY <1>1, <1>2, <2>2, NotYetPaid DEF AfterError
  <2>4. Tells(r, p, result)'
    BY <1>2, <1>3, <2>1, <2>3 DEF Tells
  <2>5. saved' \in [Phases -> Outcome \cup {None, Torn}]
    BY <1>1, <1>3 DEF TypeOK
  <2> QED
    BY <1>2, <1>3, <1>4, <2>1, <2>2, <2>3, <2>4, <2>5, PushIInv
<1> QED
  BY <1>2, <1>5, <1>6 DEF ClaimFails

LEMMA SendIInv == ASSUME IInv, NEW r \in Runs, Send(r)
                  PROVE  IInv'
<1>1. TypeOK /\ RunInv(r) /\ step[r] = "send" /\ r # None
  BY NoneApart DEF IInv, Send, At
<1>2. PICK p \in Phases : /\ p = phase[r] /\ p \notin had[r] /\ ~replayOnly[r] /\ owner[p] = r
                          /\ sent[p] = 0 /\ verdict[p] = None
  BY <1>1 DEF RunInv, Paying
<1>3. /\ UNCHANGED <<saved, claimed, owner, verdict, phase, replayOnly, response, results, exit, had, faults>>
      /\ sent' = [sent EXCEPT ![p] = sent[p] + 1] /\ Goto(r, "wait")
  BY <1>2 DEF Send, disk
<1>4. sent' \in [Phases -> Nat] /\ sent'[p] = 1 /\ \A q \in Phases \ {p} : sent'[q] = sent[q]
  BY <1>1, <1>2, <1>3 DEF TypeOK
<1>5. /\ step'[r] = "wait" /\ step' \in [Runs -> Steps]
      /\ \A s \in Runs \ {r} : step'[s] = step[s]
  BY <1>1, <1>3, GotoFacts DEF Steps
<1>6. OnlyRun(r) /\ KeepsOthers(r) /\ TypeOK'
  BY <1>1, <1>2, <1>3, <1>4, <1>5 DEF OnlyRun, KeepsOthers, TypeOK
<1>7. RunInv(r)'
  BY <1>1, <1>2, <1>3, <1>4, <1>5 DEF RunInv, Paying
<1>8. \A q \in Phases : PhaseInv(q)'
  BY <1>1, <1>2, <1>3, <1>4 DEF IInv, PhaseInv
<1> QED
  BY <1>3, <1>5, <1>6, <1>7, <1>8, StayIInv DEF Paying

LEMMA AnswerIInv == ASSUME IInv, NEW r \in Runs, Answer(r)
                    PROVE  IInv'
<1>1. TypeOK /\ RunInv(r) /\ step[r] = "wait" /\ r # None
  BY NoneApart DEF IInv, Answer, At
<1>2. PICK p \in Phases : /\ p = phase[r] /\ p \notin had[r] /\ ~replayOnly[r] /\ owner[p] = r
                          /\ sent[p] = 1 /\ verdict[p] = None
  BY <1>1 DEF RunInv, Paying
<1>3. PICK outcome \in Outcome : /\ response' = [response EXCEPT ![r] = outcome]
                                 /\ verdict' = [verdict EXCEPT ![p] = outcome]
  BY <1>2 DEF Answer
<1>4. /\ UNCHANGED <<saved, claimed, owner, sent, phase, replayOnly, results, exit, had, faults>>
      /\ Goto(r, "save")
  BY DEF Answer, disk
<1>5. /\ verdict' \in [Phases -> Outcome \cup {None}] /\ verdict'[p] = outcome
      /\ \A q \in Phases \ {p} : verdict'[q] = verdict[q]
      /\ response' \in [Runs -> Outcome \cup {None}] /\ response'[r] = outcome
      /\ \A s \in Runs \ {r} : response'[s] = response[s]
  BY <1>1, <1>3 DEF TypeOK
<1>6. /\ step'[r] = "save" /\ step' \in [Runs -> Steps]
      /\ \A s \in Runs \ {r} : step'[s] = step[s]
  BY <1>1, <1>4, GotoFacts DEF Steps
<1>7. OnlyRun(r) /\ KeepsOthers(r) /\ TypeOK'
  BY <1>1, <1>2, <1>4, <1>5, <1>6 DEF OnlyRun, KeepsOthers, TypeOK
<1>8. RunInv(r)'
  BY <1>1, <1>2, <1>4, <1>5, <1>6 DEF RunInv, Paying
<1>9. \A q \in Phases : PhaseInv(q)'
  <2>1. PhaseInv(p) /\ p \in claimed /\ saved[p] \notin Outcome
    BY <1>1, <1>2, NoneApart DEF IInv, PhaseInv
  <2> QED
    BY <1>2, <1>4, <1>5, <2>1 DEF IInv, PhaseInv
<1> QED
  BY <1>2, <1>4, <1>5, <1>6, <1>7, <1>8, <1>9, StayIInv DEF Paying

LEMMA CreateIInv == ASSUME IInv, NEW r \in Runs, Create(r)
                    PROVE  IInv'
<1>1. TypeOK /\ RunInv(r) /\ step[r] = "save" /\ r # None
  BY NoneApart DEF IInv, Create, At
<1>2. PICK p \in Phases : p = phase[r] /\ p \notin had[r] /\ ~replayOnly[r] /\ owner[p] = r
  BY <1>1 DEF RunInv, Paying
<1>3. /\ UNCHANGED <<claimed, owner, sent, verdict, phase, replayOnly, response, results, exit, had, faults>>
      /\ saved[p] = None /\ saved' = [saved EXCEPT ![p] = Torn] /\ Goto(r, "saving")
  BY <1>2 DEF Create, history
<1>4. /\ saved' \in [Phases -> Outcome \cup {None, Torn}] /\ saved'[p] = Torn
      /\ \A q \in Phases \ {p} : saved'[q] = saved[q]
  BY <1>1, <1>3 DEF TypeOK
<1>5. /\ step'[r] = "saving" /\ step' \in [Runs -> Steps]
      /\ \A s \in Runs \ {r} : step'[s] = step[s]
  BY <1>1, <1>3, GotoFacts DEF Steps
<1>6. OnlyRun(r) /\ KeepsOthers(r) /\ TypeOK'
  BY <1>1, <1>2, <1>3, <1>4, <1>5, NoneApart DEF OnlyRun, KeepsOthers, TypeOK
<1>7. RunInv(r)'
  BY <1>1, <1>2, <1>3, <1>4, <1>5 DEF RunInv, Paying
<1>8. \A q \in Phases : PhaseInv(q)'
  BY <1>3, <1>4, NoneApart DEF IInv, PhaseInv
<1> QED
  BY <1>2, <1>3, <1>5, <1>6, <1>7, <1>8, StayIInv DEF Paying

LEMMA SaveIInv == ASSUME IInv, NEW r \in Runs, Save(r)
                  PROVE  IInv'
<1>1. TypeOK /\ RunInv(r) /\ step[r] = "saving"
  BY DEF IInv, Save, At
<1>2. PICK p \in Phases : /\ p = phase[r] /\ p \notin had[r] /\ ~replayOnly[r] /\ owner[p] = r
                          /\ response[r] \in Outcome /\ verdict[p] = response[r] /\ saved[p] = Torn
  BY <1>1 DEF RunInv, Paying
<1>3. /\ UNCHANGED <<claimed, owner, sent, verdict, exit, had, faults>>
      /\ saved' = [saved EXCEPT ![p] = response[r]]
  BY <1>2 DEF Save, history
<1>4. PICK result \in Result : result = [outcome |-> response[r], replay |-> FALSE, error |-> "none"]
  BY <1>2 DEF Result, Errors
<1>5. Push(r, result) /\ result.outcome = verdict[p] /\ result.error = "none"
  BY <1>2, <1>4 DEF Save
<1>6. Tells(r, p, result)'
  BY <1>2, <1>3, <1>5 DEF Tells
<1>7. /\ saved' \in [Phases -> Outcome \cup {None, Torn}] /\ saved'[p] = response[r]
      /\ \A q \in Phases \ {p} : saved'[q] = saved[q]
  BY <1>1, <1>2, <1>3 DEF TypeOK
<1>8. KeepsOthers(r)
  BY <1>2, <1>3, <1>7, NoneApart DEF KeepsOthers
<1>9. \A q \in Phases : PhaseInv(q)'
  BY <1>2, <1>3, <1>7 DEF IInv, PhaseInv
<1> QED
  BY <1>1, <1>2, <1>3, <1>5, <1>6, <1>7, <1>8, <1>9, PushIInv DEF TypeOK

\* A run that has passed every phase says of each what its call returned.
LEMMA AllTold ==
    ASSUME IInv, NEW r \in Runs, phase[r] = Last + 1, NEW p \in Phases
    PROVE  Tells(r, p, results[r][p])
<1>1. PairInv(r, p) /\ p < phase[r]
  BY ConstantsAssumption DEF IInv, Phases
<1> QED
  BY <1>1 DEF PairInv

LEMMA FinishIInv == ASSUME IInv, NEW r \in Runs, Finish(r)
                    PROVE  IInv'
<1>1. TypeOK /\ RunInv(r) /\ step[r] = "look" /\ phase[r] = Last + 1 /\ SameCalls
  BY DEF IInv, Finish, SameCalls, disk, history
<1>2. /\ UNCHANGED <<phase, replayOnly, response, results, had, faults>>
      /\ exit' = [exit EXCEPT ![r] = ExitOf(r)] /\ Goto(r, "done")
  BY DEF Finish, history
<1>3. /\ step'[r] = "done" /\ step' \in [Runs -> Steps]
      /\ \A s \in Runs \ {r} : step'[s] = step[s]
  BY <1>1, <1>2, GotoFacts DEF Steps
<1>4. ExitOf(r) \in {"error", "uncredited", "findings", "clean"}
  BY DEF ExitOf
<1>5. /\ exit' \in [Runs -> {None, "error", "uncredited", "findings", "clean"}]
      /\ exit'[r] = ExitOf(r) /\ \A s \in Runs \ {r} : exit'[s] = exit[s]
  BY <1>1, <1>2, <1>4 DEF TypeOK
<1>6. ASSUME NEW p \in Phases, ExitOf(r) = "clean"
      PROVE  verdict[p] = "clean"
  <2>1. /\ {results[r][q].error : q \in Phases} = {"none"}
        /\ "uncredited" \notin {results[r][q].outcome : q \in Phases}
        /\ "findings" \notin {results[r][q].outcome : q \in Phases}
    BY <1>6 DEF ExitOf
  <2>2. results[r][p].error = "none" /\ results[r][p].outcome \notin {"uncredited", "findings"}
    BY <2>1
  <2>3. Tells(r, p, results[r][p])
    BY <1>1, AllTold
  <2>4. results[r][p].outcome \in Outcome /\ results[r][p].outcome = verdict[p]
    BY <2>2, <2>3 DEF Tells, Result
  <2> QED
    BY <2>2, <2>4 DEF Outcome
<1>7. OnlyRun(r) /\ TypeOK'
  BY <1>1, <1>2, <1>3, <1>5 DEF OnlyRun, TypeOK, SameCalls
<1>8. RunInv(r)'
  BY <1>1, <1>2, <1>3 DEF RunInv, Paying
<1>9. ASSUME NEW p \in Phases
      PROVE  PairInv(r, p)'
  <2>1. PairInv(r, p) /\ p < phase[r]
    BY <1>1, ConstantsAssumption DEF IInv, Phases
  <2>2. Tells(r, p, results[r][p])'
    BY <1>2, <2>1 DEF PairInv, Tells, SameCalls, Finish, disk, history
  <2>3. exit'[r] = "clean" => verdict'[p] = "clean"
    BY <1>1, <1>5, <1>6 DEF SameCalls
  <2> QED
    BY <1>1, <1>2, <2>1, <2>2, <2>3 DEF PairInv, SameCalls
<1>10. NoCallAfterStateError'
  BY <1>2 DEF IInv, NoCallAfterStateError
<1> QED
  BY <1>1, <1>7, <1>8, <1>9, <1>10, SameCallsKeep, RunStepInv

LEMMA KillIInv == ASSUME IInv, NEW r \in Runs, Kill(r)
                  PROVE  IInv'
<1>1. TypeOK /\ RunInv(r) /\ SameCalls
  BY DEF IInv, Kill, SameCalls, disk, history
<1>2. /\ UNCHANGED <<phase, replayOnly, response, results, had, exit>> /\ Goto(r, "dead")
      /\ faults' \in Nat
  BY <1>1, FaultType DEF Kill, history, TypeOK
<1>3. /\ step'[r] = "dead" /\ step' \in [Runs -> Steps]
      /\ \A s \in Runs \ {r} : step'[s] = step[s]
  BY <1>1, <1>2, GotoFacts DEF Steps
<1>4. OnlyRun(r) /\ TypeOK'
  BY <1>1, <1>2, <1>3 DEF OnlyRun, TypeOK, SameCalls
<1>5. RunInv(r)'
  BY <1>3 DEF RunInv, Paying
<1> QED
  BY <1>1, <1>2, <1>3, <1>4, <1>5, SameCallsKeep, StayIInv DEF SameCalls

LEMMA NextIInv == IInv /\ [Next]_vars => IInv'
<1> SUFFICES ASSUME IInv, [Next]_vars
             PROVE  IInv'
  OBVIOUS
<1>1. ASSUME NEW r \in Runs, RunStep(r)
      PROVE  IInv'
  BY <1>1, BeginIInv, ReadSavedIInv, FindNothingIInv, ClaimIInv, SendIInv, AnswerIInv,
     CreateIInv, SaveIInv, FinishIInv DEF RunStep
<1>2. ASSUME NEW r \in Runs, ReadFails(r) \/ ClaimFails(r) \/ SendThrows(r) \/ SaveFails(r) \/ Kill(r)
      PROVE  IInv'
  BY <1>2, ReadFailsIInv, ClaimFailsIInv, SendThrowsIInv, SaveFailsIInv, KillIInv
<1>3. CASE UNCHANGED vars
  <2>1. TypeOK' /\ NoCallAfterStateError'
    BY <1>3 DEF vars, IInv, TypeOK, NoCallAfterStateError
  <2>2. \A p \in Phases : PhaseInv(p)'
    BY <1>3 DEF vars, IInv, PhaseInv
  <2>3. \A r \in Runs : RunInv(r)'
    BY <1>3 DEF vars, IInv, RunInv
  <2>4. \A r \in Runs, p \in Phases : PairInv(r, p)'
    BY <1>3 DEF vars, IInv, PairInv, Tells
  <2> QED
    BY <2>1, <2>2, <2>3, <2>4 DEF IInv
<1> QED
  BY <1>1, <1>2, <1>3 DEF Next

\* IInv holds in every reachable state.
THEOREM Invariance == Spec => []IInv
BY InitIInv, NextIInv, PTL DEF Spec

(***************************************************************************)
(* Consequences.                                                           *)
(***************************************************************************)

\* Every file, response, result and exit code has the type the code gives it.
THEOREM TypeCorrect == Spec => []TypeOK
<1>1. IInv => TypeOK
  BY DEF IInv
<1> QED
  BY <1>1, Invariance, PTL

\* However many invocations overlap or die, no phase is paid for twice.
THEOREM PaidOnce == Spec => [](\A p \in Phases : sent[p] <= 1)
<1>1. IInv => \A p \in Phases : sent[p] <= 1
  BY DEF IInv, PhaseInv
<1> QED
  BY <1>1, Invariance, PTL

\* After a state error a run only replays what is saved.
THEOREM NoFurtherCall == Spec => []NoCallAfterStateError
<1>1. IInv => NoCallAfterStateError
  BY DEF IInv
<1> QED
  BY <1>1, Invariance, PTL

\* Neither a result saved before the run began nor one it could not save is lost on the
\* way to the caller.
THEOREM OutcomesSurface == Spec => []PaidOutcomesSurface
<1>1. ASSUME IInv, NEW r \in Runs, NEW p \in Phases, step[r] = "done"
      PROVE  Tells(r, p, results[r][p])
  <2>1. phase[r] = Last + 1
    BY <1>1 DEF IInv, RunInv
  <2> QED
    BY <1>1, <2>1, AllTold
<1>2. IInv => SavedResultsSurface
  <2> SUFFICES ASSUME IInv, NEW r \in Runs, step[r] = "done", NEW p \in had[r]
               PROVE  \/ results[r][p].error = "read-result"
                      \/ results[r][p] = [outcome |-> verdict[p], replay |-> TRUE, error |-> "none"]
    BY DEF SavedResultsSurface
  <2>1. p \in Phases
    BY DEF IInv, TypeOK
  <2> QED
    BY <1>1, <2>1 DEF Tells
<1>3. IInv => PaidResultReported
  BY <1>1 DEF PaidResultReported, Tells
<1>4. IInv => PaidOutcomesSurface
  BY <1>2, <1>3 DEF PaidOutcomesSurface
<1> QED
  BY <1>4, Invariance, PTL

\* A clean exit rests on a clean answer to every phase.
THEOREM CleanExitEarned == Spec => []CleanExitIsEarned
<1>1. IInv => CleanExitIsEarned
  BY DEF IInv, PairInv, CleanExitIsEarned
<1> QED
  BY <1>1, Invariance, PTL

(***************************************************************************)
(* The invocations implement PaidCalls.                                    *)
(***************************************************************************)

\* Nothing PaidCalls sees has changed.
Unseen == UNCHANGED <<claimed, sent, VerdictView, ReportView>>

LEMMA UnseenStutters == Unseen => UNCHANGED Calls!vars
BY DEF Unseen, Calls!vars

LEMMA CreditFacts ==
    /\ \A none : Credit(None, none) = None
    /\ \A none : Credit("uncredited", none) = none
    /\ \A outcome \in {"clean", "findings"} : \A none : Credit(outcome, none) = "credited"
BY NoneApart DEF Credit, Outcome

\* A step of a run that does not end, seen from outside.
Inside(r) == \/ \E s \in Steps \ {"done"} : Goto(r, s) /\ UNCHANGED results
             \/ \E result : Push(r, result)

LEMMA InsideUntold ==
    ASSUME TypeOK, NEW r \in Runs, step[r] # "done", Inside(r)
    PROVE  ReportView' = ReportView
<1>1. /\ step'[r] # "done"
      /\ \A s \in Runs \ {r} : step'[s] = step[s] /\ results'[s] = results[s]
  BY DEF TypeOK, Inside, Goto, Push, Steps
<1>2. ASSUME NEW s \in Runs
      PROVE  (IF step[s] # "done" THEN None
              ELSE [p \in Phases |-> Credit(results[s][p].outcome, "host")])'
             = IF step[s] # "done" THEN None
               ELSE [p \in Phases |-> Credit(results[s][p].outcome, "host")]
  BY <1>1
<1> QED
  BY <1>2 DEF ReportView

LEMMA ViewKept == UNCHANGED verdict => VerdictView' = VerdictView
BY DEF VerdictView

LEMMA SendSends == ASSUME IInv, NEW r \in Runs, Send(r)
                   PROVE  \E p \in Phases : Calls!Send(p)
<1>1. RunInv(r) /\ TypeOK /\ step[r] = "send"
  BY DEF IInv, Send, At
<1>2. PICK p \in Phases : p = phase[r] /\ owner[p] = r /\ sent[p] = 0 /\ verdict[p] = None
  BY <1>1 DEF RunInv, Paying
<1>3. p \in claimed
  BY <1>2, NoneApart DEF IInv, PhaseInv
<1>4. VerdictView[p] = None
  BY <1>2, CreditFacts DEF VerdictView
<1>5. sent' = [sent EXCEPT ![p] = 1] /\ UNCHANGED <<claimed, verdict>>
  BY <1>2 DEF Send, disk
<1>6. Inside(r)
  BY DEF Send, Inside, Steps
<1> QED
  BY <1>1, <1>2, <1>3, <1>4, <1>5, <1>6, InsideUntold, ViewKept DEF Calls!Send

LEMMA AnswerSettles == ASSUME IInv, NEW r \in Runs, Answer(r)
                       PROVE  \E S \in SUBSET Phases : Calls!Settle(S)
<1>1. RunInv(r) /\ TypeOK /\ step[r] = "wait"
  BY DEF IInv, Answer, At
<1>2. PICK p \in Phases : p = phase[r] /\ owner[p] = r /\ sent[p] = 1 /\ verdict[p] = None
  BY <1>1 DEF RunInv, Paying
<1>3. p \in claimed
  BY <1>2, NoneApart DEF IInv, PhaseInv
<1>4. VerdictView[p] = None
  BY <1>2, CreditFacts DEF VerdictView
<1>5. PICK outcome \in Outcome : verdict' = [verdict EXCEPT ![p] = outcome]
  BY <1>2 DEF Answer
<1>6. verdict'[p] = outcome /\ \A q \in Phases \ {p} : verdict'[q] = verdict[q]
  BY <1>1, <1>5 DEF TypeOK
<1> DEFINE v == [q \in {p} |-> Credit(outcome, "spent")]
<1>7. v \in [{p} -> Calls!Settled]
  BY CreditFacts DEF Outcome, Calls!Settled
<1>8. VerdictView' = [q \in Phases |-> IF q \in {p} THEN v[q] ELSE VerdictView[q]]
  <2>1. \A q \in Phases : Credit(verdict'[q], "spent") = IF q \in {p} THEN v[q] ELSE Credit(verdict[q], "spent")
    BY <1>6
  <2> QED
    BY <2>1 DEF VerdictView
<1>9. Inside(r) /\ UNCHANGED <<claimed, sent>>
  BY DEF Answer, Inside, Steps, disk
<1>10. UNCHANGED <<claimed, sent, ReportView>>
  BY <1>1, <1>9, InsideUntold
<1> HIDE DEF v
<1>11. Calls!Settle({p})
  BY <1>2, <1>3, <1>4, <1>7, <1>8, <1>10 DEF Calls!Settle
<1> QED
  BY <1>11

LEMMA FinishTells == ASSUME IInv, NEW r \in Runs, Finish(r)
                     PROVE  \E report \in Calls!Report : Calls!Tell(r, report)
<1>1. TypeOK /\ step[r] = "look" /\ phase[r] = Last + 1 /\ UNCHANGED <<claimed, sent, verdict, results>>
  BY DEF IInv, Finish, disk, history
<1>2. step'[r] = "done" /\ \A s \in Runs \ {r} : step'[s] = step[s]
  BY <1>1, GotoFacts DEF Finish, Steps
<1> DEFINE report == [p \in Phases |-> Credit(results[r][p].outcome, "host")]
<1>3. ASSUME NEW p \in Phases
      PROVE  report[p] \in {"host", VerdictView[p]} /\ report[p] \in {"host", "credited"}
  <2>1. Tells(r, p, results[r][p])
    BY <1>1, AllTold
  <2>2. CASE results[r][p].outcome = "uncredited"
    BY <2>2, CreditFacts
  <2>3. CASE results[r][p].outcome # "uncredited"
    <3>1. results[r][p].outcome \in {"clean", "findings"} /\ results[r][p].outcome = verdict[p]
      BY <2>1, <2>3 DEF Tells, Result, Outcome
    <3> QED
      BY <3>1, CreditFacts DEF VerdictView
  <2> QED
    BY <2>2, <2>3
<1>4. report \in Calls!Report
  BY <1>3 DEF Calls!Report, Calls!Settled
<1>5. ReportView[r] = None
  BY <1>1 DEF ReportView
<1>6. ReportView' = [ReportView EXCEPT ![r] = report]
  BY <1>1, <1>2 DEF ReportView
<1> HIDE DEF report
<1> QED
  BY <1>1, <1>3, <1>4, <1>5, <1>6, ViewKept DEF Calls!Tell

\* Every step of the runs is a step of PaidCalls or leaves what it sees alone.
LEMMA StepImplements == IInv /\ [Next]_vars => [Calls!Next]_Calls!vars
<1> SUFFICES ASSUME IInv, [Next]_vars
             PROVE  Calls!Next \/ Unseen
  BY UnseenStutters
<1>1. TypeOK
  BY DEF IInv
<1>2. ASSUME NEW r \in Runs, step[r] # "done", Inside(r), UNCHANGED <<claimed, sent, verdict>>
      PROVE  Unseen
  BY <1>1, <1>2, InsideUntold, ViewKept DEF Unseen
<1>3. ASSUME NEW r \in Runs, Begin(r) \/ ReadSaved(r) \/ FindNothing(r) \/ Create(r) \/ Save(r)
      PROVE  Unseen
  <2>1. step[r] # "done" /\ UNCHANGED <<claimed, sent, verdict>>
    BY <1>3 DEF Begin, ReadSaved, FindNothing, Create, Save, At, disk, history
  <2>2. Inside(r)
    <3>1. CASE Begin(r) \/ FindNothing(r) \/ Create(r)
      BY <3>1 DEF Begin, FindNothing, Create, Inside, Steps
    <3>2. CASE ReadSaved(r) \/ Save(r)
      BY <3>2 DEF ReadSaved, Save, Inside
    <3> QED
      BY <1>3, <3>1, <3>2
  <2> QED
    BY <1>2, <2>1, <2>2
<1>4. ASSUME NEW r \in Runs, Claim(r) \/ ClaimFails(r)
      PROVE  Calls!Next \/ Unseen
  <2>1. /\ step[r] = "claim" /\ phase[r] \in Phases /\ UNCHANGED <<sent, verdict>>
        /\ UNCHANGED claimed \/ (phase[r] \notin claimed /\ claimed' = claimed \cup {phase[r]})
    BY <1>4 DEF IInv, RunInv, Claim, ClaimFails, At
  <2>2. Inside(r)
    <3>1. CASE Claim(r)
      BY <3>1 DEF Claim, Inside, Steps
    <3>2. CASE ClaimFails(r)
      BY <3>2 DEF ClaimFails, Inside
    <3> QED
      BY <1>4, <3>1, <3>2
  <2>3. ReportView' = ReportView /\ VerdictView' = VerdictView
    BY <1>1, <2>1, <2>2, InsideUntold, ViewKept
  <2>4. Unseen \/ Calls!Claim(phase[r])
    BY <2>1, <2>3 DEF Unseen, Calls!Claim
  <2> QED
    BY <2>1, <2>4 DEF Calls!Next
<1>5. ASSUME NEW r \in Runs, ReadFails(r) \/ SendThrows(r) \/ SaveFails(r) \/ Kill(r)
      PROVE  Unseen
  <2>1. step[r] # "done" /\ UNCHANGED <<claimed, sent, verdict>>
    BY <1>5 DEF ReadFails, SendThrows, SaveFails, Kill, At, disk, history
  <2>2. Inside(r)
    <3>1. CASE Kill(r)
      BY <3>1 DEF Kill, Inside, Steps
    <3>2. CASE ReadFails(r) \/ SendThrows(r) \/ SaveFails(r)
      BY <3>2 DEF ReadFails, SendThrows, SaveFails, Inside
    <3> QED
      BY <1>5, <3>1, <3>2
  <2> QED
    BY <1>2, <2>1, <2>2
<1>6. CASE UNCHANGED vars
  BY <1>6 DEF vars, Unseen, VerdictView, ReportView
<1>7. ASSUME NEW r \in Runs, Send(r) \/ Answer(r) \/ Finish(r)
      PROVE  Calls!Next
  BY <1>7, SendSends, AnswerSettles, FinishTells DEF Calls!Next
<1> QED
  BY <1>3, <1>4, <1>5, <1>6, <1>7 DEF Next, RunStep

\* Invocations that share a request directory keep the promise of PaidCalls: one claim, one
\* send, one verdict, and no report but the host's or the verdict.
THEOREM Implements == Spec => ImplementsPaidCalls
<1>1. Init => Calls!Init
  BY CreditFacts DEF Init, Calls!Init, VerdictView, ReportView
<1>2. QED
  BY <1>1, StepImplements, Invariance, PTL DEF Spec, ImplementsPaidCalls, Calls!Spec

=============================================================================
