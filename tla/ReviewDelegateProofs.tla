----------------------- MODULE ReviewDelegateProofs -----------------------
(***************************************************************************)
(* Proofs about ReviewDelegate for any set of runs, parts and trees and    *)
(* any number of writes and faults.                                        *)
(***************************************************************************)
EXTENDS ReviewDelegate, TLAPS

(***************************************************************************)
(* The inductive invariant.  That a call is sent once rests on who owns    *)
(* its claim; that a credit is earned rests on what the check found, which *)
(* the run holds, then the file, then whoever replays the file.            *)
(***************************************************************************)

Owning == {"claimed", "running"} \cup Dispatched

\* How a call comes out, from its reply and from what the check found.
Came(value, dirty) ==
    IF dirty THEN "discarded" ELSE IF value.outcome = "credited" THEN "credited" ELSE "spent"

\* What run r's place in part p says about p's call.
PairInv(r, p) ==
    /\ at[r][p] \in Owning => owner[p] = r
    /\ at[r][p] = "claimed" => sent[p] = 0 /\ verdict[p] = None
    /\ at[r][p] = "running" => sent[p] = 1 /\ verdict[p] = None
    /\ at[r][p] \in Dispatched => /\ got[r][p] \in Saved
                                  /\ got[r][p].outcome = "credited" => sent[p] = 1
    /\ at[r][p] = "replayed" => /\ got[r][p] \in Saved
                                /\ verdict[p] = Came(got[r][p], got[r][p].changed)
    /\ phase[r] \in {"start", "refused"} => at[r][p] = "todo"
    /\ phase[r] = "calls" => at[r][p] \notin Saving
    /\ phase[r] = "calls" /\ at[r][p] = "returned" => verdict[p] = None
    /\ phase[r] \in {"save", "printed"} /\ at[r][p] \in Dispatched
          => verdict[p] = Came(got[r][p], changed[r])

\* What the directory and the history say of one call.
PartInv(p) ==
    /\ p \notin claimed => owner[p] = None /\ sent[p] = 0 /\ verdict[p] = None
    /\ sent[p] \in {0, 1}
    /\ saved[p] \notin {None, Torn} => verdict[p] = Came(saved[p], saved[p].changed)

RunInv(r) ==
    report[r] = IF phase[r] = "printed" THEN [p \in Parts |-> ReportOf(r, p)] ELSE None

IInv ==
    /\ TypeOK
    /\ \A r \in Runs, p \in Parts : PairInv(r, p)
    /\ \A p \in Parts : PartInv(p)
    /\ \A r \in Runs : RunInv(r)

LEMMA CameIsNotNone == ASSUME NEW v, NEW d PROVE Came(v, d) # None
BY ConstantsAssumption DEF Came

LEMMA NoRunIsNone == None \notin Runs
BY ConstantsAssumption

LEMMA FaultType == ASSUME faults \in 0 .. MaxFaults, Fault
                   PROVE  faults' \in 0 .. MaxFaults
BY ConstantsAssumption DEF Fault

(***************************************************************************)
(* The frame of a step of one part.                                        *)
(***************************************************************************)

\* Only part p of run r moves.
OnlyPair(r, p) ==
    /\ \A s \in Runs, q \in Parts : s # r \/ q # p =>
          at'[s][q] = at[s][q] /\ got'[s][q] = got[s][q]
    /\ UNCHANGED <<phase, changed, report, verdict>>
    /\ \A q \in Parts \ {p} :
          /\ owner'[q] = owner[q] /\ sent'[q] = sent[q] /\ saved'[q] = saved[q]
          /\ q \in claimed' <=> q \in claimed

\* No other run relies on what the step does to p's call.
OthersApart(r, p) ==
    \/ UNCHANGED <<owner, sent>>
    \/ \A s \in Runs \ {r} : at[s][p] \notin Owning

LEMMA PairStep ==
    ASSUME IInv, NEW r \in Runs, NEW p \in Parts, phase[r] \in {"calls", "save"},
           OnlyPair(r, p), OthersApart(r, p), TypeOK', PairInv(r, p)', PartInv(p)'
    PROVE  IInv'
<1>1. ASSUME NEW s \in Runs, NEW q \in Parts
      PROVE  PairInv(s, q)'
  <2>1. CASE s = r /\ q = p
    BY <2>1
  <2>2. CASE s # r \/ q # p
    <3>1. PairInv(s, q)
      BY DEF IInv
    <3>2. at'[s][q] = at[s][q] /\ got'[s][q] = got[s][q] /\ phase' = phase
          /\ changed' = changed /\ verdict' = verdict
      BY <2>2 DEF OnlyPair
    <3>3. CASE owner'[q] = owner[q] /\ sent'[q] = sent[q]
      BY <3>1, <3>2, <3>3 DEF PairInv
    <3>4. CASE ~(owner'[q] = owner[q] /\ sent'[q] = sent[q])
      <4>1. at[s][q] \notin Owning
        BY <2>2, <3>4 DEF OnlyPair, OthersApart
      <4> QED
        BY <3>1, <3>2, <4>1 DEF PairInv, Owning
    <3> QED
      BY <3>3, <3>4
  <2> QED
    BY <2>1, <2>2
<1>2. ASSUME NEW q \in Parts
      PROVE  PartInv(q)'
  BY <1>2 DEF IInv, PartInv, OnlyPair
<1>3. ASSUME NEW s \in Runs
      PROVE  RunInv(s)'
  <2>1. RunInv(s)
    BY DEF IInv
  <2>2. CASE s = r
    BY <2>1, <2>2 DEF RunInv, OnlyPair
  <2>3. CASE s # r
    <3>1. \A q \in Parts : at'[s][q] = at[s][q] /\ got'[s][q] = got[s][q]
      BY <2>3 DEF OnlyPair
    <3>2. \A q \in Parts : ReportOf(s, q)' = ReportOf(s, q)
      BY <3>1 DEF OnlyPair, ReportOf
    <3> QED
      BY <2>1, <3>2 DEF RunInv, OnlyPair
  <2> QED
    BY <2>2, <2>3
<1> QED
  BY <1>1, <1>2, <1>3 DEF IInv

LEMMA MoveFacts ==
    ASSUME TypeOK, NEW r \in Runs, NEW p \in Parts, NEW step, Move(r, p, step)
    PROVE  /\ at'[r][p] = step
           /\ \A s \in Runs, q \in Parts : s # r \/ q # p => at'[s][q] = at[s][q]
           /\ step \in Starting \cup {"running"} \cup Finished \cup Saving
                 => at' \in [Runs -> [Parts -> Starting \cup {"running"} \cup Finished \cup Saving]]
BY DEF TypeOK, Move

LEMMA GotFacts ==
    ASSUME TypeOK, NEW r \in Runs, NEW p \in Parts, NEW v \in Saved,
           got' = [got EXCEPT ![r][p] = v]
    PROVE  /\ got'[r][p] = v
           /\ \A s \in Runs, q \in Parts : s # r \/ q # p => got'[s][q] = got[s][q]
           /\ got' \in [Runs -> [Parts -> Saved \cup {None}]]
BY DEF TypeOK

(***************************************************************************)
(* Initial states, and one lemma per action of a part.                     *)
(***************************************************************************)

LEMMA InitIInv == Init => IInv
<1> SUFFICES ASSUME Init
             PROVE  IInv
  OBVIOUS
<1>1. TypeOK
  BY ConstantsAssumption DEF Init, TypeOK, Starting
<1>2. \A r \in Runs, p \in Parts : PairInv(r, p)
  BY DEF Init, PairInv, Owning, Dispatched, Saving
<1>3. \A p \in Parts : PartInv(p)
  BY DEF Init, PartInv
<1>4. \A r \in Runs : RunInv(r)
  BY DEF Init, RunInv
<1> QED
  BY <1>1, <1>2, <1>3, <1>4 DEF IInv

LEMMA ReadSavedIInv == ASSUME IInv, NEW r \in Runs, NEW p \in Parts, ReadSaved(r, p)
                       PROVE  IInv'
<1>1. TypeOK /\ PairInv(r, p) /\ PartInv(p)
  BY DEF IInv
<1>2. CASE saved[p] = Torn
  <2>1. Move(r, p, "unreadable") /\ UNCHANGED got
    BY <1>2 DEF ReadSaved
  <2>2. OnlyPair(r, p) /\ OthersApart(r, p)
    BY <1>1, <2>1, MoveFacts DEF ReadSaved, OnlyPair, OthersApart, disk, history
  <2>3. TypeOK'
    BY <1>1, <2>1, MoveFacts DEF ReadSaved, TypeOK, disk, history, Finished
  <2>4. PairInv(r, p)' /\ PartInv(p)'
    BY <1>1, <2>1, MoveFacts DEF ReadSaved, PairInv, PartInv, disk, history, Turn, Owning, Dispatched, Saving
  <2> QED
    BY <2>2, <2>3, <2>4, PairStep DEF ReadSaved, Turn
<1>3. CASE saved[p] # Torn
  <2>1. Move(r, p, "replayed") /\ got' = [got EXCEPT ![r][p] = saved[p]]
    BY <1>3 DEF ReadSaved
  <2>2. saved[p] \in Saved /\ verdict[p] = Came(saved[p], saved[p].changed)
    BY <1>1, <1>3 DEF ReadSaved, TypeOK, PartInv
  <2>3. OnlyPair(r, p) /\ OthersApart(r, p)
    BY <1>1, <2>1, <2>2, MoveFacts, GotFacts
       DEF ReadSaved, OnlyPair, OthersApart, disk, history
  <2>4. TypeOK'
    BY <1>1, <2>1, <2>2, MoveFacts, GotFacts DEF ReadSaved, TypeOK, disk, history, Finished
  <2>5. at'[r][p] = "replayed" /\ got'[r][p] = saved[p]
    <3>1. at'[r][p] = "replayed"
      BY <1>1, <2>1, MoveFacts
    <3>2. got'[r][p] = saved[p]
      BY <1>1, <2>1, <2>2, GotFacts
    <3> QED
      BY <3>1, <3>2
  <2>6. PairInv(r, p)'
    BY <1>1, <2>2, <2>5
       DEF ReadSaved, PairInv, disk, history, Turn, Owning, Dispatched, Saving
  <2>7. PartInv(p)'
    BY <1>1 DEF ReadSaved, PartInv, disk, history
  <2> QED
    BY <2>3, <2>4, <2>6, <2>7, PairStep DEF ReadSaved, Turn
<1> QED
  BY <1>2, <1>3

LEMMA ReadFailsIInv == ASSUME IInv, NEW r \in Runs, NEW p \in Parts, ReadFails(r, p)
                       PROVE  IInv'
<1>1. TypeOK /\ PairInv(r, p) /\ PartInv(p)
  BY DEF IInv
<1>2. Move(r, p, "unreadable")
  BY DEF ReadFails
<1>3. OnlyPair(r, p) /\ OthersApart(r, p)
  BY <1>1, <1>2, MoveFacts DEF ReadFails, OnlyPair, OthersApart, disk, history
<1>4. TypeOK'
  BY <1>1, <1>2, MoveFacts, FaultType DEF ReadFails, TypeOK, disk, history, Finished
<1>5. PairInv(r, p)' /\ PartInv(p)'
  BY <1>1, <1>2, MoveFacts
     DEF ReadFails, PairInv, PartInv, disk, history, Turn, Owning, Dispatched, Saving
<1> QED
  BY <1>3, <1>4, <1>5, PairStep DEF ReadFails, Turn

LEMMA FindNothingIInv == ASSUME IInv, NEW r \in Runs, NEW p \in Parts, FindNothing(r, p)
                         PROVE  IInv'
<1>1. TypeOK /\ PairInv(r, p) /\ PartInv(p)
  BY DEF IInv
<1>2. Move(r, p, "absent")
  BY DEF FindNothing
<1>3. OnlyPair(r, p) /\ OthersApart(r, p)
  BY <1>1, <1>2, MoveFacts DEF FindNothing, OnlyPair, OthersApart, disk, history
<1>4. TypeOK'
  BY <1>1, <1>2, MoveFacts DEF FindNothing, TypeOK, disk, history, Starting
<1>5. PairInv(r, p)' /\ PartInv(p)'
  BY <1>1, <1>2, MoveFacts
     DEF FindNothing, PairInv, PartInv, disk, history, Turn, Owning, Dispatched, Saving
<1> QED
  BY <1>3, <1>4, <1>5, PairStep DEF FindNothing, Turn

\* Nobody owns an unclaimed call.
LEMMA Unclaimed == ASSUME IInv, NEW p \in Parts, p \notin claimed
                   PROVE  /\ \A s \in Runs : at[s][p] \notin Owning
                          /\ sent[p] = 0 /\ verdict[p] = None
BY NoRunIsNone DEF IInv, PairInv, PartInv

LEMMA ClaimCallIInv == ASSUME IInv, NEW r \in Runs, NEW p \in Parts, ClaimCall(r, p)
                       PROVE  IInv'
<1>1. TypeOK /\ PairInv(r, p) /\ PartInv(p)
  BY DEF IInv
<1>2. Move(r, p, "claimed") /\ p \notin claimed
  BY DEF ClaimCall
<1>3. OnlyPair(r, p) /\ OthersApart(r, p)
  <2>1. OthersApart(r, p)
    BY <1>2, Unclaimed DEF OthersApart
  <2>2. owner' = [owner EXCEPT ![p] = r] /\ claimed' = claimed \cup {p}
    BY DEF ClaimCall
  <2>3. \A s \in Runs, q \in Parts : s # r \/ q # p => at'[s][q] = at[s][q]
    BY <1>1, <1>2, MoveFacts
  <2> QED
    BY <2>1, <2>2, <2>3 DEF ClaimCall, OnlyPair
<1>4. TypeOK'
  BY <1>1, <1>2, MoveFacts DEF ClaimCall, TypeOK, Starting
<1>5. PairInv(r, p)' /\ PartInv(p)'
  <2>1. at'[r][p] = "claimed" /\ sent[p] = 0 /\ verdict[p] = None
    BY <1>1, <1>2, MoveFacts, Unclaimed
  <2>2. owner'[p] = r /\ p \in claimed'
    BY <1>1 DEF ClaimCall, TypeOK
  <2>3. PairInv(r, p)'
    BY <2>1, <2>2 DEF ClaimCall, PairInv, Turn, Dispatched, Saving
  <2>4. PartInv(p)'
    BY <1>1, <2>2 DEF ClaimCall, PartInv
  <2> QED
    BY <2>3, <2>4
<1> QED
  BY <1>3, <1>4, <1>5, PairStep DEF ClaimCall, Turn

LEMMA ClaimTakenIInv == ASSUME IInv, NEW r \in Runs, NEW p \in Parts, ClaimTaken(r, p)
                        PROVE  IInv'
<1>1. TypeOK /\ PairInv(r, p) /\ PartInv(p)
  BY DEF IInv
<1>2. Move(r, p, "unresolved")
  BY DEF ClaimTaken
<1>3. OnlyPair(r, p) /\ OthersApart(r, p)
  BY <1>1, <1>2, MoveFacts DEF ClaimTaken, OnlyPair, OthersApart, disk, history
<1>4. TypeOK'
  BY <1>1, <1>2, MoveFacts DEF ClaimTaken, TypeOK, disk, history, Finished
<1>5. PairInv(r, p)' /\ PartInv(p)'
  BY <1>1, <1>2, MoveFacts
     DEF ClaimTaken, PairInv, PartInv, disk, history, Turn, Owning, Dispatched, Saving
<1> QED
  BY <1>3, <1>4, <1>5, PairStep DEF ClaimTaken, Turn

LEMMA ClaimFailsIInv == ASSUME IInv, NEW r \in Runs, NEW p \in Parts, ClaimFails(r, p)
                        PROVE  IInv'
<1>1. TypeOK /\ PairInv(r, p) /\ PartInv(p)
  BY DEF IInv
<1>2. Move(r, p, "failed") /\ p \notin claimed
  BY DEF ClaimFails
<1>3. OnlyPair(r, p) /\ OthersApart(r, p)
  <2>1. OthersApart(r, p)
    BY <1>2, Unclaimed DEF OthersApart
  <2>2. \/ UNCHANGED <<claimed, owner>>
        \/ owner' = [owner EXCEPT ![p] = r] /\ claimed' = claimed \cup {p}
    BY DEF ClaimFails
  <2>3. \A s \in Runs, q \in Parts : s # r \/ q # p => at'[s][q] = at[s][q]
    BY <1>1, <1>2, MoveFacts
  <2>4. \A q \in Parts \ {p} : owner'[q] = owner[q] /\ (q \in claimed' <=> q \in claimed)
    <3>1. owner \in [Parts -> Runs \cup {None}]
      BY <1>1 DEF TypeOK
    <3>2. CASE UNCHANGED <<claimed, owner>>
      BY <3>2
    <3>3. CASE owner' = [owner EXCEPT ![p] = r] /\ claimed' = claimed \cup {p}
      BY <3>1, <3>3
    <3> QED
      BY <2>2, <3>2, <3>3
  <2>5. OnlyPair(r, p)
    BY <2>3, <2>4 DEF ClaimFails, OnlyPair
  <2> QED
    BY <2>1, <2>5
<1>4. TypeOK'
  <2>1. \/ UNCHANGED <<claimed, owner>>
        \/ owner' = [owner EXCEPT ![p] = r] /\ claimed' = claimed \cup {p}
    BY DEF ClaimFails
  <2>2. owner' \in [Parts -> Runs \cup {None}] /\ claimed' \subseteq Parts
    BY <1>1, <2>1 DEF TypeOK
  <2>3. faults' \in 0 .. MaxFaults
    BY <1>1, FaultType DEF ClaimFails, TypeOK
  <2>4. at' \in [Runs -> [Parts -> Starting \cup {"running"} \cup Finished \cup Saving]]
    BY <1>1, <1>2, MoveFacts DEF Finished
  <2> QED
    BY <1>1, <2>2, <2>3, <2>4 DEF ClaimFails, TypeOK
<1>5. PairInv(r, p)' /\ PartInv(p)'
  BY <1>1, <1>2, MoveFacts, Unclaimed
     DEF ClaimFails, PairInv, PartInv, Turn, Owning, Dispatched, Saving
<1> QED
  BY <1>3, <1>4, <1>5, PairStep DEF ClaimFails, Turn

LEMMA SpawnIInv == ASSUME IInv, NEW r \in Runs, NEW p \in Parts, Spawn(r, p)
                   PROVE  IInv'
<1>1. TypeOK /\ PairInv(r, p) /\ PartInv(p)
  BY DEF IInv
<1>2. Move(r, p, "running") /\ owner[p] = r /\ sent[p] = 0 /\ verdict[p] = None
  BY <1>1 DEF Spawn, PairInv, Owning
<1>3. \A s \in Runs \ {r} : at[s][p] \notin Owning
  BY <1>2 DEF IInv, PairInv
<1>4. /\ sent'[p] = 1 /\ \A q \in Parts \ {p} : sent'[q] = sent[q]
      /\ sent' \in [Parts -> Nat]
  <2>1. sent \in [Parts -> Nat] /\ sent' = [sent EXCEPT ![p] = sent[p] + 1]
    BY <1>1 DEF Spawn, TypeOK
  <2> QED
    BY <1>2, <2>1
<1>5. OnlyPair(r, p) /\ OthersApart(r, p)
  <2>1. \A s \in Runs, q \in Parts : s # r \/ q # p => at'[s][q] = at[s][q]
    BY <1>1, <1>2, MoveFacts
  <2>2. OnlyPair(r, p)
    BY <1>4, <2>1 DEF Spawn, OnlyPair, disk
  <2>3. OthersApart(r, p)
    BY <1>3 DEF OthersApart
  <2> QED
    BY <2>2, <2>3
<1>6. TypeOK'
  <2>1. at' \in [Runs -> [Parts -> Starting \cup {"running"} \cup Finished \cup Saving]]
    BY <1>1, <1>2, MoveFacts
  <2> QED
    BY <1>1, <1>4, <2>1 DEF Spawn, TypeOK, disk
<1>7. PairInv(r, p)' /\ PartInv(p)'
  BY <1>1, <1>2, <1>4, MoveFacts, NoRunIsNone
     DEF Spawn, PairInv, PartInv, disk, Turn, Owning, Dispatched, Saving
<1> QED
  BY <1>5, <1>6, <1>7, PairStep DEF Spawn, Turn

\* A reply is known and the part waits for the shared check.
LEMMA ReplyIInv ==
    ASSUME IInv, NEW r \in Runs, NEW p \in Parts, NEW outcome \in Outcome,
           Reply(r, p, outcome), at[r][p] \in {"claimed", "running"},
           outcome = "credited" => at[r][p] = "running",
           phase[r] = "calls",
           UNCHANGED <<disk, tree, phase, before, changed, report, exit, history, writes>>,
           faults' \in 0 .. MaxFaults
    PROVE  IInv'
<1> DEFINE v == [outcome |-> outcome, changed |-> FALSE]
<1>1. TypeOK /\ PairInv(r, p) /\ PartInv(p)
  BY DEF IInv
<1>2. Move(r, p, "returned") /\ got' = [got EXCEPT ![r][p] = v] /\ v \in Saved
  BY DEF Reply, Saved
<1>3. /\ at'[r][p] = "returned" /\ got'[r][p] = v
      /\ at' \in [Runs -> [Parts -> Starting \cup {"running"} \cup Finished \cup Saving]]
      /\ got' \in [Runs -> [Parts -> Saved \cup {None}]]
      /\ \A s \in Runs, q \in Parts :
            s # r \/ q # p => at'[s][q] = at[s][q] /\ got'[s][q] = got[s][q]
  <2> HIDE DEF v
  <2>1. "returned" \in Finished
    BY DEF Finished
  <2>2. /\ at'[r][p] = "returned"
        /\ at' \in [Runs -> [Parts -> Starting \cup {"running"} \cup Finished \cup Saving]]
        /\ \A s \in Runs, q \in Parts : s # r \/ q # p => at'[s][q] = at[s][q]
    BY <1>1, <1>2, <2>1, MoveFacts
  <2>3. /\ got'[r][p] = v /\ got' \in [Runs -> [Parts -> Saved \cup {None}]]
        /\ \A s \in Runs, q \in Parts : s # r \/ q # p => got'[s][q] = got[s][q]
    BY ZenonT(30), <1>1, <1>2, GotFacts
  <2> QED
    BY <2>2, <2>3
<1>4. OnlyPair(r, p) /\ OthersApart(r, p)
  BY <1>3 DEF OnlyPair, OthersApart, disk, history
<1>5. TypeOK'
  BY <1>1, <1>3 DEF TypeOK, disk, history
<1>6. PairInv(r, p)'
  <2>1. v.outcome = "credited" => sent[p] = 1
    BY <1>1 DEF PairInv
  <2> QED
    BY <1>1, <1>2, <1>3, <2>1 DEF PairInv, disk, history, Owning, Dispatched, Saving
<1>7. PartInv(p)'
  BY <1>1 DEF PartInv, disk, history
<1> QED
  BY <1>4, <1>5, <1>6, <1>7, PairStep

LEMMA SpawnFailsIInv == ASSUME IInv, NEW r \in Runs, NEW p \in Parts, SpawnFails(r, p)
                        PROVE  IInv'
<1>1. faults' \in 0 .. MaxFaults
  BY FaultType DEF IInv, TypeOK, SpawnFails
<1> QED
  BY <1>1, ReplyIInv DEF SpawnFails, Turn, Outcome

LEMMA ReturnIInv == ASSUME IInv, NEW r \in Runs, NEW p \in Parts, Return(r, p)
                    PROVE  IInv'
<1>1. faults' \in 0 .. MaxFaults
  BY DEF IInv, TypeOK, Return
<1> QED
  BY <1>1, ReplyIInv DEF Return, Waiting

LEMMA DeadlineIInv == ASSUME IInv, NEW r \in Runs, NEW p \in Parts, Deadline(r, p)
                      PROVE  IInv'
<1>1. faults' \in 0 .. MaxFaults
  BY DEF IInv, TypeOK, Deadline
<1> QED
  BY <1>1, ReplyIInv DEF Deadline, Waiting, Outcome

LEMMA KeepIInv == ASSUME IInv, NEW r \in Runs, NEW p \in Parts, Keep(r, p)
                  PROVE  IInv'
<1>1. TypeOK /\ PairInv(r, p) /\ PartInv(p)
  BY DEF IInv
<1>2. Move(r, p, "keeping")
  BY DEF Keep
<1>3. OnlyPair(r, p) /\ OthersApart(r, p)
  <2>1. \A q \in Parts \ {p} : saved'[q] = saved[q]
    BY DEF Keep
  <2> QED
    BY <1>1, <1>2, <2>1, MoveFacts DEF Keep, OnlyPair, OthersApart, history
<1>4. TypeOK'
  BY <1>1, <1>2, MoveFacts DEF Keep, TypeOK, history, Saving
<1>5. PairInv(r, p)' /\ PartInv(p)'
  <2>1. at'[r][p] = "keeping"
    BY <1>1, <1>2, MoveFacts
  <2>2. PairInv(r, p)'
    BY <1>1, <2>1 DEF Keep, PairInv, history, SaveTurn, Owning, Dispatched, Saving
  <2>3. saved'[p] = Torn
    BY <1>1 DEF Keep, TypeOK
  <2>4. PartInv(p)'
    BY <1>1, <2>3 DEF Keep, PartInv, history
  <2> QED
    BY <2>2, <2>4
<1> QED
  BY <1>3, <1>4, <1>5, PairStep DEF Keep, SaveTurn

LEMMA WriteResultIInv == ASSUME IInv, NEW r \in Runs, NEW p \in Parts, WriteResult(r, p)
                         PROVE  IInv'
<1> DEFINE v == [outcome |-> got[r][p].outcome, changed |-> changed[r]]
<1>1. TypeOK /\ PairInv(r, p) /\ PartInv(p)
  BY DEF IInv
<1>2. Move(r, p, "kept")
  BY DEF WriteResult
<1>3. got[r][p] \in Saved /\ verdict[p] = Came(got[r][p], changed[r])
  BY <1>1 DEF WriteResult, SaveTurn, PairInv, Dispatched, Saving
<1>4. v \in Saved /\ verdict[p] = Came(v, v.changed)
  BY <1>1, <1>3 DEF Saved, Came, TypeOK
<1>5. saved' = [saved EXCEPT ![p] = v]
  BY DEF WriteResult
<1> HIDE DEF v
<1>6. OnlyPair(r, p) /\ OthersApart(r, p)
  <2>1. \A q \in Parts \ {p} : saved'[q] = saved[q]
    BY <1>5
  <2> QED
    BY <1>1, <1>2, <2>1, MoveFacts DEF WriteResult, OnlyPair, OthersApart, history
<1>7. TypeOK'
  <2>1. saved' \in [Parts -> {None, Torn} \cup Saved]
    BY <1>1, <1>4, <1>5 DEF TypeOK
  <2>2. at' \in [Runs -> [Parts -> Starting \cup {"running"} \cup Finished \cup Saving]]
    BY <1>1, <1>2, MoveFacts DEF Saving
  <2> QED
    BY <1>1, <2>1, <2>2 DEF WriteResult, TypeOK, history
<1>8. PairInv(r, p)'
  BY <1>1, <1>2, MoveFacts
     DEF WriteResult, PairInv, history, SaveTurn, Owning, Dispatched, Saving
<1>9. PartInv(p)'
  BY <1>1, <1>4, <1>5 DEF WriteResult, PartInv, history, TypeOK
<1> QED
  BY <1>6, <1>7, <1>8, <1>9, PairStep DEF WriteResult, SaveTurn

LEMMA KeepFailsIInv == ASSUME IInv, NEW r \in Runs, NEW p \in Parts, KeepFails(r, p)
                       PROVE  IInv'
<1>1. TypeOK /\ PairInv(r, p) /\ PartInv(p)
  BY DEF IInv
<1>2. Move(r, p, "unkept")
  BY DEF KeepFails
<1>3. OnlyPair(r, p) /\ OthersApart(r, p)
  BY <1>1, <1>2, MoveFacts DEF KeepFails, OnlyPair, OthersApart, disk, history
<1>4. TypeOK'
  BY <1>1, <1>2, MoveFacts, FaultType DEF KeepFails, TypeOK, disk, history, Saving
<1>5. PairInv(r, p)' /\ PartInv(p)'
  BY <1>1, <1>2, MoveFacts
     DEF KeepFails, PairInv, PartInv, disk, history, SaveTurn, Owning, Dispatched, Saving
<1> QED
  BY <1>3, <1>4, <1>5, PairStep DEF KeepFails, SaveTurn

(***************************************************************************)
(* The actions of a run.                                                   *)
(***************************************************************************)

\* A run moves on alone; its parts, their replies and the calls stay as they are.
LEMMA RunStepFrame ==
    ASSUME IInv, NEW r \in Runs, TypeOK',
           \A s \in Runs \ {r} : phase'[s] = phase[s] /\ changed'[s] = changed[s]
                                 /\ report'[s] = report[s],
           UNCHANGED <<disk, at, got, sent, owner, verdict>>,
           \A p \in Parts : PairInv(r, p)', RunInv(r)'
    PROVE  IInv'
<1>1. ASSUME NEW s \in Runs \ {r}, NEW p \in Parts
      PROVE  PairInv(s, p)'
  <2>1. PairInv(s, p)
    BY DEF IInv
  <2> QED
    BY <2>1 DEF PairInv
<1>2. ASSUME NEW p \in Parts
      PROVE  PartInv(p)'
  <2>1. PartInv(p)
    BY DEF IInv
  <2> QED
    BY <2>1 DEF PartInv, disk
<1>3. ASSUME NEW s \in Runs \ {r}
      PROVE  RunInv(s)'
  <2>1. RunInv(s)
    BY DEF IInv
  <2>2. \A p \in Parts : ReportOf(s, p)' = ReportOf(s, p)
    BY DEF ReportOf
  <2> QED
    BY <2>1, <2>2 DEF RunInv
<1> QED
  BY <1>1, <1>2, <1>3 DEF IInv

LEMMA EnterFacts ==
    ASSUME TypeOK, NEW r \in Runs, NEW step, Enter(r, step)
    PROVE  /\ phase'[r] = step
           /\ \A s \in Runs \ {r} : phase'[s] = phase[s]
           /\ step \in {"start", "calls", "save", "printed", "refused", "dead"}
                 => phase' \in [Runs -> {"start", "calls", "save", "printed", "refused", "dead"}]
BY DEF TypeOK, Enter

LEMMA SnapshotIInv == ASSUME IInv, NEW r \in Runs, Snapshot(r)
                      PROVE  IInv'
<1>1. TypeOK /\ RunInv(r) /\ \A p \in Parts : PairInv(r, p)
  BY DEF IInv
<1>2. /\ phase'[r] = "calls" /\ \A s \in Runs \ {r} : phase'[s] = phase[s]
      /\ phase' \in [Runs -> {"start", "calls", "save", "printed", "refused", "dead"}]
  BY <1>1, EnterFacts DEF Snapshot
<1>3. TypeOK'
  BY <1>1, <1>2 DEF Snapshot, TypeOK, disk
<1>4. \A p \in Parts : PairInv(r, p)'
  BY <1>1, <1>2 DEF Snapshot, PairInv, Saving, Owning, Dispatched
<1>5. RunInv(r)'
  BY <1>1, <1>2 DEF Snapshot, RunInv
<1> QED
  BY <1>2, <1>3, <1>4, <1>5, RunStepFrame DEF Snapshot

LEMMA RefuseIInv == ASSUME IInv, NEW r \in Runs, Refuse(r)
                    PROVE  IInv'
<1>1. TypeOK /\ RunInv(r) /\ \A p \in Parts : PairInv(r, p)
  BY DEF IInv
<1>2. /\ phase'[r] = "refused" /\ \A s \in Runs \ {r} : phase'[s] = phase[s]
      /\ phase' \in [Runs -> {"start", "calls", "save", "printed", "refused", "dead"}]
  BY <1>1, EnterFacts DEF Refuse
<1>3. TypeOK'
  BY <1>1, <1>2 DEF Refuse, TypeOK, disk, history
<1>4. \A p \in Parts : PairInv(r, p)'
  BY <1>1, <1>2 DEF Refuse, PairInv, Saving, Owning, Dispatched
<1>5. RunInv(r)'
  BY <1>1, <1>2 DEF Refuse, RunInv
<1> QED
  BY <1>2, <1>3, <1>4, <1>5, RunStepFrame DEF Refuse, history

LEMMA KillIInv == ASSUME IInv, NEW r \in Runs, Kill(r)
                  PROVE  IInv'
<1>1. TypeOK /\ RunInv(r) /\ \A p \in Parts : PairInv(r, p)
  BY DEF IInv
<1>2. /\ phase'[r] = "dead" /\ \A s \in Runs \ {r} : phase'[s] = phase[s]
      /\ phase' \in [Runs -> {"start", "calls", "save", "printed", "refused", "dead"}]
  BY <1>1, EnterFacts DEF Kill
<1>3. TypeOK'
  BY <1>1, <1>2, FaultType DEF Kill, TypeOK, disk, history
<1>4. \A p \in Parts : PairInv(r, p)'
  BY <1>1, <1>2 DEF Kill, PairInv, Saving, Owning, Dispatched, history
<1>5. RunInv(r)'
  BY <1>1, <1>2 DEF Kill, RunInv
<1> QED
  BY <1>2, <1>3, <1>4, <1>5, RunStepFrame DEF Kill, history

LEMMA PrintIInv == ASSUME IInv, NEW r \in Runs, PrintReport(r)
                   PROVE  IInv'
<1>1. TypeOK /\ RunInv(r) /\ \A p \in Parts : PairInv(r, p)
  BY DEF IInv
<1>2. /\ phase'[r] = "printed" /\ \A s \in Runs \ {r} : phase'[s] = phase[s]
      /\ phase' \in [Runs -> {"start", "calls", "save", "printed", "refused", "dead"}]
  BY <1>1, EnterFacts DEF PrintReport
<1> DEFINE f == [p \in Parts |-> ReportOf(r, p)]
<1>3. f \in [Parts -> {"credited", "discarded", "host"}]
  BY DEF ReportOf
<1>4. report' = [report EXCEPT ![r] = f] /\ exit' = [exit EXCEPT ![r] = ExitOf(r)]
  BY DEF PrintReport
<1>5. ExitOf(r) \in {"ok", "refused", "fell back", None}
  BY DEF ExitOf
<1>6. TypeOK'
  <2> HIDE DEF f
  <2>1. /\ report' \in [Runs -> [Parts -> {"credited", "discarded", "host"}] \cup {None}]
        /\ exit' \in [Runs -> {"ok", "refused", "fell back", None}]
    BY <1>1, <1>3, <1>4, <1>5 DEF TypeOK
  <2> QED
    BY <1>1, <1>2, <2>1 DEF PrintReport, TypeOK, disk, history
<1>7. \A p \in Parts : PairInv(r, p)'
  BY <1>1, <1>2 DEF PrintReport, PairInv, history
<1>8. RunInv(r)'
  <2>1. \A p \in Parts : ReportOf(r, p)' = ReportOf(r, p)
    BY DEF PrintReport, ReportOf
  <2>2. report'[r] = f
    BY <1>1, <1>4 DEF TypeOK
  <2> QED
    BY <1>2, <2>1, <2>2 DEF RunInv
<1> QED
  BY <1>2, <1>4, <1>6, <1>7, <1>8, RunStepFrame DEF PrintReport, history

\* The shared check settles exactly the calls this run dispatched.
LEMMA CheckFacts ==
    ASSUME IInv, NEW r \in Runs, Check(r)
    PROVE  \E dirty \in BOOLEAN :
              /\ changed' = [changed EXCEPT ![r] = dirty]
              /\ faults' \in 0 .. MaxFaults
              /\ verdict' = [p \in Parts |-> IF p \in DispatchedBy(r)
                                             THEN Came(got[r][p], dirty) ELSE verdict[p]]
<1>1. TypeOK
  BY DEF IInv
<1>2. PICK unreadable \in BOOLEAN :
          LET dirty == unreadable \/ tree # before[r]
          IN /\ IF unreadable THEN Fault ELSE UNCHANGED faults
             /\ changed' = [changed EXCEPT ![r] = dirty]
             /\ verdict' = [p \in Parts |-> IF p \in DispatchedBy(r) THEN VerdictOf(r, p, dirty)
                                            ELSE verdict[p]]
  BY DEF Check
<1>3. faults' \in 0 .. MaxFaults
  BY <1>1, <1>2, FaultType DEF TypeOK
<1> DEFINE dirty == unreadable \/ tree # before[r]
<1>4. dirty \in BOOLEAN
  OBVIOUS
<1>5. verdict' = [p \in Parts |-> IF p \in DispatchedBy(r)
                                  THEN Came(got[r][p], dirty) ELSE verdict[p]]
  BY <1>2 DEF VerdictOf, Came
<1> QED
  BY <1>2, <1>3, <1>4, <1>5

LEMMA CheckIInv == ASSUME IInv, NEW r \in Runs, Check(r)
                   PROVE  IInv'
<1>1. TypeOK /\ RunInv(r) /\ \A p \in Parts : PairInv(r, p)
  BY DEF IInv
<1>2. /\ phase'[r] = "save" /\ \A s \in Runs \ {r} : phase'[s] = phase[s]
      /\ phase' \in [Runs -> {"start", "calls", "save", "printed", "refused", "dead"}]
  BY <1>1, EnterFacts DEF Check
<1>3. PICK dirty \in BOOLEAN :
              /\ changed' = [changed EXCEPT ![r] = dirty]
              /\ faults' \in 0 .. MaxFaults
              /\ verdict' = [p \in Parts |-> IF p \in DispatchedBy(r)
                                             THEN Came(got[r][p], dirty) ELSE verdict[p]]
  BY CheckFacts
<1>4. /\ changed'[r] = dirty /\ \A s \in Runs \ {r} : changed'[s] = changed[s]
      /\ changed' \in [Runs -> BOOLEAN]
  BY <1>1, <1>3 DEF TypeOK
<1>5. verdict' \in [Parts -> {"credited", "spent", "discarded", None}]
  BY <1>1, <1>3 DEF TypeOK, Came
<1>6. TypeOK'
  BY <1>1, <1>2, <1>3, <1>4, <1>5 DEF Check, TypeOK, disk
<1>7. \A p \in DispatchedBy(r) : owner[p] = r /\ verdict[p] = None /\ p \in claimed
                                 /\ at[r][p] = "returned"
  <2> TAKE p \in DispatchedBy(r)
  <2>1. p \in Parts /\ at[r][p] \in Dispatched /\ phase[r] = "calls" /\ at[r][p] \in Finished
    BY DEF DispatchedBy, Check
  <2>2. at[r][p] = "returned"
    BY <2>1 DEF Dispatched, Saving, Finished
  <2>3. owner[p] = r /\ verdict[p] = None
    BY <1>1, <2>1, <2>2 DEF PairInv, Owning
  <2>4. p \in claimed
    BY <2>1, <2>3, NoRunIsNone DEF IInv, PartInv
  <2> QED
    BY <2>2, <2>3, <2>4
<1>8. ASSUME NEW s \in Runs, NEW p \in Parts
      PROVE  PairInv(s, p)'
  <2>1. PairInv(s, p)
    BY DEF IInv
  <2>2. CASE s = r
    <3>1. CASE p \in DispatchedBy(r)
      <4>1. verdict'[p] = Came(got[r][p], changed'[r]) /\ at[r][p] = "returned"
        BY <1>3, <1>4, <1>7, <3>1
      <4> QED
        BY <1>2, <2>1, <2>2, <4>1 DEF Check, PairInv, Owning, Dispatched, Saving
    <3>2. CASE p \notin DispatchedBy(r)
      <4>1. verdict'[p] = verdict[p] /\ at[r][p] \notin Dispatched
        BY <1>3, <3>2 DEF DispatchedBy
      <4> QED
        BY <1>2, <2>1, <2>2, <4>1 DEF Check, PairInv
    <3> QED
      BY <3>1, <3>2
  <2>3. CASE s # r
    <3>1. CASE p \in DispatchedBy(r)
      <4>1. at[s][p] \notin Owning /\ at[s][p] # "replayed"
        BY <1>7, <2>1, <2>3, <3>1, CameIsNotNone DEF PairInv
      <4> QED
        BY <1>2, <1>4, <2>1, <2>3, <4>1 DEF Check, PairInv, Owning, Dispatched
    <3>2. CASE p \notin DispatchedBy(r)
      <4>1. verdict'[p] = verdict[p]
        BY <1>3, <3>2
      <4> QED
        BY <1>2, <1>4, <2>1, <2>3, <4>1 DEF Check, PairInv
    <3> QED
      BY <3>1, <3>2
  <2> QED
    BY <2>2, <2>3
<1>9. ASSUME NEW p \in Parts
      PROVE  PartInv(p)'
  <2>1. PartInv(p)
    BY DEF IInv
  <2>2. CASE p \in DispatchedBy(r)
    BY <1>7, <2>1, <2>2, CameIsNotNone DEF Check, PartInv, disk
  <2>3. CASE p \notin DispatchedBy(r)
    BY <1>3, <2>1, <2>3 DEF Check, PartInv, disk
  <2> QED
    BY <2>2, <2>3
<1>10. ASSUME NEW s \in Runs
       PROVE  RunInv(s)'
  <2>1. RunInv(s)
    BY DEF IInv
  <2>2. s # r => \A p \in Parts : ReportOf(s, p)' = ReportOf(s, p)
    BY <1>4 DEF Check, ReportOf
  <2> QED
    BY <1>2, <2>1, <2>2 DEF Check, RunInv
<1> QED
  BY <1>6, <1>8, <1>9, <1>10 DEF IInv

LEMMA WriteTreeIInv == ASSUME IInv, WriteTree
                       PROVE  IInv'
<1>1. TypeOK'
  <2>1. TypeOK
    BY DEF IInv
  <2>2. writes' \in 0 .. MaxWrites
    <3>1. writes \in 0 .. MaxWrites /\ writes < MaxWrites /\ writes' = writes + 1
      BY <2>1 DEF TypeOK, WriteTree
    <3> QED
      BY <3>1, ConstantsAssumption
  <2>3. tree' \in Trees
    BY DEF WriteTree
  <2> QED
    BY <2>1, <2>2, <2>3 DEF TypeOK, WriteTree, disk, history
<1>2. /\ \A r \in Runs, p \in Parts : PairInv(r, p)'
      /\ \A p \in Parts : PartInv(p)'
  BY DEF IInv, WriteTree, PairInv, PartInv, disk, history
<1>3. ASSUME NEW r \in Runs
      PROVE  RunInv(r)'
  <2>1. \A p \in Parts : ReportOf(r, p)' = ReportOf(r, p)
    BY DEF WriteTree, ReportOf
  <2> QED
    BY <2>1 DEF IInv, WriteTree, RunInv
<1> QED
  BY <1>1, <1>2, <1>3 DEF IInv

LEMMA NextIInv == IInv /\ [Next]_vars => IInv'
<1> SUFFICES ASSUME IInv, [Next]_vars
             PROVE  IInv'
  OBVIOUS
<1>1. ASSUME NEW r \in Runs, NEW p \in Parts, PartStep(r, p)
      PROVE  IInv'
  BY <1>1, ReadSavedIInv, FindNothingIInv, ClaimCallIInv, ClaimTakenIInv, SpawnIInv,
     ReturnIInv, DeadlineIInv, KeepIInv, WriteResultIInv DEF PartStep
<1>2. ASSUME NEW r \in Runs, Snapshot(r) \/ Refuse(r) \/ Check(r) \/ PrintReport(r)
      PROVE  IInv'
  BY <1>2, SnapshotIInv, RefuseIInv, CheckIInv, PrintIInv
<1>3. ASSUME NEW r \in Runs, Mishap(r)
      PROVE  IInv'
  BY <1>3, KillIInv, ReadFailsIInv, ClaimFailsIInv, SpawnFailsIInv, KeepFailsIInv DEF Mishap
<1>4. CASE WriteTree
  BY <1>4, WriteTreeIInv
<1>5. CASE UNCHANGED vars
  <2>1. TypeOK'
    BY <1>5 DEF vars, IInv, TypeOK
  <2>2. \A r \in Runs, p \in Parts : PairInv(r, p)'
    BY <1>5 DEF vars, IInv, PairInv
  <2>3. \A p \in Parts : PartInv(p)'
    BY <1>5 DEF vars, IInv, PartInv
  <2>4. \A r \in Runs : RunInv(r)'
    BY <1>5 DEF vars, IInv, RunInv, ReportOf
  <2> QED
    BY <2>1, <2>2, <2>3, <2>4 DEF IInv
<1> QED
  BY <1>1, <1>2, <1>3, <1>4, <1>5 DEF Next, RunStep

\* IInv holds in every reachable state.
THEOREM Invariance == Spec => []IInv
BY InitIInv, NextIInv, PTL DEF Spec

(***************************************************************************)
(* Consequences.                                                           *)
(***************************************************************************)

\* Every file, reply and report has the type the code gives it.
THEOREM TypeCorrect == Spec => []TypeOK
<1>1. IInv => TypeOK
  BY DEF IInv
<1> QED
  BY <1>1, Invariance, PTL

\* However many runs overlap, die or start again, no call is paid for twice.
THEOREM PaidOnce == Spec => []SentAtMostOnce
<1>1. IInv => SentAtMostOnce
  BY DEF IInv, PartInv, SentAtMostOnce
<1> QED
  BY <1>1, Invariance, PTL

\* What a run reports of a call is how the call was settled, or that the host has to do
\* the work.
LEMMA ReportedAsSettled ==
    ASSUME IInv, NEW r \in Runs, NEW p \in Parts, phase[r] \in {"save", "printed"},
           ReportOf(r, p) # "host"
    PROVE  ReportOf(r, p) = verdict[p]
<1>1. PairInv(r, p)
  BY DEF IInv
<1>2. CASE at[r][p] \in Dispatched
  <2>1. verdict[p] = Came(got[r][p], changed[r])
    BY <1>1, <1>2 DEF PairInv
  <2> QED
    BY <1>2, <2>1 DEF ReportOf, Came
<1>3. CASE at[r][p] = "replayed"
  <2>1. verdict[p] = Came(got[r][p], got[r][p].changed)
    BY <1>1, <1>3 DEF PairInv
  <2> QED
    BY <1>3, <2>1 DEF ReportOf, Came, Dispatched, Saving
<1> QED
  BY <1>2, <1>3 DEF ReportOf

\* A credit rests on a shared check that found the work tree unchanged.
THEOREM CreditIsEarned == Spec => []CreditNeedsCleanCheck
<1>1. ASSUME IInv, NEW r \in Runs, NEW p \in Parts, phase[r] = "printed",
             report[r][p] = "credited"
      PROVE  verdict[p] = "credited"
  <2>1. report[r][p] = ReportOf(r, p)
    BY <1>1 DEF IInv, RunInv
  <2> QED
    BY <1>1, <2>1, ReportedAsSettled
<1>2. IInv => CreditNeedsCleanCheck
  BY <1>1 DEF CreditNeedsCleanCheck
<1> QED
  BY <1>2, Invariance, PTL

(***************************************************************************)
(* The runs implement PaidCalls.                                           *)
(***************************************************************************)

\* Nothing PaidCalls sees has changed.
Unseen == UNCHANGED <<claimed, sent, verdict, report>>

LEMMA UnseenStutters == Unseen => UNCHANGED Calls!vars
BY DEF Unseen, Calls!vars

LEMMA SpawnSends == ASSUME IInv, NEW r \in Runs, NEW p \in Parts, Spawn(r, p)
                    PROVE  Calls!Send(p)
<1>1. sent[p] = 0 /\ verdict[p] = None /\ owner[p] = r
  BY DEF IInv, PairInv, Spawn, Owning
<1>2. p \in claimed
  BY <1>1, NoRunIsNone DEF IInv, PartInv
<1>3. sent' = [sent EXCEPT ![p] = 1]
  <2>1. sent' = [sent EXCEPT ![p] = sent[p] + 1]
    BY DEF Spawn
  <2> QED
    BY <1>1, <2>1
<1> QED
  BY <1>1, <1>2, <1>3 DEF Spawn, disk, Calls!Send

LEMMA ClaimFailsClaims ==
    ASSUME NEW r \in Runs, NEW p \in Parts, ClaimFails(r, p)
    PROVE  Calls!Claim(p) \/ Unseen
BY DEF ClaimFails, Calls!Claim, Unseen

\* The shared check settles exactly the calls the run dispatched.
LEMMA CheckSettles == ASSUME IInv, NEW r \in Runs, Check(r)
                      PROVE  Calls!Settle(DispatchedBy(r))
<1>1. PICK dirty \in BOOLEAN :
              verdict' = [p \in Parts |-> IF p \in DispatchedBy(r)
                                          THEN Came(got[r][p], dirty) ELSE verdict[p]]
  BY CheckFacts
<1>2. ASSUME NEW p \in DispatchedBy(r)
      PROVE  /\ p \in claimed /\ verdict[p] = None
             /\ got[r][p].outcome = "credited" => sent[p] = 1
  <2>1. p \in Parts /\ at[r][p] = "returned" /\ phase[r] = "calls"
    BY DEF DispatchedBy, Check, Dispatched, Saving, Finished
  <2>2. PairInv(r, p) /\ PartInv(p)
    BY <2>1 DEF IInv
  <2> QED
    BY <2>1, <2>2, NoRunIsNone DEF PairInv, PartInv, Owning, Dispatched
<1> DEFINE v == [p \in DispatchedBy(r) |-> Came(got[r][p], dirty)]
<1>3. /\ v \in [DispatchedBy(r) -> Calls!Settled]
      /\ \A p \in DispatchedBy(r) : v[p] = "credited" => sent[p] = 1
  BY <1>2 DEF Came, Calls!Settled
<1>4. verdict' = [p \in Parts |-> IF p \in DispatchedBy(r) THEN v[p] ELSE verdict[p]]
  BY <1>1
<1> HIDE DEF v
<1>5. UNCHANGED <<claimed, sent, report>>
  BY DEF Check, disk
<1> QED
  BY <1>2, <1>3, <1>4, <1>5 DEF Calls!Settle

LEMMA PrintTells == ASSUME IInv, NEW r \in Runs, PrintReport(r)
                    PROVE  \E told \in Calls!Report : Calls!Tell(r, told)
<1> DEFINE told == [p \in Parts |-> ReportOf(r, p)]
<1>1. \A p \in Parts : ReportOf(r, p) \in {"credited", "discarded", "host"}
  BY DEF ReportOf
<1>2. told \in Calls!Report
  BY <1>1 DEF Calls!Report, Calls!Settled
<1>3. \A p \in Parts : told[p] \in {"host", verdict[p]}
  BY ReportedAsSettled DEF PrintReport
<1>4. report[r] = None
  BY DEF IInv, RunInv, PrintReport
<1>5. report' = [report EXCEPT ![r] = told] /\ UNCHANGED <<claimed, sent, verdict>>
  BY DEF PrintReport, disk, history
<1> HIDE DEF told
<1> QED
  BY <1>2, <1>3, <1>4, <1>5 DEF Calls!Tell

\* Every step of the runs is a step of PaidCalls or leaves what it sees alone.
LEMMA StepImplements == IInv /\ [Next]_vars => [Calls!Next]_Calls!vars
<1> SUFFICES ASSUME IInv, [Next]_vars
             PROVE  Calls!Next \/ Unseen
  BY UnseenStutters
<1>1. ASSUME NEW r \in Runs, NEW p \in Parts, PartStep(r, p)
      PROVE  Calls!Next \/ Unseen
  <2>1. CASE ReadSaved(r, p)
    BY <2>1 DEF ReadSaved, Unseen, disk, history
  <2>2. CASE FindNothing(r, p)
    BY <2>2 DEF FindNothing, Unseen, disk, history
  <2>3. CASE ClaimCall(r, p)
    BY <2>3 DEF ClaimCall, Calls!Claim, Calls!Next
  <2>4. CASE ClaimTaken(r, p)
    BY <2>4 DEF ClaimTaken, Unseen, disk, history
  <2>5. CASE Spawn(r, p)
    BY <2>5, SpawnSends DEF Calls!Next
  <2>6. CASE Return(r, p) \/ Deadline(r, p)
    BY <2>6 DEF Return, Deadline, Unseen, disk, history
  <2>7. CASE Keep(r, p) \/ WriteResult(r, p)
    BY <2>7 DEF Keep, WriteResult, Unseen, history
  <2> QED
    BY <1>1, <2>1, <2>2, <2>3, <2>4, <2>5, <2>6, <2>7 DEF PartStep
<1>2. ASSUME NEW r \in Runs, Snapshot(r) \/ Refuse(r)
      PROVE  Unseen
  BY <1>2 DEF Snapshot, Refuse, Unseen, disk, history
<1>3. ASSUME NEW r \in Runs, Check(r)
      PROVE  Calls!Next
  <2>1. DispatchedBy(r) \in SUBSET Parts
    BY DEF DispatchedBy
  <2> QED
    BY <1>3, <2>1, CheckSettles DEF Calls!Next
<1>4. ASSUME NEW r \in Runs, PrintReport(r)
      PROVE  Calls!Next
  BY <1>4, PrintTells DEF Calls!Next
<1>5. ASSUME NEW r \in Runs, Mishap(r)
      PROVE  Calls!Next \/ Unseen
  <2>1. CASE Kill(r)
    BY <2>1 DEF Kill, Unseen, disk, history
  <2>2. ASSUME NEW p \in Parts, ReadFails(r, p) \/ SpawnFails(r, p) \/ KeepFails(r, p)
        PROVE  Unseen
    BY <2>2 DEF ReadFails, SpawnFails, KeepFails, Unseen, disk, history
  <2>3. ASSUME NEW p \in Parts, ClaimFails(r, p)
        PROVE  Calls!Next \/ Unseen
    BY <2>3, ClaimFailsClaims DEF Calls!Next
  <2> QED
    BY <1>5, <2>1, <2>2, <2>3 DEF Mishap
<1>6. CASE WriteTree
  BY <1>6 DEF WriteTree, Unseen, disk, history
<1>7. CASE UNCHANGED vars
  BY <1>7 DEF vars, Unseen
<1> QED
  BY <1>1, <1>2, <1>3, <1>4, <1>5, <1>6, <1>7 DEF Next, RunStep

\* Runs that share a call directory keep the promise of PaidCalls: one claim, one send,
\* one verdict, and no report but the host's or the verdict.
THEOREM Implements == Spec => ImplementsPaidCalls
<1>1. Init => Calls!Init
  BY DEF Init, Calls!Init
<1>2. QED
  BY <1>1, StepImplements, Invariance, PTL DEF Spec, ImplementsPaidCalls, Calls!Spec

\* What the saved file and the settled call say of the work tree agree.
THEOREM FileKeepsTheCheck == Spec => []SavedAfterCheck
<1>1. ASSUME IInv, NEW p \in Parts, saved[p] \notin {None, Torn}
      PROVE  verdict[p] # None /\ (saved[p].changed <=> verdict[p] = "discarded")
  <2>1. verdict[p] = Came(saved[p], saved[p].changed)
    BY <1>1 DEF IInv, PartInv
  <2>2. saved[p].changed \in BOOLEAN
    BY <1>1 DEF IInv, TypeOK, Saved
  <2> QED
    BY <2>1, <2>2, CameIsNotNone DEF Came
<1>2. IInv => SavedAfterCheck
  BY <1>1 DEF SavedAfterCheck
<1> QED
  BY <1>2, Invariance, PTL

(***************************************************************************)
(* Why a claim without a result is left behind.  A second invariant over   *)
(* IInv follows the owner of each claim to its end, and what a run that    *)
(* found nothing saved may conclude about the owners that ended before it. *)
(***************************************************************************)

\* Where the owner of a claim may be.
Holding == Owning \cup {"failed"}

\* The run still owes the call a result or a report.
Owing == {"claimed", "running", "returned", "keeping"}

OwnerInv(p) ==
    p \in claimed => owner[p] \in Runs /\ at[owner[p]][p] \in Holding

EndedInv(s) ==
    /\ phase[s] \in {"save", "printed"} =>
          \A p \in Parts : at[s][p] \notin {"claimed", "running"}
    /\ phase[s] = "printed" => \A p \in Parts : at[s][p] \notin Owing
    /\ \A r \in earlier[s] : phase[r] = "printed"

KeptInv(s, p) == at[s][p] = "kept" => saved[p] # None

\* A run that found nothing saved: an owner that had printed before it began had kept nothing.
ExcuseInv(r, p) ==
    at[r][p] \in {"absent", "unresolved"} /\ owner[p] \in earlier[r]
        => at[owner[p]][p] \in {"failed", "unkept"}

HoldInv ==
    /\ \A p \in Parts : OwnerInv(p)
    /\ \A s \in Runs : EndedInv(s)
    /\ \A s \in Runs, p \in Parts : KeptInv(s, p) /\ ExcuseInv(s, p)
    /\ \A s \in Runs, p \in Parts : at[s][p] = "unresolved" => p \in claimed

LEMMA HoldTorn == Torn # None /\ None \notin Saved
BY ConstantsAssumption DEF Saved, Outcome

\* A step of part p of run r, of the directory and of who owns the call.
LEMMA HoldPairStep ==
    ASSUME IInv, HoldInv, NEW r \in Runs, NEW p \in Parts, phase[r] \in {"calls", "save"},
           OnlyPair(r, p), earlier' = earlier,
           saved[p] # None => saved'[p] # None,
           \/ /\ UNCHANGED <<claimed, owner>>
              /\ at[r][p] \in Holding => at'[r][p] \in Holding
           \/ /\ p \notin claimed /\ claimed' = claimed \cup {p}
              /\ owner'[p] = r
              /\ at'[r][p] \in Holding,
           at'[r][p] = "kept" => saved'[p] # None,
           at'[r][p] \in {"absent", "unresolved"} => at[r][p] = "absent" \/ saved[p] = None,
           at'[r][p] = "unresolved" => p \in claimed,
           at'[r][p] \in {"claimed", "running"} => phase[r] = "calls"
    PROVE  HoldInv'
<1>1. /\ phase' = phase /\ phase[r] # "printed"
      /\ \A s \in Runs, q \in Parts : s # r \/ q # p => at'[s][q] = at[s][q]
      /\ \A q \in Parts \ {p} : owner'[q] = owner[q] /\ saved'[q] = saved[q]
                                /\ (q \in claimed' <=> q \in claimed)
      /\ owner \in [Parts -> Runs \cup {None}] /\ earlier \in [Runs -> SUBSET Runs]
  BY DEF OnlyPair, IInv, TypeOK
<1>2. \A q \in Parts : OwnerInv(q) /\ (q \notin claimed => owner[q] = None)
  BY DEF HoldInv, IInv, PartInv
<1>3. \A s \in Runs : r \notin earlier[s]
  BY <1>1 DEF HoldInv, EndedInv
<1>4. ASSUME NEW q \in Parts
      PROVE  OwnerInv(q)'
  <2>1. CASE q = p
    BY <1>1, <1>2, <2>1 DEF OwnerInv
  <2>2. CASE q # p
    BY <1>1, <1>2, <2>2 DEF OwnerInv
  <2> QED
    BY <2>1, <2>2
<1>5. ASSUME NEW s \in Runs
      PROVE  EndedInv(s)'
  <2>1. EndedInv(s)
    BY DEF HoldInv
  <2>2. CASE s = r
    BY <1>1, <2>1, <2>2 DEF EndedInv
  <2>3. CASE s # r
    BY <1>1, <2>1, <2>3 DEF EndedInv
  <2> QED
    BY <2>2, <2>3
<1>6. ASSUME NEW s \in Runs, NEW q \in Parts
      PROVE  KeptInv(s, q)'
  <2>1. KeptInv(s, q)
    BY DEF HoldInv
  <2>2. CASE s = r /\ q = p
    BY <2>2 DEF KeptInv
  <2>3. CASE s # r \/ q # p
    BY <1>1, <2>1, <2>3 DEF KeptInv
  <2> QED
    BY <2>2, <2>3
<1>7. ASSUME NEW s \in Runs, NEW q \in Parts, at'[s][q] \in {"absent", "unresolved"},
             owner'[q] \in earlier[s]
      PROVE  at'[owner'[q]][q] \in {"failed", "unkept"}
  <2>1. owner'[q] # r
    BY <1>3, <1>7
  <2>2. owner'[q] = owner[q] /\ owner[q] \in Runs
    BY <1>1, <1>7, <2>1
  <2>3. at'[owner'[q]][q] = at[owner[q]][q]
    BY <1>1, <2>1, <2>2
  <2>4. CASE at[s][q] \in {"absent", "unresolved"}
    <3>1. ExcuseInv(s, q)
      BY DEF HoldInv
    <3> QED
      BY <1>7, <2>2, <2>3, <2>4, <3>1 DEF ExcuseInv
  <2>5. CASE at[s][q] \notin {"absent", "unresolved"}
    <3>1. s = r /\ q = p /\ saved[q] = None
      BY <1>1, <1>7, <2>5
    <3>2. at[owner[q]][q] \in Holding
      BY <1>2, <2>2, NoRunIsNone DEF OwnerInv
    <3>3. phase[owner[q]] = "printed"
      BY <1>7, <2>2 DEF HoldInv, EndedInv
    <3>4. at[owner[q]][q] \notin Owing
      BY <2>2, <3>3 DEF HoldInv, EndedInv
    <3>5. at[owner[q]][q] # "kept"
      BY <2>2, <3>1 DEF HoldInv, KeptInv
    <3> QED
      BY <2>3, <3>2, <3>4, <3>5 DEF Holding, Owning, Owing, Dispatched, Saving
  <2> QED
    BY <2>4, <2>5
<1>8. ASSUME NEW s \in Runs, NEW q \in Parts
      PROVE  ExcuseInv(s, q)'
  BY <1>1, <1>7 DEF ExcuseInv
<1>9. ASSUME NEW s \in Runs, NEW q \in Parts, at'[s][q] = "unresolved"
      PROVE  q \in claimed'
  <2>1. at[s][q] = "unresolved" => q \in claimed
    BY DEF HoldInv
  <2> QED
    BY <1>1, <1>9, <2>1
<1> QED
  BY <1>4, <1>5, <1>6, <1>8, <1>9 DEF HoldInv

\* A step of a run's main, which moves no part.
LEMMA HoldRunStep ==
    ASSUME IInv, HoldInv, NEW r \in Runs, phase[r] # "printed",
           UNCHANGED <<at, saved, claimed, owner>>,
           \A s \in Runs : s # r => phase'[s] = phase[s] /\ earlier'[s] = earlier[s],
           phase'[r] = "save" => \A p \in Parts : at[r][p] \notin {"claimed", "running"},
           phase'[r] = "printed" => \A p \in Parts : at[r][p] \notin Owing,
           \/ earlier'[r] = earlier[r]
           \/ /\ phase[r] = "start"
              /\ earlier'[r] = {s \in Runs : phase[s] = "printed"}
    PROVE  HoldInv'
<1>1. \A s \in Runs : earlier[s] \subseteq Runs
  BY DEF IInv, TypeOK
<1>2. ASSUME NEW s \in Runs
      PROVE  EndedInv(s)'
  <2>1. EndedInv(s)
    BY DEF HoldInv
  <2>2. \A x \in Runs : phase[x] = "printed" => phase'[x] = "printed"
    OBVIOUS
  <2>3. /\ phase'[s] = "printed" => \A p \in Parts : at'[s][p] \notin Owing
        /\ phase'[s] \in {"save", "printed"}
              => \A p \in Parts : at'[s][p] \notin {"claimed", "running"}
    BY <2>1 DEF EndedInv, Owing
  <2>4. \A x \in earlier'[s] : phase'[x] = "printed"
    BY <1>1, <2>1, <2>2 DEF EndedInv
  <2> QED
    BY <2>3, <2>4 DEF EndedInv
<1>3. ASSUME NEW s \in Runs, NEW p \in Parts
      PROVE  ExcuseInv(s, p)'
  <2>1. ExcuseInv(s, p)
    BY DEF HoldInv
  <2>2. CASE earlier'[s] = earlier[s]
    BY <2>1, <2>2 DEF ExcuseInv
  <2>3. CASE earlier'[s] # earlier[s]
    <3>1. at[s][p] = "todo"
      BY <2>3 DEF IInv, PairInv
    <3> QED
      BY <3>1 DEF ExcuseInv
  <2> QED
    BY <2>2, <2>3
<1>4. \A p \in Parts : OwnerInv(p)'
  BY DEF HoldInv, OwnerInv
<1>5. \A s \in Runs, p \in Parts : KeptInv(s, p)' /\ (at'[s][p] = "unresolved" => p \in claimed')
  BY DEF HoldInv, KeptInv
<1> QED
  BY <1>2, <1>3, <1>4, <1>5 DEF HoldInv

\* What a step of one part owes the second invariant.
LEMMA PartStepHold ==
    ASSUME IInv, HoldInv, NEW r \in Runs, NEW p \in Parts,
           \/ PartStep(r, p) \/ ReadFails(r, p) \/ ClaimFails(r, p) \/ SpawnFails(r, p)
           \/ KeepFails(r, p)
    PROVE  HoldInv'
<1>1. TypeOK
  BY DEF IInv
<1>2. CASE ReadSaved(r, p)
  <2>1. PICK step \in {"unreadable", "replayed"} : Move(r, p, step)
    BY <1>2 DEF ReadSaved
  <2>2. OnlyPair(r, p)
    <3>1. saved[p] # Torn => saved[p] \in Saved
      BY <1>1, <1>2 DEF ReadSaved, TypeOK
    <3>2. CASE saved[p] = Torn
      BY <1>1, <1>2, <2>1, <3>2, MoveFacts DEF ReadSaved, OnlyPair, disk, history
    <3>3. CASE saved[p] # Torn
      BY <1>1, <1>2, <2>1, <3>1, <3>3, MoveFacts, GotFacts
         DEF ReadSaved, OnlyPair, disk, history
    <3> QED
      BY <3>2, <3>3
  <2>3. at'[r][p] = step
    BY <1>1, <2>1, MoveFacts
  <2> QED
    BY <1>2, <2>2, <2>3, HoldPairStep
       DEF ReadSaved, Turn, disk, history, Holding, Owning, Dispatched, Saving
<1>3. CASE FindNothing(r, p)
  <2>1. OnlyPair(r, p) /\ at'[r][p] = "absent"
    BY <1>1, <1>3, MoveFacts DEF FindNothing, OnlyPair, disk, history
  <2> QED
    BY <1>3, <2>1, HoldPairStep
       DEF FindNothing, Turn, disk, history, Holding, Owning, Dispatched, Saving
<1>4. CASE ClaimCall(r, p)
  <2>1. /\ at'[r][p] = "claimed"
        /\ \A s \in Runs, q \in Parts : s # r \/ q # p => at'[s][q] = at[s][q]
    BY <1>1, <1>4, MoveFacts DEF ClaimCall
  <2>2. owner'[p] = r
    BY <1>1, <1>4 DEF ClaimCall, TypeOK
  <2>3. OnlyPair(r, p)
    BY <1>4, <2>1 DEF ClaimCall, OnlyPair
  <2> QED
    BY <1>4, <2>1, <2>2, <2>3, HoldPairStep
       DEF ClaimCall, Turn, Holding, Owning, Dispatched, Saving
<1>5. CASE ClaimTaken(r, p)
  <2>1. OnlyPair(r, p) /\ at'[r][p] = "unresolved"
    BY <1>1, <1>5, MoveFacts DEF ClaimTaken, OnlyPair, disk, history
  <2> QED
    BY <1>5, <2>1, HoldPairStep
       DEF ClaimTaken, Turn, disk, history, Holding, Owning, Dispatched, Saving
<1>6. CASE Spawn(r, p)
  <2>1. /\ at'[r][p] = "running"
        /\ \A s \in Runs, q \in Parts : s # r \/ q # p => at'[s][q] = at[s][q]
    BY <1>1, <1>6, MoveFacts DEF Spawn
  <2>2. OnlyPair(r, p)
    BY <1>6, <2>1 DEF Spawn, OnlyPair, disk
  <2> QED
    BY <1>6, <2>1, <2>2, HoldPairStep
       DEF Spawn, Turn, disk, Holding, Owning, Dispatched, Saving
<1>7. CASE Return(r, p) \/ Deadline(r, p) \/ SpawnFails(r, p)
  <2>1. PICK outcome \in Outcome : Reply(r, p, outcome)
    BY <1>7 DEF Return, Deadline, SpawnFails, Outcome
  <2>2. phase[r] = "calls" /\ UNCHANGED <<disk, phase, changed, report, history>>
    BY <1>7 DEF Return, Deadline, SpawnFails, Waiting, Turn
  <2>3. [outcome |-> outcome, changed |-> FALSE] \in Saved
    BY DEF Saved
  <2>4. OnlyPair(r, p) /\ at'[r][p] = "returned"
    BY <1>1, <2>1, <2>2, <2>3, MoveFacts, GotFacts DEF Reply, OnlyPair, disk, history
  <2> QED
    BY <2>2, <2>4, HoldPairStep DEF disk, history, Holding, Owning, Dispatched, Saving
<1>8. CASE Keep(r, p)
  <2>1. /\ at'[r][p] = "keeping"
        /\ \A s \in Runs, q \in Parts : s # r \/ q # p => at'[s][q] = at[s][q]
    BY <1>1, <1>8, MoveFacts DEF Keep
  <2>2. saved'[p] # None
    BY <1>1, <1>8, HoldTorn DEF Keep, TypeOK
  <2>3. OnlyPair(r, p)
    BY <1>8, <2>1 DEF Keep, OnlyPair, history
  <2> QED
    BY <1>8, <2>1, <2>2, <2>3, HoldPairStep
       DEF Keep, SaveTurn, history, Holding, Owning, Dispatched, Saving
<1>9. CASE WriteResult(r, p)
  <2>1. /\ at'[r][p] = "kept"
        /\ \A s \in Runs, q \in Parts : s # r \/ q # p => at'[s][q] = at[s][q]
    BY <1>1, <1>9, MoveFacts DEF WriteResult
  <2>2. OnlyPair(r, p)
    BY <1>9, <2>1 DEF WriteResult, OnlyPair, history
  <2>3. PairInv(r, p)
    BY DEF IInv
  <2>4. got[r][p] \in Saved /\ changed[r] \in BOOLEAN
    BY <1>1, <1>9, <2>3 DEF WriteResult, PairInv, TypeOK, Dispatched, Saving
  <2>5. [outcome |-> got[r][p].outcome, changed |-> changed[r]] \in Saved
    BY <2>4 DEF Saved
  <2>6. saved'[p] # None
    BY <1>1, <1>9, <2>5, HoldTorn DEF WriteResult, TypeOK
  <2> QED
    BY <1>9, <2>1, <2>2, <2>6, HoldPairStep
       DEF WriteResult, SaveTurn, history, Holding, Owning, Dispatched, Saving
<1>10. CASE ReadFails(r, p)
  <2>1. OnlyPair(r, p) /\ at'[r][p] = "unreadable"
    BY <1>1, <1>10, MoveFacts DEF ReadFails, OnlyPair, disk, history
  <2> QED
    BY <1>10, <2>1, HoldPairStep
       DEF ReadFails, Turn, disk, history, Holding, Owning, Dispatched, Saving
<1>11. CASE ClaimFails(r, p)
  <2>1. /\ at'[r][p] = "failed"
        /\ \A s \in Runs, q \in Parts : s # r \/ q # p => at'[s][q] = at[s][q]
    BY <1>1, <1>11, MoveFacts DEF ClaimFails
  <2>2. CASE UNCHANGED <<claimed, owner>>
    <3>1. OnlyPair(r, p)
      BY <1>11, <2>1, <2>2 DEF ClaimFails, OnlyPair
    <3> QED
      BY <1>11, <2>1, <2>2, <3>1, HoldPairStep DEF ClaimFails, Turn, Holding
  <2>3. CASE claimed' = claimed \cup {p} /\ owner' = [owner EXCEPT ![p] = r]
    <3>1. OnlyPair(r, p)
      BY <1>11, <2>1, <2>3 DEF ClaimFails, OnlyPair
    <3>2. owner'[p] = r
      BY <1>1, <2>3 DEF TypeOK
    <3> QED
      BY <1>11, <2>1, <2>3, <3>1, <3>2, HoldPairStep DEF ClaimFails, Turn, Holding
  <2> QED
    BY <1>11, <2>2, <2>3 DEF ClaimFails
<1>12. CASE KeepFails(r, p)
  <2>1. OnlyPair(r, p) /\ at'[r][p] = "unkept"
    BY <1>1, <1>12, MoveFacts DEF KeepFails, OnlyPair, disk, history
  <2> QED
    BY <1>12, <2>1, HoldPairStep
       DEF KeepFails, SaveTurn, disk, history, Holding, Owning, Dispatched, Saving
<1> QED
  BY <1>2, <1>3, <1>4, <1>5, <1>6, <1>7, <1>8, <1>9, <1>10, <1>11, <1>12 DEF PartStep

LEMMA MainStepHold ==
    ASSUME IInv, HoldInv, NEW r \in Runs,
           Snapshot(r) \/ Refuse(r) \/ Check(r) \/ PrintReport(r) \/ Kill(r)
    PROVE  HoldInv'
<1>1. TypeOK
  BY DEF IInv
<1>2. CASE Snapshot(r)
  BY <1>1, <1>2, HoldRunStep DEF Snapshot, Enter, TypeOK, disk
<1>3. CASE Refuse(r) \/ Kill(r)
  BY <1>1, <1>3, HoldRunStep DEF Refuse, Kill, Enter, TypeOK, disk, history
<1>4. CASE Check(r)
  BY <1>1, <1>4, HoldRunStep DEF Check, Enter, TypeOK, disk, Finished
<1>5. CASE PrintReport(r)
  <2>1. \A p \in Parts : at[r][p] \notin Owing
    <3>1. \A p \in Parts : at[r][p] \notin {"claimed", "running"}
      BY <1>5 DEF HoldInv, EndedInv, PrintReport
    <3> QED
      BY <1>5, <3>1 DEF PrintReport, Owing
  <2> QED
    BY <1>1, <1>5, <2>1, HoldRunStep DEF PrintReport, Enter, TypeOK, disk, history
<1> QED
  BY <1>2, <1>3, <1>5, <1>4

LEMMA InitHold == Init => HoldInv
BY DEF Init, HoldInv, OwnerInv, EndedInv, KeptInv, ExcuseInv

LEMMA NextHold == IInv /\ HoldInv /\ [Next]_vars => HoldInv'
<1> SUFFICES ASSUME IInv, HoldInv, [Next]_vars
             PROVE  HoldInv'
  OBVIOUS
<1>1. ASSUME NEW r \in Runs, RunStep(r) \/ Mishap(r)
      PROVE  HoldInv'
  BY <1>1, PartStepHold, MainStepHold DEF RunStep, Mishap
<1>2. CASE WriteTree \/ UNCHANGED vars
  <2>1. UNCHANGED <<saved, claimed, phase, at, owner, earlier>>
    BY <1>2 DEF WriteTree, vars, disk, history
  <2>2. \A p \in Parts : OwnerInv(p)' <=> OwnerInv(p)
    BY <2>1 DEF OwnerInv
  <2>3. \A s \in Runs : EndedInv(s)' <=> EndedInv(s)
    BY <2>1 DEF EndedInv
  <2>4. \A s \in Runs, p \in Parts : KeptInv(s, p)' <=> KeptInv(s, p)
    BY <2>1 DEF KeptInv
  <2>5. \A s \in Runs, p \in Parts : ExcuseInv(s, p)' <=> ExcuseInv(s, p)
    BY <2>1 DEF ExcuseInv
  <2> QED
    BY <2>1, <2>2, <2>3, <2>4, <2>5 DEF HoldInv
<1> QED
  BY <1>1, <1>2 DEF Next

\* HoldInv holds in every reachable state.
THEOREM HoldInvariance == Spec => []HoldInv
BY InitHold, NextHold, Invariance, PTL DEF Spec

\* A run gives a part up as `unresolved` only behind a claim whose owner had not ended when
\* it began, or could not make the claim's body or the saved result.
THEOREM UnresolvedHasACause == Spec => []UnresolvedIsExplained
<1>1. HoldInv => UnresolvedIsExplained
  BY DEF HoldInv, OwnerInv, ExcuseInv, UnresolvedIsExplained
<1> QED
  BY <1>1, HoldInvariance, PTL
=============================================================================
