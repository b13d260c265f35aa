----------------------- MODULE MergeGateStoreProofs -----------------------
(***************************************************************************)
(* Proofs about MergeGateStore for any set of calls, keys and evidence and *)
(* any number of faults.                                                   *)
(***************************************************************************)
EXTENDS MergeGateStore, SequenceTheorems, FiniteSetTheorems, TLAPS

(***************************************************************************)
(* The inductive invariant.  The answers alone are not inductive: what a   *)
(* call knows between its link() and its answer has to be said as well.    *)
(***************************************************************************)

\* What call c may rely on at each step of runCheck.
Progress(c) ==
    /\ pc[c] \in {"evidence", "sync evidence", "publish", "sync decision", "reread"}
          => mine[c] \in Verdict /\ mine[c].by = c
    /\ pc[c] \in {"publish", "sync decision", "reread", "claim"} => key[c] \in Keys
    /\ pc[c] = "sync decision" => decision[key[c]] = mine[c]
    /\ pc[c] = "reread" => decision[key[c]] # None
    /\ pc[c] \in {"claim", "done"} \cup Appending /\ key[c] \in Keys
          => decision[key[c]] # None /\ winner[c] = decision[key[c]]

\* A call that created its decision has it on the platter from the sync on.
CreatorIsDurable(c) ==
    original[c] => /\ pc[c] \in {"claim", "done", "done earlier"} \cup Appending
                   /\ key[c] \in Keys
                   /\ winner[c] \in Verdict /\ winner[c].by = c
                   /\ durable.decision[key[c]] = winner[c]

\* Evidence is linked before its verdict can be published.
EvidenceLinked(c) ==
    ~lost /\ pc[c] \in {"sync evidence", "publish"} => mine[c].evidence \in evidence

CallInv(c) == Progress(c) /\ CreatorIsDurable(c) /\ EvidenceLinked(c)

\* The platter holds a key's decision or nothing, never another decision, and a
\* decision names evidence that is there.
KeyInv(k) ==
    /\ durable.decision[k] \in {None, decision[k]}
    /\ ~lost /\ decision[k] # None => decision[k].evidence \in evidence

IInv ==
    /\ TypeOK
    /\ \A c \in Calls : CallInv(c)
    /\ \A k \in Keys : KeyInv(k)

(***************************************************************************)
(* Facts about the constants and the frame of a step.                      *)
(***************************************************************************)

LEMMA PieceFacts ==
    /\ <<>> \in Seq(Piece)
    /\ <<Newline>> \in Seq(Piece)
    /\ \A c \in Calls : Line(c) \in Seq(Piece)
BY DEF Newline, Piece, Line, BodyStart, BodyEnd

LEMMA NoneIsNoVerdict == None \notin Verdict
BY ConstantsAssumption DEF Verdict

\* What one write() takes from the rest of a line and what it leaves are pieces.
LEMMA SplitPieces == ASSUME NEW s, s \in Seq(Piece), NEW n \in 1 .. Len(s)
                     PROVE  /\ SubSeq(s, 1, n) \in Seq(Piece)
                            /\ SubSeq(s, n + 1, Len(s)) \in Seq(Piece)
<1>1. Len(s) \in Nat
  BY LenProperties
<1>2. \A i \in 1 .. n : s[i] \in Piece
  BY <1>1, ElementOfSeq
<1>3. \A i \in n + 1 .. Len(s) : s[i] \in Piece
  BY <1>1, ElementOfSeq
<1>4. n \in Int /\ n + 1 \in Int /\ Len(s) \in Int /\ 1 \in Int
  BY <1>1
<1> QED
  BY <1>2, <1>3, <1>4, SubSeqProperties

LEMMA FaultType == ASSUME faults \in 0 .. MaxFaults, Fault
                   PROVE  faults' \in 0 .. MaxFaults
BY ConstantsAssumption DEF Fault

\* A step leaves call d alone.
SameCall(d) ==
    /\ pc'[d] = pc[d] /\ key'[d] = key[d] /\ mine'[d] = mine[d]
    /\ winner'[d] = winner[d] /\ original'[d] = original[d]

\* A step takes nothing from the store: what a call has seen stays true.
Grow ==
    /\ \A k \in Keys : decision[k] # None => decision'[k] = decision[k]
    /\ \A k \in Keys : durable.decision[k] # None
                          => durable'.decision[k] = durable.decision[k]
    /\ evidence \subseteq evidence'
    /\ lost' = lost

\* A call that a step leaves alone keeps its invariant if nothing is taken.
LEMMA Frame == ASSUME NEW d \in Calls, CallInv(d), SameCall(d), Grow
               PROVE  CallInv(d)'
<1>1. Progress(d)'
  <2>1. decision[key[d]] # None /\ key[d] \in Keys => decision'[key'[d]] = decision[key[d]]
    BY DEF SameCall, Grow
  <2>2. pc[d] = "sync decision" => key[d] \in Keys /\ decision[key[d]] # None
    BY NoneIsNoVerdict DEF CallInv, Progress
  <2>3. pc[d] = "reread" => key[d] \in Keys
    BY DEF CallInv, Progress
  <2> QED
    BY <2>1, <2>2, <2>3 DEF CallInv, Progress, SameCall
<1>2. CreatorIsDurable(d)'
  BY NoneIsNoVerdict DEF CallInv, CreatorIsDurable, SameCall, Grow
<1>3. EvidenceLinked(d)'
  BY DEF CallInv, EvidenceLinked, SameCall, Grow
<1> QED
  BY <1>1, <1>2, <1>3 DEF CallInv

\* A step of call c alone: its own invariant, the keys and the types are left to show.
LEMMA OneCall == ASSUME IInv, NEW c \in Calls,
                        \A d \in Calls \ {c} : SameCall(d), Grow,
                        TypeOK', CallInv(c)', \A k \in Keys : KeyInv(k)'
                 PROVE  IInv'
<1>1. \A d \in Calls : CallInv(d)'
  <2> TAKE d \in Calls
  <2>1. CASE d = c
    BY <2>1
  <2>2. CASE d # c
    BY <2>2, Frame DEF IInv
  <2> QED
    BY <2>1, <2>2
<1> QED
  BY <1>1 DEF IInv

(***************************************************************************)
(* Initial states.                                                         *)
(***************************************************************************)

LEMMA InitIInv == Init => IInv
<1> SUFFICES ASSUME Init
             PROVE  IInv
  OBVIOUS
<1>1. TypeOK
  <2>1. log \in Seq(Piece) /\ rest \in [Calls -> Seq(Piece)]
    BY PieceFacts DEF Init
  <2>2. durable \in [evidence : SUBSET Evidence, decision : [Keys -> Verdict \cup {None}],
                     marker : SUBSET Keys, log : Nat]
    BY DEF Init
  <2>3. pc \in [Calls -> Working \cup Ended]
    BY DEF Init, Working
  <2>4. faults \in 0 .. MaxFaults
    BY ConstantsAssumption DEF Init
  <2> QED
    BY <2>1, <2>2, <2>3, <2>4 DEF Init, TypeOK
<1>2. \A c \in Calls : CallInv(c)
  BY DEF Init, CallInv, Progress, CreatorIsDurable, EvidenceLinked, Appending
<1>3. \A k \in Keys : KeyInv(k)
  BY DEF Init, KeyInv
<1> QED
  BY <1>1, <1>2, <1>3 DEF IInv

(***************************************************************************)
(* One lemma per action: the frame, the types, the call, the keys.         *)
(***************************************************************************)

LEMMA LookupHitIInv == ASSUME IInv, NEW c \in Calls, LookupHit(c)
                      PROVE  IInv'
<1>1. TypeOK /\ CallInv(c) /\ \A k \in Keys : KeyInv(k)
  BY DEF IInv
<1>2. \A d \in Calls \ {c} : SameCall(d)
  BY <1>1 DEF LookupHit, Goto, local, SameCall, TypeOK
<1>3. Grow
  BY <1>1 DEF LookupHit, disk, history, Grow
<1>4. TypeOK'
  BY <1>1 DEF LookupHit, Goto, disk, local, history, TypeOK, Working
<1>5. CallInv(c)'
  <2>1. key[c] \in Keys
    BY <1>1 DEF LookupHit, TypeOK
  <2> QED
    BY <1>1, <2>1 DEF LookupHit, Goto, disk, history, TypeOK, CallInv, Progress,
       CreatorIsDurable, EvidenceLinked, Appending
<1>6. \A k \in Keys : KeyInv(k)'
  BY <1>1 DEF KeyInv, LookupHit, disk, local, history
<1> QED
  BY <1>2, <1>3, <1>4, <1>5, <1>6, OneCall

LEMMA CollectIInv == ASSUME IInv, NEW c \in Calls, CollectAndDecide(c)
                    PROVE  IInv'
<1>1. TypeOK /\ CallInv(c) /\ \A k \in Keys : KeyInv(k)
  BY DEF IInv
<1>2. \A d \in Calls \ {c} : SameCall(d)
  BY <1>1 DEF CollectAndDecide, Goto, local, SameCall, TypeOK
<1>3. Grow
  BY <1>1 DEF CollectAndDecide, disk, history, Grow
<1>4. TypeOK'
  <2> PICK e \in Evidence : mine' = [mine EXCEPT ![c] = [by |-> c, evidence |-> e]]
    BY DEF CollectAndDecide
  <2>1. mine' \in [Calls -> Verdict \cup {None}]
    BY <1>1 DEF TypeOK, Verdict
  <2> QED
    BY <1>1, <2>1 DEF CollectAndDecide, Goto, disk, history, TypeOK, Working
<1>5. CallInv(c)'
  BY <1>1 DEF CollectAndDecide, Goto, disk, local, history, TypeOK, CallInv, Progress,
     CreatorIsDurable, EvidenceLinked, Appending, Verdict
<1>6. \A k \in Keys : KeyInv(k)'
  BY <1>1 DEF KeyInv, CollectAndDecide, disk, local, history
<1> QED
  BY <1>2, <1>3, <1>4, <1>5, <1>6, OneCall

LEMMA LinkEvidenceIInv == ASSUME IInv, NEW c \in Calls, LinkEvidence(c)
                         PROVE  IInv'
<1>1. TypeOK /\ CallInv(c) /\ \A k \in Keys : KeyInv(k)
  BY DEF IInv
<1>2. \A d \in Calls \ {c} : SameCall(d)
  BY <1>1 DEF LinkEvidence, Goto, local, SameCall, TypeOK
<1>3. Grow
  BY <1>1 DEF LinkEvidence, disk, history, Grow
<1>4. TypeOK'
  <2>1. mine[c].evidence \in Evidence
    BY <1>1 DEF LinkEvidence, CallInv, Progress, Verdict
  <2> QED
    BY <1>1, <2>1 DEF LinkEvidence, AfterEvidence, Goto, local, history, TypeOK, Working, Appending
<1>5. CallInv(c)'
  BY <1>1, ConstantsAssumption DEF LinkEvidence, Goto, local, history, TypeOK, CallInv, Progress,
     CreatorIsDurable, EvidenceLinked, Appending, AfterEvidence
<1>6. \A k \in Keys : KeyInv(k)'
  <2>1. evidence \subseteq evidence'
    BY DEF LinkEvidence
  <2> QED
    BY <1>1, <2>1 DEF KeyInv, LinkEvidence, history
<1> QED
  BY <1>2, <1>3, <1>4, <1>5, <1>6, OneCall

LEMMA SyncEvidenceIInv == ASSUME IInv, NEW c \in Calls, SyncEvidence(c)
                         PROVE  IInv'
<1>1. TypeOK /\ CallInv(c) /\ \A k \in Keys : KeyInv(k)
  BY DEF IInv
<1>2. \A d \in Calls \ {c} : SameCall(d)
  BY <1>1 DEF SyncEvidence, Goto, local, SameCall, TypeOK
<1>3. Grow
  BY <1>1 DEF SyncEvidence, history, Grow, TypeOK
<1>4. TypeOK'
  BY <1>1 DEF SyncEvidence, Goto, disk, local, history, TypeOK, Working, AfterEvidence, Appending
<1>5. CallInv(c)'
  BY <1>1, ConstantsAssumption DEF SyncEvidence, Goto, local, history, TypeOK, CallInv, Progress,
     CreatorIsDurable, EvidenceLinked, Appending, AfterEvidence
<1>6. \A k \in Keys : KeyInv(k)'
  BY <1>1 DEF KeyInv, SyncEvidence, history, TypeOK
<1> QED
  BY <1>2, <1>3, <1>4, <1>5, <1>6, OneCall

LEMMA LinkDecisionIInv == ASSUME IInv, NEW c \in Calls, LinkDecision(c)
                         PROVE  IInv'
<1>1. TypeOK /\ CallInv(c) /\ \A k \in Keys : KeyInv(k)
  BY DEF IInv
<1>2. \A d \in Calls \ {c} : SameCall(d)
  BY <1>1 DEF LinkDecision, Goto, local, SameCall, TypeOK
<1>3. Grow
  BY <1>1 DEF LinkDecision, history, Grow, TypeOK, CallInv, Progress
<1>4. TypeOK'
  BY <1>1, NoneIsNoVerdict DEF LinkDecision, Goto, disk, local, history, TypeOK, Working, CallInv, Progress
<1>5. CallInv(c)'
  BY <1>1 DEF LinkDecision, Goto, disk, local, history, TypeOK, CallInv, Progress,
     CreatorIsDurable, EvidenceLinked, Appending
<1>6. \A k \in Keys : KeyInv(k)'
  BY <1>1 DEF KeyInv, LinkDecision, history, TypeOK, CallInv, EvidenceLinked, Progress
<1> QED
  BY <1>2, <1>3, <1>4, <1>5, <1>6, OneCall

LEMMA SyncDecisionIInv == ASSUME IInv, NEW c \in Calls, SyncDecision(c)
                         PROVE  IInv'
<1>1. TypeOK /\ CallInv(c) /\ \A k \in Keys : KeyInv(k)
  BY DEF IInv
<1>2. \A d \in Calls \ {c} : SameCall(d)
  BY <1>1 DEF SyncDecision, Goto, local, SameCall, TypeOK
<1>3. Grow
  BY <1>1 DEF SyncDecision, history, Grow, KeyInv, TypeOK
<1>4. TypeOK'
  <2>1. durable' \in [evidence : SUBSET Evidence, decision : [Keys -> Verdict \cup {None}],
                      marker : SUBSET Keys, log : Nat]
    BY <1>1 DEF SyncDecision, TypeOK
  <2>2. winner' \in [Calls -> Verdict \cup {None}] /\ original' \in [Calls -> BOOLEAN]
    BY <1>1 DEF SyncDecision, TypeOK
  <2>3. pc' \in [Calls -> Working \cup Ended]
    BY <1>1 DEF SyncDecision, Goto, TypeOK, Working
  <2> QED
    BY <1>1, <2>1, <2>2, <2>3 DEF SyncDecision, history, TypeOK
<1>5. CallInv(c)'
  BY <1>1, NoneIsNoVerdict DEF SyncDecision, Goto, disk, local, history, TypeOK, CallInv, Progress,
     CreatorIsDurable, EvidenceLinked, Appending
<1>6. \A k \in Keys : KeyInv(k)'
  BY <1>1 DEF KeyInv, SyncDecision, history, TypeOK
<1> QED
  BY <1>2, <1>3, <1>4, <1>5, <1>6, OneCall

LEMMA RereadIInv == ASSUME IInv, NEW c \in Calls, Reread(c)
                   PROVE  IInv'
<1>1. TypeOK /\ CallInv(c) /\ \A k \in Keys : KeyInv(k)
  BY DEF IInv
<1>2. \A d \in Calls \ {c} : SameCall(d)
  BY <1>1 DEF Reread, Goto, local, SameCall, TypeOK
<1>3. Grow
  BY <1>1 DEF Reread, disk, history, Grow
<1>4. TypeOK'
  BY <1>1 DEF Reread, Goto, disk, history, TypeOK, Working, CallInv, Progress
<1>5. CallInv(c)'
  BY <1>1 DEF Reread, Goto, disk, local, history, TypeOK, CallInv, Progress,
     CreatorIsDurable, EvidenceLinked, Appending
<1>6. \A k \in Keys : KeyInv(k)'
  BY <1>1 DEF KeyInv, Reread, disk, local, history
<1> QED
  BY <1>2, <1>3, <1>4, <1>5, <1>6, OneCall

LEMMA ClaimMarkerIInv == ASSUME IInv, NEW c \in Calls, ClaimMarker(c)
                        PROVE  IInv'
<1>1. TypeOK /\ CallInv(c) /\ \A k \in Keys : KeyInv(k)
  BY DEF IInv
<1>2. \A d \in Calls \ {c} : SameCall(d)
  BY <1>1 DEF ClaimMarker, Goto, local, SameCall, TypeOK
<1>3. Grow
  BY <1>1 DEF ClaimMarker, disk, history, Grow
<1>4. TypeOK'
  BY <1>1 DEF ClaimMarker, Goto, disk, local, history, TypeOK, Working, Appending, Ended, CallInv, Progress
<1>5. CallInv(c)'
  BY <1>1 DEF ClaimMarker, Goto, disk, local, history, TypeOK, CallInv, Progress,
     CreatorIsDurable, EvidenceLinked, Appending
<1>6. \A k \in Keys : KeyInv(k)'
  BY <1>1 DEF KeyInv, ClaimMarker, disk, local, history
<1> QED
  BY <1>2, <1>3, <1>4, <1>5, <1>6, OneCall

LEMMA OpenLogIInv == ASSUME IInv, NEW c \in Calls, OpenLog(c)
                    PROVE  IInv'
<1>1. TypeOK /\ CallInv(c) /\ \A k \in Keys : KeyInv(k)
  BY DEF IInv
<1>2. \A d \in Calls \ {c} : SameCall(d)
  BY <1>1 DEF OpenLog, Goto, local, SameCall, TypeOK
<1>3. Grow
  BY <1>1 DEF OpenLog, disk, history, Grow
<1>4. TypeOK'
  <2>1. (IF TornTail THEN <<Newline>> ELSE <<>>) \o Line(c) \in Seq(Piece)
    BY PieceFacts, ConcatProperties
  <2> QED
    BY <1>1, <2>1 DEF OpenLog, Goto, disk, local, history, TypeOK, Working, Appending
<1>5. CallInv(c)'
  BY <1>1 DEF OpenLog, Goto, disk, local, history, TypeOK, CallInv, Progress,
     CreatorIsDurable, EvidenceLinked, Appending
<1>6. \A k \in Keys : KeyInv(k)'
  BY <1>1 DEF KeyInv, OpenLog, disk, local, history
<1> QED
  BY <1>2, <1>3, <1>4, <1>5, <1>6, OneCall

LEMMA WriteLogIInv == ASSUME IInv, NEW c \in Calls, WriteLog(c)
                     PROVE  IInv'
<1>1. TypeOK /\ CallInv(c) /\ \A k \in Keys : KeyInv(k)
  BY DEF IInv
<1>2. \A d \in Calls \ {c} : SameCall(d)
  BY <1>1 DEF WriteLog, Goto, local, SameCall, TypeOK
<1>3. Grow
  BY <1>1 DEF WriteLog, disk, history, Grow
<1>4. TypeOK'
  <2> PICK n \in 1 .. Len(rest[c]) :
          /\ log' = log \o SubSeq(rest[c], 1, n)
          /\ rest' = [rest EXCEPT ![c] = SubSeq(rest[c], n + 1, Len(rest[c]))]
          /\ exposed' = [d \in Calls |->
                            exposed[d] \/ (n < Len(rest[c]) /\ pc[d] = "write")]
          /\ IF n < Len(rest[c]) THEN Fault ELSE UNCHANGED faults
          /\ Goto(c, IF n = Len(rest[c]) THEN "sync log" ELSE "write")
    BY DEF WriteLog
  <2>1. rest[c] \in Seq(Piece) /\ Len(rest[c]) \in Nat /\ log \in Seq(Piece)
    BY <1>1, LenProperties DEF TypeOK
  <2>3. /\ SubSeq(rest[c], 1, n) \in Seq(Piece)
        /\ SubSeq(rest[c], n + 1, Len(rest[c])) \in Seq(Piece)
    BY <2>1, SplitPieces
  <2>2. log' \in Seq(Piece)
    BY <2>1, <2>3, ConcatProperties
  <2>4. rest' \in [Calls -> Seq(Piece)]
    BY <1>1, <2>3 DEF TypeOK
  <2>5. exposed' \in [Calls -> BOOLEAN]
    BY <1>1 DEF TypeOK
  <2>6. faults' \in 0 .. MaxFaults
    BY <1>1, FaultType DEF TypeOK
  <2>7. pc' \in [Calls -> Working \cup Ended]
    BY <1>1 DEF TypeOK, Goto, Working, Appending
  <2> QED
    BY <1>1, <2>2, <2>4, <2>5, <2>6, <2>7 DEF WriteLog, local, TypeOK
<1>5. CallInv(c)'
  BY ZenonT(30), <1>1 DEF WriteLog, Goto, disk, local, history, TypeOK, CallInv, Progress,
     CreatorIsDurable, EvidenceLinked, Appending
<1>6. \A k \in Keys : KeyInv(k)'
  BY <1>1 DEF KeyInv, WriteLog, disk, local, history
<1> QED
  BY <1>2, <1>3, <1>4, <1>5, <1>6, OneCall

LEMMA SyncLogIInv == ASSUME IInv, NEW c \in Calls, SyncLog(c)
                    PROVE  IInv'
<1>1. TypeOK /\ CallInv(c) /\ \A k \in Keys : KeyInv(k)
  BY DEF IInv
<1>2. \A d \in Calls \ {c} : SameCall(d)
  BY <1>1 DEF SyncLog, Goto, local, SameCall, TypeOK
<1>3. Grow
  BY <1>1 DEF SyncLog, history, Grow, TypeOK
<1>4. TypeOK'
  <2>1. Len(log) \in Nat
    BY <1>1, LenProperties DEF TypeOK
  <2> QED
    BY <1>1, <2>1 DEF SyncLog, Goto, local, history, TypeOK, Ended
<1>5. CallInv(c)'
  BY <1>1 DEF SyncLog, Goto, disk, local, history, TypeOK, CallInv, Progress,
     CreatorIsDurable, EvidenceLinked, Appending
<1>6. \A k \in Keys : KeyInv(k)'
  BY <1>1 DEF KeyInv, SyncLog, history, TypeOK
<1> QED
  BY <1>2, <1>3, <1>4, <1>5, <1>6, OneCall

LEMMA FailAppendIInv == ASSUME IInv, NEW c \in Calls, FailAppend(c)
                       PROVE  IInv'
<1>1. TypeOK /\ CallInv(c) /\ \A k \in Keys : KeyInv(k)
  BY DEF IInv
<1>2. \A d \in Calls \ {c} : SameCall(d)
  BY <1>1 DEF FailAppend, Goto, local, SameCall, TypeOK, End
<1>3. Grow
  BY <1>1 DEF FailAppend, disk, history, Grow, End
<1>4. TypeOK'
  <2>1. <<>> \in Seq(Piece)
    BY PieceFacts
  <2>2. faults' \in 0 .. MaxFaults
    BY <1>1, FaultType DEF FailAppend, End, TypeOK
  <2> QED
    BY <1>1, <2>1, <2>2 DEF FailAppend, End, Goto, disk, TypeOK, Ended
<1>5. CallInv(c)'
  BY <1>1 DEF FailAppend, Goto, disk, local, history, TypeOK, CallInv, Progress,
     CreatorIsDurable, EvidenceLinked, Appending, End
<1>6. \A k \in Keys : KeyInv(k)'
  BY <1>1 DEF KeyInv, FailAppend, disk, local, history, End
<1> QED
  BY <1>2, <1>3, <1>4, <1>5, <1>6, OneCall

LEMMA FailIInv == ASSUME IInv, NEW c \in Calls, Fail(c)
                 PROVE  IInv'
<1>1. TypeOK /\ CallInv(c) /\ \A k \in Keys : KeyInv(k)
  BY DEF IInv
<1>2. \A d \in Calls \ {c} : SameCall(d)
  BY <1>1 DEF Fail, Goto, local, SameCall, TypeOK, End
<1>3. Grow
  BY <1>1 DEF Fail, disk, history, Grow, End
<1>4. TypeOK'
  <2>1. <<>> \in Seq(Piece)
    BY PieceFacts
  <2>2. faults' \in 0 .. MaxFaults
    BY <1>1, FaultType DEF Fail, End, TypeOK
  <2> QED
    BY <1>1, <2>1, <2>2 DEF Fail, End, Goto, disk, TypeOK, Ended
<1>5. CallInv(c)'
  BY <1>1 DEF Fail, Goto, disk, local, history, TypeOK, CallInv, Progress,
     CreatorIsDurable, EvidenceLinked, Appending, End
<1>6. \A k \in Keys : KeyInv(k)'
  BY <1>1 DEF KeyInv, Fail, disk, local, history, End
<1> QED
  BY <1>2, <1>3, <1>4, <1>5, <1>6, OneCall

LEMMA CrashIInv == ASSUME IInv, NEW c \in Calls, Crash(c)
                  PROVE  IInv'
<1>1. TypeOK /\ CallInv(c) /\ \A k \in Keys : KeyInv(k)
  BY DEF IInv
<1>2. \A d \in Calls \ {c} : SameCall(d)
  BY <1>1 DEF Crash, Goto, local, SameCall, TypeOK, End
<1>3. Grow
  BY <1>1 DEF Crash, disk, history, Grow, End
<1>4. TypeOK'
  <2>1. <<>> \in Seq(Piece)
    BY PieceFacts
  <2>2. faults' \in 0 .. MaxFaults
    BY <1>1, FaultType DEF Crash, End, TypeOK
  <2> QED
    BY <1>1, <2>1, <2>2 DEF Crash, End, Goto, disk, TypeOK, Ended, DeadAt
<1>5. CallInv(c)'
  BY <1>1 DEF Crash, Goto, disk, local, history, TypeOK, CallInv, Progress,
     CreatorIsDurable, EvidenceLinked, Appending, End, DeadAt
<1>6. \A k \in Keys : KeyInv(k)'
  BY <1>1 DEF KeyInv, Crash, disk, local, history, End
<1> QED
  BY <1>2, <1>3, <1>4, <1>5, <1>6, OneCall

LEMMA PowerLossIInv == ASSUME IInv, PowerLoss
                       PROVE  IInv'
<1>1. TypeOK /\ (\A c \in Calls : CallInv(c)) /\ \A k \in Keys : KeyInv(k)
  BY DEF IInv
<1>2. \A k \in Keys : decision'[k] \in {durable.decision[k], decision[k]}
  BY DEF PowerLoss
<1>3. durable'.decision = decision' /\ lost' = TRUE
  BY DEF PowerLoss
<1>4. TypeOK'
  <2>1. decision' \in [Keys -> Verdict \cup {None}]
    BY <1>1 DEF PowerLoss, TypeOK
  <2>2. evidence' \subseteq Evidence /\ marker' \subseteq Keys
    BY <1>1 DEF PowerLoss, TypeOK
  <2>3. log' \in Seq(Piece) /\ Len(log') \in Nat
    <3>1. PICK n \in durable.log .. Len(log) : log' = SubSeq(log, 1, n)
      BY DEF PowerLoss
    <3>2. durable.log \in Nat /\ Len(log) \in Nat /\ log \in Seq(Piece)
      BY <1>1, LenProperties DEF TypeOK
    <3>3. n \in Int /\ 1 \in Int /\ \A i \in 1 .. n : log[i] \in Piece
      BY <3>2, ElementOfSeq
    <3>4. log' \in Seq(Piece)
      BY <3>1, <3>3, SubSeqProperties
    <3> QED
      BY <3>4, LenProperties
  <2>4. durable' \in [evidence : SUBSET Evidence, decision : [Keys -> Verdict \cup {None}],
                      marker : SUBSET Keys, log : Nat]
    BY <2>1, <2>2, <2>3 DEF PowerLoss
  <2>5. pc' \in [Calls -> Working \cup Ended]
    BY <1>1 DEF PowerLoss, TypeOK, DeadAt, Ended
  <2>6. /\ mine' \in [Calls -> Verdict \cup {None}] /\ winner' \in [Calls -> Verdict \cup {None}]
        /\ original' \in [Calls -> BOOLEAN] /\ exposed' \in [Calls -> BOOLEAN]
    BY <1>1 DEF PowerLoss, TypeOK
  <2>7. rest' \in [Calls -> Seq(Piece)]
    BY <1>1, PieceFacts DEF PowerLoss, TypeOK
  <2>8. faults' \in 0 .. MaxFaults /\ lost' \in BOOLEAN /\ key' \in [Calls -> Keys \cup {NoKey}]
    BY <1>1, <1>3, FaultType DEF PowerLoss, TypeOK
  <2> QED
    BY <2>1, <2>2, <2>3, <2>4, <2>5, <2>6, <2>7, <2>8 DEF TypeOK
<1>5. \A c \in Calls : CallInv(c)'
  <2> TAKE c \in Calls
  <2>1. CASE pc[c] \in Working \ {"lookup"}
    <3>1. pc'[c] \in {"dead", "crashed append"} /\ original'[c] = FALSE
      BY <2>1 DEF PowerLoss, DeadAt
    <3> QED
      BY <1>3, <3>1 DEF CallInv, Progress, CreatorIsDurable, EvidenceLinked, Appending
  <2>2. CASE pc[c] \notin Working \ {"lookup"}
    <3>1. /\ pc'[c] = IF pc[c] = "done" THEN "done earlier" ELSE pc[c]
          /\ original'[c] = original[c] /\ winner'[c] = winner[c] /\ key' = key
      BY <2>2 DEF PowerLoss
    <3>2. pc'[c] \in {"lookup", "done earlier", "dead", "failed append", "crashed append"}
      BY <1>1, <2>2, <3>1 DEF TypeOK, Ended
    <3>3. Progress(c)' /\ EvidenceLinked(c)'
      BY <1>3, <3>2 DEF Progress, EvidenceLinked, Appending
    <3>4. ASSUME original[c]
          PROVE  CreatorIsDurable(c)'
      <4>1. /\ key[c] \in Keys /\ winner[c] \in Verdict /\ winner[c].by = c
            /\ durable.decision[key[c]] = winner[c]
            /\ pc[c] \in {"done", "done earlier"}
        BY <1>1, <2>2, <3>4 DEF CallInv, CreatorIsDurable, Working, Appending
      <4>2. decision'[key[c]] = winner[c]
        BY <1>1, <1>2, <4>1, NoneIsNoVerdict DEF KeyInv
      <4> QED
        BY <1>3, <3>1, <4>1, <4>2 DEF CreatorIsDurable
    <3>5. ASSUME ~original[c]
          PROVE  CreatorIsDurable(c)'
      BY <3>1, <3>5 DEF CreatorIsDurable
    <3> QED
      BY <3>3, <3>4, <3>5 DEF CallInv
  <2> QED
    BY <2>1, <2>2
<1>6. \A k \in Keys : KeyInv(k)'
  BY <1>3 DEF KeyInv
<1> QED
  BY <1>4, <1>5, <1>6 DEF IInv

LEMMA NextIInv == IInv /\ [Next]_vars => IInv'
<1> SUFFICES ASSUME IInv, [Next]_vars
             PROVE  IInv'
  OBVIOUS
<1>1. ASSUME NEW c \in Calls, CallStep(c)
      PROVE  IInv'
  BY <1>1, LookupHitIInv, CollectIInv, LinkEvidenceIInv, SyncEvidenceIInv, LinkDecisionIInv,
     SyncDecisionIInv, RereadIInv, ClaimMarkerIInv, OpenLogIInv, WriteLogIInv, SyncLogIInv
     DEF CallStep
<1>2. ASSUME NEW c \in Calls, FailAppend(c) \/ Fail(c) \/ Crash(c)
      PROVE  IInv'
  BY <1>2, FailAppendIInv, FailIInv, CrashIInv
<1>3. CASE PowerLoss
  BY <1>3, PowerLossIInv
<1>4. CASE UNCHANGED vars
  BY <1>4 DEF vars, IInv, TypeOK, CallInv, Progress, CreatorIsDurable, EvidenceLinked, KeyInv
<1> QED
  BY <1>1, <1>2, <1>3, <1>4 DEF Next

\* IInv holds in every reachable state.
THEOREM Invariance == Spec => []IInv
BY InitIInv, NextIInv, PTL DEF Spec

(***************************************************************************)
(* Consequences.                                                           *)
(***************************************************************************)

\* Every value a call or the store holds has the type the code gives it.
THEOREM TypeCorrect == Spec => []TypeOK
<1>1. IInv => TypeOK
  BY DEF IInv
<1> QED
  BY <1>1, Invariance, PTL

\* ENG-4: whatever calls race and die, every answer for a decision id since the last
\* power loss is the verdict in the decision file.
THEOREM Authoritative == Spec => []AnswersAreAuthoritative
<1>1. IInv => AnswersAreAuthoritative
  BY ZenonT(30) DEF IInv, TypeOK, CallInv, Progress, AnswersAreAuthoritative
<1> QED
  BY <1>1, Invariance, PTL

\* A call that answered as the creator of a decision is never contradicted, not even
\* after a power loss.
THEOREM OriginalSurvives == Spec => []OriginalAnswerSurvives
<1>1. ASSUME IInv, NEW c \in Calls, HasAnswered(c), original[c]
      PROVE  winner[c].by = c /\ decision[key[c]] = winner[c]
  <2>1. /\ key[c] \in Keys /\ winner[c] \in Verdict /\ winner[c].by = c
        /\ durable.decision[key[c]] = winner[c]
    BY <1>1 DEF IInv, CallInv, CreatorIsDurable
  <2> QED
    BY <1>1, <2>1, NoneIsNoVerdict DEF IInv, KeyInv
<1>2. IInv => OriginalAnswerSurvives
  BY <1>1 DEF OriginalAnswerSurvives
<1> QED
  BY <1>2, Invariance, PTL

\* Without a power loss a decision never names evidence the store does not have.
THEOREM EvidenceKept == Spec => []DecisionHasEvidence
<1>1. IInv => DecisionHasEvidence
  BY DEF IInv, KeyInv, DecisionHasEvidence
<1> QED
  BY <1>1, Invariance, PTL

(***************************************************************************)
(* The store implements the decision register.                             *)
(***************************************************************************)

\* A step that touches no decision and answers for no call is a stutter of the register.
LEMMA QuietStep ==
    ASSUME \A k \in Keys : /\ decision'[k] = decision[k]
                           /\ durable'.decision[k] = durable.decision[k],
           \A c \in Calls : /\ HasAnswered(c)' <=> HasAnswered(c)
                            /\ HasAnswered(c) => AnswerOf(c)' = AnswerOf(c)
    PROVE  UNCHANGED <<RegView, AnswersView>>
<1>1. RegView' = RegView
  BY DEF RegView
<1>2. AnswersView' = AnswersView
  BY DEF AnswersView
<1> QED
  BY <1>1, <1>2

LEMMA RegisterInit == Init => Register!Init
BY DEF Init, Register!Init, Register!Empty, RegView, AnswersView, HasAnswered

\* Frame of a step of one call: the other calls' answers stay.
LEMMA OthersAnswers == ASSUME NEW d \in Calls, SameCall(d)
                       PROVE  /\ HasAnswered(d)' <=> HasAnswered(d)
                              /\ AnswerOf(d)' = AnswerOf(d)
BY DEF SameCall, HasAnswered, AnswerOf

\* The steps before the answer that touch no decision.
LEMMA QuietCallStep ==
    ASSUME IInv, NEW c \in Calls,
           \/ LookupHit(c) \/ CollectAndDecide(c) \/ LinkEvidence(c) \/ SyncEvidence(c)
           \/ Reread(c) \/ OpenLog(c) \/ WriteLog(c)
           \/ FailAppend(c) \/ Fail(c) \/ Crash(c)
    PROVE  UNCHANGED <<RegView, AnswersView>>
<1> USE DEF IInv, TypeOK
<1>1. \A d \in Calls \ {c} : SameCall(d)
  BY DEF LookupHit, CollectAndDecide, LinkEvidence, SyncEvidence, Reread, OpenLog, WriteLog,
     FailAppend, Fail, Crash, End, Goto, local, SameCall
<1>2. ~HasAnswered(c) /\ ~HasAnswered(c)'
  BY DEF LookupHit, CollectAndDecide, LinkEvidence, AfterEvidence, SyncEvidence, Reread,
     OpenLog, WriteLog, FailAppend, Fail, Crash, DeadAt, End, Goto, HasAnswered, Working,
     Appending
<1>3. decision' = decision /\ durable'.decision = durable.decision
  BY DEF LookupHit, CollectAndDecide, LinkEvidence, SyncEvidence, Reread, OpenLog, WriteLog,
     FailAppend, Fail, Crash, disk
<1>4. \A d \in Calls : /\ HasAnswered(d)' <=> HasAnswered(d)
                       /\ HasAnswered(d) => AnswerOf(d)' = AnswerOf(d)
  BY <1>1, <1>2, OthersAnswers
<1> QED
  BY <1>3, <1>4, QuietStep

LEMMA LinkDecisionRecords ==
    ASSUME IInv, NEW c \in Calls, LinkDecision(c)
    PROVE  \/ \E k \in Keys, v \in Verdict : Register!Record(k, v)
           \/ UNCHANGED <<RegView, AnswersView>>
<1>1. TypeOK /\ CallInv(c) /\ \A k \in Keys : KeyInv(k)
  BY DEF IInv
<1>2. \A d \in Calls \ {c} : SameCall(d)
  BY <1>1 DEF LinkDecision, Goto, local, SameCall, TypeOK
<1>3. ~HasAnswered(c) /\ ~HasAnswered(c)'
  BY <1>1 DEF LinkDecision, Goto, HasAnswered, TypeOK
<1>4. AnswersView' = AnswersView
  BY <1>2, <1>3, OthersAnswers DEF AnswersView
<1>5. key[c] \in Keys /\ mine[c] \in Verdict
  BY <1>1 DEF LinkDecision, CallInv, Progress
<1>6. durable' = durable
  BY DEF LinkDecision
<1>7. CASE decision[key[c]] = None
  <2>1. decision' = [decision EXCEPT ![key[c]] = mine[c]]
    BY <1>7 DEF LinkDecision
  <2>2. durable.decision[key[c]] = None
    BY <1>1, <1>5, <1>7 DEF KeyInv
  <2>3. RegView[key[c]] = Register!Empty
    BY <1>5, <1>7 DEF RegView, Register!Empty
  <2>4. RegView' = [RegView EXCEPT ![key[c]] = [status |-> "tentative", verdict |-> mine[c]]]
    BY <1>1, <1>5, <1>6, <2>1, <2>2, NoneIsNoVerdict DEF RegView, TypeOK
  <2>5. Register!Record(key[c], mine[c])
    BY <1>4, <2>3, <2>4 DEF Register!Record
  <2> QED
    BY <1>5, <2>5
<1>8. CASE decision[key[c]] # None
  BY <1>4, <1>6, <1>8 DEF LinkDecision, RegView
<1> QED
  BY <1>7, <1>8

\* A step that only makes decisions durable, or forgets the ones that are not.
LEMMA SettlingStep ==
    ASSUME \A k \in Keys : KeyInv(k),
           decision' \in [Keys -> Verdict \cup {None}],
           \A k \in Keys : decision'[k] \in {durable.decision[k], decision[k]},
           durable'.decision = decision',
           AnswersView' = AnswersView
    PROVE  Register!Settle \/ UNCHANGED <<RegView, AnswersView>>
<1>1. RegView' \in Register!RegType
  BY DEF RegView, Register!RegType, Register!Empty
<1>2. ASSUME NEW k \in Keys
      PROVE  \/ RegView'[k] = RegView[k]
             \/ /\ RegView[k].status = "tentative"
                /\ RegView'[k] \in {Register!Empty,
                                    [status |-> "final", verdict |-> RegView[k].verdict]}
  <2>1. durable.decision[k] \in {None, decision[k]} /\ decision'[k] \in {None, decision[k]}
    BY DEF KeyInv
  <2>2. CASE decision[k] = None
    BY <2>1, <2>2 DEF RegView
  <2>3. CASE decision[k] # None /\ durable.decision[k] = decision[k]
    BY <2>3 DEF RegView
  <2>4. CASE decision[k] # None /\ durable.decision[k] # decision[k]
    BY <2>1, <2>4 DEF RegView, Register!Empty
  <2> QED
    BY <2>2, <2>3, <2>4
<1> QED
  BY <1>1, <1>2 DEF Register!Settle

LEMMA SyncDecisionSettles ==
    ASSUME IInv, NEW c \in Calls, SyncDecision(c)
    PROVE  Register!Settle \/ UNCHANGED <<RegView, AnswersView>>
<1>1. TypeOK /\ \A k \in Keys : KeyInv(k)
  BY DEF IInv
<1>2. \A d \in Calls \ {c} : SameCall(d)
  BY <1>1 DEF SyncDecision, Goto, SameCall, TypeOK
<1>3. ~HasAnswered(c) /\ ~HasAnswered(c)'
  BY <1>1 DEF SyncDecision, Goto, HasAnswered, TypeOK
<1>4. AnswersView' = AnswersView
  BY <1>2, <1>3, OthersAnswers DEF AnswersView
<1>5. decision' = decision /\ durable'.decision = decision'
  BY <1>1 DEF SyncDecision, TypeOK
<1> QED
  BY <1>1, <1>4, <1>5, SettlingStep DEF TypeOK

LEMMA PowerLossSettles ==
    ASSUME IInv, PowerLoss
    PROVE  Register!Settle \/ UNCHANGED <<RegView, AnswersView>>
<1>1. TypeOK /\ \A k \in Keys : KeyInv(k)
  BY DEF IInv
<1>2. \A c \in Calls : /\ HasAnswered(c)' <=> HasAnswered(c)
                       /\ HasAnswered(c) => AnswerOf(c)' = AnswerOf(c)
  BY <1>1 DEF PowerLoss, HasAnswered, AnswerOf, DeadAt, Working, Appending, TypeOK
<1>3. AnswersView' = AnswersView
  BY <1>2 DEF AnswersView
<1>4. decision' \in [Keys -> Verdict \cup {None}]
  BY <1>1 DEF PowerLoss, TypeOK
<1>5. /\ \A k \in Keys : decision'[k] \in {durable.decision[k], decision[k]}
      /\ durable'.decision = decision'
  BY DEF PowerLoss
<1> QED
  BY <1>1, <1>3, <1>4, <1>5, SettlingStep

\* The step with which a call answers for its key is the register's reply.
LEMMA AnsweringStep ==
    ASSUME IInv, NEW c \in Calls,
           pc[c] \in {"claim", "sync log"}, pc'[c] = "done", key[c] \in Keys,
           key' = key /\ winner' = winner /\ original' = original,
           decision' = decision /\ durable'.decision = durable.decision,
           \A d \in Calls \ {c} : SameCall(d)
    PROVE  Register!Reply(c, key[c], original[c])
<1>1. TypeOK /\ \A d \in Calls : CallInv(d)
  BY DEF IInv
<1>2. decision[key[c]] # None /\ winner[c] = decision[key[c]]
  BY <1>1 DEF CallInv, Progress, Appending
<1>3. ~HasAnswered(c) /\ HasAnswered(c)'
  BY ConstantsAssumption DEF HasAnswered
<1>4. UNCHANGED RegView
  BY DEF RegView
<1>5. RegView[key[c]] # Register!Empty /\ RegView[key[c]].verdict = winner[c]
  BY <1>2 DEF RegView, Register!Empty
<1>6. original[c] => RegView[key[c]].status = "final"
  BY <1>1, <1>2 DEF RegView, CallInv, CreatorIsDurable
<1>7. ASSUME original[c], NEW d \in Calls, AnswersView[d] # None,
             AnswersView[d].key = key[c], AnswersView[d].original
      PROVE  FALSE
  <2>1. HasAnswered(d)
    BY <1>7 DEF AnswersView
  <2>2. original[d] /\ key[d] = key[c]
    BY <1>7, <2>1 DEF AnswersView, AnswerOf
  <2>3. winner[d].by = d /\ durable.decision[key[c]] = winner[d]
    BY <1>1, <2>2 DEF CallInv, CreatorIsDurable
  <2>4. winner[c].by = c /\ durable.decision[key[c]] = winner[c]
    BY <1>1, <1>7 DEF CallInv, CreatorIsDurable
  <2> QED
    BY <1>3, <2>1, <2>3, <2>4
<1>8. AnswersView[c] = None
  BY <1>3 DEF AnswersView
<1>9. AnswersView' = [AnswersView EXCEPT ![c] =
          [key |-> key[c], verdict |-> RegView[key[c]].verdict, original |-> original[c]]]
  <2>1. AnswersView'[c] = [key |-> key[c], verdict |-> winner[c], original |-> original[c]]
    BY <1>3 DEF AnswersView, AnswerOf
  <2>2. \A d \in Calls \ {c} : AnswersView'[d] = AnswersView[d]
    BY OthersAnswers DEF AnswersView
  <2> QED
    BY <1>5, <2>1, <2>2 DEF AnswersView
<1> QED
  BY <1>4, <1>5, <1>6, <1>7, <1>8, <1>9 DEF Register!Reply

LEMMA EndingStep ==
    ASSUME IInv, NEW c \in Calls, ClaimMarker(c) \/ SyncLog(c)
    PROVE  \/ \E k \in Keys, o \in BOOLEAN : Register!Reply(c, k, o)
           \/ UNCHANGED <<RegView, AnswersView>>
<1>1. TypeOK
  BY DEF IInv
<1>2. \A d \in Calls \ {c} : SameCall(d)
  BY <1>1 DEF ClaimMarker, SyncLog, Goto, local, SameCall, TypeOK
<1>3. /\ key' = key /\ winner' = winner /\ original' = original
      /\ decision' = decision /\ durable'.decision = durable.decision
  BY <1>1 DEF ClaimMarker, SyncLog, local, TypeOK
<1>4. pc[c] \in {"claim", "sync log"} /\ pc'[c] \in {"done", "open"}
  BY <1>1 DEF ClaimMarker, SyncLog, Goto, TypeOK
<1>5. original[c] \in BOOLEAN
  BY <1>1 DEF TypeOK
<1>6. CASE pc'[c] = "done" /\ key[c] \in Keys
  BY <1>2, <1>3, <1>4, <1>5, <1>6, AnsweringStep
<1>7. CASE pc'[c] = "open" \/ key[c] \notin Keys
  <2>1. ~HasAnswered(c) /\ ~HasAnswered(c)'
    BY <1>1, <1>3, <1>4, <1>7 DEF HasAnswered, TypeOK
  <2> QED
    BY <1>2, <1>3, <2>1, OthersAnswers, QuietStep
<1> QED
  BY <1>4, <1>6, <1>7

\* Every step of the store is a step of the register or leaves it alone.
LEMMA RegisterStep ==
    ASSUME IInv, [Next]_vars
    PROVE  [Register!Next]_<<RegView, AnswersView>>
<1>1. ASSUME NEW c \in Calls, CallStep(c) \/ FailAppend(c) \/ Fail(c) \/ Crash(c)
      PROVE  Register!Next \/ UNCHANGED <<RegView, AnswersView>>
  <2>1. CASE \/ LookupHit(c) \/ CollectAndDecide(c) \/ LinkEvidence(c) \/ SyncEvidence(c)
             \/ Reread(c) \/ OpenLog(c) \/ WriteLog(c)
             \/ FailAppend(c) \/ Fail(c) \/ Crash(c)
    BY <2>1, QuietCallStep
  <2>2. CASE LinkDecision(c)
    BY <2>2, LinkDecisionRecords DEF Register!Next
  <2>3. CASE SyncDecision(c)
    BY <2>3, SyncDecisionSettles DEF Register!Next
  <2>4. CASE ClaimMarker(c) \/ SyncLog(c)
    BY <2>4, EndingStep DEF Register!Next
  <2> QED
    BY <1>1, <2>1, <2>2, <2>3, <2>4 DEF CallStep
<1>2. CASE PowerLoss
  BY <1>2, PowerLossSettles DEF Register!Next
<1>3. CASE UNCHANGED vars
  BY <1>3 DEF vars, RegView, AnswersView, HasAnswered, AnswerOf
<1> QED
  BY <1>1, <1>2, <1>3 DEF Next

\* The store is a decision register: the first record stands, only the call that made it
\* claims it, and only once the record is on the platter.
THEOREM Implements == Spec => ImplementsRegister
BY InitIInv, RegisterInit, Invariance, RegisterStep, PTL
   DEF Spec, ImplementsRegister, Register!Spec, Register!vars

(***************************************************************************)
(* The verdict log, for any finite set of calls and any number of faults.  *)
(***************************************************************************)

(***************************************************************************)
(* The inductive invariant: where each call's line is.                     *)
(***************************************************************************)

\* A line after the newline that ends a torn tail: a call writes this or its last three pieces.
Repair(c) == <<Newline, BodyStart(c), BodyEnd(c), Newline>>

\* s, of length n, is what is left of it.
RestOf(c, s, n) == n \in 1 .. 4 /\ \A i \in 1 .. n : s[i] = Repair(c)[4 - n + i]
IsRest(c, s) == RestOf(c, s, Len(s))

\* The body of c has begun in the log.
Begun(l, c) == \E i \in 1 .. Len(l) : l[i] = BodyStart(c)
Written(c) == Begun(log, c)

\* The line of c lies between newlines in the first n pieces of the log.
Between(l, c, n) ==
    \E i \in 1 .. n - 2 :
        /\ l[i] = BodyStart(c) /\ l[i + 1] = BodyEnd(c) /\ l[i + 2] = Newline
        /\ i = 1 \/ l[i - 1] = Newline
Whole(c, n) == Between(log, c, n)

\* What a short write has not come between goes to the log in one piece, and the sync keeps it.
LineInv(c) ==
    /\ pc[c] \in (Working \cup {"dead"}) \ {"write", "sync log"} => ~Written(c)
    /\ pc[c] = "write" => IsRest(c, rest[c])
    /\ pc[c] = "write" /\ ~exposed[c] =>
          ~Written(c) /\ Len(rest[c]) >= 3 /\ (TornTail => Len(rest[c]) = 4)
    /\ pc[c] = "sync log" /\ ~exposed[c] => Whole(c, Len(log))
    /\ pc[c] \in {"done", "done earlier"} /\ ~exposed[c] /\ Written(c) => Whole(c, durable.log)

\* Call c stands for its key's marker: it appends, was killed appending, or has appended.
Holds(c) ==
    \/ pc[c] \in Appending \cup {"crashed append"}
    \/ pc[c] = "done" /\ Written(c)

\* Call c explains the marker: its line is there or something happened to it.
Explains(c) ==
    \/ pc[c] \in Appending \cup {"failed append", "crashed append"}
    \/ pc[c] = "done" /\ (exposed[c] \/ Whole(c, Len(log)))

\* Until power is lost, one call at most stands for a marker, and every marker has an explanation.
MarkerInv ==
    ~lost =>
        /\ \A c \in Calls : pc[c] # "done earlier"
        /\ \A c \in Calls : key[c] \in Keys /\ Holds(c) => key[c] \in marker
        /\ \A c, d \in Calls : key[c] \in Keys /\ key[c] = key[d] /\ Holds(c) /\ Holds(d) => c = d
        /\ \A k \in marker : \E c \in Calls : key[c] = k /\ Explains(c)

LogInv ==
    /\ durable.log <= Len(log)
    /\ \A c \in Calls : LineInv(c)
    /\ MarkerInv

(***************************************************************************)
(* Sequences of pieces.                                                    *)
(***************************************************************************)
Extends(m, l) == Len(l) <= Len(m) /\ \A i \in 1 .. Len(l) : m[i] = l[i]

LEMMA PiecesApart ==
    ASSUME NEW c \in Calls, NEW d \in Calls
    PROVE  /\ BodyStart(c) # Newline /\ BodyStart(c) # BodyEnd(d)
           /\ BodyStart(c) = BodyStart(d) => c = d
BY DEF BodyStart, BodyEnd, Newline

LEMMA WholeStays ==
    ASSUME NEW l \in Seq(Piece), NEW m \in Seq(Piece), Extends(m, l), NEW c,
           NEW n \in Nat, n <= Len(l), NEW k \in Nat, n <= k, Between(l, c, n)
    PROVE  Between(m, c, k)
<1>1. Len(l) \in Nat
  BY LenProperties
<1>2. PICK i \in 1 .. n - 2 : /\ l[i] = BodyStart(c) /\ l[i + 1] = BodyEnd(c) /\ l[i + 2] = Newline
                              /\ i = 1 \/ l[i - 1] = Newline
  BY DEF Between
<1>3. /\ i \in 1 .. k - 2 /\ i \in 1 .. Len(l) /\ i + 1 \in 1 .. Len(l) /\ i + 2 \in 1 .. Len(l)
      /\ i # 1 => i - 1 \in 1 .. Len(l)
  BY <1>1
<1>4. m[i] = l[i] /\ m[i + 1] = l[i + 1] /\ m[i + 2] = l[i + 2] /\ (i # 1 => m[i - 1] = l[i - 1])
  BY <1>3 DEF Extends
<1>5. /\ m[i] = BodyStart(c) /\ m[i + 1] = BodyEnd(c) /\ m[i + 2] = Newline
      /\ i = 1 \/ m[i - 1] = Newline
  BY <1>2, <1>4
<1>6. QED
  BY <1>3, <1>5 DEF Between

LEMMA WholeGrows ==
    ASSUME NEW l \in Seq(Piece), NEW m \in Seq(Piece), Extends(m, l), NEW c, Between(l, c, Len(l))
    PROVE  Between(m, c, Len(m))
<1>1. Len(l) \in Nat /\ Len(m) \in Nat
  BY LenProperties
<1>2. Len(l) <= Len(l) /\ Len(l) <= Len(m)
  BY <1>1 DEF Extends
<1>3. QED
  BY <1>1, <1>2, WholeStays

LEMMA ExtendsItself == ASSUME NEW l \in Seq(Piece) PROVE Extends(l, l)
<1>1. Len(l) \in Nat
  BY LenProperties
<1>2. QED
  BY <1>1 DEF Extends

LEMMA WholeIsReadable == ASSUME NEW c, NEW n \in Nat, TypeOK, n <= Len(log), Whole(c, n)
                         PROVE  Readable(c)
<1>1. Len(log) \in Nat
  BY LenProperties DEF TypeOK
<1>2. PICK i \in 1 .. n - 2 : /\ log[i] = BodyStart(c) /\ log[i + 1] = BodyEnd(c) /\ log[i + 2] = Newline
                              /\ i = 1 \/ log[i - 1] = Newline
  BY DEF Whole, Between
<1>3. i \in 1 .. Len(log) - 1
  BY <1>1
<1>4. i + 1 = Len(log) \/ log[i + 2] = Newline
  BY <1>2
<1>5. QED
  BY <1>2, <1>3, <1>4, Zenon DEF Readable

(***************************************************************************)
(* What a step leaves alone.                                               *)
(***************************************************************************)
LEMMA LineStays ==
    ASSUME TypeOK, TypeOK', LogInv, NEW d \in Calls,
           pc'[d] = pc[d], rest'[d] = rest[d], exposed[d] => exposed'[d],
           Extends(log', log), Written(d)' => Written(d), durable.log <= durable'.log,
           pc[d] = "write" /\ ~exposed'[d] /\ TornTail' => TornTail
    PROVE  LineInv(d)'
<1>1. LineInv(d) /\ durable.log <= Len(log)
  BY DEF LogInv
<1>2. /\ log \in Seq(Piece) /\ log' \in Seq(Piece) /\ Len(log) \in Nat /\ Len(log') \in Nat
      /\ durable.log \in Nat /\ durable'.log \in Nat
  BY LenProperties DEF TypeOK
<1>3. Len(log) <= Len(log')
  BY DEF Extends
<1>4. pc[d] = "sync log" /\ ~exposed'[d] => Whole(d, Len(log))'
  BY <1>1, <1>2, WholeGrows DEF LineInv, Whole
<1>5. pc[d] \in {"done", "done earlier"} /\ ~exposed'[d] /\ Written(d)' => Whole(d, durable.log)'
  <2>1. Between(log, d, durable.log) => Between(log', d, durable'.log)
    BY <1>1, <1>2, WholeStays
  <2>2. QED
    BY <1>1, <2>1 DEF LineInv, Whole
<1>6. IsRest(d, rest[d])' <=> IsRest(d, rest[d])
  BY DEF IsRest, RestOf
<1>7. QED
  BY <1>1, <1>4, <1>5, <1>6 DEF LineInv

\* A step of call c that gives nobody a marker and takes none away.
LEMMA MarkerStays ==
    ASSUME TypeOK, TypeOK', MarkerInv, NEW c \in Calls,
           lost' = lost, key' = key, marker' = marker, Extends(log', log),
           \A d \in Calls \ {c} : pc'[d] = pc[d] /\ (exposed[d] => exposed'[d]) /\ (Written(d)' => Written(d)),
           pc'[c] # "done earlier", key[c] \in Keys /\ Holds(c)' => Holds(c), Explains(c) => Explains(c)'
    PROVE  MarkerInv'
<1> SUFFICES ASSUME ~lost PROVE MarkerInv'
  BY DEF MarkerInv
<1>1. log \in Seq(Piece) /\ log' \in Seq(Piece)
  BY DEF TypeOK
<1>2. \A d \in Calls : Between(log, d, Len(log)) => Between(log', d, Len(log'))
  BY <1>1, WholeGrows
<1>3. \A d \in Calls : Explains(d) => Explains(d)'
  BY <1>2 DEF Explains, Whole
<1>4. \A d \in Calls : key[d] \in Keys /\ Holds(d)' => Holds(d)
  BY DEF Holds
<1>5. \A d \in Calls : pc'[d] # "done earlier"
  BY DEF MarkerInv
<1>6. QED
  BY <1>3, <1>4, <1>5 DEF MarkerInv

\* A step of call c that leaves the log and its durable part alone.
LEMMA LogStays ==
    ASSUME TypeOK, TypeOK', LogInv, NEW c \in Calls,
           log' = log, durable'.log = durable.log,
           \A d \in Calls \ {c} : pc'[d] = pc[d] /\ rest'[d] = rest[d] /\ exposed'[d] = exposed[d],
           LineInv(c)', MarkerInv'
    PROVE  LogInv'
<1>1. Extends(log', log) /\ (TornTail' => TornTail) /\ durable.log <= durable'.log
  <2>1. log \in Seq(Piece) /\ durable.log \in Nat
    BY DEF TypeOK
  <2>2. QED
    BY <2>1, ExtendsItself DEF TornTail
<1>2. \A d \in Calls : Written(d)' => Written(d)
  BY DEF Written
<1>3. ASSUME NEW d \in Calls
      PROVE  LineInv(d)'
  <2>1. CASE d # c
    BY <1>1, <1>2, <2>1, LineStays
  <2>2. QED
    BY <2>1
<1>4. QED
  BY <1>3 DEF LogInv

\* Before its append a call has nothing to do with the log and its markers.
LEMMA BeforeAppend ==
    ASSUME TypeOK, TypeOK', LogInv, NEW c \in Calls,
           pc[c] \in Working \ Appending, pc'[c] \in (Working \cup {"dead"}) \ {"write", "sync log"},
           pc'[c] = "open" => key[c] \notin Keys,
           \A d \in Calls \ {c} : pc'[d] = pc[d] /\ rest'[d] = rest[d] /\ exposed'[d] = exposed[d],
           UNCHANGED <<log, marker, key, lost>>, durable'.log = durable.log
    PROVE  LogInv'
<1>1. LineInv(c) /\ MarkerInv
  BY DEF LogInv
<1>2. ~Written(c) /\ ~Written(c)'
  BY <1>1 DEF LineInv, Written, Working, Appending
<1>3. LineInv(c)'
  BY <1>2 DEF LineInv, Working, Appending
<1>4. Extends(log', log)
  BY ExtendsItself DEF TypeOK
<1>5. \A d \in Calls \ {c} : pc'[d] = pc[d] /\ (exposed[d] => exposed'[d]) /\ (Written(d)' => Written(d))
  BY DEF Written
<1>6. key[c] \in Keys => ~Holds(c)'
  BY <1>2 DEF Holds, Working, Appending
<1>7. pc'[c] # "done earlier" /\ ~Explains(c)
  BY DEF Explains, Working, Appending
<1>8. MarkerInv'
  BY <1>1, <1>4, <1>5, <1>6, <1>7, MarkerStays
<1>9. QED
  BY <1>3, <1>8, LogStays

LEMMA QuietSteps ==
    ASSUME IInv, IInv', LogInv, NEW c \in Calls,
           \/ LookupHit(c) \/ CollectAndDecide(c) \/ LinkEvidence(c) \/ SyncEvidence(c)
           \/ LinkDecision(c) \/ SyncDecision(c) \/ Reread(c) \/ Fail(c)
    PROVE  LogInv'
<1>1. TypeOK /\ TypeOK' /\ CallInv(c)
  BY DEF IInv
<1>2. UNCHANGED <<log, marker, key, lost>> /\ durable'.log = durable.log
  BY <1>1 DEF LookupHit, CollectAndDecide, LinkEvidence, SyncEvidence, LinkDecision, SyncDecision,
     Reread, Fail, End, disk, local, history, TypeOK
<1>3. \A d \in Calls \ {c} : pc'[d] = pc[d] /\ rest'[d] = rest[d] /\ exposed'[d] = exposed[d]
  BY ZenonT(30), <1>1 DEF LookupHit, CollectAndDecide, LinkEvidence, SyncEvidence, LinkDecision, SyncDecision,
     Reread, Fail, End, Goto, TypeOK
<1>4. key[c] = NoKey => key[c] \notin Keys
  BY ConstantsAssumption
<1>5. /\ pc[c] \in Working \ Appending
      /\ pc'[c] \in (Working \cup {"dead"}) \ {"write", "sync log"}
      /\ pc'[c] = "open" => key[c] = NoKey
  BY ZenonT(30), <1>1 DEF LookupHit, CollectAndDecide, LinkEvidence, SyncEvidence, LinkDecision, SyncDecision,
     Reread, Fail, End, Goto, AfterEvidence, TypeOK, Working, Appending
<1>6. QED
  BY <1>1, <1>2, <1>3, <1>4, <1>5, BeforeAppend

LEMMA ClaimLog ==
    ASSUME IInv, IInv', LogInv, NEW c \in Calls, ClaimMarker(c)
    PROVE  LogInv'
<1>1. TypeOK /\ TypeOK' /\ CallInv(c) /\ LineInv(c) /\ MarkerInv
  BY DEF IInv, LogInv
<1>2. /\ pc[c] = "claim" /\ marker' = marker \cup {key[c]}
      /\ pc' = [pc EXCEPT ![c] = IF key[c] \in marker THEN "done" ELSE "open"]
      /\ UNCHANGED <<log, durable, rest, exposed, lost, key>>
  BY DEF ClaimMarker, Goto, local, history
<1>3. key[c] \in Keys /\ pc'[c] = IF key[c] \in marker THEN "done" ELSE "open"
  BY <1>1, <1>2 DEF CallInv, Progress, TypeOK
<1>4. \A d \in Calls \ {c} : pc'[d] = pc[d] /\ rest'[d] = rest[d] /\ exposed'[d] = exposed[d]
  BY <1>1, <1>2 DEF TypeOK
<1>5. ~Written(c) /\ \A d \in Calls : Written(d)' <=> Written(d)
  BY <1>1, <1>2 DEF LineInv, Written, Working, Appending
<1>6. LineInv(c)'
  BY <1>3, <1>5 DEF LineInv, Working, Appending
<1>7. ~Holds(c) /\ ~Explains(c)
  BY <1>2 DEF Holds, Explains, Appending
<1>8. MarkerInv'
  <2>1. CASE key[c] \in marker
    <3>1. pc'[c] = "done" /\ marker' = marker
      BY <1>2, <1>3, <2>1
    <3>2. ~Holds(c)'
      BY <1>5, <3>1 DEF Holds, Appending
    <3>3. Extends(log', log)
      BY <1>1, <1>2, ExtendsItself DEF TypeOK
    <3>4. QED
      BY <1>1, <1>2, <1>4, <1>5, <1>7, <3>1, <3>3, <3>2, MarkerStays
  <2>2. CASE key[c] \notin marker /\ ~lost
    <3>1. \A d \in Calls \ {c} : Holds(d)' => Holds(d) /\ (key[d] \in Keys => key[d] # key[c])
      BY <1>1, <1>4, <1>5, <2>2 DEF Holds, MarkerInv
    <3>2. \A d \in Calls \ {c} : Explains(d) => Explains(d)'
      BY <1>2, <1>4 DEF Explains, Whole
    <3>3. pc'[c] = "open" /\ Explains(c)'
      BY <1>3, <2>2 DEF Explains, Appending
    <3>4. \A d \in Calls : pc'[d] # "done earlier"
      BY <1>1, <1>4, <2>2, <3>3 DEF MarkerInv
    <3>5. \A d \in Calls : key[d] \in Keys /\ Holds(d)' => key[d] \in marker'
      BY <1>1, <1>2, <2>2, <3>1 DEF MarkerInv
    <3>6. \A d, e \in Calls : key[d] \in Keys /\ key[d] = key[e] /\ Holds(d)' /\ Holds(e)' => d = e
      BY <1>1, <2>2, <3>1 DEF MarkerInv
    <3>7. \A k \in marker' : \E d \in Calls : key[d] = k /\ Explains(d)'
      BY <1>1, <1>2, <1>7, <2>2, <3>2, <3>3 DEF MarkerInv
    <3>8. QED
      BY <1>2, <3>4, <3>5, <3>6, <3>7 DEF MarkerInv, Holds, Explains, Written, Whole
  <2>3. CASE lost
    BY <1>2, <2>3 DEF MarkerInv
  <2>4. QED
    BY <2>1, <2>2, <2>3
<1>9. QED
  BY <1>1, <1>2, <1>4, <1>6, <1>8, LogStays

LEMMA RepairIs == ASSUME NEW c \in Calls PROVE <<Newline>> \o Line(c) = Repair(c)
<1> DEFINE l == <<BodyStart(c), BodyEnd(c), Newline>>
           m == <<Newline>> \o l
           r == <<Newline, BodyStart(c), BodyEnd(c), Newline>>
<1>1. l \in Seq(Piece) /\ r \in Seq(Piece) /\ Len(r) = 4 /\ Len(l) = 3
      /\ <<Newline>> \in Seq(Piece) /\ Len(<<Newline>>) = 1
  BY DEF Piece, Newline, BodyStart, BodyEnd
<1>2. m \in Seq(Piece) /\ Len(m) = 4
      /\ \A i \in 1 .. 4 : m[i] = IF i <= 1 THEN <<Newline>>[i] ELSE l[i - 1]
  BY <1>1, ConcatProperties
<1>3. m[1] = r[1] /\ m[2] = r[2] /\ m[3] = r[3] /\ m[4] = r[4]
  BY <1>2
<1>4. m = r
  <2> HIDE DEF m, r
  <2>1. \A i \in 1 .. 4 : i = 1 \/ i = 2 \/ i = 3 \/ i = 4
    OBVIOUS
  <2>2. QED
    BY <1>1, <1>2, <1>3, <2>1, SeqEqual
<1>5. QED
  BY <1>4 DEF Line, Repair

LEMMA OpenLogLog ==
    ASSUME IInv, IInv', LogInv, NEW c \in Calls, OpenLog(c)
    PROVE  LogInv'
<1>1. TypeOK /\ TypeOK' /\ LineInv(c) /\ MarkerInv
  BY DEF IInv, LogInv
<1>2. /\ pc[c] = "open" /\ pc' = [pc EXCEPT ![c] = "write"]
      /\ rest' = [rest EXCEPT ![c] = (IF TornTail THEN <<Newline>> ELSE <<>>) \o Line(c)]
      /\ UNCHANGED <<log, marker, durable, exposed, lost, key>>
  BY DEF OpenLog, Goto, disk, local, history
<1>3. \A d \in Calls \ {c} : pc'[d] = pc[d] /\ rest'[d] = rest[d] /\ exposed'[d] = exposed[d]
  BY <1>1, <1>2 DEF TypeOK
<1>4. pc'[c] = "write" /\ rest'[c] = (IF TornTail THEN <<Newline>> ELSE <<>>) \o Line(c)
  BY <1>1, <1>2 DEF TypeOK
<1>5. IsRest(c, rest'[c]) /\ Len(rest'[c]) >= 3 /\ (TornTail => Len(rest'[c]) = 4)
  <2>1. CASE TornTail
    <3>1. rest'[c] = Repair(c)
      BY <1>4, <2>1, RepairIs
    <3>2. Len(Repair(c)) = 4
      BY DEF Repair
    <3>3. QED
      BY <3>1, <3>2 DEF IsRest, RestOf
  <2>2. CASE ~TornTail
    <3>1. rest'[c] = Line(c)
      BY <1>4, <2>2 DEF Line
    <3>2. Len(Line(c)) = 3
      BY DEF Line
    <3>3. \A i \in 1 .. 3 : Line(c)[i] = Repair(c)[4 - 3 + i]
      BY DEF Line, Repair
    <3>4. QED
      BY <2>2, <3>1, <3>2, <3>3 DEF IsRest, RestOf
  <2>3. QED
    BY <2>1, <2>2
<1>6. ~Written(c)' /\ (TornTail' <=> TornTail)
  BY <1>1, <1>2 DEF LineInv, Written, TornTail, Working, Appending
<1>7. LineInv(c)'
  <2>1. IsRest(c, rest[c])'
    BY <1>5 DEF IsRest, RestOf
  <2>2. QED
    BY <1>4, <1>5, <1>6, <2>1 DEF LineInv
<1>8. Extends(log', log) /\ \A d \in Calls : Written(d)' => Written(d)
  BY <1>1, <1>2, ExtendsItself DEF TypeOK, Written
<1>9. Holds(c) /\ Explains(c)'
  BY <1>2, <1>4 DEF Holds, Explains, Appending
<1>10. MarkerInv'
  BY <1>1, <1>2, <1>3, <1>4, <1>8, <1>9, MarkerStays
<1>11. QED
  BY <1>1, <1>2, <1>3, <1>7, <1>10, LogStays

(***************************************************************************)
(* One write() of n of the L pieces s that call c has left: the log l of   *)
(* a pieces becomes m.                                                     *)
(***************************************************************************)
Appends(m, l, a, s, n) ==
    /\ \A i \in 1 .. a : m[i] = l[i]
    /\ \A i \in 1 .. n : m[a + i] = s[i]

LEMMA RestPieces ==
    ASSUME NEW c \in Calls, NEW s, NEW L \in Int, RestOf(c, s, L)
    PROVE  /\ \A i \in 1 .. L : s[i] \in {Newline, BodyStart(c), BodyEnd(c)}
           /\ s[L] = Newline
           /\ L >= 3 => s[L - 1] = BodyEnd(c) /\ s[L - 2] = BodyStart(c)
           /\ L = 4 => s[1] = Newline
<1> DEFINE r == Repair(c)
<1>1. r[1] = Newline /\ r[2] = BodyStart(c) /\ r[3] = BodyEnd(c) /\ r[4] = Newline
  BY DEF Repair
<1> HIDE DEF r
<1>2. L \in 1 .. 4 /\ \A i \in 1 .. L : s[i] = r[4 - L + i]
  BY DEF RestOf, r
<1>3. \A i \in 1 .. L : s[i] \in {r[1], r[2], r[3], r[4]}
  BY <1>2
<1>4. s[L] = r[4] /\ (L >= 3 => s[L - 1] = r[3] /\ s[L - 2] = r[2]) /\ (L = 4 => s[1] = r[1])
  BY <1>2
<1>5. QED
  BY <1>1, <1>3, <1>4

LEMMA RestOfRest ==
    ASSUME NEW c \in Calls, NEW s, NEW L \in Int, RestOf(c, s, L), NEW n \in 1 .. L - 1, NEW t,
           \A i \in 1 .. L - n : t[i] = s[n + i]
    PROVE  RestOf(c, t, L - n)
<1>1. L \in 1 .. 4 /\ \A i \in 1 .. L : s[i] = Repair(c)[4 - L + i]
  BY DEF RestOf
<1>2. L - n \in 1 .. 4
  BY <1>1
<1>3. ASSUME NEW i \in 1 .. L - n
      PROVE  t[i] = Repair(c)[4 - (L - n) + i]
  <2>1. n + i \in 1 .. L /\ 4 - L + (n + i) = 4 - (L - n) + i
    BY <1>1, <1>2
  <2>2. s[n + i] = Repair(c)[4 - L + (n + i)]
    BY <1>1, <2>1
  <2>3. QED
    BY <2>1, <2>2
<1>4. QED
  BY <1>2, <1>3 DEF RestOf

LEMMA OthersBegun ==
    ASSUME NEW c \in Calls, NEW d \in Calls \ {c}, NEW s, NEW L \in Int, RestOf(c, s, L), NEW n \in 1 .. L,
           NEW l, NEW m, NEW a \in Nat, Appends(m, l, a, s, n),
           NEW i \in 1 .. a + n, m[i] = BodyStart(d)
    PROVE  \E j \in 1 .. a : l[j] = BodyStart(d)
<1>1. CASE i <= a
  <2>1. i \in 1 .. a
    BY <1>1
  <2>2. l[i] = BodyStart(d)
    BY <2>1 DEF Appends
  <2>3. QED
    BY <2>1, <2>2
<1>2. CASE ~(i <= a)
  <2>1. i - a \in 1 .. n /\ a + (i - a) = i /\ i - a \in 1 .. L
    BY <1>2
  <2>2. m[i] = s[i - a]
    BY <2>1 DEF Appends
  <2>3. m[i] \in {Newline, BodyStart(c), BodyEnd(c)}
    BY <2>1, <2>2, RestPieces
  <2>4. QED
    BY <2>3, PiecesApart
<1>3. QED
  BY <1>1, <1>2

LEMMA WrittenWhole ==
    ASSUME NEW c \in Calls, NEW s, NEW L \in Int, RestOf(c, s, L), L >= 3,
           NEW l, NEW m, NEW a \in Nat, Appends(m, l, a, s, L),
           a = 0 \/ l[a] = Newline \/ L = 4
    PROVE  Between(m, c, a + L)
<1> DEFINE i == a + L - 2
<1>1. L = 3 \/ L = 4
  BY DEF RestOf
<1>2. /\ L - 2 \in 1 .. L /\ L - 1 \in 1 .. L /\ L \in 1 .. L /\ 1 \in 1 .. L
      /\ i = a + (L - 2) /\ i + 1 = a + (L - 1) /\ i + 2 = a + L
      /\ i \in 1 .. a + L - 2
  BY <1>1
<1>3. /\ s[L] = Newline /\ s[L - 1] = BodyEnd(c) /\ s[L - 2] = BodyStart(c)
      /\ L = 4 => s[1] = Newline
  BY RestPieces
<1>4. m[i] = BodyStart(c) /\ m[i + 1] = BodyEnd(c) /\ m[i + 2] = Newline
  BY <1>2, <1>3 DEF Appends
<1>5. i = 1 \/ m[i - 1] = Newline
  <2>1. CASE L = 4
    <3>1. i - 1 = a + 1
      BY <2>1
    <3>2. QED
      BY <1>2, <1>3, <2>1, <3>1 DEF Appends
  <2>2. CASE L = 3 /\ a = 0
    BY <2>2
  <2>3. CASE L = 3 /\ a # 0
    <3>1. i - 1 = a /\ a \in 1 .. a /\ l[a] = Newline
      BY <2>3
    <3>2. QED
      BY <3>1 DEF Appends
  <2>4. QED
    BY <1>1, <2>1, <2>2, <2>3
<1> HIDE DEF i
<1>6. QED
  BY <1>2, <1>4, <1>5 DEF Between

LEMMA WriteMeans ==
    ASSUME TypeOK, NEW c \in Calls, WriteLog(c), IsRest(c, rest[c])
    PROVE  \E a \in Nat, L \in Int : \E n \in 1 .. L :
              /\ a = Len(log) /\ L = Len(rest[c]) /\ Len(log') = a + n
              /\ Appends(log', log, a, rest[c], n)
              /\ pc'[c] = IF n = L THEN "sync log" ELSE "write"
              /\ \A d \in Calls : exposed'[d] = (exposed[d] \/ (n < L /\ pc[d] = "write"))
              /\ n < L => IsRest(c, rest'[c])
<1>1. rest[c] \in Seq(Piece) /\ log \in Seq(Piece)
  BY DEF TypeOK
<1>2. Len(log) \in Nat /\ Len(rest[c]) \in Nat
  BY <1>1, LenProperties
<1>3. PICK a \in Nat : a = Len(log)
  BY <1>2
<1>4. PICK L \in Nat : L = Len(rest[c])
  BY <1>2
<1>5. PICK n \in 1 .. L :
          /\ log' = log \o SubSeq(rest[c], 1, n)
          /\ rest' = [rest EXCEPT ![c] = SubSeq(rest[c], n + 1, L)]
          /\ exposed' = [d \in Calls |-> exposed[d] \/ (n < L /\ pc[d] = "write")]
          /\ Goto(c, IF n = L THEN "sync log" ELSE "write")
  BY <1>4 DEF WriteLog
<1> DEFINE head == SubSeq(rest[c], 1, n)
           tail == SubSeq(rest[c], n + 1, L)
<1>6. \A i \in 1 .. L : rest[c][i] \in Piece
  BY <1>1, <1>4, ElementOfSeq
<1>7. n \in Int /\ n + 1 \in Int /\ L \in Int /\ 1 \in Int /\ 1 <= n /\ n <= L
  OBVIOUS
<1>8. head \in Seq(Piece) /\ Len(head) = n /\ \A i \in 1 .. n : head[i] = rest[c][i]
  <2>1. \A i \in 1 .. n : rest[c][i] \in Piece
    BY <1>6, <1>7
  <2>2. /\ head \in Seq(Piece) /\ Len(head) = IF 1 <= n THEN n - 1 + 1 ELSE 0
        /\ \A i \in 1 .. n - 1 + 1 : head[i] = rest[c][1 + i - 1]
    BY <1>7, <2>1, SubSeqProperties
  <2>3. QED
    BY <1>7, <2>2
<1>9. n < L => Len(tail) = L - n /\ \A i \in 1 .. L - n : tail[i] = rest[c][n + i]
  <2>1. \A i \in n + 1 .. L : rest[c][i] \in Piece
    BY <1>6, <1>7
  <2>2. /\ Len(tail) = IF n + 1 <= L THEN L - (n + 1) + 1 ELSE 0
        /\ \A i \in 1 .. L - (n + 1) + 1 : tail[i] = rest[c][n + 1 + i - 1]
    BY <1>7, <2>1, SubSeqProperties
  <2>3. QED
    BY <1>7, <2>2
<1>10. pc'[c] = (IF n = L THEN "sync log" ELSE "write") /\ rest'[c] = tail
  BY <1>5 DEF TypeOK, Goto
<1>11. log' = log \o head /\ \A d \in Calls : exposed'[d] = (exposed[d] \/ (n < L /\ pc[d] = "write"))
  BY <1>5
<1> HIDE DEF head, tail
<1>12. /\ Len(log') = a + n
       /\ \A i \in 1 .. a + n : log'[i] = IF i <= a THEN log[i] ELSE head[i - a]
  <2>1. /\ Len(log \o head) = Len(log) + Len(head)
        /\ \A i \in 1 .. Len(log) + Len(head) :
              (log \o head)[i] = IF i <= Len(log) THEN log[i] ELSE head[i - Len(log)]
    BY <1>1, <1>8, ConcatProperties
  <2>2. QED
    BY <1>3, <1>8, <1>11, <2>1
<1>13. Appends(log', log, a, rest[c], n)
  BY <1>7, <1>8, <1>12 DEF Appends
<1>14. n < L => IsRest(c, rest'[c])
  <2>1. RestOf(c, rest[c], L)
    BY <1>4 DEF IsRest
  <2>2. n < L => n \in 1 .. L - 1
    BY <1>7
  <2>3. n < L => RestOf(c, tail, L - n)
    BY <1>7, <1>9, <2>1, <2>2, RestOfRest
  <2>4. QED
    BY <1>9, <1>10, <2>3 DEF IsRest
<1>15. QED
  BY <1>3, <1>4, <1>7, <1>10, <1>11, <1>12, <1>13, <1>14

LEMMA WriteLogLog ==
    ASSUME IInv, IInv', LogInv, NEW c \in Calls, WriteLog(c)
    PROVE  LogInv'
<1>1. TypeOK /\ TypeOK' /\ LineInv(c) /\ MarkerInv
  BY DEF IInv, LogInv
<1>2. /\ pc[c] = "write" /\ UNCHANGED <<marker, durable, lost, key>>
      /\ \A d \in Calls \ {c} : pc'[d] = pc[d] /\ rest'[d] = rest[d]
  BY <1>1 DEF WriteLog, Goto, local, TypeOK
<1>3. IsRest(c, rest[c])
  BY <1>1, <1>2 DEF LineInv
<1>4. PICK a \in Nat, L \in Int : \E n \in 1 .. L :
              /\ a = Len(log) /\ L = Len(rest[c]) /\ Len(log') = a + n
              /\ Appends(log', log, a, rest[c], n)
              /\ pc'[c] = IF n = L THEN "sync log" ELSE "write"
              /\ \A d \in Calls : exposed'[d] = (exposed[d] \/ (n < L /\ pc[d] = "write"))
              /\ n < L => IsRest(c, rest'[c])
  BY <1>1, <1>3, WriteMeans
<1>5. PICK n \in 1 .. L :
              /\ a = Len(log) /\ L = Len(rest[c]) /\ Len(log') = a + n
              /\ Appends(log', log, a, rest[c], n)
              /\ pc'[c] = IF n = L THEN "sync log" ELSE "write"
              /\ \A d \in Calls : exposed'[d] = (exposed[d] \/ (n < L /\ pc[d] = "write"))
              /\ n < L => IsRest(c, rest'[c])
  BY <1>4
<1>6. a = Len(log) /\ L = Len(rest[c]) /\ Len(log') = a + n
  BY <1>5
<1>7. RestOf(c, rest[c], L)
  BY <1>3, <1>6 DEF IsRest
<1>8. Appends(log', log, a, rest[c], n)
  BY <1>5
<1>9. n \in Int /\ 1 <= n /\ n <= L
  OBVIOUS
<1>10. a = Len(log) /\ Len(log') = a + n /\ a <= a + n /\ n \in Int /\ RestOf(c, rest[c], L)
  BY <1>6, <1>7, <1>9
<1>11. Extends(log', log)
  BY <1>10, <1>8 DEF Extends, Appends
<1>12. ASSUME NEW d \in Calls \ {c}
      PROVE  Written(d)' => Written(d)
  <2> SUFFICES ASSUME Written(d)' PROVE Written(d)
    OBVIOUS
  <2>1. PICK i \in 1 .. a + n : log'[i] = BodyStart(d)
    BY <1>10 DEF Written, Begun
  <2>2. \E j \in 1 .. a : log[j] = BodyStart(d)
    BY <1>7, <1>8, <2>1, OthersBegun, SMTT(60)
  <2>3. QED
    BY <1>10, <2>2 DEF Written, Begun
<1>13. n = L => ~TornTail'
  <2>1. ASSUME n = L
        PROVE  log'[Len(log')] = Newline
    <3>1. rest[c][L] = Newline
      BY <1>7, RestPieces
    <3>2. log'[a + n] = rest[c][n] /\ rest[c][L] = Newline
      BY <1>8, <1>9, <3>1 DEF Appends
    <3>3. QED
      BY <1>10, <2>1, <3>2
  <2>2. QED
    BY <2>1 DEF TornTail
<1>14. durable'.log <= Len(log') /\ durable.log <= durable'.log
  <2>1. durable.log \in Nat /\ durable.log <= a
    BY <1>1, <1>10 DEF TypeOK, LogInv
  <2>2. QED
    BY <1>2, <1>10, <2>1
<1>15. ASSUME NEW d \in Calls \ {c}
       PROVE  LineInv(d)'
  <2>1. exposed[d] => exposed'[d]
    BY <1>5
  <2>2. pc[d] = "write" /\ n < L => exposed'[d]
    BY <1>5
  <2>3. pc[d] = "write" /\ ~exposed'[d] => n = L
    BY <1>9, <2>2
  <2>4. QED
    BY <1>1, <1>2, <1>11, <1>12, <1>13, <1>14, <2>1, <2>3, LineStays
<1>16. ASSUME n = L, ~exposed[c]
       PROVE  Whole(c, Len(log))'
  <2>1. L >= 3 /\ (TornTail => L = 4)
    <3>1. Len(rest[c]) >= 3 /\ (TornTail => Len(rest[c]) = 4)
      BY <1>1, <1>2, <1>16 DEF LineInv
    <3>2. QED
      BY <1>5, <3>1
  <2>2. a = 0 \/ log[a] = Newline \/ L = 4
    <3>1. log = <<>> => Len(log) = 0
      BY <1>1, EmptySeq DEF TypeOK
    <3>2. QED
      BY <1>10, <2>1, <3>1 DEF TornTail
  <2>3. Between(log', c, a + L)
    BY <1>16, <1>7, <1>8, <2>1, <2>2, WrittenWhole
  <2>4. QED
    BY <1>10, <1>16, <2>3 DEF Whole
<1>17. LineInv(c)'
  <2>1. CASE n = L
    <3>1. pc'[c] = "sync log" /\ (~exposed'[c] => ~exposed[c])
      BY <1>5, <2>1
    <3>2. QED
      BY <1>16, <2>1, <3>1 DEF LineInv, Working, Appending
  <2>2. CASE n # L
    <3>1. n < L
      BY <2>2
    <3>2. pc'[c] = "write" /\ IsRest(c, rest'[c])
      BY <1>5, <2>2, <3>1
    <3>3. exposed'[c]
      BY <1>2, <1>5, <3>1
    <3>4. QED
      BY <3>2, <3>3 DEF LineInv, IsRest, RestOf
  <2>3. QED
    BY <2>1, <2>2
<1>18. MarkerInv'
  <2>1. pc'[c] \in {"write", "sync log"}
    BY <1>5
  <2>2. Holds(c) /\ Explains(c)' /\ pc'[c] # "done earlier"
    BY <1>2, <2>1 DEF Holds, Explains, Appending
  <2>3. \A d \in Calls \ {c} : exposed[d] => exposed'[d]
    BY <1>5
  <2>4. QED
    BY <1>1, <1>2, <1>11, <1>12, <2>2, <2>3, MarkerStays
<1>19. QED
  BY <1>14, <1>15, <1>17, <1>18 DEF LogInv

LEMMA SyncLogLog ==
    ASSUME IInv, IInv', LogInv, NEW c \in Calls, SyncLog(c)
    PROVE  LogInv'
<1>1. TypeOK /\ TypeOK' /\ LineInv(c) /\ MarkerInv /\ durable.log <= Len(log)
  BY DEF IInv, LogInv
<1>2. /\ pc[c] = "sync log" /\ pc' = [pc EXCEPT ![c] = "done"]
      /\ UNCHANGED <<log, marker, rest, exposed, lost, key>>
      /\ durable'.log = Len(log)
  BY <1>1 DEF SyncLog, Goto, local, history, TypeOK
<1>3. pc'[c] = "done" /\ \A d \in Calls \ {c} : pc'[d] = pc[d]
  BY <1>1, <1>2 DEF TypeOK
<1>4. \A d \in Calls : Written(d)' <=> Written(d)
  BY <1>2 DEF Written
<1>5. Extends(log', log) /\ (TornTail' => TornTail)
  BY <1>1, <1>2, ExtendsItself DEF TypeOK, TornTail
<1>6. ASSUME NEW d \in Calls
      PROVE  LineInv(d)'
  <2>1. CASE d # c
    BY <1>1, <1>2, <1>3, <1>4, <1>5, <2>1, LineStays
  <2>2. CASE d = c
    <3>1. ~exposed[c] => Whole(c, Len(log))
      BY <1>1, <1>2 DEF LineInv
    <3>2. QED
      BY <1>2, <1>3, <2>2, <3>1 DEF LineInv, Whole, Working, Appending
  <2>3. QED
    BY <2>1, <2>2
<1>7. MarkerInv'
  <2>1. Holds(c)
    BY <1>2 DEF Holds, Appending
  <2>2. Explains(c)'
    BY <1>1, <1>2, <1>3 DEF Explains, LineInv, Whole
  <2>3. QED
    BY <1>1, <1>2, <1>3, <1>4, <1>5, <2>1, <2>2, MarkerStays
<1>8. (durable.log <= Len(log))'
  <2>1. PICK n \in Nat : n = Len(log)
    BY <1>1, LenProperties DEF TypeOK
  <2>2. durable'.log = n /\ Len(log') = n
    BY <1>2, <2>1
  <2>3. QED
    BY <2>2
<1>9. QED
  BY <1>6, <1>7, <1>8 DEF LogInv

LEMMA EndAppendLog ==
    ASSUME IInv, IInv', LogInv, NEW c \in Calls, FailAppend(c) \/ Crash(c)
    PROVE  LogInv'
<1>1. TypeOK /\ TypeOK' /\ LineInv(c) /\ MarkerInv
  BY DEF IInv, LogInv
<1>2. /\ pc[c] \in Appending /\ UNCHANGED <<log, durable, lost, key>>
      /\ \E status \in {"failed append", "crashed append"} : pc' = [pc EXCEPT ![c] = status]
      /\ rest' = [rest EXCEPT ![c] = <<>>] /\ exposed' = [exposed EXCEPT ![c] = FALSE]
  BY DEF FailAppend, Crash, End, Goto, DeadAt, disk
<1>3. /\ pc[c] \in Appending /\ UNCHANGED <<log, durable, lost, key>>
      /\ \A d \in Calls \ {c} : pc'[d] = pc[d] /\ rest'[d] = rest[d] /\ exposed'[d] = exposed[d]
      /\ pc'[c] \in {"failed append", "crashed append"}
  BY <1>1, <1>2 DEF TypeOK
<1>4. \/ marker' = marker
      \/ FailAppend(c) /\ key[c] # NoKey /\ marker' = marker \ {key[c]}
  BY DEF FailAppend, Crash, disk
<1>5. LineInv(c)'
  BY <1>3 DEF LineInv, Working, Appending
<1>6. \A d \in Calls : Written(d)' <=> Written(d)
  BY <1>3 DEF Written
<1>7. Holds(c) /\ Explains(c)' /\ pc'[c] # "done earlier"
  BY <1>3 DEF Holds, Explains, Appending
<1>8. MarkerInv'
  <2>1. CASE marker' = marker
    <3>1. Extends(log', log)
      BY <1>1, <1>3, ExtendsItself DEF TypeOK
    <3>2. QED
      BY <1>1, <1>3, <1>6, <1>7, <2>1, <3>1, MarkerStays
  <2>2. CASE marker' # marker /\ ~lost
    <3>1. key[c] \in Keys /\ marker' = marker \ {key[c]} /\ pc'[c] = "failed append"
      BY <1>1, <1>4, <2>2 DEF TypeOK, FailAppend, End, Goto
    <3>2. ~Holds(c)'
      BY <3>1 DEF Holds, Appending
    <3>3. \A d \in Calls \ {c} : (Holds(d)' <=> Holds(d)) /\ (Explains(d) => Explains(d)')
      BY <1>3, <1>6 DEF Holds, Explains, Whole
    <3>4. \A d \in Calls \ {c} : /\ Holds(d)' => Holds(d) /\ key[d] # key[c]
                                 /\ Explains(d) => Explains(d)'
      BY <1>1, <1>7, <2>2, <3>1, <3>3 DEF MarkerInv
    <3>5. \A d \in Calls : key[d] \in Keys /\ Holds(d)' => key[d] \in marker'
      BY <1>1, <2>2, <3>1, <3>2, <3>4 DEF MarkerInv
    <3>6. \A d, e \in Calls : key[d] \in Keys /\ key[d] = key[e] /\ Holds(d)' /\ Holds(e)' => d = e
      BY <1>1, <2>2, <3>2, <3>4 DEF MarkerInv
    <3>7. \A k \in marker' : \E d \in Calls : key[d] = k /\ Explains(d)'
      BY <1>1, <1>7, <2>2, <3>1, <3>4 DEF MarkerInv
    <3>8. \A d \in Calls : pc'[d] # "done earlier"
      BY <1>1, <1>3, <1>7, <2>2 DEF MarkerInv
    <3>9. QED
      BY <1>3, <3>5, <3>6, <3>7, <3>8 DEF MarkerInv
  <2>3. CASE lost
    BY <1>3, <2>3 DEF MarkerInv
  <2>4. QED
    BY <2>1, <2>2, <2>3
<1>9. QED
  BY <1>1, <1>3, <1>5, <1>8, LogStays

LEMMA WholeCut ==
    ASSUME NEW l, NEW m, NEW c, NEW k \in Nat, NEW n \in Nat, k <= n,
           \A i \in 1 .. k : m[i] = l[i], Between(l, c, k)
    PROVE  Between(m, c, n)
<1>1. PICK i \in 1 .. k - 2 : /\ l[i] = BodyStart(c) /\ l[i + 1] = BodyEnd(c) /\ l[i + 2] = Newline
                              /\ i = 1 \/ l[i - 1] = Newline
  BY DEF Between
<1>2. /\ i \in 1 .. n - 2 /\ i \in 1 .. k /\ i + 1 \in 1 .. k /\ i + 2 \in 1 .. k
      /\ i # 1 => i - 1 \in 1 .. k
  OBVIOUS
<1>3. /\ m[i] = BodyStart(c) /\ m[i + 1] = BodyEnd(c) /\ m[i + 2] = Newline
      /\ i = 1 \/ m[i - 1] = Newline
  BY <1>1, <1>2
<1>4. QED
  BY <1>2, <1>3 DEF Between

\* Power is lost: the log keeps what was synced and perhaps more.
LEMMA PowerLossLog ==
    ASSUME IInv, IInv', LogInv, PowerLoss
    PROVE  LogInv'
<1>1. TypeOK /\ TypeOK'
  BY DEF IInv
<1>2. PICK a \in Nat, b \in Nat : a = durable.log /\ b = Len(log) /\ a <= b
  <2>1. log \in Seq(Piece) /\ durable.log \in Nat /\ durable.log <= Len(log)
    BY <1>1 DEF TypeOK, LogInv
  <2>2. Len(log) \in Nat
    BY <2>1, LenProperties
  <2>3. QED
    BY <2>1, <2>2
<1>3. PICK n \in a .. b : log' = SubSeq(log, 1, n) /\ durable'.log = Len(log')
  BY <1>2 DEF PowerLoss
<1>4. n \in Nat /\ a <= n /\ n <= b
  OBVIOUS
<1>5. Len(log') = n /\ \A i \in 1 .. n : log'[i] = log[i]
  <2>1. \A i \in 1 .. b : log[i] \in Piece
    BY <1>1, <1>2, ElementOfSeq DEF TypeOK
  <2>2. n \in Int /\ 1 \in Int /\ \A i \in 1 .. n : log[i] \in Piece
    BY <1>4, <2>1
  <2>3. /\ Len(SubSeq(log, 1, n)) = IF 1 <= n THEN n - 1 + 1 ELSE 0
        /\ \A i \in 1 .. n - 1 + 1 : SubSeq(log, 1, n)[i] = log[1 + i - 1]
    BY <2>2, SubSeqProperties
  <2>4. QED
    BY <1>3, <1>4, <2>3
<1>6. ASSUME NEW c \in Calls
      PROVE  LineInv(c)'
  <2>1. LineInv(c)
    BY DEF LogInv
  <2>2. Written(c)' => Written(c)
    <3>1. \A i \in 1 .. n : i \in 1 .. b
      BY <1>4
    <3>2. QED
      BY <1>2, <1>5, <3>1 DEF Written, Begun
  <2>3. CASE pc[c] \in Working \ {"lookup"}
    <3>1. pc'[c] = DeadAt(pc[c])
      BY <2>3 DEF PowerLoss
    <3>2. pc'[c] = "dead" => pc[c] \in Working \ Appending
      BY <2>3, <3>1 DEF DeadAt
    <3>3. pc'[c] \in {"dead", "crashed append"}
      BY <3>1 DEF DeadAt
    <3>4. QED
      BY <2>1, <2>2, <3>2, <3>3 DEF LineInv, Working, Appending
  <2>4. CASE pc[c] \notin Working \ {"lookup"}
    <3>1. /\ pc'[c] = IF pc[c] = "done" THEN "done earlier" ELSE pc[c]
          /\ exposed'[c] = exposed[c]
      BY <2>4 DEF PowerLoss
    <3>2. pc[c] \in {"lookup"} \cup Ended
      BY <1>1, <2>4 DEF TypeOK
    <3>3. pc[c] \in {"done", "done earlier"} /\ ~exposed[c] /\ Written(c)' => Whole(c, durable.log)'
      <4>1. \A i \in 1 .. a : log'[i] = log[i]
        BY <1>4, <1>5
      <4>2. Between(log, c, a) => Between(log', c, n)
        BY <1>4, <4>1, WholeCut
      <4>3. QED
        BY <1>2, <1>3, <1>5, <2>1, <2>2, <4>2 DEF LineInv, Whole
    <3>4. QED
      BY <2>1, <2>2, <3>1, <3>2, <3>3 DEF LineInv, Ended, Working, Appending
  <2>5. QED
    BY <2>3, <2>4
<1>7. MarkerInv'
  BY DEF PowerLoss, MarkerInv
<1>8. (durable.log <= Len(log))'
  BY <1>3, <1>4, <1>5
<1>9. QED
  BY <1>6, <1>7, <1>8 DEF LogInv

LEMMA InitLogInv == Init => LogInv
<1> SUFFICES ASSUME Init PROVE LogInv
  OBVIOUS
<1>1. log = <<>> /\ Len(log) = 0 /\ durable.log = 0 /\ marker = {} /\ \A c \in Calls : pc[c] = "lookup"
  BY DEF Init
<1>2. \A c \in Calls : ~Written(c)
  BY <1>1 DEF Written, Begun
<1>3. \A c \in Calls : LineInv(c)
  BY <1>1, <1>2 DEF LineInv
<1>4. MarkerInv
  BY <1>1, <1>2 DEF MarkerInv, Holds, Appending
<1>5. QED
  BY <1>1, <1>3, <1>4 DEF LogInv

LEMMA NextLogInv == IInv /\ IInv' /\ LogInv /\ [Next]_vars => LogInv'
<1> SUFFICES ASSUME IInv, IInv', LogInv, [Next]_vars
             PROVE  LogInv'
  OBVIOUS
<1>1. ASSUME NEW c \in Calls, CallStep(c)
      PROVE  LogInv'
  BY <1>1, QuietSteps, ClaimLog, OpenLogLog, WriteLogLog, SyncLogLog DEF CallStep
<1>2. ASSUME NEW c \in Calls, FailAppend(c) \/ Fail(c) \/ Crash(c)
      PROVE  LogInv'
  BY <1>2, QuietSteps, EndAppendLog
<1>3. CASE PowerLoss
  BY <1>3, PowerLossLog
<1>4. CASE UNCHANGED vars
  BY ZenonT(30), <1>4 DEF vars, LogInv, LineInv, MarkerInv,
     Holds, Explains, Written, Whole, TornTail, IsRest, RestOf
<1>5. QED
  BY <1>1, <1>2, <1>3, <1>4 DEF Next

\* LogInv holds in every reachable state.
THEOREM LogInvariance == Spec => []LogInv
BY Invariance, InitLogInv, NextLogInv, PTL DEF Spec

(***************************************************************************)
(* Consequences.                                                           *)
(***************************************************************************)

\* ENG-2: a line that was appended and synced stays one readable line, through any torn tails
\* and power losses, unless another short write fell between the call's look at the last byte
\* and its own write.
THEOREM SyncedLineKept == Spec => []SyncedLineSurvives
<1>1. IInv /\ LogInv => SyncedLineSurvives
  <2> SUFFICES ASSUME IInv, LogInv, NEW c \in Calls,
                      pc[c] \in {"done", "done earlier"}, ~exposed[c],
                      \E i \in 1 .. Len(log) : log[i] = BodyStart(c)
               PROVE  Readable(c)
    BY DEF SyncedLineSurvives
  <2>1. Whole(c, durable.log)
    BY DEF LogInv, LineInv, Written, Begun
  <2>2. TypeOK /\ durable.log \in Nat /\ durable.log <= Len(log)
    BY DEF IInv, TypeOK, LogInv
  <2>3. QED
    BY <2>1, <2>2, WholeIsReadable
<1>2. QED
  BY <1>1, Invariance, LogInvariance, PTL

\* A line that can be read has been begun, by a call that failed or one that holds the marker.
LEMMA ReadableMeans ==
    ASSUME IInv, LogInv, ~lost, NEW c \in Calls, Readable(c)
    PROVE  pc[c] = "failed append" \/ Holds(c)
<1>1. Written(c)
  <2>1. PICK n \in Nat : n = Len(log)
    BY LenProperties DEF IInv, TypeOK
  <2>2. PICK i \in 1 .. n - 1 : log[i] = BodyStart(c)
    BY <2>1 DEF Readable
  <2>3. i \in 1 .. n
    OBVIOUS
  <2>4. QED
    BY <2>1, <2>2, <2>3 DEF Written, Begun
<1>2. pc[c] \in Working \cup Ended
  BY DEF IInv, TypeOK
<1>3. pc[c] \notin (Working \cup {"dead"}) \ {"write", "sync log"}
  BY <1>1 DEF LogInv, LineInv
<1>4. pc[c] # "done earlier"
  BY DEF LogInv, MarkerInv
<1>5. QED
  BY <1>1, <1>2, <1>3, <1>4 DEF Holds, Ended, Working, Appending

LEMMA Unlogged == IInv /\ LogInv => UnloggedDecisionIsExplained
<1> SUFFICES ASSUME IInv, LogInv, ~lost, NEW k \in marker, LinesFor(k) = {}
             PROVE  \E c \in Calls :
                       /\ key[c] = k
                       /\ pc[c] \in Appending \cup {"failed append", "crashed append"} \/ exposed[c]
  BY DEF UnloggedDecisionIsExplained
<1>1. PICK c \in Calls : key[c] = k /\ Explains(c)
  BY DEF LogInv, MarkerInv
<1>2. ~Whole(c, Len(log))
  <2>1. PICK n \in Nat : n = Len(log)
    BY LenProperties DEF IInv, TypeOK
  <2>2. n <= Len(log)
    BY <2>1
  <2>3. Whole(c, n) => Readable(c)
    BY <2>2, WholeIsReadable DEF IInv
  <2>4. QED
    BY <1>1, <2>1, <2>3 DEF LinesFor
<1>3. QED
  BY <1>1, <1>2 DEF Explains

LEMMA Duplicates == IInv /\ LogInv => DuplicateLineIsExplained
<1> SUFFICES ASSUME IInv, LogInv, ~lost, NEW k \in Keys
             PROVE  Cardinality(LinesFor(k)) <=
                        1 + Cardinality({c \in Calls : key[c] = k /\ pc[c] = "failed append"})
  BY DEF DuplicateLineIsExplained
<1> DEFINE failed == {c \in Calls : key[c] = k /\ pc[c] = "failed append"}
           lines == LinesFor(k)
<1>1. IsFiniteSet(failed) /\ Cardinality(failed) \in Nat
  <2>1. IsFiniteSet(Calls) /\ failed \in SUBSET Calls
    BY ConstantsAssumption
  <2>2. QED
    BY <2>1, FS_Subset, FS_CardinalityType
<1>2. \A c \in lines : c \in Calls /\ key[c] = k /\ (c \in failed \/ Holds(c))
  BY ReadableMeans DEF LinesFor
<1>3. \A c, d \in Calls : key[c] = k /\ key[d] = k /\ Holds(c) /\ Holds(d) => c = d
  BY DEF LogInv, MarkerInv
<1> HIDE DEF failed, lines
<1>4. PICK f \in Nat : f = Cardinality(failed)
  BY <1>1
<1>5. \E n \in Nat : n = Cardinality(lines) /\ n <= 1 + f
  <2>1. CASE lines \subseteq failed
    <3>1. Cardinality(lines) \in Nat /\ Cardinality(lines) <= Cardinality(failed)
      BY <1>1, <2>1, FS_Subset, FS_CardinalityType
    <3>2. PICK n \in Nat : n = Cardinality(lines) /\ n <= f
      BY <1>4, <3>1
    <3>3. QED
      BY <3>2
  <2>2. CASE ~(lines \subseteq failed)
    <3>1. PICK h \in lines : h \notin failed
      BY <2>2
    <3>2. lines \in SUBSET (failed \cup {h})
      BY <1>2, <1>3, <3>1
    <3>3. IsFiniteSet(failed \cup {h}) /\ Cardinality(failed \cup {h}) = f + 1
      BY <1>1, <1>4, <3>1, FS_AddElement
    <3>4. Cardinality(lines) \in Nat /\ Cardinality(lines) <= f + 1
      BY <3>2, <3>3, FS_Subset, FS_CardinalityType
    <3>5. PICK n \in Nat : n = Cardinality(lines) /\ n <= f + 1
      BY <3>4
    <3>6. QED
      BY <3>5
  <2>3. QED
    BY <2>1, <2>2
<1>6. QED
  BY <1>4, <1>5 DEF failed, lines

\* ensureLogged: until power is lost a marker without a line, and a second line for one
\* decision, each have a failed, killed or damaged append behind them; and whoever appends
\* a key's line, it is the verdict of the decision file.
THEOREM LogExplained == Spec => []LogIsExplained
<1>1. IInv => LogAgreesWithDecision
  BY DEF IInv, CallInv, Progress, LogAgreesWithDecision, LinesFor
<1>2. IInv /\ LogInv => LogIsExplained
  BY <1>1, Unlogged, Duplicates DEF LogIsExplained
<1>3. QED
  BY <1>2, Invariance, LogInvariance, PTL
===========================================================================
