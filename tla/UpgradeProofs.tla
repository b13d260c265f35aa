--------------------------- MODULE UpgradeProofs ---------------------------
(***************************************************************************)
(* Proofs about Upgrade for any releases and migrations, any changes of    *)
(* the user's and any number of faults.                                    *)
(***************************************************************************)
EXTENDS Upgrade, WellFoundedInduction, TLAPS

(***************************************************************************)
(* The inductive invariant.                                                *)
(***************************************************************************)
Entries == [by : {"run", "user"}, work : SUBSET Work]
Release == Versions \cup {None}

TypeOK ==
    /\ remote \in Versions
    /\ ver \in [Branches -> Versions]
    /\ cur \in Branches
    /\ worktree \in SUBSET Work
    /\ stash \in Seq(Entries)
    /\ unmerged \in SUBSET Work
    /\ hop \in Release
    /\ applied \in SUBSET Migrations
    /\ failed \in SUBSET Migrations
    /\ notices \in SUBSET {"just-upgraded-from", "last-update-check"}
    /\ pc \in Stages \cup Resting
    /\ old \in Release
    /\ new \in Release
    /\ prev \in Branches \cup {None}
    /\ stashed \in BOOLEAN
    /\ base \in Release
    /\ emitted \in BOOLEAN
    /\ results \in Nat
    /\ script \in Nat
    /\ home \in [Work -> Branches \cup {None}]
    /\ before \in [cur : Branches, worktree : SUBSET Work, stash : Seq(Entries), unmerged : SUBSET Work]
    /\ hitch \in BOOLEAN
    /\ landed \in SUBSET Versions
    /\ passed \in SUBSET Migrations
    /\ lapses \in [Migrations -> Nat]
    /\ ran \in [Migrations -> Nat]
    /\ faults \in Nat

\* A result line is out only where a run ends, and then it is the only one.
SaidInv ==
    /\ results = IF emitted THEN 1 ELSE 0
    /\ emitted => pc \in {"on_exit", "reported"}
    /\ pc = "reported" => emitted

\* Where the run may have moved away from the branch it began on.
Away == {"pull-ff-only", "setup", "read-new-version", "on_exit"} \cup Scanning \cup BranchRestores

\* Where changes the run has stashed are back, or putting them back has failed.
Over == {"write-marker", "clear-cache", "reported"}

\* Where the run has not moved yet.
Entering == {"mkdir-state", "read-branch", "stash", "fetch", "checkout-main"}

\* The changes the run found are in the work tree, or in the entry on top of
\* the stash, perhaps unmerged besides; only an empty work tree is taken to another
\* branch.
PlaceInv ==
    /\ \A w \in before.worktree : home[w] = before.cur
    /\ pc \notin {"mkdir-state", "read-branch", "on_exit", "trap: stash-pop", "reported"}
          => prev = before.cur
    /\ prev \in {None, before.cur}
    /\ stashed => prev = before.cur
    /\ IF stashed
       THEN /\ worktree = {} /\ before.worktree # {} /\ OnTop
            /\ before.unmerged = {} /\ unmerged \in {{}, before.worktree}
       ELSE worktree = before.worktree /\ stash = before.stash /\ unmerged = before.unmerged
    /\ unmerged # {} => cur = before.cur
    /\ pc \in {"mkdir-state", "read-branch", "stash"} => ~stashed
    /\ pc \in {"fetch", "checkout-main"} => worktree = {} /\ unmerged = {}
    /\ pc = "checkout-main" => MovedFrom(prev)
    /\ pc \in Entering => cur = before.cur
    /\ cur # before.cur =>
          /\ worktree = {}
          /\ MovedFrom(prev)
          /\ pc \in Away \/ hitch
          /\ emitted => hitch
    /\ stashed /\ (pc \in Over \/ emitted) => hitch

\* m is in a ledger, or behind the window for a reason NoMigrationForgotten grants.
Accounted(m) == m \in applied \cup failed \cup passed

LedgerInv ==
    /\ remote \in landed
    /\ \A r \in landed : r <= remote
    /\ NoMigrationForgotten
    /\ hop # None => \A m \in Migrations : m <= hop => Accounted(m)
    /\ \A n \in applied \cup failed, m \in Migrations : m < n => Accounted(m)
    /\ \A m \in Migrations : ran[m] <= lapses[m] + (IF m \in applied THEN 1 ELSE 0)

\* Before the scan: a missing hop-from means that the run found no version.
Windowed == {"read-branch", "stash", "fetch", "checkout-main", "pull-ff-only", "setup",
             "read-new-version"}

ScanInv ==
    /\ pc \in Windowed /\ hop = None => old = None
    /\ pc \in {"setup", "read-new-version"} \cup Scanning => ver[cur] = remote
    /\ pc \in Windowed \cup {"mkdir-state"} => script = 0
    /\ pc \in Scanning =>
          /\ old = hop /\ new = Text(remote)
          /\ \A m \in Migrations :
                m <= script => Accounted(m) \/ (pc = "record applied" /\ m = script)
    /\ pc = "record applied" => script \in Migrations \ applied /\ lapses[script] > 0
    /\ pc = "record failed" => script \in applied

IInv ==
    /\ TypeOK
    /\ WorkStaysHome
    /\ SaidInv
    /\ pc # "idle" => PlaceInv
    /\ LedgerInv
    /\ ScanInv

(***************************************************************************)
(* A nonempty set of naturals has a least element, so NextCandidate is one *)
(* of the candidates and no candidate is below it.                         *)
(***************************************************************************)
LessThan == OpToRel(<, Nat)

LEMMA LessThanMembers ==
    ASSUME NEW m \in Nat, NEW n \in Nat
    PROVE  <<m, n>> \in LessThan <=> m < n
BY DEF LessThan, OpToRel

LEMMA LeastExists ==
    ASSUME NEW S \in SUBSET Nat, S # {}
    PROVE  \E x \in S : \A y \in S : x <= y
<1>1. IsWellFoundedOn(LessThan, Nat)
  BY NatLessThanWellFounded DEF LessThan
<1>2. PICK x \in S : \A y \in S : ~(<<y, x>> \in LessThan)
  BY <1>1, WFMin, Zenon
<1>3. ASSUME NEW y \in S
      PROVE  x <= y
  <2>1. x \in Nat /\ y \in Nat
    OBVIOUS
  <2>2. ~(y < x)
    BY <1>2, <2>1, LessThanMembers
  <2>3. QED
    BY <2>1, <2>2
<1>4. QED
  BY <1>3

LEMMA MigrationsAreNumbers == Migrations \subseteq Versions /\ Versions \subseteq Nat \ {0}
BY ConstantsAssumption DEF Versions

LEMMA NextCandidateIsLeast ==
    ASSUME Candidates # {}
    PROVE  /\ NextCandidate \in Candidates
           /\ \A m \in Candidates : NextCandidate <= m
<1>1. Candidates \subseteq Nat
  BY MigrationsAreNumbers DEF Candidates
<1>2. \E x \in Candidates : \A y \in Candidates : x <= y
  BY <1>1, LeastExists
<1>3. QED
  BY <1>2 DEF NextCandidate, Min

LEMMA TextIsRelease ==
    ASSUME NEW v \in Versions
    PROVE  Text(v) \in Release
BY DEF Text, Release

LEMMA NoneApart == None \notin Versions /\ None \notin Branches
BY ConstantsAssumption

LEMMA StageNext ==
    ASSUME TypeOK, Next
    PROVE  pc' \in Stages \cup Resting
<1>1. CASE Run
  BY <1>1 DEF Run, Start, PersistHopFrom, ReadBranch, Stash, Fetch, CheckoutMain, Pull,
     AfterFailedPull, Setup, ReadNewVersion, RunScript, RecordApplied, RecordFailed, FinishScan,
     ScanEnds, HelperAborts, RestoreBranch, AfterCheckout, RestoreStash, AfterStash, WriteMarker,
     ClearCache, StageFails, OnExit, Kill, TypeOK,
     Stages, Scanning, BranchRestores, StashRestores, Resting
<1>2. CASE Between
  BY <1>2 DEF Between, Resting
<1>3. QED
  BY <1>1, <1>2 DEF Next

LEMMA FaultsNext ==
    ASSUME TypeOK, Next
    PROVE  faults' \in Nat
<1>1. Fault => faults' \in Nat
  BY DEF Fault, TypeOK
<1>2. faults' = faults => faults' \in Nat
  BY DEF TypeOK
<1>3. faults' = faults \/ Fault
  BY DEF Next, Run, Start, PersistHopFrom, ReadBranch, Stash, Fetch, CheckoutMain, Pull,
     Setup, ReadNewVersion, RunScript, RecordApplied, RecordFailed, FinishScan,
     HelperAborts, RestoreBranch, RestoreStash, ConflictingPop, FailingPop, WriteMarker, ClearCache,
     StageFails, OnExit, Kill, Between, vars, checkout, ledger, versions, toRestore, said, migrated, found
<1>4. QED
  BY <1>1, <1>2, <1>3

LEMMA TypeOKNext ==
    ASSUME TypeOK, pc # "idle" => PlaceInv, ScanInv, Next
    PROVE  TypeOK'
<1>a. pc' \in Stages \cup Resting /\ faults' \in Nat
  BY StageNext, FaultsNext
<1> USE DEF TypeOK, vars, checkout, ledger, versions, toRestore, said, migrated, found
<1>1. CASE Start
  BY <1>a, <1>1, TextIsRelease DEF Start, Release
<1>2. CASE PersistHopFrom
  BY <1>a, <1>2, ConstantsAssumption DEF PersistHopFrom, Claimed
<1>3. CASE Stash
  <2>1. CASE worktree = {} \/ unmerged # {}
    BY <1>a, <1>3, <2>1 DEF Stash
  <2>2. CASE worktree # {} /\ unmerged = {}
    <3>1. [by |-> "run", work |-> worktree] \in Entries
      BY DEF Entries
    <3>2. stash' \in Seq(Entries)
      <4>1. stash' = <<[by |-> "run", work |-> worktree]>> \o stash
        BY <1>3, <2>2 DEF Stash
      <4>2. QED
        BY <3>1, <4>1
    <3>3. worktree' = {} /\ stashed' = TRUE /\ base' \in Release
      BY <1>3, <2>2 DEF Stash, Release
    <3>4. QED
      BY <1>a, <1>3, <3>2, <3>3 DEF Stash
  <2>3. QED
    BY <2>1, <2>2
<1>4. CASE CheckoutMain
  BY <1>a, <1>4 DEF CheckoutMain, Branches
<1>5. CASE Pull
  <2>1. remote' \in Versions
    BY <1>5, ConstantsAssumption DEF Pull, Versions
  <2>2. ver' \in [Branches -> Versions] /\ landed' \in SUBSET Versions
    BY <1>5, <2>1 DEF Pull
  <2>3. passed' \in SUBSET Migrations
    BY <1>5, <2>1 DEF Pull, Brought
  <2>4. QED
    BY <1>a, <1>5, <2>1, <2>2, <2>3 DEF Pull
<1>6. CASE ReadNewVersion
  BY <1>a, <1>6, TextIsRelease DEF ReadNewVersion, Release
<1>7. CASE RunScript
  <2>1. NextCandidate \in Migrations /\ NextCandidate \in Nat
    BY <1>7, NextCandidateIsLeast, MigrationsAreNumbers DEF RunScript, Candidates
  <2>2. script' \in Nat
    BY <1>7, <2>1 DEF RunScript
  <2>3. failed' \in SUBSET Migrations
    BY <1>7, <2>1 DEF RunScript
  <2>4. lapses' \in [Migrations -> Nat] /\ ran' \in [Migrations -> Nat]
    <3>1. \/ ran' = ran /\ lapses' = lapses
          \/ /\ ran' = [ran EXCEPT ![NextCandidate] = @ + 1]
             /\ lapses' = [lapses EXCEPT ![NextCandidate] = @ + 1]
      BY <1>7 DEF RunScript
    <3>2. ran[NextCandidate] + 1 \in Nat /\ lapses[NextCandidate] + 1 \in Nat
      BY <2>1
    <3>3. QED
      BY ZenonT(30), <3>1, <3>2
  <2>5. QED
    BY <1>a, <1>7, <2>2, <2>3, <2>4 DEF RunScript
<1>8. CASE RecordApplied
  <2>1. script \in Migrations /\ lapses[script] > 0
    BY <1>8 DEF RecordApplied, ScanInv
  <2>2. applied' \in SUBSET Migrations /\ lapses' \in [Migrations -> Nat]
    <3>1. lapses[script] - 1 \in Nat
      BY <2>1
    <3>2. applied' = applied \cup {script} /\ lapses' = [lapses EXCEPT ![script] = @ - 1]
      BY <1>8 DEF RecordApplied
    <3>3. QED
      BY <2>1, <3>1, <3>2
  <2>3. QED
    BY <1>a, <1>8, <2>2 DEF RecordApplied
<1>9. CASE RecordFailed
  <2>1. failed' \in SUBSET Migrations
    BY <1>9 DEF RecordFailed
  <2>2. QED
    BY <1>a, <1>9, <2>1 DEF RecordFailed
<1>10. CASE FinishScan
  BY <1>a, <1>10 DEF FinishScan, Brought, Release
<1>11. CASE RestoreBranch
  <2>1. cur' \in Branches /\ hitch' \in BOOLEAN
    BY <1>11 DEF RestoreBranch, PlaceInv, BranchRestores
  <2>2. QED
    BY <1>a, <1>11, <2>1 DEF RestoreBranch
<1>12. CASE RestoreStash
  <2>1. emitted' \in BOOLEAN /\ results' \in Nat
    <3>1. CASE AfterStash[pc].result
      BY <1>12, <3>1 DEF RestoreStash, Emit
    <3>2. CASE ~AfterStash[pc].result
      BY <1>12, <3>2 DEF RestoreStash, Emit
    <3>3. QED
      BY <3>1, <3>2
  <2>2. stash # <<>> => Head(stash) \in Entries /\ Tail(stash) \in Seq(Entries)
    OBVIOUS
  <2>3. worktree' \in SUBSET Work /\ stash' \in Seq(Entries) /\ unmerged' \in SUBSET Work
    BY <1>12, <2>2 DEF RestoreStash, PopStash, ConflictingPop, FailingPop, Entries
  <2>4. stashed' \in BOOLEAN /\ hitch' \in BOOLEAN
    BY <1>12 DEF RestoreStash, AfterPop
  <2>5. QED
    BY <1>a, <1>12, <2>1, <2>3, <2>4 DEF RestoreStash
<1>13. CASE WriteMarker
  BY <1>a, <1>13 DEF WriteMarker
<1>14. CASE ClearCache
  BY <1>a, <1>14 DEF ClearCache, Emit
<1>15. CASE ReadBranch \/ Fetch \/ Setup \/ HelperAborts \/ StageFails \/ OnExit
  BY <1>a, <1>15 DEF ReadBranch, Fetch, Setup, HelperAborts, StageFails, OnExit
<1>16. ASSUME Forget
       PROVE  /\ hitch' \in BOOLEAN /\ results' \in Nat /\ emitted' \in BOOLEAN
              /\ stashed' \in BOOLEAN /\ prev' \in Branches \cup {None} /\ script' \in Nat
              /\ base' \in Release
              /\ old' \in Release /\ new' \in Release
              /\ before' \in [cur : Branches, worktree : SUBSET Work, stash : Seq(Entries), unmerged : SUBSET Work]
  <2>1. before' \in [cur : Branches, worktree : SUBSET Work, stash : Seq(Entries), unmerged : SUBSET Work]
    <3>1. <<>> \in Seq(Entries) /\ {} \in SUBSET Work /\ "main" \in Branches
      BY DEF Branches
    <3>2. before' = [cur |-> "main", worktree |-> {}, stash |-> <<>>, unmerged |-> {}]
      BY <1>16 DEF Forget, Nothing
    <3>3. QED
      BY <3>1, <3>2
  <2>2. QED
    BY <1>16, <2>1 DEF Forget, Release
<1>17. CASE Kill
  <2>1. Forget
    BY <1>17 DEF Kill
  <2>2. QED
    BY <1>a, <1>16, <1>17, <2>1 DEF Kill
<1>18. CASE Between
  <2>1. Forget
    BY <1>18 DEF Between
  <2>2. ver' \in [Branches -> Versions]
    <3>1. CASE \E b \in Branches \ {cur} : Switch(b)
      BY <3>1, ConstantsAssumption DEF Switch, Versions, Branches
    <3>2. CASE Advance
      BY <3>2 DEF Advance, Branches
    <3>3. CASE (\E w \in Work : Edit(w)) \/ UserStash \/ UserPop \/ Settle \/ UpdateCheck
      BY <3>3 DEF Edit, UserStash, UserPop, Settle, UpdateCheck
    <3>4. QED
      BY <1>18, <3>1, <3>2, <3>3 DEF Between
  <2>3. cur' \in Branches
    BY <1>18 DEF Between, Edit, UserStash, UserPop, Settle, Switch, Advance, UpdateCheck
  <2>4. worktree' \in SUBSET Work /\ stash' \in Seq(Entries) /\ unmerged' \in SUBSET Work
    <3>1. stash # <<>> => Head(stash) \in Entries /\ Tail(stash) \in Seq(Entries)
      OBVIOUS
    <3>2. CASE UserStash
      <4>1. [by |-> "user", work |-> worktree] \in Entries
        BY DEF Entries
      <4>2. QED
        BY <3>2, <4>1 DEF UserStash
    <3>3. CASE UserPop
      BY <3>1, <3>3 DEF UserPop, Entries
    <3>4. CASE (\E w \in Work : Edit(w)) \/ (\E b \in Branches \ {cur} : Switch(b)) \/ Advance
               \/ UpdateCheck
      BY <3>4 DEF Edit, Switch, Advance, UpdateCheck
    <3>5. CASE Settle
      BY <3>1, <3>5 DEF Settle
    <3>6. QED
      BY <1>18, <3>2, <3>3, <3>4, <3>5 DEF Between
  <2>5. home' \in [Work -> Branches \cup {None}]
    BY <1>18 DEF Between, Edit, UserStash, UserPop, Settle, Switch, Advance, UpdateCheck
  <2>6. notices' \in SUBSET {"just-upgraded-from", "last-update-check"}
    BY <1>18 DEF Between, Edit, UserStash, UserPop, Settle, Switch, Advance, UpdateCheck
  <2>7. QED
    BY <1>a, <1>16, <1>18, <2>1, <2>2, <2>3, <2>4, <2>5, <2>6 DEF Between
<1>19. QED
  BY <1>1, <1>2, <1>3, <1>4, <1>5, <1>6, <1>7, <1>8, <1>9, <1>10, <1>11, <1>12, <1>13, <1>14,
     <1>15, <1>17, <1>18 DEF Next, Run

LEMMA AfterStashValues ==
    /\ AfterStash["stash-pop"].pc = "write-marker"
    /\ AfterStash["pull failed: stash-pop"].pc = "on_exit"
    /\ AfterStash["trap: stash-pop"].pc = "reported"
    /\ ~AfterStash["stash-pop"].result
    /\ AfterStash["pull failed: stash-pop"].result
    /\ AfterStash["trap: stash-pop"].result
BY DEF AfterStash, StashRestores

LEMMA RestoreStashReturns ==
    ASSUME RestoreStash
    PROVE  \/ pc = "stash-pop" /\ pc' = "write-marker" /\ UNCHANGED said
           \/ /\ \/ pc = "pull failed: stash-pop" /\ pc' = "on_exit"
                 \/ pc = "trap: stash-pop" /\ pc' = "reported"
              /\ emitted' = TRUE /\ results' = results + 1
<1>1. pc \in StashRestores /\ pc' = AfterStash[pc].pc /\ Emit(AfterStash[pc].result)
  BY DEF RestoreStash
<1>2. CASE pc = "stash-pop"
  <2>1. AfterStash[pc].pc = "write-marker" /\ ~AfterStash[pc].result
    BY <1>2, AfterStashValues
  <2>2. QED
    BY <1>1, <1>2, <2>1 DEF Emit
<1>3. CASE pc = "pull failed: stash-pop"
  <2>1. AfterStash[pc].pc = "on_exit" /\ AfterStash[pc].result
    BY <1>3, AfterStashValues
  <2>2. QED
    BY <1>1, <1>3, <2>1 DEF Emit
<1>4. CASE pc = "trap: stash-pop"
  <2>1. AfterStash[pc].pc = "reported" /\ AfterStash[pc].result
    BY <1>4, AfterStashValues
  <2>2. QED
    BY <1>1, <1>4, <2>1 DEF Emit
<1>5. QED
  BY <1>1, <1>2, <1>3, <1>4 DEF StashRestores

LEMMA SaidNext ==
    ASSUME TypeOK, SaidInv, Next
    PROVE  SaidInv'
<1> USE DEF TypeOK, SaidInv, vars, said
<1>1. CASE Start \/ Kill \/ Between
  BY <1>1 DEF Start, Kill, Between, Forget
<1>2. CASE ClearCache
  BY <1>2 DEF ClearCache, Emit
<1>3. CASE RestoreStash
  <2>1. ~emitted /\ results = 0
    BY <1>3, RestoreStashReturns
  <2>2. CASE pc' = "write-marker" /\ UNCHANGED said
    BY <2>1, <2>2
  <2>3. CASE emitted' = TRUE /\ results' = results + 1 /\ pc' \in {"on_exit", "reported"}
    BY <2>1, <2>3
  <2>4. QED
    BY <1>3, <2>2, <2>3, RestoreStashReturns
<1>4. CASE OnExit
  BY <1>4 DEF OnExit
<1>5. CASE \/ PersistHopFrom \/ ReadBranch \/ Stash \/ Fetch \/ CheckoutMain \/ Pull \/ Setup
           \/ ReadNewVersion \/ RunScript \/ RecordApplied \/ RecordFailed \/ FinishScan
           \/ HelperAborts \/ RestoreBranch \/ WriteMarker \/ StageFails
  <2>1. UNCHANGED said
    BY <1>5 DEF PersistHopFrom, ReadBranch, Stash, Fetch, CheckoutMain, Pull, Setup,
       ReadNewVersion, RunScript, RecordApplied, RecordFailed, FinishScan, HelperAborts,
       RestoreBranch, WriteMarker, StageFails
  <2>2. pc \notin {"on_exit", "reported"} /\ pc' # "reported"
    BY <1>5 DEF PersistHopFrom, ReadBranch, Stash, Fetch, CheckoutMain, Pull, AfterFailedPull,
       Setup, ReadNewVersion, RunScript, RecordApplied, RecordFailed, FinishScan, HelperAborts,
       ScanEnds, RestoreBranch, AfterCheckout, WriteMarker, StageFails, Scanning, BranchRestores
  <2>3. QED
    BY <2>1, <2>2
<1>6. QED
  BY <1>1, <1>2, <1>3, <1>4, <1>5 DEF Next, Run

\* The steps that leave the checkout and everything that is to be put back alone.
LEMMA PlaceStays ==
    ASSUME PlaceInv, UNCHANGED <<checkout, toRestore, found>>,
           pc' \notin Entering,
           pc' \in {"on_exit", "trap: stash-pop", "reported"} \/ prev = before.cur,
           cur # before.cur => (pc' \in Away \/ hitch) /\ (emitted' => hitch),
           stashed /\ (pc' \in Over \/ emitted') => hitch
    PROVE  PlaceInv'
BY DEF PlaceInv, OnTop, Entering, checkout, toRestore, found, MovedFrom

LEMMA TopOfStash ==
    ASSUME NEW e, NEW s \in Seq(Entries)
    PROVE  LET t == <<e>> \o s
           IN  t # <<>> /\ Head(t) = e /\ Tail(t) = s
<1>1. <<e>> \in Seq({e} \cup Entries) /\ s \in Seq({e} \cup Entries)
  OBVIOUS
<1>2. QED
  BY <1>1

LEMMA PlaceNext ==
    ASSUME TypeOK, WorkStaysHome, SaidInv, pc # "idle" => PlaceInv, Next
    PROVE  pc' # "idle" => PlaceInv'
<1> USE DEF Entering, OnTop
<1>1. CASE Start
  BY <1>1 DEF Start, PlaceInv, WorkStaysHome, checkout
<1>2. CASE PersistHopFrom
  BY <1>2 DEF PersistHopFrom, PlaceInv, checkout, toRestore, found, MovedFrom, said, Over
<1>3. CASE ReadBranch
  BY <1>3 DEF ReadBranch, PlaceInv, checkout, found, MovedFrom, said, Over
<1>4. CASE Stash
  <2>1. CASE worktree = {} \/ unmerged # {}
    BY <1>4, <2>1 DEF Stash, PlaceInv, found, MovedFrom, said, Over, SaidInv
  <2>2. CASE worktree # {} /\ unmerged = {}
    <3>1. /\ stash' # <<>> /\ Tail(stash') = stash
          /\ Head(stash') = [by |-> "run", work |-> worktree]
          /\ worktree' = {} /\ stashed' = TRUE /\ unmerged' = {}
      BY <1>4, <2>2, TopOfStash DEF Stash, TypeOK
    <3>2. pc = "stash" /\ pc' = "fetch" /\ UNCHANGED <<cur, prev, home, before, hitch, emitted>>
      BY <1>4, <2>2 DEF Stash, found, said
    <3>3. ~emitted
      BY <3>2 DEF SaidInv
    <3>4. QED
      BY <2>2, <3>1, <3>2, <3>3 DEF PlaceInv, Over
  <2>3. QED
    BY <2>1, <2>2
<1>5. CASE Fetch
  BY <1>5 DEF Fetch, PlaceInv, checkout, toRestore, found, said, MovedFrom, Away, Over
<1>6. CASE CheckoutMain
  BY <1>6 DEF CheckoutMain, PlaceInv, toRestore, found, said, MovedFrom, Away, Over, SaidInv
<1>7. CASE Pull
  <2>1. pc = "pull-ff-only" /\ pc' \in {"setup"} \cup BranchRestores \cup StashRestores
    BY <1>7 DEF Pull, AfterFailedPull, BranchRestores, StashRestores
  <2>2. cur # before.cur => pc' \in Away
    BY <1>7 DEF Pull, AfterFailedPull, PlaceInv, Away, BranchRestores
  <2>3. UNCHANGED <<cur, worktree, stash, unmerged, toRestore, found, said>>
    BY <1>7 DEF Pull
  <2>4. QED
    BY <2>1, <2>2, <2>3 DEF PlaceInv, toRestore, found, said, MovedFrom, Over, BranchRestores, StashRestores
<1>8. CASE Setup \/ ReadNewVersion \/ RunScript \/ RecordApplied \/ RecordFailed
  BY <1>8, PlaceStays DEF Setup, ReadNewVersion, RunScript, RecordApplied, RecordFailed, PlaceInv,
     checkout, toRestore, found, said, Away, Over, Scanning
<1>9. CASE FinishScan \/ HelperAborts
  BY <1>9, PlaceStays DEF FinishScan, HelperAborts, ScanEnds, PlaceInv,
     checkout, toRestore, found, said, Away, Over, Scanning, BranchRestores
<1>10. CASE RestoreBranch
  <2>1. /\ pc \in BranchRestores /\ pc' \in StashRestores
        /\ UNCHANGED <<worktree, stash, unmerged, toRestore, home, before, emitted>>
    BY <1>10 DEF RestoreBranch, AfterCheckout, BranchRestores, StashRestores, said
  <2>2. prev = before.cur
    BY <2>1 DEF PlaceInv, BranchRestores
  <2>3. cur' = before.cur \/ (cur' = cur /\ hitch')
    BY <1>10, <2>2 DEF RestoreBranch
  <2>4. hitch => hitch'
    BY <1>10 DEF RestoreBranch
  <2>5. QED
    BY <2>1, <2>2, <2>3, <2>4 DEF PlaceInv, toRestore, MovedFrom, Over, BranchRestores, StashRestores
<1>11. CASE RestoreStash
  <2>1. PlaceInv /\ UNCHANGED <<cur, prev, home, before>>
    BY <1>11 DEF RestoreStash, StashRestores
  <2>2. pc' \in {"write-marker", "on_exit", "reported"}
    BY <1>11, RestoreStashReturns
  <2>3. pc # "trap: stash-pop" => prev = before.cur /\ pc' # "reported"
    BY <1>11, <2>1, RestoreStashReturns DEF PlaceInv
  <2>4. pc' # "write-marker" \/ prev = before.cur
    BY <1>11, <2>3, RestoreStashReturns
  <2>5. cur # before.cur => hitch
    BY <1>11, <2>1, RestoreStashReturns DEF PlaceInv, Away, BranchRestores, Scanning
  <2>6. CASE ~MayPop
    <3>1. UNCHANGED <<worktree, stash, unmerged, stashed, hitch>>
      BY <1>11, <2>6 DEF RestoreStash
    <3>2. stashed => hitch
      BY <2>1, <2>5, <2>6 DEF MayPop, PlaceInv
    <3>3. QED
      BY <2>1, <2>2, <2>4, <2>5, <3>1, <3>2 DEF PlaceInv, MovedFrom
  <2>7. CASE MayPop /\ FailingPop /\ hitch' = TRUE /\ UNCHANGED stashed
    BY <2>1, <2>2, <2>4, <2>5, <2>7 DEF PlaceInv, MovedFrom, FailingPop
  <2>8. CASE MayPop /\ ConflictingPop /\ hitch' = TRUE /\ UNCHANGED stashed
    <3>1. Head(stash).work = before.worktree /\ cur = before.cur
      BY <2>1, <2>8 DEF MayPop, PlaceInv
    <3>2. unmerged' = before.worktree /\ UNCHANGED <<worktree, stash>>
      BY <2>8, <3>1 DEF ConflictingPop
    <3>3. QED
      BY <2>1, <2>2, <2>4, <2>8, <3>1, <3>2 DEF PlaceInv, MovedFrom, MayPop
  <2>9. CASE MayPop /\ PopStash /\ stashed' = AfterPop /\ UNCHANGED <<unmerged, hitch>>
    <3>1. OnTop /\ worktree = {} /\ unmerged = {} /\ cur = before.cur
      BY <2>1, <2>9 DEF MayPop, PlaceInv, PopStash
    <3>2. worktree' = before.worktree /\ stash' = before.stash /\ stashed' = FALSE /\ unmerged' = {}
      BY <2>9, <3>1 DEF PopStash, AfterPop
    <3>3. before.unmerged = {}
      BY <2>1, <2>9 DEF PlaceInv, MayPop
    <3>4. QED
      BY <2>1, <2>2, <2>4, <2>9, <3>1, <3>2, <3>3 DEF PlaceInv
  <2>10. QED
    BY <1>11, <2>6, <2>7, <2>8, <2>9 DEF RestoreStash
<1>12. CASE WriteMarker \/ ClearCache \/ StageFails
  <2>1. UNCHANGED <<checkout, toRestore, found>>
    BY <1>12 DEF WriteMarker, ClearCache, StageFails
  <2>2. pc' \in {"clear-cache", "reported", "on_exit"} /\ (pc' = "clear-cache" => pc = "write-marker")
    BY <1>12 DEF WriteMarker, ClearCache, StageFails
  <2>3. CASE pc \in {"write-marker", "clear-cache"}
    BY <2>1, <2>2, <2>3, PlaceStays DEF PlaceInv, Away, Over, Scanning, BranchRestores
  <2>4. CASE StageFails /\ pc \notin {"write-marker", "clear-cache"}
    BY <2>1, <2>2, <2>4, PlaceStays DEF StageFails, said, PlaceInv, SaidInv, Away, Over
  <2>5. QED
    BY <1>12, <2>3, <2>4 DEF WriteMarker, ClearCache
<1>13. CASE OnExit
  BY <1>13, PlaceStays DEF OnExit, PlaceInv, SaidInv,
     checkout, toRestore, found, said, Away, Over, BranchRestores, MovedFrom
<1>14. CASE Kill \/ Between
  BY <1>14 DEF Kill, Between
<1>15. QED
  BY <1>1, <1>2, <1>3, <1>4, <1>5, <1>6, <1>7, <1>8, <1>9, <1>10, <1>11, <1>12, <1>13, <1>14
     DEF Next, Run

LEMMA HomeNext ==
    ASSUME TypeOK, WorkStaysHome, pc # "idle" => PlaceInv, Next
    PROVE  WorkStaysHome'
<1> USE DEF WorkStaysHome
<1>1. ASSUME UNCHANGED <<cur, worktree, unmerged, home>>
      PROVE  WorkStaysHome'
  BY <1>1
<1>2. CASE Stash \/ CheckoutMain
  <2>1. worktree' \subseteq worktree /\ unmerged' = unmerged /\ home' = home
    BY <1>2 DEF Stash, CheckoutMain, found
  <2>2. worktree' \cup unmerged' = {} \/ cur' = cur
    BY <1>2 DEF Stash, CheckoutMain, PlaceInv
  <2>3. QED
    BY <2>1, <2>2
<1>3. CASE RestoreBranch
  <2>1. PlaceInv /\ prev = before.cur /\ UNCHANGED <<worktree, unmerged, home>>
    BY <1>3 DEF RestoreBranch, BranchRestores, PlaceInv
  <2>2. cur' = prev \/ cur' = cur
    BY <1>3 DEF RestoreBranch
  <2>3. QED
    BY <2>1, <2>2 DEF PlaceInv
<1>4. CASE RestoreStash
  <2>1. PlaceInv /\ UNCHANGED <<cur, home>>
    BY <1>4 DEF RestoreStash, StashRestores
  <2>2. CASE UNCHANGED <<worktree, unmerged>>
    BY <2>1, <2>2
  <2>3. CASE MayPop /\ ((PopStash /\ unmerged' = unmerged) \/ ConflictingPop)
    <3>1. OnTop /\ worktree = {} /\ unmerged = {}
      BY <2>1, <2>3 DEF MayPop, PlaceInv, PopStash, ConflictingPop
    <3>2. worktree' \cup unmerged' = before.worktree
      BY <2>3, <3>1 DEF PopStash, ConflictingPop, OnTop
    <3>3. QED
      BY <2>1, <2>3, <3>2 DEF MayPop, PlaceInv
  <2>4. QED
    BY <1>4, <2>2, <2>3 DEF RestoreStash, FailingPop
<1>5. CASE Between
  <2>1. CASE \E w \in Work : Edit(w)
    <3>1. PICK w \in Work : Edit(w)
      BY <2>1
    <3>2. home[w] = None /\ worktree' = worktree \cup {w} /\ home' = [home EXCEPT ![w] = cur] /\ cur' = cur /\ unmerged' = unmerged
      BY <3>1 DEF Edit
    <3>3. \A x \in worktree' \cup unmerged' : home'[x] = cur'
      BY <3>2, NoneApart DEF TypeOK
    <3>4. QED
      BY <3>3
  <2>2. CASE UserStash
    BY <2>2 DEF UserStash
  <2>3. CASE UserPop
    BY <2>3 DEF UserPop
  <2>4. CASE \E b \in Branches \ {cur} : Switch(b)
    BY <2>4 DEF Switch
  <2>5. CASE Advance \/ UpdateCheck
    BY <2>5 DEF Advance, UpdateCheck, checkout
  <2>6. CASE Settle
    BY <2>6 DEF Settle
  <2>7. QED
    BY <1>5, <2>1, <2>2, <2>3, <2>4, <2>5, <2>6 DEF Between
<1>6. CASE \/ Start \/ PersistHopFrom \/ ReadBranch \/ Fetch \/ Pull \/ Setup \/ ReadNewVersion
           \/ RunScript \/ RecordApplied \/ RecordFailed \/ FinishScan \/ HelperAborts
           \/ WriteMarker \/ ClearCache \/ StageFails \/ OnExit \/ Kill
  BY <1>1, <1>6 DEF Start, PersistHopFrom, ReadBranch, Fetch, Pull, Setup, ReadNewVersion,
     RunScript, RecordApplied, RecordFailed, FinishScan, HelperAborts, WriteMarker, ClearCache,
     StageFails, OnExit, Kill, checkout, found
<1>7. QED
  BY <1>2, <1>3, <1>4, <1>5, <1>6 DEF Next, Run

\* The ledgers, the history of the migrations and the releases landed stand still.
LEMMA LedgerStays ==
    ASSUME LedgerInv, UNCHANGED <<remote, ledger, landed, migrated>>
    PROVE  LedgerInv'
BY DEF LedgerInv, NoMigrationForgotten, Accounted, ledger, migrated

\* The scan passes over nothing that is not accounted for.
LEMMA BeforeCandidate ==
    ASSUME TypeOK, LedgerInv, ScanInv, pc = "migrations", Candidates # {}
    PROVE  \A m \in Migrations : m < NextCandidate => Accounted(m)
<1> USE MigrationsAreNumbers DEF TypeOK
<1> DEFINE n == NextCandidate
<1>1. /\ n \in Migrations /\ script < n /\ n <= ver[cur] /\ Should(n)
      /\ \A m \in Migrations : script < m /\ m < n => ~(m <= ver[cur] /\ Should(m))
  <2>1. n \in Candidates /\ \A m \in Candidates : n <= m
    BY NextCandidateIsLeast
  <2>2. n \in Migrations /\ n \in Nat
    BY <2>1 DEF Candidates
  <2>3. ASSUME NEW m \in Migrations, script < m, m < n
        PROVE  m \notin Candidates
    <3>1. m \in Nat
      OBVIOUS
    <3>2. QED
      BY <2>1, <2>2, <2>3, <3>1
  <2>4. QED
    BY <2>1, <2>3 DEF Candidates
<1>2. ver[cur] = remote /\ old = hop /\ new = Text(remote)
      /\ \A m \in Migrations : m <= script => Accounted(m)
  BY DEF ScanInv, Scanning
<1>3. \A m \in Migrations : m < n => Accounted(m)
  <2>1. CASE n \in failed
    BY <1>1, <2>1 DEF LedgerInv
  <2>2. CASE WindowOk /\ InWindow(n)
    <3>1. ASSUME NEW m \in Migrations, m < n, script < m
          PROVE  Accounted(m)
      <4>1. m \in Nat /\ n \in Nat /\ old \in Nat /\ new \in Nat /\ ver[cur] \in Nat
        BY <1>1, <2>2 DEF WindowOk, Release
      <4>2. ~Should(m)
        BY <1>1, <3>1, <4>1
      <4>3. m <= new
        BY <2>2, <3>1, <4>1 DEF InWindow
      <4>4. CASE m \in applied
        BY <4>4 DEF Accounted
      <4>5. CASE ~(old < m)
        BY <1>2, <2>2, <4>1, <4>5 DEF LedgerInv, WindowOk
      <4>6. QED
        BY <2>2, <4>2, <4>3, <4>4, <4>5 DEF Should, InWindow
    <3>2. ASSUME NEW m \in Migrations
          PROVE  m <= script \/ script < m
      OBVIOUS
    <3>3. QED
      BY <1>2, <3>1, <3>2
  <2>3. QED
    BY <1>1, <2>1, <2>2 DEF Should
<1>4. QED
  BY <1>3

LEMMA LedgerNext ==
    ASSUME TypeOK, LedgerInv, ScanInv, Next
    PROVE  LedgerInv'
<1> USE MigrationsAreNumbers DEF TypeOK
<1>1. CASE PersistHopFrom
  <2>1. UNCHANGED <<remote, applied, failed, landed, lapses, ran>>
    BY <1>1 DEF PersistHopFrom
  <2>2. CASE hop = None /\ old # None
    <3>1. hop' = old /\ passed' = passed \cup Claimed(old)
      BY <1>1, <2>2 DEF PersistHopFrom
    <3>2. ASSUME NEW m \in Migrations, m <= old
          PROVE  m \in applied \cup failed \cup passed'
      <4>1. CASE \A r \in landed : r < m
        BY <3>1, <3>2, <4>1 DEF Claimed
      <4>2. CASE \E r \in landed : m <= r
        BY <2>2, <3>1, <4>2 DEF LedgerInv, NoMigrationForgotten
      <4>3. QED
        BY <4>1, <4>2
    <3>3. hop' # None
      BY <2>2, <3>1
    <3>4. QED
      BY <2>1, <3>1, <3>2, <3>3 DEF LedgerInv, NoMigrationForgotten, Accounted
  <2>3. CASE ~(hop = None /\ old # None)
    BY <1>1, <2>1, <2>3, LedgerStays DEF PersistHopFrom, ledger, migrated
  <2>4. QED
    BY <2>2, <2>3
<1>2. CASE Pull
  <2>1. UNCHANGED <<hop, applied, failed, lapses, ran>>
    BY <1>2 DEF Pull, ledger
  <2>2. CASE UNCHANGED <<remote, landed, passed>>
    BY <2>1, <2>2, LedgerStays DEF ledger, migrated
  <2>3. CASE /\ remote' \in remote .. MaxVersion /\ landed' = landed \cup {remote'}
             /\ passed' = IF hop = None THEN passed \cup Brought(remote') ELSE passed
    <3>1. remote' \in landed' /\ \A r \in landed' : r <= remote'
      BY <2>3, ConstantsAssumption DEF LedgerInv, Versions
    <3>2. hop = None => \A m \in Migrations : m <= remote' => m \in passed'
      BY <2>3 DEF Brought
    <3>3. NoMigrationForgotten'
      BY <2>1, <2>3, <3>2 DEF LedgerInv, NoMigrationForgotten
    <3>4. passed \subseteq passed'
      BY <2>3
    <3>5. QED
      BY <2>1, <3>1, <3>3, <3>4 DEF LedgerInv, Accounted
  <2>4. QED
    BY <1>2, <2>2, <2>3 DEF Pull
<1>3. CASE RunScript
  <2> DEFINE n == NextCandidate
  <2>1. n \in Migrations /\ Should(n)
    BY <1>3, NextCandidateIsLeast DEF RunScript, Candidates
  <2>2. UNCHANGED <<remote, hop, applied, landed, passed>>
    BY <1>3 DEF RunScript
  <2>3. \A m \in Migrations : m < n => Accounted(m)
    BY <1>3, BeforeCandidate DEF RunScript
  <2>4. n \notin applied
    BY <2>1 DEF Should
  <2> HIDE DEF n
  <2>5. CASE failed' = failed /\ ran' = [ran EXCEPT ![n] = @ + 1] /\ lapses' = [lapses EXCEPT ![n] = @ + 1]
    BY SMTT(30), <2>1, <2>2, <2>4, <2>5 DEF LedgerInv, NoMigrationForgotten, Accounted
  <2>6. CASE failed' = failed \cup {n} /\ UNCHANGED <<ran, lapses>>
    BY <2>1, <2>2, <2>3, <2>6 DEF LedgerInv, NoMigrationForgotten, Accounted
  <2>7. QED
    BY <1>3, <2>5, <2>6 DEF RunScript, n
<1>4. CASE RecordApplied
  <2>1. script \in Migrations \ applied /\ lapses[script] > 0
    BY <1>4 DEF RecordApplied, ScanInv
  <2>2. \A m \in Migrations : m < script => Accounted(m)
    <3>1. \A m \in Migrations : m <= script => Accounted(m) \/ m = script
      BY <1>4 DEF RecordApplied, ScanInv, Scanning
    <3>2. script \in Nat /\ \A m \in Migrations : m \in Nat
      OBVIOUS
    <3>3. QED
      BY <3>1, <3>2
  <2>3. /\ applied' = applied \cup {script} /\ lapses' = [lapses EXCEPT ![script] = @ - 1]
        /\ UNCHANGED <<remote, hop, failed, landed, passed, ran>>
    BY <1>4 DEF RecordApplied
  <2>4. \A m \in Migrations : ran'[m] <= lapses'[m] + (IF m \in applied' THEN 1 ELSE 0)
    BY <2>1, <2>3 DEF LedgerInv
  <2>5. QED
    BY <2>1, <2>2, <2>3, <2>4 DEF LedgerInv, NoMigrationForgotten, Accounted
<1>5. CASE RecordFailed
  <2>1. script \in applied
    BY <1>5 DEF RecordFailed, ScanInv
  <2>2. failed' = failed \/ failed' = failed \ {script}
    BY <1>5 DEF RecordFailed
  <2>3. UNCHANGED <<remote, hop, applied, landed, migrated>>
    BY <1>5 DEF RecordFailed
  <2>4. QED
    BY <2>1, <2>2, <2>3 DEF LedgerInv, NoMigrationForgotten, Accounted, migrated
<1>6. CASE FinishScan
  <2>1. /\ hop' = None /\ UNCHANGED <<remote, applied, failed, landed, lapses, ran>>
        /\ passed' = IF WindowOk THEN passed ELSE passed \cup Brought(ver[cur])
    BY <1>6 DEF FinishScan
  <2>2. pc = "migrations" /\ Candidates = {}
    BY <1>6 DEF FinishScan
  <2>3. /\ ver[cur] = remote /\ old = hop /\ new = Text(remote)
        /\ \A m \in Migrations : m <= script => Accounted(m)
    BY <2>2 DEF ScanInv, Scanning
  <2>4. ASSUME NEW m \in Migrations, m <= remote
        PROVE  m \in applied \cup failed \cup passed'
    <3>1. CASE ~WindowOk
      BY <2>1, <2>3, <2>4, <3>1 DEF Brought
    <3>2. CASE WindowOk
      <4>1. new = remote
        BY <2>3, <3>2 DEF WindowOk, Text
      <4>2. CASE m <= script
        BY <2>1, <2>3, <3>2, <4>2 DEF Accounted
      <4>3. CASE m <= old
        BY <2>1, <2>3, <3>2, <4>3 DEF LedgerInv, WindowOk, Accounted
      <4>4. CASE script < m /\ old < m
        BY <2>2, <2>3, <2>4, <3>2, <4>1, <4>4 DEF Candidates, Should, InWindow
      <4>5. old \in Nat
        BY <3>2 DEF WindowOk, Release
      <4>6. QED
        BY <4>2, <4>3, <4>4, <4>5
    <3>3. QED
      BY <3>1, <3>2
  <2>5. NoMigrationForgotten'
    BY <2>1, <2>4 DEF NoMigrationForgotten, LedgerInv
  <2>6. passed \subseteq passed'
    BY <2>1
  <2>7. QED
    BY <2>1, <2>5, <2>6 DEF LedgerInv, Accounted
<1>7. CASE \/ Start \/ ReadBranch \/ Stash \/ Fetch \/ CheckoutMain \/ Setup \/ ReadNewVersion
           \/ HelperAborts \/ RestoreBranch \/ RestoreStash \/ WriteMarker \/ ClearCache
           \/ StageFails \/ OnExit \/ Kill \/ Between
  BY <1>7, LedgerStays DEF Start, ReadBranch, Stash, Fetch, CheckoutMain, Setup, ReadNewVersion,
     HelperAborts, RestoreBranch, RestoreStash, WriteMarker, ClearCache, StageFails, OnExit, Kill,
     Between
<1>8. QED
  BY <1>1, <1>2, <1>3, <1>4, <1>5, <1>6, <1>7 DEF Next, Run

LEMMA StageOfScan ==
    /\ Windowed \cap Scanning = {}
    /\ \A stage \in Scanning : stage \notin {"setup", "read-new-version", "idle", "mkdir-state", "reported"}
BY DEF Windowed, Scanning

LEMMA ScanNext ==
    ASSUME TypeOK, LedgerInv, ScanInv, Next
    PROVE  ScanInv'
<1> USE StageOfScan
<1>1. ASSUME pc' \notin Windowed, pc' \notin Scanning, pc' = "mkdir-state" => script' = 0
      PROVE  ScanInv'
  BY <1>1 DEF ScanInv, Scanning, Windowed
<1>2. CASE Start \/ Between \/ Kill \/ StageFails \/ OnExit
  <2>1. /\ pc' \notin Windowed /\ pc' \notin Scanning
        /\ pc' = "mkdir-state" => script' = 0
    BY <1>2 DEF Start, Between, Kill, StageFails, OnExit, Windowed, Scanning
  <2>2. QED
    BY <1>1, <2>1
<1>3. CASE FinishScan \/ HelperAborts \/ RestoreBranch \/ RestoreStash \/ WriteMarker \/ ClearCache
  <2>1. pc' \notin Windowed /\ pc' \notin Scanning /\ pc' # "mkdir-state"
    BY <1>3, RestoreStashReturns DEF FinishScan, HelperAborts, ScanEnds, RestoreBranch, AfterCheckout,
       BranchRestores, WriteMarker, ClearCache, Windowed, Scanning
  <2>2. QED
    BY <1>1, <2>1
<1>4. CASE PersistHopFrom
  <2>1. /\ pc = "mkdir-state" /\ pc' = "read-branch"
        /\ hop' = None => old' = None
        /\ script' = script
    BY <1>4, NoneApart DEF PersistHopFrom, versions
  <2>2. QED
    BY <2>1 DEF ScanInv, Scanning
<1>5. CASE ReadBranch \/ (Stash /\ unmerged = {}) \/ Fetch \/ CheckoutMain
  <2>1. /\ pc \in Windowed /\ pc' \in Windowed \ {"setup", "read-new-version"}
        /\ UNCHANGED <<hop, old, script>>
    BY <1>5 DEF ReadBranch, Stash, Fetch, CheckoutMain, Windowed, ledger, versions
  <2>2. QED
    BY <2>1 DEF ScanInv, Scanning, Windowed
<1>6. CASE Pull
  <2>1. pc \in Windowed /\ UNCHANGED <<cur, hop, old, script>>
    BY <1>6 DEF Pull, Windowed, ledger, versions
  <2>2. CASE pc' = "setup" /\ ver' = [ver EXCEPT ![cur] = remote']
    BY <2>1, <2>2 DEF ScanInv, Scanning, Windowed, TypeOK
  <2>3. CASE pc' = AfterFailedPull
    BY <1>1, <2>3 DEF AfterFailedPull, Windowed, Scanning
  <2>4. QED
    BY <1>6, <2>2, <2>3 DEF Pull
<1>7. CASE Setup
  BY <1>7 DEF Setup, ScanInv, Scanning, Windowed, checkout, ledger, versions
<1>8. CASE ReadNewVersion
  <2>1. /\ pc = "read-new-version" /\ pc' = "migrations"
        /\ new' = Text(ver[cur]) /\ old' = IF hop # None THEN hop ELSE old
        /\ UNCHANGED <<remote, ver, cur, hop, script>>
    BY <1>8 DEF ReadNewVersion, checkout, ledger
  <2>2. ver[cur] = remote /\ old' = hop /\ script = 0
    BY <2>1 DEF ScanInv, Windowed
  <2>3. \A m \in Migrations : ~(m <= 0)
    BY MigrationsAreNumbers
  <2>4. QED
    BY <2>1, <2>2, <2>3 DEF ScanInv, Windowed, Scanning, Text
<1>9. CASE RunScript
  <2> DEFINE n == NextCandidate
  <2>1. n \in Migrations /\ n <= ver[cur] /\ Should(n)
    BY <1>9, NextCandidateIsLeast DEF RunScript, Candidates
  <2>2. \A m \in Migrations : m < n => Accounted(m)
    BY <1>9, BeforeCandidate DEF RunScript
  <2>3. n \notin applied
    BY <2>1 DEF Should
  <2>4. /\ pc = "migrations" /\ script' = n
        /\ UNCHANGED <<remote, ver, cur, hop, old, new, applied, passed>>
    BY <1>9 DEF RunScript, checkout, versions
  <2>5. n \in Nat /\ \A m \in Migrations : m \in Nat /\ (m <= n => m = n \/ m < n)
    BY <2>1, MigrationsAreNumbers
  <2> HIDE DEF n
  <2>6. CASE pc' = "record applied" /\ failed' = failed /\ lapses' = [lapses EXCEPT ![n] = @ + 1]
    <3>1. lapses'[n] > 0
      <4>1. lapses[n] \in Nat /\ n \in DOMAIN lapses
        BY <2>1 DEF TypeOK
      <4>2. lapses'[n] = lapses[n] + 1
        BY <2>6, <4>1
      <4>3. QED
        BY <4>1, <4>2
    <3>2. QED
      BY <2>1, <2>2, <2>3, <2>4, <2>5, <2>6, <3>1 DEF ScanInv, Scanning, Windowed, Accounted, Text
  <2>7. CASE pc' = pc /\ failed' = failed \cup {n}
    BY <2>1, <2>2, <2>4, <2>5, <2>7 DEF ScanInv, Scanning, Windowed, Accounted, Text
  <2>8. QED
    BY <1>9, <2>6, <2>7 DEF RunScript, n
<1>10. CASE RecordApplied
  <2>1. /\ pc = "record applied" /\ pc' = "record failed" /\ applied' = applied \cup {script}
        /\ UNCHANGED <<remote, ver, cur, hop, old, new, failed, passed, script>>
    BY <1>10 DEF RecordApplied, checkout, versions
  <2>2. QED
    BY <2>1 DEF ScanInv, Scanning, Windowed, Accounted, Text
<1>11. CASE RecordFailed
  <2>1. /\ pc = "record failed" /\ pc' = "migrations"
        /\ failed' = failed \/ failed' = failed \ {script}
        /\ UNCHANGED <<remote, ver, cur, hop, old, new, applied, passed, script>>
    BY <1>11 DEF RecordFailed, checkout, versions, migrated
  <2>2. QED
    BY <2>1 DEF ScanInv, Scanning, Windowed, Accounted, Text
<1>12. CASE Stash /\ unmerged # {}
  <2>1. pc' = "on_exit"
    BY <1>12 DEF Stash
  <2>2. QED
    BY <1>1, <2>1 DEF Windowed, Scanning
<1>13. QED
  BY <1>2, <1>3, <1>4, <1>5, <1>6, <1>7, <1>8, <1>9, <1>10, <1>11, <1>12 DEF Next, Run

(***************************************************************************)
(* The theorems.                                                           *)
(***************************************************************************)
LEMMA InitIInv == Init => IInv
<1>1. ASSUME Init
      PROVE  IInv
  <2> USE <1>1, ConstantsAssumption DEF Init
  <2>1. TypeOK
    <3>1. 1 \in Versions
      BY DEF Versions
    <3>2. Nothing \in [cur : Branches, worktree : SUBSET Work, stash : Seq(Entries), unmerged : SUBSET Work]
      BY DEF Nothing, Branches
    <3>3. pc \in Stages \cup Resting
      BY DEF Resting
    <3>4. /\ ver \in [Branches -> Versions] /\ home \in [Work -> Branches \cup {None}]
          /\ lapses \in [Migrations -> Nat] /\ ran \in [Migrations -> Nat]
      BY <3>1
    <3>5. stash \in Seq(Entries) /\ worktree \in SUBSET Work /\ unmerged \in SUBSET Work
      OBVIOUS
    <3>6. hop \in Release /\ old \in Release /\ new \in Release /\ base \in Release /\ remote \in Versions
      BY <3>1 DEF Release
    <3>7. QED
      BY <3>1, <3>2, <3>3, <3>4, <3>5, <3>6 DEF TypeOK
  <2>2. WorkStaysHome /\ SaidInv
    BY DEF WorkStaysHome, SaidInv
  <2>3. LedgerInv
    BY MigrationsAreNumbers DEF LedgerInv, NoMigrationForgotten
  <2>4. ScanInv
    BY DEF ScanInv, Windowed, Scanning
  <2>5. QED
    BY <2>1, <2>2, <2>3, <2>4 DEF IInv
<1>2. QED
  BY <1>1

LEMMA NextIInv == IInv /\ [Next]_vars => IInv'
<1>1. ASSUME IInv, Next
      PROVE  IInv'
  BY <1>1, TypeOKNext, HomeNext, SaidNext, PlaceNext, LedgerNext, ScanNext DEF IInv
<1>2. ASSUME IInv, UNCHANGED vars
      PROVE  IInv'
  <2> USE <1>2 DEF IInv, vars, checkout, ledger, versions, toRestore, said, migrated, found
  <2>1. TypeOK'
    BY DEF TypeOK
  <2>2. WorkStaysHome' /\ SaidInv'
    BY DEF WorkStaysHome, SaidInv
  <2>3. pc' # "idle" => PlaceInv'
    BY DEF PlaceInv, OnTop, MovedFrom
  <2>4. LedgerInv'
    BY LedgerStays
  <2>5. ScanInv'
    BY DEF ScanInv, Accounted, Text
  <2>6. QED
    BY <2>1, <2>2, <2>3, <2>4, <2>5
<1>3. QED
  BY <1>1, <1>2

LEMMA Invariance == Spec => []IInv
BY InitIInv, NextIInv, PTL DEF Spec

\* Every variable keeps its type; no ledger line and no success is counted below zero.
THEOREM TypeCorrect == Spec => []TypeOK
<1>1. IInv => TypeOK
  BY DEF IInv
<1>2. QED
  BY <1>1, Invariance, PTL

\* A run that ends by itself has printed exactly one result line, whichever stages
\* of update-run failed before (the EXIT trap, 73-84).
THEOREM OneResultLine == Spec => []ResultExactlyOnce
<1>1. IInv => ResultExactlyOnce
  BY DEF IInv, SaidInv, ResultExactlyOnce
<1>2. QED
  BY <1>1, Invariance, PTL

\* A run that ends by itself leaves the checkout as it found it, or the changes on
\* top of the stash it found when putting them back failed, with at most the marks
\* of one conflicting pop in the work tree (restore_stash, 52-71).
THEOREM CheckoutPutBack == Spec => []RunPutsItBack
<1>1. ASSUME IInv, pc = "reported"
      PROVE  \/ before = [cur |-> cur, worktree |-> worktree, stash |-> stash, unmerged |-> unmerged]
             \/ /\ hitch
                /\ IF stash = before.stash THEN worktree = before.worktree /\ unmerged = before.unmerged
                   ELSE OnTop /\ worktree = {} /\ unmerged \in {{}, before.worktree}
                /\ unmerged # {} => cur = before.cur
  <2>1. PlaceInv /\ (stashed => hitch) /\ (cur # before.cur => hitch)
    BY <1>1 DEF IInv, PlaceInv, SaidInv, Over
  <2>2. before = [cur |-> before.cur, worktree |-> before.worktree, stash |-> before.stash,
                  unmerged |-> before.unmerged]
    BY <1>1 DEF IInv, TypeOK
  <2>3. CASE stashed
    <3>1. OnTop => stash # before.stash
      <4>1. stash \in Seq(Entries)
        BY <1>1 DEF IInv, TypeOK
      <4>2. OnTop => Len(Tail(stash)) # Len(stash)
        BY <4>1 DEF OnTop
      <4>3. QED
        BY <4>2 DEF OnTop
    <3>2. QED
      BY <2>1, <2>3, <3>1 DEF PlaceInv
  <2>4. CASE ~stashed /\ cur = before.cur
    BY <2>1, <2>2, <2>4 DEF PlaceInv
  <2>5. CASE ~stashed /\ cur # before.cur
    BY <2>1, <2>5 DEF PlaceInv
  <2>6. QED
    BY <2>3, <2>4, <2>5
<1>2. IInv => RunPutsItBack
  BY <1>1 DEF RunPutsItBack
<1>3. QED
  BY <1>2, Invariance, PTL

\* No change is ever in the work tree of a branch it was not made on (61-65).
THEOREM ChangesStayHome == Spec => []WorkStaysHome
<1>1. IInv => WorkStaysHome
  BY DEF IInv
<1>2. QED
  BY <1>1, Invariance, PTL

\* The migration ledgers are complete once hop-from is cleared, filled in version
\* order, and a recorded migration is not run again, whatever was killed or failed
\* in between (run-migrations.sh).
THEOREM LedgersComplete == Spec => []MigrationsAccounted
<1>1. ASSUME IInv
      PROVE  MigrationsAccounted
  <2>1. NoMigrationForgotten /\ AppliedInOrder
    BY <1>1 DEF IInv, LedgerInv, AppliedInOrder, Accounted
  <2>2. AppliedOnce
    BY SMTT(30), <1>1 DEF IInv, LedgerInv, TypeOK, AppliedOnce
  <2>3. QED
    BY <2>1, <2>2 DEF MigrationsAccounted
<1>2. QED
  BY <1>1, Invariance, PTL
=============================================================================
