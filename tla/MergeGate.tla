-------------------------------- MODULE MergeGate --------------------------------
(* One check, and the readers of manifests and patches on inputs of their own:  *)
(* `subject` says which of the two a behaviour is about, and the other stays    *)
(* where it starts.                                                             *)
EXTENDS MergeGateCollect

CONSTANTS
    Kinds, Pool, Paths, Texts, NoPath, Langs, Shapes,            \* of MergeGateParsing
    MaxManifest, MaxFiles, MaxHunks, MaxLines, MaxSource,
    Resting           \* world, policy and history of a check that does not run

VARIABLES subject, kind, old, new, patch, lang, source
readers == <<subject, kind, old, new, patch, lang, source>>

(* A changed line is a sequence of tokens.                                      *)
ASSUME TextsAssumption == \A t \in Texts : Len(t) \in Nat /\ t = [i \in 1..Len(t) |-> t[i]]

Readers == INSTANCE MergeGateParsing WITH base <- old, head <- new

IdleReaders ==
    /\ subject = "check" /\ kind = "other" /\ old = Readers!NoBase /\ new = <<>>
    /\ patch = <<>> /\ lang = "none" /\ source = <<>>
IdleCheck == Init /\ <<world, policy, history>> = Resting
GateInit == (Init /\ IdleReaders) \/ (IdleCheck /\ Readers!Init)
GateNext ==
    \/ subject = "check" /\ Next /\ UNCHANGED readers
    \/ Readers!Next /\ UNCHANGED vars
GateSpec == GateInit /\ [][GateNext]_<<vars, readers>>
--------------------------------------------------------------------------------
(* A dependency a changed line brings in is counted, or the manifest is         *)
(* reported as unverifiable: see MergeGateParsing.                              *)
DepsNeverHidden == Readers!DepsNeverHidden
(* The patch parser gives back exactly the hunks git printed.                   *)
PatchRoundTrip == Readers!PatchRoundTrip
(* The names counted in a hunk are those the file exports.                      *)
ScanCountsMembers == Readers!ScanCountsMembers
================================================================================
