--------------------------- MODULE GreptileConfig ---------------------------
(***************************************************************************)
(* The policy tables and configuration readers of                          *)
(* src/greptile-lifecycle/policy.ts.  A tip of a branch is                 *)
(*                                                                         *)
(*   [sha, json, dotted,   greptile.json and .greptile.json                *)
(*    dir]                 None or [files, config]: the .greptile/ below it *)
(*                                                                         *)
(* where a file is None or [readable, object], its object None when its    *)
(* text is no JSON object, and a key of the object None when it is absent  *)
(* and Invalid when its value is none the key may have.                    *)
(***************************************************************************)
EXTENDS Naturals, FiniteSets

CONSTANTS
    None,
    Invalid,
    Nested      \* the paths below .greptile/

-----------------------------------------------------------------------------
(* Questions.                                                              *)

\* What an option of a question does, or None if the question has no such option.
EffectOf(question, option) ==
    CASE <<question, option>> \in {<<"E1", "b">>, <<"E2", "a">>, <<"E6", "b">>, <<"E7", "a">>} -> "affirmative-waiver"
      [] <<question, option>> \in {<<"E1", "c">>, <<"E2", "b">>, <<"E4", "b">>, <<"E6", "c">>, <<"E7", "b">>,
                                   <<"SKIP-ACK", "b">>} -> "stay-draft"
      [] <<question, option>> = <<"E1", "a">> -> "configuration-pause"
      [] <<question, option>> = <<"E4", "a">> -> "unverified-permission"
      [] <<question, option>> = <<"E6", "a">> -> "wait"
      [] <<question, option>> = <<"POLICY-CHANGE", "a">> -> "policy-retain"
      [] <<question, option>> = <<"POLICY-CHANGE", "b">> -> "policy-disable"
      [] <<question, option>> = <<"SKIP-ACK", "a">> -> "acknowledge-skip"
      [] OTHER -> None

-----------------------------------------------------------------------------
(* What Greptile does by itself.                                           *)

Events == {"open", "push", "rebase"}

\* `rebase` includes `push`, and `push` includes `open`.
NormalizeEvents(events) ==
    LET pushed == events \cup (IF "rebase" \in events THEN {"push"} ELSE {})
    IN pushed \cup (IF "push" \in pushed THEN {"open"} ELSE {})

ParseEventList(value) ==
    IF value = Invalid THEN Invalid
    ELSE IF value \subseteq Events THEN NormalizeEvents(value) ELSE Invalid

Content(file) == IF file.readable THEN file.object ELSE None
NestedConfig(tip) == IF tip.dir = None THEN None ELSE tip.dir.config

\* The nested file goes before greptile.json.
EffectiveFile(tip) ==
    CASE NestedConfig(tip) # None -> [path |-> ".greptile/config.json", object |-> Content(NestedConfig(tip))]
      [] NestedConfig(tip) = None /\ tip.json # None -> [path |-> "greptile.json", object |-> Content(tip.json)]
      [] OTHER -> None

\* What a tip or the verified settings say: a list, or why there is none to rely on.
Declared(file, why, events) == [file |-> file, why |-> why, events |-> events]

Lists(object) ==
    (IF object.autoReview = None THEN {} ELSE {ParseEventList(object.autoReview)})
    \cup (IF object.triggerOnUpdates = None THEN {}
          ELSE {CASE object.triggerOnUpdates = Invalid -> Invalid
                  [] object.triggerOnUpdates = "true" -> Events
                  [] OTHER -> {"open"}})
    \cup (IF object.skipReview = None THEN {}
          ELSE {IF object.skipReview = "AUTOMATIC" THEN {} ELSE Invalid})

\* Keys of two generations may stand in one file, and must then agree.
Agreed(path, lists) ==
    CASE Invalid \in lists -> Declared(path, "invalid", {})
      [] lists = {} -> Declared(path, "list", {"open"})
      [] Invalid \notin lists /\ Cardinality(lists) > 1 -> Declared(path, "conflicting", {})
      [] OTHER -> Declared(path, "list", CHOOSE l \in lists : TRUE)

FileTrigger(file, dotted) ==
    IF file = None THEN Declared(None, IF dotted # None THEN "dotted-only" ELSE "missing", {})
    ELSE IF file.object = None THEN Declared(file.path, "unreadable", {})
    ELSE Agreed(file.path, Lists(file.object))

TipTrigger(tip) == FileTrigger(EffectiveFile(tip), tip.dotted)

Detection(kind, excluded, facts) == [kind |-> kind, pushRebaseExcluded |-> excluded, facts |-> facts]

\* Verified settings speak for themselves.
FromSettings(exclusion, events) ==
    LET Facts(why, list) == <<Declared("settings", why, list)>>
    IN IF exclusion # None THEN Detection("excluded", TRUE, Facts("excluded", {}))
       ELSE IF events = Invalid THEN Detection("cannot-rule-out", FALSE, Facts("invalid", {}))
       ELSE Detection(IF "open" \in events THEN "will-start" ELSE "excluded", "push" \notin events,
                      Facts("list", events))

\* Files count only where both tips declare a list.
FromTips(base, head) ==
    LET lists == base.why = "list" /\ head.why = "list"
        opens == {t \in {base, head} : "open" \in t.events}
    IN Detection(CASE lists /\ opens = {} -> "excluded"
                   [] lists /\ opens = {base, head} -> "will-start"
                   [] OTHER -> "cannot-rule-out",
                 lists /\ "push" \notin base.events \cup head.events,
                 <<base, head>>)

\* Will marking the PR ready start a review?
DetectReadyTrigger(config) ==
    IF config.verified # None
    THEN FromSettings(config.verified.exclusion, ParseEventList(config.verified.autoReview))
    ELSE FromTips(TipTrigger(config.base), TipTrigger(config.head))

\* The labels Greptile asks for before it reviews, Invalid if they cannot be told.
LabelFiles(tip) ==
    ({EffectiveFile(tip)} \ {None})
    \cup (IF EffectiveFile(tip) = None /\ tip.dotted # None
          THEN {[path |-> ".greptile.json", object |-> Content(tip.dotted)]} ELSE {})
LabelsIn(files) ==
    LET object == (CHOOSE file \in files : TRUE).object
    IN IF files = {} THEN {} ELSE IF object = None THEN Invalid
       ELSE IF object.labels = None THEN {} ELSE object.labels
FirstOf(files, others) == IF files # {} THEN files ELSE others
RequiredLabels(config) ==
    IF config.verified # None /\ config.verified.labels # None THEN config.verified.labels
    ELSE LabelsIn(FirstOf(LabelFiles(config.head), LabelFiles(config.base)))

-----------------------------------------------------------------------------
(* What the PR changes.                                                    *)

RootMarkers == {"greptile.json", ".greptile.json", ".greptile"} \cup Nested

HasRootMarker(tip) ==
    \/ tip.json # None \/ tip.dotted # None
    \/ tip.dir # None /\ (tip.dir.config # None \/ tip.dir.files # {})

FilesBelow(tip) == IF tip.dir = None THEN {} ELSE tip.dir.files

\* Markers that differ between two tips.
MarkerChanges(base, head) ==
    (IF base.json # head.json THEN {"greptile.json"} ELSE {})
    \cup (IF base.dotted # head.dotted THEN {".greptile.json"} ELSE {})
    \cup (IF NestedConfig(base) # NestedConfig(head) THEN {".greptile/config.json"} ELSE {})
    \cup ((FilesBelow(base) \cup FilesBelow(head)) \ (FilesBelow(base) \cap FilesBelow(head)))

\* Markers, and the file that says what counts as documentation, the diff touches.
PolicyFileChanges(diff) ==
    {p \in {f.path : f \in diff.files} \cup {f.previous : f \in diff.files} :
        p # None /\ (p \in RootMarkers \/ p = diff.docsPolicy)}

ClassifyDiff(diff) ==
    CASE diff.files = {} -> "empty"
      [] \E f \in diff.files : f.class = "unclassified" -> "unclassified"
      [] /\ diff.files # {}
         /\ \A f \in diff.files : f.entry = "file" /\ f.class \in {"prose", "doc-asset"} -> "docs-only"
      [] OTHER -> "mixed"
=============================================================================
