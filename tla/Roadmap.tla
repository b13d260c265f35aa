--------------------------------- MODULE Roadmap ----------------------------------
(* The roadmap tools (src/audit): the packer writes the groups of the plan,     *)
(* people ship tracks from the groups in flight and edit the plan in between,   *)
(* and the audit says whether what is written still is what can be launched.    *)
EXTENDS TrackPacking

CONSTANTS
    Plans,            \* tracks at first: touches ({} for a legacy track), blockers, title
    Caps,             \* roadmap:parallelism_cap
    Retouches,        \* touches an edit may give a track
    HotfixIds,        \* tracks that may come as a Hotfix Group
    MaxGroup, MaxEdits

VARIABLES
    tracks, order,    \* the tracks, and their order in the document
    groups,           \* number -> tracks, dependencies, whether it is a hotfix and complete
    shipped, cap,
    report,           \* of the audit of the plan as it is
    fresh,            \* nobody edited since the plan was generated
    edits
vars == <<tracks, order, groups, shipped, cap, report, fresh, edits>>

Group(ids, deps) == [tracks |-> ids, deps |-> deps, hotfix |-> FALSE, closed |-> FALSE]
Hotfix(id) == [Group({id}, {}) EXCEPT !.hotfix = TRUE]
NoReport == [status |-> "none"]

Init ==
    /\ tracks \in Plans /\ order = SetToSeq(DOMAIN tracks)
    /\ groups = (1 :> Group(DOMAIN tracks, {}))
    /\ shipped = {} /\ cap \in Caps /\ report = NoReport /\ fresh = FALSE /\ edits = 0

Legacy(id) == tracks[id].touches = {}
Active(g) == {id \in groups[g].tracks : id \notin shipped /\ ~Legacy(id)}
IsComplete(g) == groups[g].closed
HotfixTracks == UNION {groups[g].tracks : g \in {h \in DOMAIN groups : groups[h].hotfix}}
Live == {id \in DOMAIN tracks : id \notin shipped /\ ~Legacy(id)}

(* What the packer sees: blockers that are shipped or legacy are left out.      *)
PackerInput == SelectSeq(order, LAMBDA id : id \in Live \ HotfixTracks)
PackerTracks == [id \in Range(PackerInput) |->
                    [tracks[id] EXCEPT !.blocked = SelectSeq(@, LAMBDA d : d \in Live)]]
FillCap == Min({cap, 8})
--------------------------------------------------------------------------------
(* GROUP_DEPS: references to groups that do not exist, and groups that Kahn's   *)
(* algorithm leaves over.                                                       *)
Cyclic(deps) ==
    LET left[n \in 0..Cardinality(DOMAIN deps)] ==
            IF n = 0 THEN DOMAIN deps ELSE LET over == left[n - 1] IN {g \in over : deps[g] \cap over # {}}
    IN left[Cardinality(DOMAIN deps)] # {}
GroupDepsFail ==
    \/ \E g \in DOMAIN groups : ~(groups[g].deps \subseteq DOMAIN groups)
    \/ Cyclic([g \in DOMAIN groups |-> groups[g].deps])

(* COLLISIONS: two active tracks of one group, more of them than fit, or more   *)
(* than one that claims the instructions.                                       *)
CollisionsFail ==
    \E g \in DOMAIN groups :
        \/ Cardinality(Active(g)) > FillCap
        \/ Cardinality({id \in Active(g) : \E t \in tracks[id].touches : t.path \in ProtectedDocs}) > 1
        \/ \E a, b \in Active(g) : a # b /\ TouchesIntersect(tracks[a].touches, tracks[b].touches)

(* PACKING: the written partition is the packer's, and each edge between two    *)
(* bins is a dependency of the groups.                                          *)
WrittenUnshippedGroups ==
    {Active(g) : g \in {h \in DOMAIN groups : ~groups[h].hotfix /\ ~IsComplete(h)}} \ {{}}
PackingDrift(bins) == WrittenUnshippedGroups # {Range(bins[i].tracks) : i \in DOMAIN bins}
MissingTrackDeps(bins) ==
    \E g, a \in DOMAIN groups : g # a /\ a \notin groups[g].deps /\ ~groups[g].hotfix
        /\ \E id \in Active(g) : Range(tracks[id].blocked) \cap Active(a) # {}
MissingCollisionDeps(bins) ==
    \E i \in DOMAIN bins : \E g \in DOMAIN groups :
        /\ ~groups[g].hotfix /\ groups[g].tracks \cap Range(bins[i].tracks) # {}
        /\ \E a \in DOMAIN groups \ ({g} \cup groups[g].deps) : groups[a].tracks \cap bins[i].blocked # {}

(* STYLE_LINT: collisions whose order neither the tracks nor the bins nor the   *)
(* written groups determine.                                                    *)
InOneGroup(a, b) == \E g \in DOMAIN groups : {a, b} \subseteq groups[g].tracks
OrderedByGroups(reach, a, b) ==
    \E g, h \in DOMAIN groups : a \in groups[g].tracks /\ b \in groups[h].tracks /\ OrderedBy(reach, g, h)
OrderedByBins(bins, reach, a, b) ==
    \E i, j \in DOMAIN bins : a \in Range(bins[i].tracks) /\ b \in Range(bins[j].tracks) /\ OrderedBy(reach, i, j)
UnorderedCollisions(bins, input, trackReach, binReach, groupReach) ==
    {pair \in {{a, b} : a, b \in DOMAIN input} : \E a, b \in pair :
        /\ a # b /\ TouchesIntersect(input[a].touches, input[b].touches)
        /\ ~OrderedBy(trackReach, a, b) /\ ~OrderedByBins(bins, binReach, a, b)
        /\ ~InOneGroup(a, b) /\ ~OrderedByGroups(groupReach, a, b)}

(* IN_FLIGHT: what may be launched. A live hotfix blocks every other group.     *)
LiveHotfixes == {g \in DOMAIN groups : groups[g].hotfix /\ ~IsComplete(g)}
InFlight ==
    {g \in DOMAIN groups : ~IsComplete(g)
        /\ \A d \in groups[g].deps \cup (IF groups[g].hotfix THEN {} ELSE LiveHotfixes) :
              d \in DOMAIN groups /\ IsComplete(d)}
--------------------------------------------------------------------------------
Changed == report' = NoReport
Edited == edits < MaxEdits /\ edits' = edits + 1 /\ fresh' = FALSE /\ Changed /\ UNCHANGED <<shipped, cap>>

(* roadmap-pack, and the skill that writes what it prints: complete groups,     *)
(* hotfixes and legacy tracks stay, the other unfinished tracks are regrouped   *)
(* behind them. On a cycle it prints the cycle and no bins.                     *)
Write(bins) ==
    LET Unpacked(g) == IF IsComplete(g) \/ groups[g].hotfix THEN groups[g] ELSE Group({id \in groups[g].tracks : Legacy(id)}, {})
        kept == {g \in DOMAIN groups : Unpacked(g).tracks # {}}
        base == Max({0} \cup kept)
        places == [g \in {base + i : i \in DOMAIN bins} |-> g - base]
    IN /\ base + Len(bins) <= MaxGroup
       /\ groups' = [g \in kept |-> Unpacked(g)] @@
            [g \in DOMAIN places |-> Group(Range(bins[places[g]].tracks), {base + j : j \in BinPreds(bins)[places[g]]})]
       /\ order' = FlattenSeq([i \in DOMAIN bins |-> bins[i].tracks])
                   \o SelectSeq(order, LAMBDA id : id \notin Range(PackerInput))
Regenerate ==
    /\ ~Cyclic([id \in DOMAIN PackerTracks |-> Range(PackerTracks[id].blocked) \cap DOMAIN PackerTracks])
    /\ ~fresh /\ fresh' = TRUE /\ Changed /\ UNCHANGED <<tracks, shipped, cap, edits>>
    /\ \E bins \in {PackTracks(PackerTracks, PackerInput, FillCap)} : Write(bins)

Audit ==
    /\ report = NoReport
    /\ \E input \in {PackerTracks} : \E bins \in {PackTracks(input, PackerInput, FillCap)} :
         report' = [status |-> "done",
            packing |-> PackerInput # <<>> /\ (PackingDrift(bins) \/ MissingCollisionDeps(bins)),
            groupDeps |-> GroupDepsFail, collisions |-> CollisionsFail,
            unordered |-> UnorderedCollisions(bins, input, Reach([id \in DOMAIN input |-> Range(input[id].blocked)]),
                              Reach(BinPreds(bins)), Reach([g \in DOMAIN groups |-> groups[g].deps])),
            idents |-> IdentCollisions(input, DOMAIN input)]
    /\ UNCHANGED <<tracks, order, groups, shipped, cap, fresh, edits>>

Ship ==
    /\ \E g \in InFlight : \E id \in groups[g].tracks \ shipped : shipped' = shipped \cup {id}
    /\ Changed /\ UNCHANGED <<tracks, order, groups, cap, edits>>
    /\ fresh' = FALSE

(* The heading of a group moves under Shipped, and with it every track of the   *)
(* group. In a plan without sections the last track that ships, or leaves,      *)
(* makes the group complete; with them only the heading does, whenever it moves. *)
CloseGroup ==
    /\ \E g \in DOMAIN groups :
         /\ ~IsComplete(g) /\ groups[g].tracks # {} /\ (g \in InFlight \/ groups[g].tracks \subseteq shipped)
         /\ groups' = [groups EXCEPT ![g].closed = TRUE] /\ shipped' = shipped \cup groups[g].tracks
    /\ Changed /\ UNCHANGED <<tracks, order, cap, edits>>
    /\ fresh' = FALSE

(* STRUCTURE fails a Hotfix with a second track or a live dependency: none here. *)
Unfinished == {g \in DOMAIN groups : ~IsComplete(g) /\ ~groups[g].hotfix}
Retouch == Edited /\ UNCHANGED <<order, groups>>
    /\ \E id \in DOMAIN tracks \ shipped, touches \in Retouches : tracks' = [tracks EXCEPT ![id].touches = touches]
Block == Edited /\ UNCHANGED <<order, groups>>
    /\ \E id \in DOMAIN tracks \ shipped : \E d \in DOMAIN tracks \ {id} : tracks' = [tracks EXCEPT ![id].blocked = Append(@, d)]
Move == Edited /\ UNCHANGED <<tracks, order>>
    /\ \E g, h \in Unfinished : g # h /\ \E id \in groups[g].tracks \ shipped :
         groups' = [groups EXCEPT ![g].tracks = @ \ {id}, ![h].tracks = @ \cup {id}]
Depend == Edited /\ UNCHANGED <<tracks, order>>
    /\ \E g \in Unfinished : \E d \in 1..MaxGroup \ {g} :
         groups' = [groups EXCEPT ![g].deps = IF d \in @ THEN @ \ {d} ELSE @ \cup {d}]
AddHotfix == Edited /\ UNCHANGED shipped
    /\ \E id \in HotfixIds \ DOMAIN tracks, touches \in Retouches, g \in 1..MaxGroup \ DOMAIN groups :
         /\ tracks' = tracks @@ (id :> [touches |-> touches, blocked |-> <<>>, title |-> 0])
         /\ groups' = groups @@ (g :> Hotfix(id)) /\ order' = Append(order, id)

Next == Regenerate \/ Audit \/ Ship \/ CloseGroup \/ Retouch \/ Block \/ Move \/ Depend \/ AddHotfix
Spec == Init /\ [][Next]_vars
--------------------------------------------------------------------------------
(* No edit made complete groups wait for unfinished ones, nor for each other.   *)
Complete == {g \in DOMAIN groups : IsComplete(g)}
NoneOvertaken == \A g \in Complete : groups[g].deps \subseteq Complete
ShippedInOrder == NoneOvertaken /\ ~Cyclic([g \in Complete |-> groups[g].deps])

(* Packing what the packer wrote gives the same groups: a plan as it was        *)
(* generated passes PACKING, COLLISIONS and GROUP_DEPS, whatever order the      *)
(* tracks had before (packIdent: "so write-then-renumber is a fixpoint").       *)
PackingIsAFixpoint ==
    report.status = "done" /\ fresh /\ report.idents = {} /\ ShippedInOrder =>
        ~report.packing /\ ~report.groupDeps /\ ~report.collisions

(* When PACKING and GROUP_DEPS pass and STYLE_LINT names no collision, groups   *)
(* that IN_FLIGHT offers together (two hotfixes apart) hold no two tracks that  *)
(* touch one path and none that waits for another. STYLE_LINT takes an order    *)
(* through a complete group for one, which IN_FLIGHT does not look behind: a    *)
(* complete group that an edit made wait for an unfinished one is left out.     *)
AuditedFrontierIsSafe ==
    report.status = "done" /\ ~report.packing /\ ~report.groupDeps /\ report.unordered = {} /\ NoneOvertaken =>
        \A g, h \in {f \in InFlight : ~groups[f].hotfix} : \A a \in Active(g), b \in Active(h) :
            a # b => /\ ~TouchesIntersect(tracks[a].touches, tracks[b].touches)
                     /\ b \notin Range(tracks[a].blocked)
================================================================================
