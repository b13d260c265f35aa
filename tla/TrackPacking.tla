------------------------------- MODULE TrackPacking -------------------------------
(* src/audit/lib/pack.ts: which tracks collide, and how tracks are packed into  *)
(* launch groups. A touch is what normalizeTouch returns; names of files are    *)
(* naturals from 3 up, so that 0, 1 and 2 stand for the end of the paths, the   *)
(* line feed between two and the slash in the text identities are compared by.  *)
EXTENDS Naturals, Sequences, FiniteSets, SequencesExt

CONSTANTS
    SharedDocs,       \* SHARED_DOC_PATHS
    ListedDocs,       \* the touches roadmap:shared_docs names in CLAUDE.md
    ProtectedDocs     \* PROTECTED_CLAUDE_DOCS

FileTouch(path) == [path |-> path, dir |-> FALSE, isNew |-> FALSE]
FolderTouch(path) == [path |-> path, dir |-> TRUE, isNew |-> FALSE]
NewTouch(touch) == [touch EXCEPT !.isNew = TRUE]

ExtraSharedDocs == {doc.path : doc \in {d \in ListedDocs : ~d.dir /\ d.path \notin ProtectedDocs}}
SchedulingTouches(touches) ==
    {t \in touches : t.path \notin SharedDocs /\ (t.dir \/ t.path \notin ExtraSharedDocs)}

(* A new path under a folder does not collide with it, unless the folder is new. *)
Covers(x, y) == x.dir /\ IsStrictPrefix(x.path, y.path) /\ (y.isNew => x.isNew)
MatchTouchPair(x, y) == (x.path = y.path /\ x.dir = y.dir) \/ Covers(x, y) \/ Covers(y, x)
TouchesIntersect(a, b) ==
    \E x \in SchedulingTouches(a), y \in SchedulingTouches(b) : MatchTouchPair(x, y)
--------------------------------------------------------------------------------
(* The key that breaks ties, which neither ids nor the order of the document     *)
(* enter: the sorted paths and the title.                                       *)
Text(touch) ==
    [i \in 1..(2 * Len(touch.path) - (IF touch.dir THEN 0 ELSE 1)) |->
        IF i % 2 = 1 THEN touch.path[(i + 1) \div 2] ELSE 2]
Less(a, b) ==
    \E i \in 1..Len(b) : /\ \A j \in 1..(i - 1) : j <= Len(a) /\ a[j] = b[j]
                         /\ i > Len(a) \/ a[i] < b[i]
PackIdent(track) ==
    LET texts == [t \in SchedulingTouches(track.touches) |-> Append(Text(t), 1)]
    IN FlattenSeq(SortSeq([i \in 1..Cardinality(DOMAIN texts) |-> texts[SetToSeq(DOMAIN texts)[i]]], Less))
       \o <<0, track.title>>
IdentCollisions(tracks, ids) ==
    {pair \in SUBSET ids : Cardinality(pair) = 2 /\ \A a, b \in pair : PackIdent(tracks[a]) = PackIdent(tracks[b])}

(* Layers by longest path, depth first in the order of the lists; a node that   *)
(* is being walked counts as layer 0, which only happens on a cycle.            *)
RECURSIVE Visit(_, _, _, _)
Visit(preds, walking, memo, node) ==
    IF node \in DOMAIN memo \cup walking THEN memo
    ELSE LET after == FoldLeft(LAMBDA m, d : Visit(preds, walking \cup {node}, m, d), memo, preds[node])
         IN after @@ (node :> Max({0} \cup {1 + (IF d \in DOMAIN after THEN after[d] ELSE 0) : d \in Range(preds[node])}))
Layers(nodes, preds) == FoldLeft(LAMBDA m, node : Visit(preds, {}, m, node), <<>>, nodes)
Reach(preds) ==
    LET within[n \in 0..Cardinality(DOMAIN preds)] ==
            IF n = 0 THEN preds
            ELSE LET before == within[n - 1]
                 IN [x \in DOMAIN preds |-> before[x] \cup UNION {preds[y] : y \in before[x] \cap DOMAIN preds}]
    IN within[Cardinality(DOMAIN preds)]
OrderedBy(reach, a, b) ==
    (a \in DOMAIN reach /\ b \in reach[a]) \/ (b \in DOMAIN reach /\ a \in reach[b])
--------------------------------------------------------------------------------
(* First fit decreasing within a layer: a track joins the first bin, spilled    *)
(* ones last, that has room and that it does not collide with; else it opens    *)
(* one behind the last bin it collides with, or beside them all.                *)
Collided(tracks, bin, t) == {id \in Range(bin.tracks) : TouchesIntersect(tracks[id].touches, tracks[t].touches)}
PlaceTrack(tracks, cap, bins, t) ==
    LET fits == {i \in DOMAIN bins : Len(bins[i].tracks) < cap /\ Collided(tracks, bins[i], t) = {}}
        first == CHOOSE i \in fits : \A j \in fits : bins[i].offset < bins[j].offset \/ (bins[i].offset = bins[j].offset /\ i <= j)
        hit == {i \in DOMAIN bins : Collided(tracks, bins[i], t) # {}}
    IN IF fits # {} THEN [bins EXCEPT ![first].tracks = Append(@, t)]
       ELSE Append(bins, [tracks |-> <<t>>,
                          offset |-> Max({0} \cup {bins[i].offset + 1 : i \in hit}),
                          blocked |-> UNION {Collided(tracks, bins[i], t) : i \in hit}])
RECURSIVE AbsorbTails(_, _, _)
AbsorbTails(tracks, cap, bins) ==
    LET tails == {i \in 2..Len(bins) :
                    /\ bins[i].offset = bins[i - 1].offset
                    /\ Len(bins[i].tracks) + Len(bins[i - 1].tracks) <= cap
                    /\ \A t \in Range(bins[i].tracks) : Collided(tracks, bins[i - 1], t) = {}}
        last == Max(tails)
    IN IF tails = {} THEN bins
       ELSE AbsorbTails(tracks, cap, RemoveAt([bins EXCEPT ![last - 1].tracks = @ \o bins[last].tracks], last))

(* Layer by layer, tracks with many touches first; then layers again from the   *)
(* bins, and the bins in the order they are pasted in.                          *)
ByOrder(key, ord, a, b) == ord[a] < ord[b]
ByIdent(key, ord, a, b) == Less(key[a], key[b]) \/ (key[a] = key[b] /\ ord[a] < ord[b])
Decreasing(tracks, key, ord, a, b) ==
    LET Size(id) == Cardinality(SchedulingTouches(tracks[id].touches))
    IN Size(a) > Size(b) \/ (Size(a) = Size(b) /\ ByIdent(key, ord, a, b))
PackLayer(tracks, cap, key, ord, members) ==
    LET sorted == SortSeq(SetToSeq(members), LAMBDA a, b : Decreasing(tracks, key, ord, a, b))
        bins == AbsorbTails(tracks, cap, FoldLeft(LAMBDA done, t : PlaceTrack(tracks, cap, done, t), <<>>, sorted))
    IN [i \in DOMAIN bins |->
          LET ids == SortSeq(bins[i].tracks, LAMBDA a, b : ByIdent(key, ord, a, b)) IN
          [tracks |-> ids, ident |-> key[Head(ids)], ord |-> Min({ord[id] : id \in Range(ids)}),
           blocked |-> bins[i].blocked \cup (UNION {Range(tracks[id].blocked) : id \in Range(ids)} \cap DOMAIN ord)]]

BinPreds(bins) ==
    [i \in DOMAIN bins |-> {j \in DOMAIN bins \ {i} : Range(bins[j].tracks) \cap bins[i].blocked # {}}]
RelayerAndSort(bins) ==
    LET preds == [i \in DOMAIN bins |-> SetToSeq(BinPreds(bins)[i])]
        layer == Layers([i \in DOMAIN bins |-> i], preds)
        Before(a, b) ==
            \/ layer[a] < layer[b]
            \/ layer[a] = layer[b] /\ Less(bins[a].ident, bins[b].ident)
            \/ layer[a] = layer[b] /\ bins[a].ident = bins[b].ident /\ bins[a].ord < bins[b].ord
        sorted == SortSeq([i \in DOMAIN bins |-> i], Before)
    IN [i \in DOMAIN bins |-> bins[sorted[i]]]

PackTracks(tracks, order, cap) ==
    LET ord == [id \in Range(order) |-> CHOOSE i \in DOMAIN order : order[i] = id]
        key == [id \in Range(order) |-> PackIdent(tracks[id])]
        layer == Layers(order, [id \in Range(order) |-> SelectSeq(tracks[id].blocked, LAMBDA d : d \in Range(order))])
        packed == [n \in 1..(Len(order) + 1) |-> PackLayer(tracks, cap, key, ord, {id \in Range(order) : layer[id] = n - 1})]
    IN RelayerAndSort(FlattenSeq(packed))
================================================================================
