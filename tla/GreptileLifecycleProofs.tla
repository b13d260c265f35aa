---------------------- MODULE GreptileLifecycleProofs ----------------------
(***************************************************************************)
(* Proofs about GreptileLifecycle for any sessions and any number of       *)
(* faults: one request at most is made, and what a ready verdict rests on  *)
(* is so.                                                                  *)
(***************************************************************************)
EXTENDS GreptileLifecycle, FiniteSetTheorems, WellFoundedInduction, TLAPS

(***************************************************************************)
(* The inductive invariant.                                                *)
(***************************************************************************)
Places == {"idle", "collect", "post", "readback", "attempt", "send-mcp", "send-comment", "record",
           "asked", "done", "dead"}

Comment == [id : Nat, kind : {"reservation", "trigger"}, head : {Head}, at : Nat,
            calls : BOOLEAN, edited : BOOLEAN]
Entry == [res : Nat, resAt : Nat, head : {Head}, session : Sessions, obs : Nat, confirmed : BOOLEAN,
          phase : {"confirmed-unattempted", "attempted"}, transport : {"none"} \cup Transports, at : Nat]
Reservation == [id : Nat, at : Nat]

\* The part of the state the proof depends on has its type.
TypeOK ==
    /\ now \in Nat /\ lastId \in Nat
    /\ comments \in SUBSET Comment
    /\ journal \in SUBSET Entry
    /\ pc \in [Sessions -> Places]
    /\ obs \in [Sessions -> Nat]
    /\ own \in [Sessions -> Reservation \cup {None}]
    /\ snap = [s \in Sessions |-> snap[s]]

Owns(s, r) == own[s] # None /\ own[s].id = r
Proven(r) == \E x \in subs : x.res = r /\ x.outcome = "not-submitted"
Entries(s) == {j \in journal : j.session = s /\ j.obs = obs[s]}

\* Ids are given out in order.
MarkersInv ==
    /\ \A c \in comments : c.id <= lastId /\ c.at <= now
    /\ \A c, d \in comments : c.id <= d.id => c.at <= d.at
    /\ \A c, d \in comments : c.id = d.id => c = d
    /\ \A j \in journal : j.res <= lastId /\ j.at <= now
    /\ \A s \in Sessions : own[s] # None => own[s].id <= lastId
    /\ \A s, t \in Sessions : own[s] # None /\ own[t] # None /\ own[s].id = own[t].id => s = t

\* The one entry a session has made of its reservation before it uses it.
Journaled(s, j) ==
    /\ j \in Entries(s) /\ j.res = own[s].id /\ ~Tried(j)
    /\ \A k \in journal : k.res = own[s].id => k = j
    /\ \A k \in Entries(s) : k.at <= j.at

SessionInv(s) ==
    /\ \A j \in journal : j.session = s => j.obs <= obs[s]
    /\ pc[s] \in {"readback", "attempt", "send-mcp", "send-comment", "record"} => own[s] # None
    /\ pc[s] \notin {"done", "dead"} => \A j \in Entries(s) : own[s] # None /\ j.res <= own[s].id
    /\ pc[s] = "readback" => \A j \in journal : j.res # own[s].id
    /\ pc[s] = "collect" /\ own[s] # None => \E j \in journal : Journaled(s, j)
    /\ pc[s] = "attempt" => \E j \in journal : Journaled(s, j) /\ j.confirmed
    /\ pc[s] \in {"send-mcp", "send-comment", "record"} => \E j \in journal : Tried(j) /\ j.res = own[s].id
    /\ pc[s] \in {"post", "readback"} \/ (pc[s] = "collect" /\ own[s] # None) => snap[s].family = "greptile"
    /\ pc[s] \in {"collect", "post", "readback"} /\ snap[s].family = "greptile" =>
          \A x \in snap[s].subs : x.outcome = "not-submitted" => x \in subs
    /\ pc[s] \in {"attempt", "send-mcp", "send-comment"} => \A q \in reached : q.res # own[s].id

\* Who attempts under a reservation, and what became of it.
AttemptInv ==
    /\ \A j \in journal, s \in Sessions : Tried(j) /\ Owns(s, j.res) =>
          /\ j.session = s
          /\ pc[s] \in {"send-mcp", "send-comment", "record", "idle"}
          /\ pc[s] = "send-comment" => j.transport = "comment"
    /\ \A q \in reached : \E j \in journal : Tried(j) /\ j.res = q.res
    /\ \A x \in subs : x.outcome = "not-submitted" =>
          /\ \E j \in journal : Tried(j) /\ j.res = x.res
          /\ \A q \in reached : q.res # x.res
          /\ \A s \in Sessions : Owns(s, x.res) => pc[s] = "idle"

\* Something was or will be sent under reservation r, for all the records show.
Live(r) ==
    /\ \/ \E s \in Sessions : pc[s] = "attempt" /\ Owns(s, r)
       \/ \E j \in journal : Tried(j) /\ j.res = r
    /\ ~Proven(r)

\* One reservation at most is live, and everything before it is proven unused.
SingleInv ==
    /\ \A p, r : Live(p) /\ Live(r) => p = r
    /\ \A r : Live(r) => \A c \in comments : c.id < r => Proven(c.id)
    /\ \A p, q \in reached : p = q

IInv == TypeOK /\ MarkersInv /\ (\A s \in Sessions : SessionInv(s)) /\ AttemptInv /\ SingleInv

(***************************************************************************)
(* A nonempty set of naturals has a least element.                         *)
(***************************************************************************)
LessThan == OpToRel(<, Nat)

LEMMA LessThanMembers ==
    ASSUME NEW m \in Nat, NEW n \in Nat
    PROVE  <<m, n>> \in LessThan <=> m < n
BY DEF LessThan, OpToRel

LEMMA LeastExists ==
    ASSUME NEW S \in SUBSET Nat, S # {}
    PROVE  \E x \in S : \A y \in S : x <= y
<1>1. IsWellFoundedOn(LessThan, Nat)
  BY NatLessThanWellFounded DEF LessThan
<1>2. PICK x \in S : \A y \in S : ~(<<y, x>> \in LessThan)
  BY <1>1, WFMin, Zenon
<1>3. ASSUME NEW y \in S
      PROVE  x <= y
  <2>1. x \in Nat /\ y \in Nat
    OBVIOUS
  <2>2. ~(y < x)
    BY <1>2, <2>1, LessThanMembers
  <2>3. QED
    BY <2>1, <2>2
<1>4. QED
  BY <1>3

(***************************************************************************)
(* What the policy has seen when it says "trigger", for any observation.   *)
(***************************************************************************)

\* The first of the markers, by id where ids follow the clock.
LEMMA FirstMarker ==
    ASSUME NEW o, NEW m \in Markers(o),
           \A c \in Markers(o) : c.id \in Nat /\ c.at \in Nat,
           \A c, d \in Markers(o) : c.id <= d.id => c.at <= d.at
    PROVE  \E w \in Markers(o) : IsWinner(o, w) /\ \A c \in Markers(o) : w.id <= c.id
<1> DEFINE ids == {c.id : c \in Markers(o)}
<1>1. ids \in SUBSET Nat /\ ids # {}
  OBVIOUS
<1>2. PICK i \in ids : \A k \in ids : i <= k
  BY <1>1, LeastExists
<1>3. PICK w \in Markers(o) : w.id = i
  BY <1>2
<1>4. \A c \in Markers(o) : w.id <= c.id
  BY <1>2, <1>3
<1>5. \A c \in Markers(o) : Earlier(w, c)
  <2>1. TAKE c \in Markers(o)
  <2>2. w.id <= c.id /\ w.at <= c.at /\ w.at \in Nat /\ c.at \in Nat
    BY <1>4
  <2>3. QED
    BY <2>2 DEF Earlier
<1>6. QED
  BY <1>4, <1>5 DEF IsWinner

LEMMA TriggerMeans ==
    ASSUME NEW o, Decide(o) = "R13.trigger"
    PROVE  OwnState(o) = "fresh" /\ Requests(o) = {}
BY DEF Decide, PendingRow, TerminalRow, ReservationRow, RequestRow

LEMMA FreshMeans ==
    ASSUME NEW o, OwnState(o) = "fresh"
    PROVE  /\ Mine(o) # {}
           /\ LatestMine(o).confirmed
           /\ \E m \in Markers(o) : m.id = Own(o)
BY DEF OwnState, Own

\* Without requests, every marker is a reservation, the first is the fresh one, and no
\* reservation is deleted.
LEMMA SilenceMeans ==
    ASSUME NEW o, Requests(o) = {},
           \A c \in o.comments : c.kind \in {"reservation", "trigger"},
           \A j \in Journal(o) : j.resAt \in Nat
    PROVE  /\ \A c \in o.comments : c.kind = "reservation"
           /\ \A w \in Markers(o) : IsWinner(o, w) => OwnFresh(o, w)
           /\ Deleted(o) = {}
<1>1. TriggerRequests(o) = {} /\ ReservationRequests(o) = {} /\ DeletedRequests(o) = {}
  BY DEF Requests
<1>2. \A c \in o.comments : c.kind = "reservation"
  BY <1>1 DEF TriggerRequests, Triggers
<1>3. \A w \in Markers(o) : IsWinner(o, w) => OwnFresh(o, w)
  BY ZenonT(30), <1>1, <1>2 DEF ReservationRequests, IsRequest, Reservations, Markers
<1>4. ASSUME NEW k \in Deleted(o)
      PROVE  FALSE
  <2> DEFINE same == {l \in Deleted(o) : l.res = k.res}
             times == {l.resAt : l \in same}
  <2>1. times \in SUBSET Nat /\ times # {}
    BY <1>4 DEF Deleted
  <2>2. PICK t \in times : \A u \in times : t <= u
    BY <2>1, LeastExists
  <2>3. PICK j \in same : j.resAt = t
    BY <2>2
  <2>4. j \in {l \in Deleted(o) : \A d \in Deleted(o) : d.res = l.res => l.resAt <= d.resAt}
    BY <2>2, <2>3
  <2>5. DeletedRequests(o) # {}
    BY <2>4 DEF DeletedRequests
  <2>6. QED
    BY <1>1, <2>5
<1>5. QED
  BY <1>2, <1>3, <1>4

(***************************************************************************)
(* Who may go ahead.                                                       *)
(***************************************************************************)
LEMMA NoneApart == None \notin Nat /\ None \notin Reservation
BY ConstantsAssumption DEF Reservation

LEMMA AfterValues ==
    ASSUME NEW rule
    PROVE  /\ After(rule) \in {"post", "attempt", "asked", "done", "idle"}
           /\ After(rule) = "attempt" => rule = "R13.trigger"
           /\ After(rule) = "post" => rule = "R13.record-reservation"
BY DEF After

LEMMA ReadFields ==
    ASSUME NEW s \in Sessions, NEW entries,
           own[s] # None => snap[s].family = "greptile"
    PROVE  LET raw == Observation(s, entries)
               o == Read(raw)
           IN  /\ o.session = s /\ o.obs = obs[s] /\ o.journal = entries
               /\ own[s] # None => o.comments = comments
               /\ o.subs = GreptileOf(s).subs
               /\ o.released = Released(raw)
               /\ raw.subs = GreptileOf(s).subs
BY DEF Read, Observation, CommentsOf, CommentsNow

\* What session s takes for released is proven unused.
LEMMA ReleasedIsProven ==
    ASSUME NEW s \in Sessions, NEW entries, SessionInv(s), pc[s] = "collect",
           NEW r \in Released(Observation(s, entries))
    PROVE  Proven(r)
<1> DEFINE raw == Observation(s, entries)
<1>1. PICK x \in raw.subs \ Consuming(raw) : x.res = r
  BY DEF Released
<1>2. x \in raw.subs /\ x.outcome = "not-submitted"
  BY DEF Consuming
<1>3. raw.subs = GreptileOf(s).subs
  BY DEF Observation
<1>4. CASE snap[s].family = "greptile"
  BY <1>1, <1>2, <1>3, <1>4 DEF GreptileOf, SessionInv, Proven
<1>5. CASE snap[s].family # "greptile"
  BY <1>1, <1>2, <1>3, <1>5 DEF GreptileOf, GreptileNow, Proven
<1>6. QED
  BY <1>4, <1>5

\* The latest of its entries is the one of its reservation.
LEMMA OwnIsJournaled ==
    ASSUME TypeOK, NEW s \in Sessions, SessionInv(s), pc[s] = "collect",
           NEW o, o.session = s, o.obs = obs[s], o.journal = journal \/ o.journal = None,
           OwnState(o) = "fresh"
    PROVE  /\ own[s] # None /\ Journal(o) = journal /\ Own(o) = own[s].id
           /\ \E j \in journal : Journaled(s, j) /\ j.confirmed
<1>1. Mine(o) # {} /\ LatestMine(o).confirmed
  BY FreshMeans
<1>2. Journal(o) = journal
  BY <1>1 DEF Mine, Journal
<1>3. Mine(o) = Entries(s)
  BY <1>2 DEF Mine, Entries
<1>4. own[s] # None
  BY <1>1, <1>3 DEF SessionInv
<1>5. PICK j \in journal : Journaled(s, j)
  BY <1>4 DEF SessionInv
<1>6. j \in Mine(o) /\ \A k \in Mine(o) : k.res <= j.res /\ k.at <= j.at
  BY <1>3, <1>5 DEF Journaled, SessionInv
<1>7. \A k \in Mine(o) : k.res \in Nat /\ k.at \in Nat
  BY <1>3 DEF Entries, TypeOK, Entry
<1> DEFINE Key(k) == [at |-> k.at, id |-> k.res]
<1>8. \A k \in Mine(o) : Earlier(Key(k), Key(j))
  BY <1>6, <1>7 DEF Earlier
<1>9. \A k \in Mine(o) : Earlier(Key(j), Key(k)) => k = j
  <2>1. TAKE k \in Mine(o)
  <2>2. HAVE Earlier(Key(j), Key(k))
  <2>3. k.res = j.res
    BY <1>6, <1>7, <2>2 DEF Earlier
  <2>4. QED
    BY <1>3, <1>5, <2>3 DEF Journaled, Entries
<1>10. LatestMine(o) \in Mine(o) /\ \A k \in Mine(o) : Earlier(Key(k), Key(LatestMine(o)))
  BY <1>6, <1>8 DEF LatestMine
<1>11. LatestMine(o) = j
  BY <1>6, <1>9, <1>10
<1>12. QED
  BY <1>1, <1>2, <1>4, <1>5, <1>11 DEF Own, Journaled

\* A session that is told to go ahead finds no reservation live, and everything before its own
\* proven unused.
LEMMA TriggerAlone ==
    ASSUME IInv, NEW s \in Sessions, pc[s] = "collect", NEW entries \in {journal, None},
           Decide(Read(Observation(s, entries))) = "R13.trigger"
    PROVE  /\ own[s] # None
           /\ \E j \in journal : Journaled(s, j) /\ j.confirmed
           /\ \A r : ~Live(r)
           /\ \A c \in comments : c.id < own[s].id => Proven(c.id)
<1> DEFINE raw == Observation(s, entries)
           o == Read(raw)
<1>1. SessionInv(s) /\ TypeOK /\ MarkersInv /\ AttemptInv /\ SingleInv
  BY DEF IInv
<1>2. OwnState(o) = "fresh" /\ Requests(o) = {}
  BY TriggerMeans
<1>3. o.session = s /\ o.obs = obs[s] /\ o.journal = entries /\ o.released = Released(raw)
  BY <1>1 DEF Read, Observation
<1>4. /\ own[s] # None /\ Journal(o) = journal /\ Own(o) = own[s].id
      /\ \E j \in journal : Journaled(s, j) /\ j.confirmed
  BY <1>1, <1>2, <1>3, OwnIsJournaled
<1>5. o.comments = comments
  BY <1>1, <1>4, ReadFields DEF SessionInv
<1>6. \A r \in o.released : Proven(r)
  BY <1>1, <1>3, ReleasedIsProven
<1>7. /\ \A c \in o.comments : c.kind \in {"reservation", "trigger"}
      /\ \A j \in Journal(o) : j.resAt \in Nat
  BY <1>1, <1>4, <1>5 DEF TypeOK, Comment, Entry
<1> HIDE DEF o
<1>8. /\ \A w \in Markers(o) : IsWinner(o, w) => OwnFresh(o, w)
      /\ Deleted(o) = {}
  BY <1>2, <1>7, SilenceMeans
<1>9. \A w \in Markers(o) : IsWinner(o, w) => w.id = own[s].id
  BY <1>4, <1>8 DEF OwnFresh
<1>10. Markers(o) \subseteq comments
  BY <1>5 DEF Markers
<1>11. \A c \in Markers(o) : own[s].id <= c.id
  <2>1. TAKE m \in Markers(o)
  <2>2. \A c \in Markers(o) : c.id \in Nat /\ c.at \in Nat
    BY <1>1, <1>10 DEF TypeOK, Comment
  <2>3. \A c, d \in Markers(o) : c.id <= d.id => c.at <= d.at
    BY <1>1, <1>10 DEF MarkersInv
  <2>4. \E w \in Markers(o) : IsWinner(o, w) /\ \A c \in Markers(o) : w.id <= c.id
    BY <2>2, <2>3, FirstMarker
  <2>5. QED
    BY <1>9, <2>4
<1>12. ASSUME NEW c \in comments, c.id < own[s].id
       PROVE  Proven(c.id)
  <2>1. c \notin Markers(o)
    BY <1>1, <1>4, <1>11, <1>12 DEF TypeOK, Comment, Reservation
  <2>2. c.id \in o.released
    BY <1>5, <2>1 DEF Markers
  <2>3. QED
    BY <1>6, <2>2
<1>13. ASSUME NEW r, Live(r)
       PROVE  FALSE
  <2>1. r \notin o.released
    BY <1>6, <1>13 DEF Live
  <2>2. PICK k \in journal : k.res = r /\ (k.confirmed \/ Tried(k))
    <3>1. CASE \E t \in Sessions : pc[t] = "attempt" /\ Owns(t, r)
      BY <3>1 DEF IInv, SessionInv, Owns, Journaled
    <3>2. CASE \E j \in journal : Tried(j) /\ j.res = r
      BY <3>2
    <3>3. QED
      BY <1>13, <3>1, <3>2 DEF Live
  <2>3. PICK c \in comments : c.id = r
    BY <1>4, <1>5, <1>8, <2>1, <2>2 DEF Deleted
  <2>4. c \in Markers(o)
    BY <1>5, <2>1, <2>3 DEF Markers
  <2>5. PICK m \in Markers(o) : m.id = own[s].id
    BY <1>2, <1>4, FreshMeans
  <2>6. own[s].id <= r
    BY <1>11, <2>3, <2>4
  <2>7. CASE own[s].id = r
    <3>1. PICK j \in journal : Journaled(s, j) /\ j.confirmed
      BY <1>4
    <3>2. ~(pc[s] = "attempt") /\ \A i \in journal : i.res = r => ~Tried(i)
      BY <2>7, <3>1 DEF Journaled
    <3>3. PICK t \in Sessions : pc[t] = "attempt" /\ Owns(t, r)
      BY <1>13, <3>2 DEF Live
    <3>4. t = s
      BY <1>1, <1>4, <2>7, <3>3 DEF MarkersInv, Owns
    <3>5. QED
      BY <3>2, <3>3, <3>4
  <2>8. CASE own[s].id < r
    <3>1. Proven(own[s].id)
      BY <1>1, <1>10, <1>13, <2>5, <2>8 DEF SingleInv
    <3>2. PICK j \in journal : Tried(j) /\ j.res = own[s].id
      BY <1>1, <3>1 DEF AttemptInv, Proven
    <3>3. QED
      BY <1>4, <3>2 DEF Journaled
  <2>9. QED
    BY <1>1, <1>4, <2>2, <2>6, <2>7, <2>8 DEF TypeOK, Reservation, Entry
<1>14. QED
  BY <1>4, <1>12, <1>13

(***************************************************************************)
(* Every step preserves the invariant.                                     *)
(***************************************************************************)

\* A session nobody steps for: what the others add does not concern it.
LEMMA OthersStay ==
    ASSUME NEW t \in Sessions, SessionInv(t),
           pc'[t] = pc[t], own'[t] = own[t], obs'[t] = obs[t], snap'[t] = snap[t],
           journal \subseteq journal',
           \A j \in journal' \ journal : j.session # t /\ (own[t] # None => j.res # own[t].id),
           \A q \in reached' \ reached : own[t] # None => q.res # own[t].id,
           \A x \in subs : x.outcome = "not-submitted" => x \in subs'
    PROVE  SessionInv(t)'
<1>1. \A j \in journal' : j.session = t => j.obs <= obs[t]
  BY DEF SessionInv
<1>2. Entries(t)' = Entries(t)
  BY DEF Entries
<1>3. ASSUME NEW j \in journal, own[t] # None, Journaled(t, j)
      PROVE  Journaled(t, j)'
  BY <1>2, <1>3 DEF Journaled, Tried
<1>4. pc[t] \in {"readback", "attempt", "send-mcp", "send-comment", "record"} => own[t] # None
  BY DEF SessionInv
<1>5. /\ pc[t] = "collect" /\ own[t] # None => \E j \in journal' : Journaled(t, j)'
      /\ pc[t] = "attempt" => \E j \in journal' : Journaled(t, j)' /\ j.confirmed
  BY <1>3, <1>4 DEF SessionInv
<1>6. pc[t] \in {"send-mcp", "send-comment", "record"} => \E j \in journal' : Tried(j) /\ j.res = own[t].id
  BY DEF SessionInv
<1>7. pc[t] = "readback" => \A j \in journal' : j.res # own[t].id
  BY <1>4 DEF SessionInv
<1>8. pc[t] \in {"attempt", "send-mcp", "send-comment"} => \A q \in reached' : q.res # own[t].id
  BY <1>4 DEF SessionInv
<1>9. pc[t] \in {"collect", "post", "readback"} /\ snap[t].family = "greptile" =>
          \A x \in snap[t].subs : x.outcome = "not-submitted" => x \in subs'
  BY DEF SessionInv
<1>10. pc[t] \notin {"done", "dead"} => \A j \in Entries(t)' : own[t] # None /\ j.res <= own[t].id
  BY <1>2 DEF SessionInv
<1>11. pc[t] \in {"post", "readback"} \/ (pc[t] = "collect" /\ own[t] # None) => snap[t].family = "greptile"
  BY DEF SessionInv
<1>12. QED
  BY <1>1, <1>4, <1>5, <1>6, <1>7, <1>8, <1>9, <1>10, <1>11 DEF SessionInv, Tried

\* A live reservation was live already.
LEMMA SingleStays ==
    ASSUME SingleInv, reached' = reached, \A r : Live(r)' => Live(r), \A r : Proven(r) => Proven(r)',
           \A c \in comments' : (\E d \in comments : d.id = c.id) \/ \A r : Live(r) => ~(c.id < r)
    PROVE  SingleInv'
BY DEF SingleInv

LEMMA BeginStep ==
    ASSUME IInv, NEW s \in Sessions, Begin(s)
    PROVE  IInv'
<1>1. /\ pc[s] = "idle" /\ pc' = [pc EXCEPT ![s] = "collect"]
      /\ obs' = [obs EXCEPT ![s] = IF own[s] = None THEN @ ELSE @ + 1]
      /\ own' = [own EXCEPT ![s] = None]
      /\ \E reading \in {CommentsNow, GreptileNow} : snap' = [snap EXCEPT ![s] = reading]
      /\ UNCHANGED <<now, comments, lastId, journal, subs, reached>>
  BY DEF Begin, Goto, At, github, records, greptile
<1>2. TypeOK /\ MarkersInv /\ SessionInv(s) /\ AttemptInv /\ SingleInv
  BY DEF IInv
<1>3. TypeOK'
  BY <1>1, <1>2 DEF TypeOK, Places
<1>4. MarkersInv'
  BY <1>1, <1>2 DEF MarkersInv, TypeOK
<1>5. ASSUME NEW t \in Sessions
      PROVE  SessionInv(t)'
  <2>1. CASE t # s
    BY <1>1, <2>1, OthersStay DEF IInv, TypeOK
  <2>2. CASE t = s
    <3>1. pc'[s] = "collect" /\ own'[s] = None
      BY <1>1, <1>2 DEF TypeOK
    <3>2. \A j \in journal : j.session = s => j.obs <= obs'[s] /\ j.obs # obs'[s]
      <4>1. CASE own[s] = None
        BY <1>1, <1>2, <4>1 DEF SessionInv, Entries, TypeOK, Entry
      <4>2. CASE own[s] # None
        <5>1. obs'[s] = obs[s] + 1 /\ obs[s] \in Nat
          BY <1>1, <1>2, <4>2 DEF TypeOK
        <5>2. \A j \in journal : j.session = s => j.obs <= obs[s] /\ j.obs \in Nat
          BY <1>2 DEF SessionInv, TypeOK, Entry
        <5>3. QED
          BY <5>1, <5>2
      <4>3. QED
        BY <4>1, <4>2
    <3>3. Entries(s)' = {}
      BY <1>1, <3>2 DEF Entries
    <3>4. \E reading \in {CommentsNow, GreptileNow} : snap'[s] = reading
      <4>1. s \in DOMAIN snap
        BY <1>2 DEF TypeOK
      <4>2. QED
        BY <1>1, <4>1
    <3>5. snap'[s].family = "greptile" => snap'[s].subs = subs
      BY <3>4 DEF CommentsNow, GreptileNow
    <3>6. QED
      BY <1>1, <2>2, <3>1, <3>2, <3>3, <3>5 DEF SessionInv
  <2>3. QED
    BY <2>1, <2>2
<1>6. AttemptInv'
  BY <1>1, <1>2 DEF AttemptInv, TypeOK, Owns, Tried
<1>7. SingleInv'
  <2>1. \A r : Live(r)' => Live(r)
    BY <1>1, <1>2 DEF Live, Owns, Proven, Tried, TypeOK
  <2>2. \A r : Proven(r) => Proven(r)'
    BY <1>1 DEF Proven
  <2>3. QED
    BY <1>1, <1>2, <2>1, <2>2, SingleStays
<1>8. QED
  BY <1>3, <1>4, <1>5, <1>6, <1>7 DEF IInv

\* Steps of session s that change only its place, the reservation it holds and its snapshot.
LEMMA QuietStep ==
    ASSUME IInv, NEW s \in Sessions, NEW place \in Places \ {"attempt"}, NEW old,
           pc' = [pc EXCEPT ![s] = place],
           own' = own \/ own' = [own EXCEPT ![s] = None],
           snap' = snap \/ snap' = [snap EXCEPT ![s] = old],
           UNCHANGED <<now, comments, lastId, journal, subs, reached, obs>>,
           pc[s] \in {"collect", "asked"} \/ own'[s] = None,
           SessionInv(s)'
    PROVE  IInv'
<1>1. TypeOK /\ MarkersInv /\ SessionInv(s) /\ AttemptInv /\ SingleInv
  BY DEF IInv
<1>2. TypeOK'
  BY <1>1 DEF TypeOK
<1>3. MarkersInv'
  BY <1>1 DEF MarkersInv, TypeOK
<1>4. ASSUME NEW t \in Sessions
      PROVE  SessionInv(t)'
  <2>1. CASE t # s
    BY <2>1, <1>1, OthersStay DEF IInv, TypeOK
  <2>2. QED
    BY <2>1
<1>5. AttemptInv'
  BY <1>1 DEF AttemptInv, TypeOK, Owns, Tried
<1>6. SingleInv'
  <2>1. \A r : Live(r)' => Live(r)
    BY <1>1 DEF Live, Owns, Proven, Tried, TypeOK
  <2>2. \A r : Proven(r) => Proven(r)'
    BY DEF Proven
  <2>3. QED
    BY <1>1, <2>1, <2>2, SingleStays
<1>7. QED
  BY <1>2, <1>3, <1>4, <1>5, <1>6 DEF IInv

LEMMA DecisionMeans ==
    ASSUME TypeOK, NEW s \in Sessions, TakeDecision(s)
    PROVE  \E entries \in {journal, None} :
              LET next == After(Decide(Read(Observation(s, entries))))
              IN  /\ pc[s] = "collect" /\ pc' = [pc EXCEPT ![s] = next]
                  /\ own' = [own EXCEPT ![s] = IF next = "done" THEN None ELSE @]
                  /\ snap' = [snap EXCEPT ![s] = IF next = "post" THEN GreptileOf(s) ELSE None]
                  /\ UNCHANGED <<now, comments, lastId, journal, subs, reached, obs>>
<1>1. /\ pc[s] = "collect"
      /\ DecideOn(s, journal) \/ DecideOn(s, None)
      /\ UNCHANGED <<now, comments, lastId, journal, subs, reached, obs>>
  BY DEF TakeDecision, At, github, greptile, records
<1>2. PICK entries \in {journal, None} : DecideOn(s, entries)
  BY <1>1
<1>3. LET next == After(Decide(Read(Observation(s, entries))))
      IN  /\ pc' = [pc EXCEPT ![s] = next]
          /\ own' = [own EXCEPT ![s] = IF next = "done" THEN None ELSE @]
          /\ snap' = [snap EXCEPT ![s] = IF next = "post" THEN GreptileOf(s) ELSE None]
  BY <1>2, Zenon DEF DecideOn, Goto
<1>4. QED
  BY <1>1, <1>3

LEMMA DecisionStep ==
    ASSUME IInv, NEW s \in Sessions, TakeDecision(s)
    PROVE  IInv'
<1>1. TypeOK /\ MarkersInv /\ SessionInv(s) /\ AttemptInv /\ SingleInv
  BY DEF IInv
<1>2. PICK entries \in {journal, None} :
              LET next == After(Decide(Read(Observation(s, entries))))
              IN  /\ pc[s] = "collect" /\ pc' = [pc EXCEPT ![s] = next]
                  /\ own' = [own EXCEPT ![s] = IF next = "done" THEN None ELSE @]
                  /\ snap' = [snap EXCEPT ![s] = IF next = "post" THEN GreptileOf(s) ELSE None]
                  /\ UNCHANGED <<now, comments, lastId, journal, subs, reached, obs>>
  BY <1>1, DecisionMeans
<1> DEFINE rule == Decide(Read(Observation(s, entries)))
           next == After(rule)
<1>3. /\ next \in {"post", "attempt", "asked", "done", "idle"}
      /\ next = "attempt" => rule = "R13.trigger"
  BY AfterValues
<1>4. next = "attempt" =>
        /\ own[s] # None
        /\ \E j \in journal : Journaled(s, j) /\ j.confirmed
        /\ \A r : ~Live(r)
        /\ \A c \in comments : c.id < own[s].id => Proven(c.id)
  BY <1>2, <1>3, TriggerAlone
<1> HIDE DEF rule, next
<1>5. /\ pc[s] = "collect" /\ pc'[s] = next /\ pc' = [pc EXCEPT ![s] = next]
      /\ own' = [own EXCEPT ![s] = IF next = "done" THEN None ELSE @]
      /\ snap' = [snap EXCEPT ![s] = IF next = "post" THEN GreptileOf(s) ELSE None]
      /\ snap'[s] = IF next = "post" THEN GreptileOf(s) ELSE None
      /\ own'[s] = IF next = "done" THEN None ELSE own[s]
      /\ UNCHANGED <<now, comments, lastId, journal, subs, reached, obs>>
  <2>1. s \in DOMAIN snap /\ s \in DOMAIN own /\ s \in DOMAIN pc
    BY <1>1 DEF TypeOK
  <2>2. QED
    BY <1>2, <2>1 DEF next, rule
<1>6. GreptileOf(s).family = "greptile"
      /\ \A x \in GreptileOf(s).subs : x.outcome = "not-submitted" => x \in subs
  BY <1>1, <1>5 DEF GreptileOf, GreptileNow, SessionInv
<1>7. Entries(s)' = Entries(s)
  BY <1>5 DEF Entries
<1>8. CASE next # "attempt"
  <2>1. SessionInv(s)'
    <3>1. CASE next = "post"
      BY <1>1, <1>5, <1>6, <1>7, <3>1 DEF SessionInv
    <3>2. CASE next \in {"asked", "done", "idle"}
      BY <1>1, <1>5, <1>7, <3>2 DEF SessionInv
    <3>3. QED
      BY <1>3, <1>8, <3>1, <3>2
  <2>2. next \in Places \ {"attempt"}
    BY <1>3, <1>8 DEF Places
  <2>3. own' = own \/ own' = [own EXCEPT ![s] = None]
    BY <1>1, <1>5 DEF TypeOK
  <2>4. QED
    BY <1>5, <2>1, <2>2, <2>3, QuietStep
<1>9. CASE next = "attempt"
  <2>1. own' = own
    BY <1>1, <1>5, <1>9 DEF TypeOK
  <2>2. TypeOK'
    BY <1>1, <1>5, <1>9, <2>1 DEF TypeOK, Places
  <2>3. MarkersInv'
    BY <1>1, <1>5, <2>1 DEF MarkersInv
  <2>4. ASSUME NEW t \in Sessions
        PROVE  SessionInv(t)'
    <3>1. CASE t # s
      BY <1>1, <1>5, <2>1, <3>1, OthersStay DEF IInv, TypeOK
    <3>2. \A q \in reached : q.res # own[s].id
      BY <1>1, <1>4, <1>9 DEF AttemptInv, Journaled
    <3>3. \A j \in journal : Journaled(s, j) => Journaled(s, j)'
      BY <1>5, <1>7, <2>1 DEF Journaled, Tried
    <3>4. CASE t = s
      BY <1>1, <1>4, <1>5, <1>7, <1>9, <2>1, <3>2, <3>3, <3>4 DEF SessionInv
    <3>5. QED
      BY <3>1, <3>4
  <2>5. AttemptInv'
    BY <1>1, <1>5, <2>1 DEF AttemptInv, TypeOK, Owns, Tried
  <2>6. SingleInv'
    <3>1. ASSUME NEW r, Live(r)'
          PROVE  r = own[s].id
      <4>1. ~Proven(r)
        BY <1>5, <3>1 DEF Live, Proven
      <4>2. ~(\E j \in journal : Tried(j) /\ j.res = r)
        BY <1>4, <1>9, <4>1 DEF Live
      <4>3. PICK t \in Sessions : pc'[t] = "attempt" /\ own'[t] # None /\ own'[t].id = r
        BY <1>5, <3>1, <4>2 DEF Live, Owns, Tried
      <4>4. CASE t # s
        <5>1. pc[t] = "attempt" /\ Owns(t, r)
          BY <1>1, <1>5, <2>1, <4>3, <4>4 DEF Owns, TypeOK
        <5>2. QED
          BY <1>4, <1>9, <4>1, <5>1 DEF Live
      <4>5. CASE t = s
        BY <2>1, <4>3, <4>5
      <4>6. QED
        BY <4>4, <4>5
    <3>2. \A r : Proven(r) => Proven(r)'
      BY <1>5 DEF Proven
    <3>3. QED
      BY <1>1, <1>4, <1>5, <1>9, <3>1, <3>2 DEF SingleInv
  <2>7. QED
    BY <2>2, <2>3, <2>4, <2>5, <2>6 DEF IInv
<1>10. QED
  BY <1>8, <1>9

LEMMA PostStep ==
    ASSUME IInv, NEW s \in Sessions, PostReservation(s)
    PROVE  IInv'
<1> DEFINE id == lastId + 1
<1>1. TypeOK /\ MarkersInv /\ SessionInv(s) /\ AttemptInv /\ SingleInv
  BY DEF IInv
<1>2. /\ pc[s] = "post" /\ pc' = [pc EXCEPT ![s] = "readback"]
      /\ own' = [own EXCEPT ![s] = [id |-> id, at |-> now]]
      /\ lastId' = id
      /\ comments' = comments \cup {[id |-> id, kind |-> "reservation", head |-> Head, at |-> now,
                                     calls |-> FALSE, edited |-> FALSE]}
      /\ UNCHANGED <<now, journal, subs, reached, obs, snap>>
  BY DEF PostReservation, At, Goto, AddComment, records, greptile
<1>3. id \in Nat /\ id > lastId /\ [id |-> id, at |-> now] \in Reservation
  BY <1>1 DEF TypeOK, Reservation
<1>4. own'[s] = [id |-> id, at |-> now] /\ own'[s] # None /\ own'[s].id = id /\ pc'[s] = "readback"
  BY <1>1, <1>2, <1>3, NoneApart DEF TypeOK
<1>5. \A j \in journal : j.res \in Nat /\ j.res < id
  BY <1>1, <1>3 DEF TypeOK, MarkersInv, Entry
<1> HIDE DEF id
<1>6. TypeOK'
  <2>1. comments' \in SUBSET Comment
    <3>1. [id |-> id, kind |-> "reservation", head |-> Head, at |-> now,
           calls |-> FALSE, edited |-> FALSE] \in Comment
      BY <1>1, <1>3 DEF TypeOK, Comment
    <3>2. QED
      BY <1>1, <1>2, <3>1 DEF TypeOK
  <2>2. own' \in [Sessions -> Reservation \cup {None}] /\ pc' \in [Sessions -> Places]
    BY <1>1, <1>2, <1>3 DEF TypeOK, Places
  <2>3. QED
    BY <1>1, <1>2, <1>3, <2>1, <2>2 DEF TypeOK
<1>7. MarkersInv'
  <2>1. \A c \in comments' : \/ c \in comments /\ c.id \in Nat /\ c.at \in Nat /\ c.id < id /\ c.at <= now
                             \/ c.id = id /\ c.at = now
    BY <1>1, <1>2, <1>3 DEF MarkersInv, TypeOK, Comment
  <2>2. \A c \in comments' : c.id <= id /\ c.at <= now
    BY <1>1, <1>3, <2>1 DEF TypeOK
  <2>3. \A c, d \in comments' : c.id <= d.id => c.at <= d.at
    BY <1>1, <1>3, <2>1 DEF TypeOK, MarkersInv
  <2>4. \A c, d \in comments' : c.id = d.id => c = d
    <3>1. \A c, d \in comments' : c.id = d.id => (c \in comments /\ d \in comments) \/ c = d
      <4>1. \A c \in comments : c.id # id
        BY <1>1, <1>3 DEF MarkersInv, TypeOK, Comment
      <4> DEFINE new == [id |-> id, kind |-> "reservation", head |-> Head, at |-> now,
                         calls |-> FALSE, edited |-> FALSE]
      <4>2. comments' = comments \cup {new} /\ new.id = id
        BY <1>2
      <4> HIDE DEF new
      <4>3. QED
        BY <4>1, <4>2
    <3>2. QED
      BY <1>1, <3>1 DEF MarkersInv
  <2>5. \A t \in Sessions : own'[t] # None => own'[t].id <= id
    BY <1>1, <1>2, <1>3, <1>4 DEF MarkersInv, TypeOK, Reservation
  <2>6. \A t, u \in Sessions : own'[t] # None /\ own'[u] # None /\ own'[t].id = own'[u].id => t = u
    BY <1>1, <1>2, <1>3, <1>4 DEF MarkersInv, TypeOK, Reservation
  <2>7. \A j \in journal : j.res <= id /\ j.at <= now
    BY <1>1, <1>3, <1>5 DEF MarkersInv
  <2>8. QED
    BY <1>2, <2>2, <2>3, <2>4, <2>5, <2>6, <2>7 DEF MarkersInv
<1>8. ASSUME NEW t \in Sessions
      PROVE  SessionInv(t)'
  <2>1. CASE t # s
    BY <1>1, <1>2, <2>1, OthersStay DEF IInv, TypeOK
  <2>2. CASE t = s
    <3>1. Entries(s)' = Entries(s)
      BY <1>2 DEF Entries
    <3>2. \A j \in journal : j.res # id /\ j.res <= id
      BY <1>3, <1>5
    <3>3. QED
      BY <1>1, <1>2, <1>4, <2>2, <3>1, <3>2 DEF SessionInv, Entries
  <2>3. QED
    BY <2>1, <2>2
<1>9. AttemptInv'
  <2>1. \A j \in journal, t \in Sessions : Owns(t, j.res)' => t # s /\ Owns(t, j.res)
    BY <1>1, <1>2, <1>3, <1>4, <1>5 DEF Owns, TypeOK
  <2>2. \A t \in Sessions : t # s => pc'[t] = pc[t]
    BY <1>1, <1>2 DEF TypeOK
  <2>3. \A x \in subs : x.outcome = "not-submitted" => \E j \in journal : j.res = x.res
    BY <1>1 DEF AttemptInv
  <2>4. \A x \in subs, t \in Sessions : x.outcome = "not-submitted" /\ Owns(t, x.res)' => pc'[t] = "idle"
    BY <1>1, <2>1, <2>2, <2>3 DEF AttemptInv
  <2>5. \A j \in journal, t \in Sessions : Tried(j) /\ Owns(t, j.res)' =>
          /\ j.session = t
          /\ pc'[t] \in {"send-mcp", "send-comment", "record", "idle"}
          /\ pc'[t] = "send-comment" => j.transport = "comment"
    BY <1>1, <2>1, <2>2 DEF AttemptInv
  <2>6. QED
    BY <1>1, <1>2, <2>4, <2>5 DEF AttemptInv, Tried
<1>10. SingleInv'
  <2>1. \A r : Live(r)' => Live(r)
    BY <1>1, <1>2, <1>4 DEF Live, Owns, Proven, Tried, TypeOK
  <2>2. \A r : Proven(r) => Proven(r)'
    BY <1>2 DEF Proven
  <2>3. \A r : Live(r) => r \in Nat /\ r < id
    BY <1>1, <1>3, <1>5 DEF Live, Owns, TypeOK, MarkersInv, Reservation
  <2>4. QED
    BY <1>1, <1>2, <1>3, <2>1, <2>2, <2>3, SingleStays
<1>11. QED
  BY <1>6, <1>7, <1>8, <1>9, <1>10 DEF IInv

\* What session s writes about its own reservation.
LEMMA WriteMeans ==
    ASSUME TypeOK, NEW s \in Sessions, own[s] # None, NEW confirmed \in BOOLEAN,
           NEW phase \in {"confirmed-unattempted", "attempted"}, NEW transport \in {"none"} \cup Transports,
           Write(s, confirmed, phase, transport)
    PROVE  \E e \in Entry :
              /\ journal' = journal \cup {e}
              /\ e.res = own[s].id /\ e.session = s /\ e.obs = obs[s] /\ e.at = now
              /\ e.confirmed = confirmed /\ e.phase = phase /\ e.transport = transport
<1> DEFINE e == [res |-> own[s].id, resAt |-> own[s].at, head |-> Head, session |-> s, obs |-> obs[s],
                 confirmed |-> confirmed, phase |-> phase, transport |-> transport, at |-> now]
<1>1. own[s].id \in Nat /\ own[s].at \in Nat /\ obs[s] \in Nat /\ now \in Nat
  BY DEF TypeOK, Reservation
<1>2. e \in Entry
  BY <1>1 DEF Entry
<1>3. journal' = journal \cup {e}
  BY DEF Write
<1>4. QED
  BY <1>2, <1>3

\* Session s has journaled e and is somewhere else.
LEMMA EntryStays ==
    ASSUME IInv, NEW s \in Sessions, own[s] # None, NEW e \in Entry, NEW place \in Places,
           journal' = journal \cup {e}, e.res = own[s].id, e.session = s, e.obs = obs[s], e.at = now,
           pc' = [pc EXCEPT ![s] = place],
           UNCHANGED <<now, comments, lastId, subs, reached, obs, own, snap>>
    PROVE  /\ TypeOK' /\ MarkersInv'
           /\ \A t \in Sessions \ {s} : SessionInv(t)'
           /\ pc'[s] = place
           /\ Entries(s)' = Entries(s) \cup {e}
<1>1. TypeOK /\ MarkersInv /\ SessionInv(s) /\ AttemptInv /\ SingleInv
  BY DEF IInv
<1>2. TypeOK' /\ pc'[s] = place
  BY <1>1 DEF TypeOK
<1>3. MarkersInv'
  BY <1>1 DEF MarkersInv, TypeOK
<1>4. ASSUME NEW t \in Sessions \ {s}
      PROVE  SessionInv(t)'
  <2>1. own[t] # None => own[t].id # own[s].id
    BY <1>1 DEF MarkersInv
  <2>2. pc'[t] = pc[t]
    BY <1>1 DEF TypeOK
  <2>3. QED
    BY <2>1, <2>2, OthersStay DEF IInv
<1>5. Entries(s)' = Entries(s) \cup {e}
  BY DEF Entries
<1>6. QED
  BY <1>2, <1>3, <1>4, <1>5

LEMMA ReadBackStep ==
    ASSUME IInv, NEW s \in Sessions, ReadBack(s)
    PROVE  IInv'
<1>1. TypeOK /\ MarkersInv /\ SessionInv(s) /\ AttemptInv /\ SingleInv
  BY DEF IInv
<1>2. /\ pc[s] = "readback" /\ pc' = [pc EXCEPT ![s] = "collect"]
      /\ \E confirmed \in BOOLEAN : Write(s, confirmed, "confirmed-unattempted", "none")
      /\ UNCHANGED <<now, comments, lastId, reached, obs, own, snap>>
  BY DEF ReadBack, At, Goto, github, greptile
<1>3. own[s] # None
  BY <1>1, <1>2 DEF SessionInv
<1>4. PICK e \in Entry : /\ journal' = journal \cup {e}
                         /\ e.res = own[s].id /\ e.session = s /\ e.obs = obs[s] /\ e.at = now
                         /\ e.phase = "confirmed-unattempted"
  BY <1>1, <1>2, <1>3, WriteMeans
<1>5. subs' = subs
  BY <1>2 DEF Write
<1>6. /\ TypeOK' /\ MarkersInv'
      /\ \A t \in Sessions \ {s} : SessionInv(t)'
      /\ pc'[s] = "collect"
      /\ Entries(s)' = Entries(s) \cup {e}
  BY <1>2, <1>3, <1>4, <1>5, EntryStays DEF Places
<1>7. ~Tried(e)
  BY <1>4 DEF Tried
<1>8. SessionInv(s)'
  <2>1. \A j \in journal : j.res # own[s].id
    BY <1>1, <1>2 DEF SessionInv
  <2>2. Journaled(s, e)'
    <3>1. \A k \in Entries(s) : k.at <= now
      BY <1>1 DEF Entries, MarkersInv
    <3>2. now <= now
      BY <1>1 DEF TypeOK
    <3>3. QED
      BY <1>2, <1>4, <1>6, <1>7, <2>1, <3>1, <3>2 DEF Journaled, Entries, Tried
  <2>3. own[s].id <= own[s].id /\ obs[s] <= obs[s]
    BY <1>1, <1>3 DEF TypeOK, Reservation
  <2>4. \A j \in journal' : j.session = s => j.obs <= obs[s]
    BY <1>1, <1>4, <2>3 DEF SessionInv
  <2>5. \A j \in Entries(s)' : j.res <= own[s].id
    BY <1>1, <1>2, <1>4, <1>6, <2>3 DEF SessionInv
  <2>6. snap[s].family = "greptile"
        /\ \A x \in snap[s].subs : x.outcome = "not-submitted" => x \in subs
    BY <1>1, <1>2 DEF SessionInv
  <2>7. QED
    BY <1>2, <1>3, <1>4, <1>5, <1>6, <2>2, <2>4, <2>5, <2>6 DEF SessionInv
<1>9. AttemptInv'
  <2>1. \A j \in journal' : Tried(j) => j \in journal
    BY <1>4, <1>7
  <2>2. \A t \in Sessions : pc[t] # pc'[t] => t = s
    BY <1>1, <1>2 DEF TypeOK
  <2>3. \A j \in journal : j.res # own[s].id
    BY <1>1, <1>2 DEF SessionInv
  <2>4. QED
    BY <1>1, <1>2, <1>3, <1>4, <1>5, <2>1, <2>2, <2>3 DEF AttemptInv, Owns, Tried
<1>10. SingleInv'
  <2>1. \A r : Live(r)' => Live(r)
    BY <1>1, <1>2, <1>4, <1>5, <1>6, <1>7 DEF Live, Owns, Proven, Tried, TypeOK
  <2>2. \A r : Proven(r) => Proven(r)'
    BY <1>5 DEF Proven
  <2>3. QED
    BY <1>1, <1>2, <2>1, <2>2, SingleStays
<1>11. QED
  BY <1>6, <1>8, <1>9, <1>10 DEF IInv

LEMMA AttemptStep ==
    ASSUME IInv, NEW s \in Sessions, Attempt(s)
    PROVE  IInv'
<1>1. TypeOK /\ MarkersInv /\ SessionInv(s) /\ AttemptInv /\ SingleInv
  BY DEF IInv
<1>2. PICK t \in Transports :
         /\ Write(s, TRUE, "attempted", t)
         /\ pc' = [pc EXCEPT ![s] = IF t = "mcp" THEN "send-mcp" ELSE "send-comment"]
  BY DEF Attempt, Goto
<1>3. /\ pc[s] = "attempt"
      /\ UNCHANGED <<now, comments, lastId, reached, obs, own, snap>>
  BY DEF Attempt, At, github, greptile
<1>4. own[s] # None
  BY <1>1, <1>3 DEF SessionInv
<1>5. PICK e \in Entry : /\ journal' = journal \cup {e}
                         /\ e.res = own[s].id /\ e.session = s /\ e.obs = obs[s] /\ e.at = now
                         /\ e.phase = "attempted" /\ e.transport = t
  <2>1. PICK confirmed \in BOOLEAN, phase \in {"confirmed-unattempted", "attempted"},
             transport \in {"none"} \cup Transports :
                Write(s, confirmed, phase, transport) /\ phase = "attempted" /\ transport = t
    BY <1>2
  <2>2. QED
    BY <1>1, <1>4, <2>1, WriteMeans
<1>6. subs' = subs
  BY <1>2 DEF Write
<1> DEFINE place == IF t = "mcp" THEN "send-mcp" ELSE "send-comment"
<1>7. /\ TypeOK' /\ MarkersInv'
      /\ \A u \in Sessions \ {s} : SessionInv(u)'
      /\ pc'[s] = place
      /\ Entries(s)' = Entries(s) \cup {e}
  <2>1. place \in Places
    BY DEF Places
  <2>2. QED
    BY <1>2, <1>3, <1>4, <1>5, <1>6, <2>1, EntryStays
<1>8. Tried(e) /\ Tried(e)'
  BY <1>5 DEF Tried
<1>9. PICK j0 \in journal : Journaled(s, j0)
  BY <1>1, <1>3 DEF SessionInv
<1>10. SessionInv(s)'
  <2>1. own[s].id <= own[s].id /\ obs[s] <= obs[s]
    BY <1>1, <1>4 DEF TypeOK, Reservation
  <2>2. \A j \in journal' : j.session = s => j.obs <= obs[s]
    BY <1>1, <1>5, <2>1 DEF SessionInv
  <2>3. \A j \in Entries(s)' : j.res <= own[s].id
    BY <1>1, <1>3, <1>5, <1>7, <2>1 DEF SessionInv
  <2>4. \A q \in reached : q.res # own[s].id
    BY <1>1, <1>3 DEF SessionInv
  <2>5. QED
    BY <1>3, <1>4, <1>5, <1>7, <1>8, <2>2, <2>3, <2>4 DEF SessionInv
<1>11. AttemptInv'
  <2>1. \A j \in journal : Tried(j) => j.res # own[s].id
    BY <1>9 DEF Journaled
  <2>2. \A u \in Sessions : u # s => pc'[u] = pc[u]
    BY <1>1, <1>2 DEF TypeOK
  <2>3. \A u \in Sessions : Owns(u, own[s].id) => u = s
    BY <1>1, <1>4 DEF Owns, MarkersInv
  <2>4. \A x \in subs : x.outcome = "not-submitted" => ~Owns(s, x.res)
    BY <1>1, <2>1 DEF AttemptInv, Owns
  <2>5. \A x \in subs : x.outcome = "not-submitted" =>
          /\ \E j \in journal' : Tried(j) /\ j.res = x.res
          /\ \A q \in reached : q.res # x.res
          /\ \A u \in Sessions : Owns(u, x.res) => pc'[u] = "idle"
    BY <1>1, <1>5, <2>2, <2>4 DEF AttemptInv
  <2>6. \A q \in reached : \E j \in journal' : Tried(j) /\ j.res = q.res
    BY <1>1, <1>5 DEF AttemptInv
  <2>7. \A j \in journal', u \in Sessions : Tried(j) /\ Owns(u, j.res) =>
          /\ j.session = u
          /\ pc'[u] \in {"send-mcp", "send-comment", "record", "idle"}
          /\ pc'[u] = "send-comment" => j.transport = "comment"
    <3>1. TAKE j \in journal', u \in Sessions
    <3>2. HAVE Tried(j) /\ Owns(u, j.res)
    <3>3. CASE j = e
      <4>1. u = s
        BY <1>5, <2>3, <3>2, <3>3
      <4>2. t \in {"mcp", "comment"}
        BY ConstantsAssumption
      <4>3. QED
        BY <1>5, <1>7, <3>3, <4>1, <4>2
    <3>4. CASE j # e
      <4>1. j \in journal
        BY <1>5, <3>4
      <4>2. u # s
        BY <2>1, <3>2, <4>1 DEF Owns
      <4>3. QED
        BY <1>1, <2>2, <3>2, <4>1, <4>2 DEF AttemptInv
    <3>5. QED
      BY <3>3, <3>4
  <2>8. QED
    BY <1>3, <1>6, <2>5, <2>6, <2>7 DEF AttemptInv, Owns, Tried
<1>12. SingleInv'
  <2>1. ASSUME NEW r, Live(r)'
        PROVE  Live(r)
    <3>1. ~Proven(r)
      BY <1>6, <2>1 DEF Live, Proven
    <3>2. CASE r = own[s].id
      BY <1>3, <1>4, <3>1, <3>2 DEF Live, Owns
    <3>3. CASE r # own[s].id
      BY <1>1, <1>2, <1>3, <1>5, <1>7, <2>1, <3>1, <3>3 DEF Live, Owns, Tried, TypeOK
    <3>4. QED
      BY <3>2, <3>3
  <2>2. \A r : Proven(r) => Proven(r)'
    BY <1>6 DEF Proven
  <2>3. QED
    BY <1>1, <1>3, <2>1, <2>2, SingleStays
<1>13. QED
  BY <1>7, <1>10, <1>11, <1>12 DEF IInv

\* A session about to send is the first to: its reservation is live, and every request that
\* was sent has a live one.
LEMMA SenderIsFirst ==
    ASSUME IInv, NEW s \in Sessions, pc[s] \in {"send-mcp", "send-comment"}
    PROVE  reached = {}
<1>1. SessionInv(s) /\ AttemptInv /\ SingleInv
  BY DEF IInv
<1>2. own[s] # None
  BY <1>1 DEF SessionInv
<1>3. PICK j \in journal : Tried(j) /\ j.res = own[s].id
  BY <1>1 DEF SessionInv
<1>4. ~Proven(own[s].id)
  BY <1>1, <1>2 DEF AttemptInv, Proven, Owns
<1>5. Live(own[s].id)
  BY <1>3, <1>4 DEF Live
<1>6. ASSUME NEW q \in reached
      PROVE  FALSE
  <2>1. Live(q.res)
    BY <1>1 DEF AttemptInv, Live, Proven
  <2>2. q.res = own[s].id
    BY <1>1, <1>5, <2>1 DEF SingleInv
  <2>3. QED
    BY <1>1, <2>2 DEF SessionInv
<1>7. QED
  BY <1>6

\* Steps of session s under its reservation: it may post a comment, reach Greptile, or record
\* an attempt nobody has proven unsubmitted.
LEMMA MovesOn ==
    ASSUME IInv, NEW s \in Sessions, pc[s] \in {"send-mcp", "send-comment", "record"},
           NEW place \in {"record", "idle"}, pc' = [pc EXCEPT ![s] = place],
           UNCHANGED <<now, journal, own, obs, snap>>,
           \/ comments' = comments /\ lastId' = lastId
           \/ /\ lastId' = lastId + 1
              /\ \E c \in Comment : comments' = comments \cup {c} /\ c.id = lastId + 1 /\ c.at = now,
           reached' = reached \/ (\E q : reached' = {q} /\ q.res = own[s].id),
           \A x : x.outcome = "not-submitted" => (x \in subs' <=> x \in subs)
    PROVE  IInv'
<1>1. TypeOK /\ MarkersInv /\ SessionInv(s) /\ AttemptInv /\ SingleInv
  BY DEF IInv
<1>2. own[s] # None /\ \E j \in journal : Tried(j) /\ j.res = own[s].id
  BY <1>1 DEF SessionInv
<1>3. pc'[s] = place /\ \A t \in Sessions : t # s => pc'[t] = pc[t]
  BY <1>1 DEF TypeOK
<1>4. lastId' \in Nat /\ lastId <= lastId'
  BY <1>1 DEF TypeOK
<1>5. TypeOK'
  <2>1. pc' \in [Sessions -> Places]
    BY <1>1 DEF TypeOK, Places
  <2>2. comments' \in SUBSET Comment
    BY <1>1 DEF TypeOK
  <2>3. QED
    BY <1>1, <1>4, <2>1, <2>2 DEF TypeOK
<1>6. MarkersInv'
  <2>1. /\ \A c \in comments : c.id \in Nat /\ c.at \in Nat
        /\ \A j \in journal : j.res \in Nat
        /\ \A t \in Sessions : own[t] # None => own[t].id \in Nat
        /\ now \in Nat /\ lastId \in Nat
    BY <1>1 DEF TypeOK, Comment, Entry, Reservation
  <2>2. CASE comments' = comments /\ lastId' = lastId
    BY <1>1, <2>2 DEF MarkersInv
  <2>3. CASE /\ lastId' = lastId + 1
             /\ \E c \in Comment : comments' = comments \cup {c} /\ c.id = lastId + 1 /\ c.at = now
    <3>1. PICK n \in Comment : comments' = comments \cup {n} /\ n.id = lastId + 1 /\ n.at = now
      BY <2>3
    <3>2. \A c \in comments : c.id <= lastId /\ c.at <= now
      BY <1>1 DEF MarkersInv
    <3>3. \A c \in comments' : c.id <= lastId' /\ c.at <= now
      BY <2>1, <2>3, <3>1, <3>2
    <3>4. \A c, d \in comments' : c.id <= d.id => c.at <= d.at
      BY <1>1, <2>1, <3>1, <3>2 DEF MarkersInv
    <3>5. \A c, d \in comments' : c.id = d.id => c = d
      BY <1>1, <2>1, <3>1, <3>2 DEF MarkersInv
    <3>6. \A j \in journal : j.res <= lastId' /\ j.at <= now
      BY <1>1, <2>1, <2>3 DEF MarkersInv
    <3>7. \A t \in Sessions : own[t] # None => own[t].id <= lastId'
      BY <1>1, <2>1, <2>3 DEF MarkersInv
    <3>8. QED
      BY <1>1, <3>3, <3>4, <3>5, <3>6, <3>7 DEF MarkersInv
  <2>4. QED
    BY <2>2, <2>3
<1>7. \A q \in reached' : q \in reached \/ q.res = own[s].id
  OBVIOUS
<1>8. ASSUME NEW t \in Sessions
      PROVE  SessionInv(t)'
  <2>1. CASE t # s
    <3>1. own[t] # None => own[t].id # own[s].id
      BY <1>1, <1>2, <2>1 DEF MarkersInv
    <3>2. \A q \in reached' \ reached : own[t] # None => q.res # own[t].id
      BY <1>7, <3>1
    <3>3. \A x \in subs : x.outcome = "not-submitted" => x \in subs'
      OBVIOUS
    <3>4. QED
      BY <1>3, <2>1, <3>2, <3>3, OthersStay DEF IInv
  <2>2. CASE t = s
    <3>1. Entries(s)' = Entries(s)
      BY DEF Entries
    <3>2. QED
      BY <1>1, <1>2, <1>3, <2>2, <3>1 DEF SessionInv, Tried
  <2>3. QED
    BY <2>1, <2>2
<1>9. ASSUME NEW x \in subs', x.outcome = "not-submitted"
      PROVE  x \in subs /\ x.res # own[s].id
  BY <1>1, <1>2, <1>9 DEF AttemptInv, Owns
<1>10. AttemptInv'
  <2>1. \A j \in journal, t \in Sessions : Tried(j) /\ Owns(t, j.res) =>
          /\ j.session = t
          /\ pc'[t] \in {"send-mcp", "send-comment", "record", "idle"}
          /\ pc'[t] = "send-comment" => j.transport = "comment"
    BY <1>1, <1>3 DEF AttemptInv
  <2>2. \A q \in reached' : \E j \in journal : Tried(j) /\ j.res = q.res
    BY <1>1, <1>2, <1>7 DEF AttemptInv
  <2>3. ASSUME NEW x \in subs', x.outcome = "not-submitted"
        PROVE  /\ \E j \in journal : Tried(j) /\ j.res = x.res
               /\ \A q \in reached' : q.res # x.res
               /\ \A t \in Sessions : Owns(t, x.res) => pc'[t] = "idle"
    BY <1>1, <1>3, <1>7, <1>9, <2>3 DEF AttemptInv, Owns
  <2>4. QED
    BY <2>1, <2>2, <2>3 DEF AttemptInv, Tried, Owns
<1>11. SingleInv'
  <2>1. \A r : Proven(r)' <=> Proven(r)
    BY DEF Proven
  <2>2. \A r : Live(r)' => Live(r)
    BY <1>3, <2>1 DEF Live, Tried, Owns
  <2>3. \A r : Live(r) => r \in Nat /\ r <= lastId
    BY <1>1 DEF Live, Owns, MarkersInv, TypeOK, Entry, Reservation
  <2>4. \A p, q \in reached' : p = q
    BY <1>1 DEF SingleInv
  <2>5. \A r : Live(r) => \A c \in comments' : c.id < r => Proven(c.id)
    <3>1. \A c \in comments' : c \in comments \/ (c.id = lastId + 1 /\ lastId \in Nat)
      BY <1>1 DEF TypeOK
    <3>2. QED
      BY <1>1, <2>3, <3>1 DEF SingleInv
  <2>6. QED
    BY <1>1, <2>1, <2>2, <2>4, <2>5 DEF SingleInv
<1>12. QED
  BY <1>5, <1>6, <1>8, <1>10, <1>11 DEF IInv

LEMMA SendMcpStep ==
    ASSUME IInv, NEW s \in Sessions, SendMcp(s)
    PROVE  IInv'
<1>1. /\ pc[s] = "send-mcp" /\ pc' = [pc EXCEPT ![s] = "record"]
      /\ UNCHANGED <<now, comments, lastId, journal, subs, obs, own, snap>>
      /\ Reach(s, "mcp", own[s].id, own[s].at) \/ reached' = reached
  BY DEF SendMcp, At, Goto, github, greptile, records
<1>2. reached = {}
  BY <1>1, SenderIsFirst
<1>3. reached' = reached \/ (\E q : reached' = {q} /\ q.res = own[s].id)
  BY <1>1, <1>2 DEF Reach
<1>4. QED
  BY <1>1, <1>3, MovesOn

LEMMA SendCommentStep ==
    ASSUME IInv, NEW s \in Sessions, SendComment(s)
    PROVE  IInv'
<1>1. /\ pc[s] = "send-comment" /\ pc' = [pc EXCEPT ![s] = "idle"]
      /\ UNCHANGED <<now, journal, subs, obs, own, snap>>
      /\ \/ \E calls \in BOOLEAN : AddComment("trigger", calls)
         \/ comments' = comments /\ lastId' = lastId
      /\ Reach(s, "comment", lastId + 1, now) \/ reached' = reached
  BY DEF SendComment, At, Goto, github, greptile, records
<1>2. reached = {}
  BY <1>1, SenderIsFirst
<1>3. reached' = reached \/ (\E q : reached' = {q} /\ q.res = own[s].id)
  BY <1>1, <1>2 DEF Reach
<1>4. \/ comments' = comments /\ lastId' = lastId
      \/ /\ lastId' = lastId + 1
         /\ \E c \in Comment : comments' = comments \cup {c} /\ c.id = lastId + 1 /\ c.at = now
  <2>1. CASE \E calls \in BOOLEAN : AddComment("trigger", calls)
    <3>1. PICK calls \in BOOLEAN : AddComment("trigger", calls)
      BY <2>1
    <3> DEFINE c == [id |-> lastId + 1, kind |-> "trigger", head |-> Head, at |-> now,
                     calls |-> calls, edited |-> FALSE]
    <3>2. c \in Comment
      BY DEF IInv, TypeOK, Comment
    <3>3. lastId' = lastId + 1 /\ comments' = comments \cup {c} /\ c.id = lastId + 1 /\ c.at = now
      BY <3>1 DEF AddComment
    <3>4. QED
      BY <3>2, <3>3
  <2>2. QED
    BY <1>1, <2>1
<1>5. QED
  BY <1>1, <1>3, <1>4, MovesOn

LEMMA RecordStep ==
    ASSUME IInv, NEW s \in Sessions, RecordAttempt(s)
    PROVE  IInv'
<1>1. /\ pc[s] = "record" /\ pc' = [pc EXCEPT ![s] = "idle"]
      /\ UNCHANGED <<now, comments, lastId, journal, reached, obs, own, snap>>
  BY DEF RecordAttempt, At, Goto, github, greptile, records
<1> DEFINE attempt == CHOOSE j \in journal : j.res = own[s].id /\ j.phase = "attempted"
           Record(outcome, run) == [id |-> own[s].id, res |-> own[s].id, session |-> s, obs |-> obs[s],
                                    at |-> attempt.at, outcome |-> outcome, run |-> run]
<1>2. \E outcome \in {"accepted", "ambiguous"}, run \in {None, own[s].id} :
         subs' = subs \cup {Record(outcome, run)}
  BY Zenon DEF RecordAttempt
<1>3. \A outcome, run : Record(outcome, run).outcome = outcome
  OBVIOUS
<1> HIDE DEF Record
<1>4. \E n : subs' = subs \cup {n} /\ n.outcome \in {"accepted", "ambiguous"}
  BY <1>2, <1>3
<1>5. \A x : x.outcome = "not-submitted" => (x \in subs' <=> x \in subs)
  BY <1>4
<1>6. QED
  BY <1>1, <1>5, MovesOn

LEMMA KillStep ==
    ASSUME IInv, NEW s \in Sessions, Kill(s)
    PROVE  IInv'
<1>1. /\ pc' = [pc EXCEPT ![s] = "dead"]
      /\ own' = [own EXCEPT ![s] = None]
      /\ snap' = [snap EXCEPT ![s] = None]
      /\ UNCHANGED <<now, comments, lastId, journal, subs, reached, obs>>
  BY DEF Kill, Goto, github, greptile, records
<1>2. SessionInv(s) /\ TypeOK
  BY DEF IInv
<1>3. pc'[s] = "dead" /\ own'[s] = None /\ "dead" \in Places \ {"attempt"}
  BY <1>1, <1>2 DEF TypeOK, Places
<1>4. SessionInv(s)'
  BY <1>1, <1>2, <1>3 DEF SessionInv
<1>5. QED
  BY <1>1, <1>3, <1>4, QuietStep

LEMMA AnswerStep ==
    ASSUME IInv, NEW s \in Sessions, AnswerA(s)
    PROVE  IInv'
<1>1. /\ pc[s] = "asked" /\ pc' = [pc EXCEPT ![s] = "idle"]
      /\ UNCHANGED <<now, comments, lastId, journal, subs, reached, obs, own, snap>>
  BY DEF AnswerA, At, Goto, github, greptile
<1>2. SessionInv(s) /\ TypeOK
  BY DEF IInv
<1>3. pc'[s] = "idle" /\ "idle" \in Places \ {"attempt"}
  BY <1>1, <1>2 DEF TypeOK, Places
<1>4. Entries(s)' = Entries(s)
  BY <1>1 DEF Entries
<1>5. SessionInv(s)'
  BY <1>1, <1>2, <1>3, <1>4 DEF SessionInv
<1>6. QED
  BY <1>1, <1>3, <1>5, QuietStep

\* The clock goes on; comments are deleted or edited, not redated.
LEMMA OutsideStep ==
    ASSUME IInv, now' \in Nat, now <= now', comments' \in SUBSET Comment,
           \A c \in comments' : \E d \in comments : d.id = c.id /\ d.at = c.at,
           \A c, d \in comments' : c.id = d.id => c = d,
           UNCHANGED <<lastId, journal, subs, reached, pc, obs, own, snap>>
    PROVE  IInv'
<1>1. TypeOK /\ MarkersInv /\ AttemptInv /\ SingleInv
  BY DEF IInv
<1>2. TypeOK'
  BY <1>1 DEF TypeOK
<1>3. MarkersInv'
  <2>1. now \in Nat /\ (\A j \in journal : j.at \in Nat) /\ \A c \in comments : c.at \in Nat
    BY <1>1 DEF TypeOK, Entry, Comment
  <2>2. \A c \in comments' : c.id <= lastId /\ c.at <= now'
    BY <1>1, <2>1 DEF MarkersInv
  <2>3. \A c, d \in comments' : c.id <= d.id => c.at <= d.at
    <3>1. TAKE c \in comments', d \in comments'
    <3>2. PICK a \in comments, b \in comments : a.id = c.id /\ a.at = c.at /\ b.id = d.id /\ b.at = d.at
      OBVIOUS
    <3>3. QED
      BY <1>1, <3>2 DEF MarkersInv
  <2>4. \A j \in journal : j.res <= lastId /\ j.at <= now'
    BY <1>1, <2>1 DEF MarkersInv
  <2>5. QED
    BY <1>1, <2>2, <2>3, <2>4 DEF MarkersInv
<1>4. ASSUME NEW t \in Sessions
      PROVE  SessionInv(t)'
  BY OthersStay DEF IInv
<1>5. AttemptInv'
  BY <1>1 DEF AttemptInv, Owns, Tried
<1>6. SingleInv'
  <2>1. \A r : Live(r)' => Live(r)
    BY DEF Live, Owns, Proven, Tried
  <2>2. \A r : Proven(r) => Proven(r)'
    BY DEF Proven
  <2>3. QED
    BY <1>1, <2>1, <2>2, SingleStays
<1>7. QED
  BY <1>2, <1>3, <1>4, <1>5, <1>6 DEF IInv

LEMMA TamperStep ==
    ASSUME IInv, NEW c \in comments, Delete(c) \/ Edit(c)
    PROVE  IInv'
<1>1. /\ comments' = comments \ {c} \/ comments' = (comments \ {c}) \cup {[c EXCEPT !.edited = TRUE]}
      /\ UNCHANGED <<now, lastId, journal, subs, reached, pc, obs, own, snap>>
  BY DEF Delete, Edit, Tamper, greptile, records, local
<1>2. TypeOK /\ MarkersInv
  BY DEF IInv
<1> DEFINE edited == [c EXCEPT !.edited = TRUE]
<1>3. edited \in Comment /\ edited.id = c.id /\ edited.at = c.at
  BY <1>2 DEF TypeOK, Comment
<1>4. comments' = comments \ {c} \/ comments' = (comments \ {c}) \cup {edited}
  BY <1>1
<1> HIDE DEF edited
<1>5. comments' \in SUBSET Comment
  BY <1>2, <1>3, <1>4 DEF TypeOK
<1>6. \A b \in comments' : \E d \in comments : d.id = b.id /\ d.at = b.at
  BY <1>3, <1>4
<1>7. \A b, d \in comments' : b.id = d.id => b = d
  <2>1. \A b \in comments' : b = edited \/ (b \in comments /\ b # c)
    BY <1>4
  <2>2. \A b, d \in comments : b.id = d.id => b = d
    BY <1>2 DEF MarkersInv
  <2>3. QED
    BY <1>3, <2>1, <2>2
<1>8. now \in Nat /\ now <= now
  BY <1>2 DEF TypeOK
<1>9. QED
  BY <1>1, <1>5, <1>6, <1>7, <1>8, OutsideStep

\* Nothing of the state the invariant is about changes, but for the clock.
LEMMA ElsewhereStep ==
    ASSUME IInv, now' = now \/ now' = now + 1,
           UNCHANGED <<comments, lastId, journal, subs, reached, pc, obs, own, snap>>
    PROVE  IInv'
<1>1. TypeOK /\ MarkersInv
  BY DEF IInv
<1>2. now' \in Nat /\ now <= now'
  BY <1>1 DEF TypeOK
<1>3. comments' \in SUBSET Comment
  BY <1>1 DEF TypeOK
<1>4. \A c, d \in comments' : c.id = d.id => c = d
  BY <1>1 DEF MarkersInv
<1>5. QED
  BY <1>2, <1>3, <1>4, OutsideStep

LEMMA ProveUnsentStep ==
    ASSUME IInv, NEW j \in journal, ProveUnsent(j)
    PROVE  IInv'
<1>1. TypeOK /\ MarkersInv /\ AttemptInv /\ SingleInv
  BY DEF IInv
<1>2. /\ j.phase = "attempted" /\ j.transport = "mcp"
      /\ \A q \in reached : q.res # j.res
      /\ pc[j.session] \in {"send-mcp", "record"} => own[j.session].id # j.res
      /\ \A x \in subs : x.res = j.res => x.outcome # "not-submitted"
      /\ UNCHANGED <<now, comments, lastId, journal, reached, pc, obs, own, snap>>
  BY DEF ProveUnsent, github, greptile, local
<1>3. PICK n : /\ subs' = (subs \ {x \in subs : x.res = j.res}) \cup {n}
               /\ n.res = j.res /\ n.outcome = "not-submitted"
  <2> DEFINE n == [id |-> j.res, res |-> j.res, session |-> j.session, obs |-> j.obs, at |-> j.at,
                   outcome |-> "not-submitted", run |-> None]
  <2>1. subs' = (subs \ {x \in subs : x.res = j.res}) \cup {n}
    BY Zenon DEF ProveUnsent
  <2>2. n.res = j.res /\ n.outcome = "not-submitted"
    OBVIOUS
  <2> HIDE DEF n
  <2>3. QED
    BY <2>1, <2>2
<1>4. \A x \in subs : x.outcome = "not-submitted" => x \in subs'
  BY <1>2, <1>3
<1>5. TypeOK' /\ MarkersInv'
  BY <1>1, <1>2 DEF TypeOK, MarkersInv
<1>6. ASSUME NEW t \in Sessions
      PROVE  SessionInv(t)'
  BY <1>2, <1>4, OthersStay DEF IInv
<1>7. AttemptInv'
  <2>1. ASSUME NEW s \in Sessions, Owns(s, j.res)
        PROVE  pc[s] = "idle"
    <3>1. Tried(j)
      BY <1>2 DEF Tried
    <3>2. /\ j.session = s /\ own[s].id = j.res
          /\ pc[s] \in {"send-mcp", "send-comment", "record", "idle"}
          /\ pc[s] = "send-comment" => j.transport = "comment"
      BY <1>1, <2>1, <3>1 DEF AttemptInv, Owns
    <3>3. QED
      BY <1>2, <3>2
  <2>2. ASSUME NEW x \in subs', x.outcome = "not-submitted"
        PROVE  /\ \E i \in journal : Tried(i) /\ i.res = x.res
               /\ \A q \in reached : q.res # x.res
               /\ \A s \in Sessions : Owns(s, x.res) => pc[s] = "idle"
    <3>1. x \in subs \/ x.res = j.res
      BY <1>3
    <3>2. QED
      BY <1>1, <1>2, <2>1, <2>2, <3>1 DEF AttemptInv, Tried
  <2>3. QED
    BY <1>1, <1>2, <2>2 DEF AttemptInv, Owns, Tried
<1>8. SingleInv'
  <2>1. \A r : Proven(r) => Proven(r)'
    BY <1>4 DEF Proven
  <2>2. \A r : Live(r)' => Live(r)
    BY <1>2, <2>1 DEF Live, Owns, Tried
  <2>3. QED
    BY <1>1, <1>2, <2>1, <2>2, SingleStays
<1>9. QED
  BY <1>5, <1>6, <1>7, <1>8 DEF IInv

LEMMA InitIInv == Init => IInv
<1> SUFFICES ASSUME Init PROVE IInv
  OBVIOUS
<1>1. TypeOK
  BY DEF Init, TypeOK, Places
<1>2. MarkersInv /\ AttemptInv /\ SingleInv
  BY DEF Init, MarkersInv, AttemptInv, SingleInv, Live, Owns
<1>3. \A s \in Sessions : SessionInv(s)
  BY DEF Init, SessionInv, Entries
<1>4. QED
  BY <1>1, <1>2, <1>3 DEF IInv

LEMMA NextIInv == IInv /\ [Next]_vars => IInv'
<1> SUFFICES ASSUME IInv, [Next]_vars PROVE IInv'
  OBVIOUS
<1>1. ASSUME NEW s \in Sessions, SessionStep(s)
      PROVE  IInv'
  BY <1>1, BeginStep, DecisionStep, PostStep, ReadBackStep, AttemptStep, SendMcpStep, RecordStep,
     SendCommentStep DEF SessionStep
<1>2. ASSUME NEW s \in Sessions, Kill(s) \/ AnswerA(s)
      PROVE  IInv'
  BY <1>2, KillStep, AnswerStep
<1>3. CASE Tick
  BY <1>3, ElsewhereStep DEF Tick, github, greptile, records, local
<1>4. CASE RunAppears \/ AutomaticRun
  BY <1>4, ElsewhereStep DEF RunAppears, AutomaticRun, AddRun, github, records, local
<1>5. CASE \E r \in runs : RunEnds(r)
  BY <1>5, ElsewhereStep DEF RunEnds, github, records, local
<1>6. CASE \E c \in comments : Delete(c) \/ Edit(c)
  BY <1>6, TamperStep
<1>7. CASE \E j \in journal : ProveUnsent(j)
  BY <1>7, ProveUnsentStep
<1>8. CASE UNCHANGED vars
  BY <1>8, ElsewhereStep DEF vars, github, greptile, records, local
<1>9. QED
  BY <1>1, <1>2, <1>3, <1>4, <1>5, <1>6, <1>7, <1>8 DEF Next

LEMMA Invariance == Spec => []IInv
BY InitIInv, NextIInv, PTL DEF Spec

LEMMA AtMostOne ==
    ASSUME NEW S, \A p, q \in S : p = q
    PROVE  Cardinality(S) <= 1
<1>1. CASE S = {}
  BY <1>1, FS_EmptySet
<1>2. CASE S # {}
  <2>1. PICK p : p \in S
    BY <1>2
  <2>2. S = {p}
    BY <2>1
  <2>3. Cardinality(S) = 1
    BY <2>2, FS_Singleton
  <2>4. QED
    BY <2>3
<1>3. QED
  BY <1>1, <1>2

\* One request at most gets to Greptile for a pull request (decide.ts 36-38, the single
\* allowance): any number of sessions, killed and answered and resumed as they may be, with any
\* number of lost calls, unreadable journals and comments deleted or edited by others.
THEOREM SingleAllowance == Spec => []OneRequest
<1>1. IInv => OneRequest
  BY AtMostOne DEF IInv, SingleInv, OneRequest
<1>2. QED
  BY <1>1, Invariance, PTL

(***************************************************************************)
(* What a ready verdict rests on: the invariant.                           *)
(***************************************************************************)

Past(t) == t \in Nat /\ t <= now

\* Some comment of C is what request q came from, as it was posted.
Shows(C, q) ==
    \E c \in C :
        /\ c.id = q.marker /\ c.at = q.start /\ ~c.edited
        /\ IF q.transport = "comment" THEN c.kind = "trigger" /\ c.calls ELSE c.kind = "reservation"

\* A comment that asks for a review got to Greptile.
CallOf(c) == \E q \in reached : q.transport = "comment" /\ q.marker = c.id

Reserved(i) == \A c \in comments : c.id = i => c.kind = "reservation"

RequestOk(q) ==
    /\ q.res \in Nat \ {0} /\ Past(q.start) /\ q.transport \in {"mcp", "comment"}
    /\ q.marker \notin tampered => Shows(comments, q)
    /\ q.transport = "mcp" =>
          /\ q.marker = q.res
          /\ \E j \in journal : Tried(j) /\ j.res = q.res /\ j.transport # "comment"

Run == [id : Nat, status : {"running"} \cup Endings, automatic : BOOLEAN, at : Nat]

RunOk(r) ==
    /\ r \in Run /\ Past(r.at)
    /\ IF r.automatic THEN r.id = Automatic ELSE \E q \in reached : q.res = r.id

\* Times have passed, runs belong to requests, and requests show unless somebody took them away.
FactsInv ==
    /\ \A i \in tampered : i \in Nat /\ i <= lastId
    /\ \A x \in subs : Past(x.at)
    /\ \A x, y \in subs : x.res = y.res /\ x.outcome = "not-submitted" => y.outcome = "not-submitted"
    /\ \A a \in answers : Past(a.seen)
    /\ \A j \in journal : Past(j.resAt) /\ Reserved(j.res)
    /\ \A r \in runs : RunOk(r)
    /\ \A q \in reached : RequestOk(q)
    /\ \A c \in comments : (c.calls => CallOf(c)) /\ (c.edited => c.id \in tampered)

OwnInv(s) ==
    /\ own[s] # None =>
          /\ own[s].id # 0 /\ Past(own[s].at) /\ Reserved(own[s].id)
          /\ own[s].id \notin tampered =>
                \E c \in comments : /\ c.id = own[s].id /\ c.at = own[s].at
                                    /\ ~c.edited /\ c.kind = "reservation"
    /\ pc[s] = "send-mcp" => \E j \in journal : Tried(j) /\ j.res = own[s].id /\ j.transport # "comment"

\* A run that was sighted is there, and one that was not came later.
SightedOk(s) ==
    /\ \A r \in snap[s].runs :
          /\ r.status \in {"running"} \cup Endings
          /\ \E k \in runs : /\ k.id = r.id /\ k.automatic = r.automatic
                             /\ r.status # "running" => k.status = r.status
    /\ \A k \in runs : k.at >= snap[s].at \/ \E r \in snap[s].runs : r.id = k.id

\* The records it has read prove unused what came before a request it has to see.
ProvenBefore(s) ==
    \A q \in due[s], c \in comments : c.id < q.res =>
        /\ \E x \in snap[s].subs : x.res = c.id /\ x.outcome = "not-submitted"
        /\ \A x \in snap[s].subs : x.res = c.id => x.outcome = "not-submitted"

\* What session s has read first, about the requests it has to see.
ReadInv(s) ==
    pc[s] \in {"collect", "post", "readback"} =>
        /\ Past(snap[s].at)
        /\ snap[s].family = "greptile" =>
              /\ \A x \in snap[s].subs : Past(x.at)
              /\ SightedOk(s) /\ ProvenBefore(s)
        /\ snap[s].family # "greptile" =>
              /\ snap[s].family = "comments"
              /\ \A c \in snap[s].comments :
                    c \in Comment /\ Past(c.at) /\ (c.calls => CallOf(c)) /\ (c.id \notin tampered => c \in comments)
              /\ \A q \in due[s] : q.marker \notin tampered => Shows(snap[s].comments, q)

\* The property of one verdict.
Earned(s) ==
    \A q \in due[s] : InSight(q, verdict[s]) =>
        /\ verdict[s].rule = "R14.completed" =>
              \E r \in runs : r.id = q.res /\ r.status = "completed"
        /\ verdict[s].rule = "R14.no-response" => q.transport = "comment" /\ Waited(q, verdict[s].seen)
        /\ verdict[s].rule = "R14.user-decision" =>
              \E a \in verdict[s].relied : Waited(q, a.seen)

VerdictInv(s) ==
    /\ pc[s] = "asked" => Past(verdict[s].seen)
    /\ verdict[s] # None =>
          /\ pc[s] # "done" => due[s] = {}
          /\ Past(verdict[s].seen) /\ \A a \in verdict[s].relied : Past(a.seen)
          /\ Earned(s)

LocalOk ==
    /\ due = [s \in Sessions |-> due[s]] /\ verdict = [s \in Sessions |-> verdict[s]]
    /\ \A s \in Sessions : due[s] \subseteq reached

SightInv ==
    /\ FactsInv /\ LocalOk
    /\ \A s \in Sessions : OwnInv(s) /\ ReadInv(s) /\ VerdictInv(s)

(***************************************************************************)
(* What goes on around a session.                                          *)
(***************************************************************************)

\* The histories only grow: the clock, what reached Greptile, what was tampered with, and
\* runs and comments but for what tampering takes.
Grows ==
    /\ now' \in Nat /\ now <= now' /\ lastId <= lastId'
    /\ tampered \subseteq tampered' /\ reached \subseteq reached' /\ journal \subseteq journal'
    /\ comments' \in SUBSET Comment
    /\ \A c \in comments : c \in comments' \/ c.id \in tampered'
    /\ \A c \in comments' : c.id > lastId \/ \E d \in comments : d.id = c.id /\ d.kind = c.kind
    /\ \A r \in runs : \E k \in runs' : /\ k.id = r.id /\ k.automatic = r.automatic
                                        /\ r.status # "running" => k.status = r.status
    /\ \A k \in runs' : (k.at \in Nat /\ now <= k.at) \/ \E r \in runs : r.id = k.id /\ r.at = k.at

LEMMA PastStays ==
    ASSUME now \in Nat, Grows, NEW t, Past(t)
    PROVE  Past(t)'
BY DEF Past, Grows

LEMMA ShowsStay ==
    ASSUME NEW q, NEW C, NEW D, Shows(C, q), \A c \in C : c.id = q.marker => c \in D
    PROVE  Shows(D, q)
BY DEF Shows

\* What reached Greptile was journaled, and is live.
LEMMA ReachedIsLive ==
    ASSUME IInv, NEW q \in reached
    PROVE  /\ q.res \in Nat /\ q.res <= lastId /\ ~Proven(q.res) /\ Live(q.res)
           /\ \A c \in comments : c.id < q.res => Proven(c.id)
           /\ \A p \in reached : p = q
<1>1. TypeOK /\ MarkersInv /\ AttemptInv /\ SingleInv
  BY DEF IInv
<1>2. PICK j \in journal : Tried(j) /\ j.res = q.res
  BY <1>1 DEF AttemptInv
<1>3. j.res \in Nat /\ j.res <= lastId
  BY <1>1 DEF TypeOK, Entry, MarkersInv
<1>4. ~Proven(q.res)
  BY <1>1 DEF AttemptInv, Proven
<1>5. Live(q.res)
  BY <1>2, <1>4 DEF Live
<1>6. QED
  BY <1>1, <1>2, <1>3, <1>4, <1>5 DEF SingleInv

LEMMA FactTypes ==
    ASSUME IInv
    PROVE  /\ now \in Nat /\ lastId \in Nat /\ comments \in SUBSET Comment /\ journal \in SUBSET Entry
           /\ \A c \in comments : c.id \in Nat /\ c.id <= lastId /\ c.at \in Nat /\ c.at <= now
           /\ \A j \in journal : j.res \in Nat /\ j.res <= lastId
BY DEF IInv, TypeOK, MarkersInv, Comment, Entry

LEMMA ReservedStays ==
    ASSUME IInv, Grows, NEW i \in Nat, i <= lastId, Reserved(i)
    PROVE  Reserved(i)'
<1>1. ASSUME NEW c \in comments', c.id = i
      PROVE  c.kind = "reservation"
  <2>1. ~(c.id > lastId)
    BY <1>1, FactTypes
  <2>2. PICK d \in comments : d.id = c.id /\ d.kind = c.kind
    BY <1>1, <2>1 DEF Grows
  <2>3. QED
    BY <1>1, <2>2 DEF Reserved
<1>2. QED
  BY <1>1 DEF Reserved

LEMMA RequestStays ==
    ASSUME IInv, Grows, NEW q, RequestOk(q)
    PROVE  RequestOk(q)'
<1>1. now \in Nat
  BY FactTypes
<1>2. Past(q.start)'
  BY <1>1, PastStays DEF RequestOk
<1>3. ASSUME q.marker \notin tampered'
      PROVE  Shows(comments', q)
  <2>1. q.marker \notin tampered
    BY <1>3 DEF Grows
  <2>2. Shows(comments, q)
    BY <2>1 DEF RequestOk
  <2>3. \A c \in comments : c.id = q.marker => c \in comments'
    BY <1>3 DEF Grows
  <2>4. QED
    BY <2>2, <2>3, ShowsStay
<1>4. Shows(comments, q)' <=> Shows(comments', q)
  BY DEF Shows
<1>5. journal \subseteq journal'
  BY DEF Grows
<1>6. QED
  BY <1>2, <1>3, <1>4, <1>5 DEF RequestOk, Tried

LEMMA RunStays ==
    ASSUME IInv, Grows, NEW r, RunOk(r)
    PROVE  RunOk(r)'
<1>1. now \in Nat
  BY FactTypes
<1>2. Past(r.at)'
  BY <1>1, PastStays DEF RunOk
<1>3. reached \subseteq reached'
  BY DEF Grows
<1>4. QED
  BY <1>2, <1>3 DEF RunOk

\* The facts hold on when what is new agrees with them.
LEMMA FactsStay ==
    ASSUME IInv, FactsInv, Grows,
           \A i \in tampered' : i \in Nat /\ i <= lastId',
           \A x \in subs' : x \in subs \/ Past(x.at)',
           \A x, y \in subs' : x.res = y.res /\ x.outcome = "not-submitted" => y.outcome = "not-submitted",
           \A a \in answers' : a \in answers \/ Past(a.seen)',
           \A j \in journal' : j \in journal \/ (Past(j.resAt)' /\ Reserved(j.res)'),
           \A r \in runs' : r \in runs \/ RunOk(r)',
           \A q \in reached' : q \in reached \/ RequestOk(q)',
           \A c \in comments' : c \in comments \/ ((c.calls => CallOf(c)') /\ (c.edited => c.id \in tampered'))
    PROVE  FactsInv'
<1>1. now \in Nat /\ \A j \in journal : j.res \in Nat /\ j.res <= lastId
  BY FactTypes
<1>2. \A x \in subs' : Past(x.at)'
  BY <1>1, PastStays DEF FactsInv
<1>3. \A a \in answers' : Past(a.seen)'
  BY <1>1, PastStays DEF FactsInv
<1>4. \A j \in journal' : Past(j.resAt)' /\ Reserved(j.res)'
  BY <1>1, PastStays, ReservedStays DEF FactsInv
<1>5. \A r \in runs' : RunOk(r)'
  BY RunStays DEF FactsInv
<1>6. \A q \in reached' : RequestOk(q)'
  BY RequestStays DEF FactsInv
<1>7. \A c \in comments' : (c.calls => CallOf(c)') /\ (c.edited => c.id \in tampered')
  <2>1. reached \subseteq reached' /\ tampered \subseteq tampered'
    BY DEF Grows
  <2>2. ASSUME NEW c \in comments
        PROVE  (c.calls => CallOf(c)') /\ (c.edited => c.id \in tampered')
    BY <2>1, <2>2 DEF FactsInv, CallOf
  <2>3. QED
    BY <2>2
<1>8. QED
  BY <1>2, <1>3, <1>4, <1>5, <1>6, <1>7 DEF FactsInv

LEMMA OwnStays ==
    ASSUME IInv, NEW s \in Sessions, OwnInv(s), Grows, own'[s] = own[s],
           pc'[s] = "send-mcp" => pc[s] = "send-mcp"
    PROVE  OwnInv(s)'
<1>1. now \in Nat /\ (own[s] # None => own[s].id \in Nat /\ own[s].id <= lastId)
  BY DEF IInv, TypeOK, MarkersInv, Reservation
<1>2. journal \subseteq journal' /\ tampered \subseteq tampered'
  BY DEF Grows
<1>3. own[s] # None => Past(own[s].at)' /\ Reserved(own[s].id)'
  BY <1>1, PastStays, ReservedStays DEF OwnInv
<1>4. ASSUME own[s] # None, own[s].id \notin tampered'
      PROVE  \E c \in comments' : /\ c.id = own[s].id /\ c.at = own[s].at
                                  /\ ~c.edited /\ c.kind = "reservation"
  <2>1. PICK c \in comments : /\ c.id = own[s].id /\ c.at = own[s].at
                              /\ ~c.edited /\ c.kind = "reservation"
    BY <1>2, <1>4 DEF OwnInv
  <2>2. c \in comments'
    BY <1>4, <2>1 DEF Grows
  <2>3. QED
    BY <2>1, <2>2
<1>5. pc'[s] = "send-mcp" => \E j \in journal' : Tried(j) /\ j.res = own[s].id /\ j.transport # "comment"
  BY <1>2 DEF OwnInv
<1>6. QED
  BY <1>3, <1>4, <1>5 DEF OwnInv, Past, Reserved, Tried

\* A run that is over stays as it is, and a run that was not there is later.
LEMMA SightedStays ==
    ASSUME IInv, FactsInv, NEW s \in Sessions, SightedOk(s), Past(snap[s].at), Grows, snap'[s] = snap[s]
    PROVE  SightedOk(s)'
<1>1. ASSUME NEW r \in snap[s].runs
      PROVE  /\ r.status \in {"running"} \cup Endings
             /\ \E k \in runs' : /\ k.id = r.id /\ k.automatic = r.automatic
                                 /\ r.status # "running" => k.status = r.status
  <2>1. PICK k \in runs : /\ k.id = r.id /\ k.automatic = r.automatic
                          /\ r.status # "running" => k.status = r.status
    BY DEF SightedOk
  <2>2. PICK l \in runs' : /\ l.id = k.id /\ l.automatic = k.automatic
                           /\ k.status # "running" => l.status = k.status
    BY DEF Grows
  <2>3. r.status \in {"running"} \cup Endings
    BY DEF SightedOk
  <2>4. QED
    BY <2>1, <2>2, <2>3
<1>2. ASSUME NEW k \in runs'
      PROVE  k.at >= snap[s].at \/ \E r \in snap[s].runs : r.id = k.id
  <2>1. CASE k.at \in Nat /\ now <= k.at
    <3>1. now \in Nat /\ snap[s].at \in Nat /\ snap[s].at <= now
      BY FactTypes DEF Past
    <3>2. QED
      BY <2>1, <3>1
  <2>2. CASE \E r \in runs : r.id = k.id /\ r.at = k.at
    BY <2>2 DEF SightedOk
  <2>3. QED
    BY <2>1, <2>2 DEF Grows
<1>3. QED
  BY <1>1, <1>2 DEF SightedOk

LEMMA ProvenStays ==
    ASSUME IInv, NEW s \in Sessions, due[s] \subseteq reached, ProvenBefore(s), Grows,
           snap'[s] = snap[s], due'[s] = due[s]
    PROVE  ProvenBefore(s)'
<1>1. ASSUME NEW q \in due[s], NEW c \in comments', c.id < q.res
      PROVE  \E d \in comments : d.id = c.id
  <2>1. q.res \in Nat /\ q.res <= lastId /\ lastId \in Nat /\ c.id \in Nat
    BY ReachedIsLive, FactTypes DEF Grows, Comment
  <2>2. CASE c.id > lastId
    BY <1>1, <2>1, <2>2
  <2>3. QED
    BY <2>2 DEF Grows
<1>2. ASSUME NEW q \in due[s], NEW c \in comments', c.id < q.res
      PROVE  /\ \E x \in snap[s].subs : x.res = c.id /\ x.outcome = "not-submitted"
             /\ \A x \in snap[s].subs : x.res = c.id => x.outcome = "not-submitted"
  BY <1>1, <1>2 DEF ProvenBefore
<1>3. QED
  BY <1>2 DEF ProvenBefore

LEMMA ReadStays ==
    ASSUME IInv, FactsInv, NEW s \in Sessions, due[s] \subseteq reached, ReadInv(s), Grows,
           snap'[s] = snap[s], due'[s] = due[s],
           pc'[s] \in {"collect", "post", "readback"} => pc[s] \in {"collect", "post", "readback"}
    PROVE  ReadInv(s)'
<1> SUFFICES ASSUME pc'[s] \in {"collect", "post", "readback"}
             PROVE  ReadInv(s)'
  BY DEF ReadInv
<1>1. now \in Nat
  BY FactTypes
<1>2. Past(snap[s].at) /\ Past(snap[s].at)'
  BY <1>1, PastStays DEF ReadInv
<1>3. CASE snap[s].family = "greptile"
  <2>1. \A x \in snap[s].subs : Past(x.at)'
    BY <1>1, <1>3, PastStays DEF ReadInv
  <2>2. SightedOk(s)' /\ ProvenBefore(s)'
    BY <1>2, <1>3, SightedStays, ProvenStays DEF ReadInv
  <2>3. QED
    BY <1>2, <1>3, <2>1, <2>2 DEF ReadInv
<1>4. CASE snap[s].family # "greptile"
  <2>1. tampered \subseteq tampered' /\ reached \subseteq reached'
    BY DEF Grows
  <2>2. ASSUME NEW c \in snap[s].comments
        PROVE  c \in Comment /\ Past(c.at)' /\ (c.calls => CallOf(c)') /\ (c.id \notin tampered' => c \in comments')
    <3>1. c \in Comment /\ Past(c.at) /\ (c.calls => CallOf(c)) /\ (c.id \notin tampered => c \in comments)
      BY <1>4 DEF ReadInv
    <3>2. Past(c.at)'
      BY <1>1, <3>1, PastStays
    <3>3. c.calls => CallOf(c)'
      BY <2>1, <3>1 DEF CallOf
    <3>4. c.id \notin tampered' => c \in comments'
      BY <2>1, <3>1 DEF Grows
    <3>5. QED
      BY <3>1, <3>2, <3>3, <3>4
  <2>3. \A q \in due[s] : q.marker \notin tampered' => Shows(snap[s].comments, q)
    BY <1>4, <2>1 DEF ReadInv
  <2>4. Shows(snap[s].comments, 0)' <=> Shows(snap'[s].comments, 0)
    BY DEF Shows
  <2>5. snap[s].family = "comments"
    BY <1>4 DEF ReadInv
  <2>6. \A q \in due'[s] : q.marker \notin tampered' => Shows(snap'[s].comments, q)
    BY <2>3
  <2>7. QED
    BY <1>2, <1>4, <2>2, <2>5, <2>6 DEF ReadInv, Shows
<1>5. QED
  BY <1>3, <1>4

\* A wait that was long enough stays so: what comes now is later.
LEMMA WaitedStays ==
    ASSUME IInv, Grows, NEW q, q.start \in Nat, NEW t, Past(t), Waited(q, t)
    PROVE  Waited(q, t)'
<1>1. t >= q.start + NoResponse /\ NoResponse \in Nat /\ now \in Nat /\ t \in Nat /\ t <= now
  BY FactTypes, ConstantsAssumption DEF Waited, Past
<1>2. now >= q.start + NoResponse
  BY <1>1
<1>3. ASSUME NEW k \in runs', k.id = q.res
      PROVE  k.at >= q.start + NoResponse
  <2>1. CASE \E r \in runs : r.id = k.id /\ r.at = k.at
    BY <1>3, <2>1 DEF Waited
  <2>2. CASE k.at \in Nat /\ now <= k.at
    BY <1>1, <1>2, <2>2
  <2>3. QED
    BY <2>1, <2>2 DEF Grows
<1>4. QED
  BY <1>1, <1>3 DEF Waited

LEMMA SightStays ==
    ASSUME Grows, NEW q, NEW v, InSight(q, v)'
    PROVE  InSight(q, v)
<1>1. tampered \subseteq tampered'
  BY DEF Grows
<1>2. ASSUME Unmeddled'
      PROVE  Unmeddled
  <2>1. \A r \in runs : ~r.automatic
    BY <1>2 DEF Unmeddled, Grows
  <2>2. QED
    BY <1>1, <1>2, <2>1 DEF Unmeddled
<1>3. QED
  BY <1>1, <1>2 DEF InSight

LEMMA VerdictStays ==
    ASSUME IInv, FactsInv, NEW s \in Sessions, due[s] \subseteq reached, VerdictInv(s), Grows,
           verdict'[s] = verdict[s], due'[s] = due[s],
           pc[s] = "done" => pc'[s] = "done", pc'[s] = "asked" => pc[s] = "asked"
    PROVE  VerdictInv(s)'
<1>1. now \in Nat
  BY FactTypes
<1>2. pc'[s] = "asked" => Past(verdict[s].seen)'
  BY <1>1, PastStays DEF VerdictInv
<1> SUFFICES ASSUME verdict[s] # None
             PROVE  VerdictInv(s)'
  BY <1>2 DEF VerdictInv
<1>3. /\ Past(verdict[s].seen) /\ \A a \in verdict[s].relied : Past(a.seen)
      /\ Past(verdict[s].seen)' /\ \A a \in verdict[s].relied : Past(a.seen)'
  BY <1>1, PastStays DEF VerdictInv
<1>4. ASSUME NEW q \in due[s], InSight(q, verdict[s])'
      PROVE  /\ verdict[s].rule = "R14.completed" => \E k \in runs' : k.id = q.res /\ k.status = "completed"
             /\ verdict[s].rule = "R14.no-response" => q.transport = "comment" /\ Waited(q, verdict[s].seen)'
             /\ verdict[s].rule = "R14.user-decision" => \E a \in verdict[s].relied : Waited(q, a.seen)'
  <2>1. InSight(q, verdict[s])
    <3>1. PICK v : v = verdict[s] /\ v = verdict'[s]
      OBVIOUS
    <3>2. InSight(q, v)'
      BY <1>4, <3>1
    <3>3. QED
      BY <3>1, <3>2, SightStays
  <2>2. q.start \in Nat
    BY DEF FactsInv, RequestOk, Past
  <2>3. verdict[s].rule = "R14.completed" => \E k \in runs' : k.id = q.res /\ k.status = "completed"
    BY <2>1 DEF VerdictInv, Earned, Grows
  <2>4. verdict[s].rule = "R14.no-response" => q.transport = "comment" /\ Waited(q, verdict[s].seen)'
    BY <1>3, <2>1, <2>2, WaitedStays DEF VerdictInv, Earned
  <2>5. verdict[s].rule = "R14.user-decision" => \E a \in verdict[s].relied : Waited(q, a.seen)'
    BY <1>3, <2>1, <2>2, WaitedStays DEF VerdictInv, Earned
  <2>6. QED
    BY <2>3, <2>4, <2>5
<1>5. Earned(s)'
  BY <1>4 DEF Earned, InSight, Unmeddled, Waited
<1>6. QED
  BY <1>2, <1>3, <1>5 DEF VerdictInv

(***************************************************************************)
(* What the policy has seen when it says "ready", for any observation.     *)
(***************************************************************************)
LEMMA CompletedMeans ==
    ASSUME NEW o, Decide(o) = "R14.completed"
    PROVE  /\ o.runs # {} /\ ~RunMayBeMissing(o)
           /\ \A r \in o.runs : r.status # "running" /\ r.status # "failed"
BY DEF Decide, Unresolved, UnexplainedRequest, Pending, PendingRow, TerminalRow, ReservationRow, RequestRow

LEMMA SilentMeans ==
    ASSUME NEW o, Decide(o) \in {"R14.no-response", "R14.user-decision"}
    PROVE  /\ o.runs = {} /\ ~(o.seen < LatestAt(Requests(o)) + NoResponse)
           /\ Decide(o) = "R14.no-response" => ByComment(Requests(o))
<1>1. o.runs = {} /\ Decide(o) = ReservationRow(o, OwnState(o))
  BY DEF Decide, PendingRow, TerminalRow
<1>2. Decide(o) = RequestRow(o, Requests(o))
  BY <1>1 DEF ReservationRow
<1>3. QED
  BY <1>1, <1>2 DEF RequestRow

\* A set of times that are past has a latest.
LEMMA LatestExists ==
    ASSUME NEW S, NEW m \in Nat, \A q \in S : q.at \in Nat /\ q.at <= m, NEW p \in S
    PROVE  LatestAt(S) \in Nat /\ \A q \in S : q.at <= LatestAt(S)
<1> DEFINE times == {q.at : q \in S}
           left == {m - t : t \in times}
<1>1. times \in SUBSET Nat /\ p.at \in times /\ \A t \in times : t <= m
  OBVIOUS
<1> HIDE DEF times
<1>2. left \in SUBSET Nat /\ left # {}
  BY <1>1
<1>3. PICK l \in left : \A k \in left : l <= k
  BY <1>2, LeastExists
<1>4. PICK t \in times : l = m - t
  OBVIOUS
<1>5. ASSUME NEW u \in times
      PROVE  u <= t
  <2>1. l <= m - u
    BY <1>3
  <2>2. u \in Nat /\ t \in Nat /\ u <= m /\ t <= m
    BY <1>1
  <2>3. QED
    BY <1>4, <2>1, <2>2
<1>6. LatestAt(S) = CHOOSE x \in times : \A q \in S : q.at <= x
  BY DEF LatestAt, times
<1>7. \A q \in S : q.at <= t
  BY <1>5 DEF times
<1>8. LatestAt(S) \in times /\ \A q \in S : q.at <= LatestAt(S)
  BY <1>6, <1>7
<1>9. QED
  BY <1>1, <1>8

\* Requests are dated in the past when the histories are.
LEMMA RequestDates ==
    ASSUME NEW o, NEW m \in Nat,
           \A c \in o.comments : c.at \in Nat /\ c.at <= m,
           \A x \in o.subs : x.at \in Nat /\ x.at <= m,
           \A j \in Journal(o) : j.resAt \in Nat /\ j.resAt <= m,
           NEW q \in Requests(o)
    PROVE  q.at \in Nat /\ q.at <= m
<1>1. CASE q \in TriggerRequests(o)
  BY <1>1 DEF TriggerRequests, Triggers, Request
<1>2. CASE q \in ReservationRequests(o)
  BY <1>2 DEF ReservationRequests, Reservations, Request
<1>3. CASE q \in DeletedRequests(o)
  BY <1>3 DEF DeletedRequests, Deleted, Request
<1>4. CASE q \in SubmissionRequests(o)
  <2>1. PICK x \in o.subs : q.at = SubmissionAt(o, x)
    BY <1>4 DEF SubmissionRequests, Consuming, Request
  <2> DEFINE shown == {c.at : c \in {d \in Markers(o) : d.id = x.res}}
             gone == {j.resAt : j \in {k \in Deleted(o) : k.res = x.res}}
  <2>2. \A t \in shown \cup gone : t \in Nat /\ t <= m
    BY DEF Markers, Deleted
  <2>3. SubmissionAt(o, x) = IF shown \cup gone = {} THEN x.at
                             ELSE CHOOSE t \in shown \cup gone : \A u \in gone : t <= u
    BY DEF SubmissionAt
  <2> HIDE DEF shown, gone
  <2>4. CASE shown \cup gone = {}
    BY <2>1, <2>3, <2>4
  <2>5. CASE gone # {}
    <3>1. \E t \in gone : \A u \in gone : t <= u
      BY <2>2, <2>5, LeastExists
    <3>2. SubmissionAt(o, x) \in shown \cup gone
      BY <2>3, <2>5, <3>1
    <3>3. QED
      BY <2>1, <2>2, <3>2
  <2>6. CASE gone = {} /\ shown # {}
    <3>1. SubmissionAt(o, x) \in shown \cup gone
      BY <2>3, <2>6
    <3>2. QED
      BY <2>1, <2>2, <3>1
  <2>7. QED
    BY <2>4, <2>5, <2>6
<1>5. QED
  BY <1>1, <1>2, <1>3, <1>4 DEF Requests

\* A request is asked about: some request of the policy carries its time.
Counted(o, q) == \E w \in Requests(o) : w.at = q.start

LEMMA TriggerCounts ==
    ASSUME NEW o, NEW q, Shows(o.comments, q), q.transport = "comment"
    PROVE  Counted(o, q)
<1>1. PICK c \in Triggers(o) : c.at = q.start
  BY DEF Shows, Triggers
<1> DEFINE w == Request(Ref("comment", c.id), c.at, c.calls /\ ~c.edited, c.calls /\ ~c.edited)
<1>2. w \in TriggerRequests(o) /\ w.at = q.start
  BY <1>1 DEF TriggerRequests, Request
<1>3. QED
  BY <1>2 DEF Counted, Requests

LEMMA ReservationCounts ==
    ASSUME NEW o, NEW q, NEW c \in Markers(o), c.kind = "reservation", c.at = q.start, IsRequest(o, c)
    PROVE  Counted(o, q)
<1>1. c \in {m \in Markers(o) \cap Reservations(o) : IsRequest(o, m)}
  BY DEF Markers, Reservations
<1> DEFINE w == Request(Ref("comment", c.id), c.at, FALSE, ~Uncertain(o, c))
<1>2. w \in ReservationRequests(o) /\ w.at = q.start
  BY <1>1 DEF ReservationRequests, Request
<1>3. QED
  BY <1>2 DEF Counted, Requests

\* What is confirmed is a comment that calls.
LEMMA ConfirmedCalls ==
    ASSUME NEW o, ByComment(Requests(o))
    PROVE  \E c \in o.comments : c.calls
<1>1. PICK w \in Requests(o) : w.confirmed
  BY DEF ByComment
<1>2. w \in TriggerRequests(o)
  BY <1>1 DEF Requests, ReservationRequests, SubmissionRequests, DeletedRequests, Request
<1>3. PICK c \in Triggers(o) :
         w = Request(Ref("comment", c.id), c.at, c.calls /\ ~c.edited, c.calls /\ ~c.edited)
  BY <1>2 DEF TriggerRequests
<1>4. w.confirmed = (c.calls /\ ~c.edited)
  BY <1>3 DEF Request
<1>5. QED
  BY <1>1, <1>3, <1>4 DEF Triggers

\* The requests that count have had their ten minutes.
LEMMA CountedWaits ==
    ASSUME NEW o, NEW m \in Nat,
           \A c \in o.comments : c.at \in Nat /\ c.at <= m,
           \A x \in o.subs : x.at \in Nat /\ x.at <= m,
           \A j \in Journal(o) : j.resAt \in Nat /\ j.resAt <= m,
           NEW q, q.start \in Nat, Counted(o, q)
    PROVE  /\ LatestAt(Requests(o)) \in Nat
           /\ \A t \in Nat : ~(t < LatestAt(Requests(o)) + NoResponse) => t >= q.start + NoResponse
<1>1. PICK w \in Requests(o) : w.at = q.start
  BY DEF Counted
<1>2. \A r \in Requests(o) : r.at \in Nat /\ r.at <= m
  BY RequestDates
<1>3. LatestAt(Requests(o)) \in Nat /\ w.at <= LatestAt(Requests(o))
  BY <1>2, LatestExists
<1>4. PICK l \in Nat : l = LatestAt(Requests(o))
  BY <1>3
<1>5. q.start <= l /\ NoResponse \in Nat
  BY <1>1, <1>3, <1>4, ConstantsAssumption
<1>6. \A t \in Nat : ~(t < l + NoResponse) => t >= q.start + NoResponse
  BY <1>5
<1>7. QED
  BY <1>4, <1>6

(***************************************************************************)
(* What a session decides on.                                              *)
(***************************************************************************)

\* Observation o is what session s may have read: of either history since it began.
ViewComments(s, o) ==
    /\ \A c \in o.comments :
          c \in Comment /\ Past(c.at) /\ (c.calls => CallOf(c)) /\ (c.id \notin tampered => c \in comments)
    /\ \A q \in due[s] : q.marker \notin tampered => Shows(o.comments, q)

ViewRecords(s, o) ==
    /\ \A x \in o.subs : Past(x.at) /\ (x.outcome = "not-submitted" => x \in subs)
    /\ \A q \in due[s], c \in comments : c.id < q.res =>
          /\ \E x \in o.subs : x.res = c.id /\ x.outcome = "not-submitted"
          /\ \A x \in o.subs : x.res = c.id => x.outcome = "not-submitted"

ViewRuns(o) ==
    /\ \A r \in o.runs :
          /\ r.status \in {"running"} \cup Endings
          /\ \E k \in runs : /\ k.id = r.id /\ k.automatic = r.automatic
                             /\ r.status # "running" => k.status = r.status
    /\ \A k \in runs : (k.at \in Nat /\ o.seen <= k.at) \/ \E r \in o.runs : r.id = k.id

View(s, o) ==
    /\ Past(o.seen) /\ o.answers = answers /\ o.released = Released(o)
    /\ ViewComments(s, o) /\ ViewRecords(s, o) /\ ViewRuns(o)

LEMMA ReleasedOnce ==
    ASSUME NEW raw
    PROVE  Read(raw).released = Released(Read(raw))
BY DEF Read, Released, Consuming, Journal, ProvenUnsent

LEMMA ProvenNow ==
    ASSUME IInv, FactsInv, NEW q \in reached, NEW c \in comments, c.id < q.res
    PROVE  /\ \E x \in subs : x.res = c.id /\ x.outcome = "not-submitted"
           /\ \A x \in subs : x.res = c.id => x.outcome = "not-submitted"
<1>1. PICK x \in subs : x.res = c.id /\ x.outcome = "not-submitted"
  BY ReachedIsLive DEF Proven
<1>2. \A y \in subs : y.res = c.id => y.outcome = "not-submitted"
  BY <1>1 DEF FactsInv
<1>3. QED
  BY <1>1, <1>2

\* What the histories show now.
LEMMA SightingsNow ==
    ASSUME FactsInv
    PROVE  /\ \A r \in Sightings :
                 /\ r.status \in {"running"} \cup Endings
                 /\ \E k \in runs : /\ k.id = r.id /\ k.automatic = r.automatic
                                    /\ r.status # "running" => k.status = r.status
           /\ \A k \in runs : \E r \in Sightings : r.id = k.id
<1>1. ASSUME NEW r \in Sightings
      PROVE  \E k \in runs : k.id = r.id /\ k.automatic = r.automatic /\ k.status = r.status
  BY DEF Sightings
<1>2. ASSUME NEW k \in runs
      PROVE  \E r \in Sightings : r.id = k.id
  <2> DEFINE r == [id |-> k.id, status |-> k.status, automatic |-> k.automatic, firstSeen |-> seen'[k.id]]
  <2>1. r \in Sightings /\ r.id = k.id
    BY DEF Sightings
  <2>2. QED
    BY <2>1
<1>3. \A k \in runs : k.status \in {"running"} \cup Endings
  BY DEF FactsInv, RunOk, Run
<1>4. QED
  BY <1>1, <1>2, <1>3

LEMMA CommentsShow ==
    ASSUME IInv, FactsInv
    PROVE  /\ \A c \in comments : c \in Comment /\ Past(c.at) /\ (c.calls => CallOf(c))
           /\ \A q \in reached : q.marker \notin tampered => Shows(comments, q)
<1>1. \A c \in comments : c \in Comment /\ Past(c.at) /\ (c.calls => CallOf(c))
  BY FactTypes DEF FactsInv, Past
<1>2. QED
  BY <1>1 DEF FactsInv, RequestOk

LEMMA ViewHolds ==
    ASSUME IInv, SightInv, NEW s \in Sessions, pc[s] = "collect", NEW entries
    PROVE  View(s, Read(Observation(s, entries)))
<1> DEFINE raw == Observation(s, entries)
           o == Read(raw)
<1>1. FactsInv /\ due[s] \subseteq reached /\ ReadInv(s) /\ SessionInv(s)
  BY DEF SightInv, LocalOk, IInv
<1>2. /\ o.comments = CommentsOf(s).comments /\ o.subs = GreptileOf(s).subs /\ o.runs = GreptileOf(s).runs
      /\ o.answers = answers /\ o.seen = snap[s].at /\ o.released = Released(o)
  BY ReleasedOnce DEF Read, Observation, SeenFirst
<1> SUFFICES View(s, o)
  OBVIOUS
<1> HIDE DEF o
<1>3. now \in Nat /\ Past(o.seen)
  BY <1>1, <1>2, FactTypes DEF ReadInv
<1>4. CASE snap[s].family = "greptile"
  <2>1. o.comments = comments /\ o.subs = snap[s].subs /\ o.runs = snap[s].runs
    BY <1>2, <1>4 DEF CommentsOf, CommentsNow, GreptileOf
  <2>2. /\ \A c \in o.comments : c \in Comment /\ Past(c.at) /\ (c.calls => CallOf(c)) /\ c \in comments
        /\ \A q \in due[s] : q.marker \notin tampered => Shows(o.comments, q)
    BY <1>1, <2>1, CommentsShow
  <2>3. \A x \in o.subs : Past(x.at) /\ (x.outcome = "not-submitted" => x \in subs)
    BY <1>1, <1>4, <2>1 DEF ReadInv, SessionInv
  <2>4. SightedOk(s) /\ ProvenBefore(s)
    BY <1>1, <1>4 DEF ReadInv
  <2>5. \A k \in runs : (k.at \in Nat /\ o.seen <= k.at) \/ \E r \in o.runs : r.id = k.id
    BY <1>1, <1>2, <1>3, <2>1, <2>4 DEF SightedOk, FactsInv, RunOk, Past
  <2>6. ViewComments(s, o)
    BY <2>2 DEF ViewComments
  <2>7. ViewRecords(s, o)
    BY <2>1, <2>3, <2>4 DEF ViewRecords, ProvenBefore
  <2>8. ViewRuns(o)
    BY <2>1, <2>4, <2>5 DEF ViewRuns, SightedOk
  <2>9. QED
    BY <1>2, <1>3, <2>6, <2>7, <2>8 DEF View
<1>5. CASE snap[s].family # "greptile"
  <2>1. o.comments = snap[s].comments /\ o.subs = subs /\ o.runs = Sightings
    BY <1>1, <1>2, <1>5 DEF CommentsOf, GreptileOf, GreptileNow, ReadInv
  <2>2. /\ \A c \in o.comments :
              c \in Comment /\ Past(c.at) /\ (c.calls => CallOf(c)) /\ (c.id \notin tampered => c \in comments)
        /\ \A q \in due[s] : q.marker \notin tampered => Shows(o.comments, q)
    BY <1>1, <1>5, <2>1 DEF ReadInv
  <2>3. \A x \in o.subs : Past(x.at)
    BY <1>1, <2>1 DEF FactsInv
  <2>4. \A q \in due[s], c \in comments : c.id < q.res =>
          /\ \E x \in o.subs : x.res = c.id /\ x.outcome = "not-submitted"
          /\ \A x \in o.subs : x.res = c.id => x.outcome = "not-submitted"
    BY <1>1, <2>1, ProvenNow
  <2>5. /\ \A r \in o.runs :
              /\ r.status \in {"running"} \cup Endings
              /\ \E k \in runs : /\ k.id = r.id /\ k.automatic = r.automatic
                                 /\ r.status # "running" => k.status = r.status
        /\ \A k \in runs : \E r \in o.runs : r.id = k.id
    BY <1>1, <2>1, SightingsNow
  <2>6. ViewComments(s, o)
    BY <2>2 DEF ViewComments
  <2>7. ViewRecords(s, o)
    BY <2>1, <2>3, <2>4 DEF ViewRecords
  <2>8. ViewRuns(o)
    BY <2>5 DEF ViewRuns
  <2>9. QED
    BY <1>2, <1>3, <2>6, <2>7, <2>8 DEF View
<1>6. QED
  BY <1>4, <1>5

\* A reservation something reached Greptile under is not released.
LEMMA ReachedUnreleased ==
    ASSUME IInv, NEW s \in Sessions, NEW o, View(s, o), NEW q \in reached
    PROVE  q.res \notin o.released
<1>1. SUFFICES ASSUME q.res \in o.released
               PROVE  FALSE
  OBVIOUS
<1>2. PICK x \in o.subs : x.res = q.res /\ x.outcome = "not-submitted"
  BY <1>1 DEF View, Released, Consuming
<1>3. Proven(q.res)
  BY <1>2 DEF View, ViewRecords, Proven
<1>4. QED
  BY <1>3, ReachedIsLive

\* With its journal in sight the reservation of a request is one.
LEMMA JournaledCounts ==
    ASSUME IInv, FactsInv, NEW s \in Sessions, NEW o, View(s, o), NEW q \in reached,
           Journal(o) = journal, q.transport = "mcp", q.marker \notin tampered, Shows(o.comments, q)
    PROVE  Counted(o, q) /\ \E j \in Attempts(o) : j.res = q.res
<1>1. PICK c \in o.comments : c.id = q.marker /\ c.at = q.start /\ c.kind = "reservation"
  BY DEF Shows
<1>2. q.marker = q.res /\ q.res \notin o.released
  BY ReachedUnreleased DEF FactsInv, RequestOk
<1>3. PICK j \in journal : Tried(j) /\ j.res = q.res
  BY DEF FactsInv, RequestOk
<1>4. j \in Attempts(o)
  BY <1>2, <1>3 DEF Attempts
<1>5. c \in Markers(o) /\ IsRequest(o, c)
  BY <1>1, <1>2, <1>3, <1>4 DEF Markers, IsRequest
<1>6. QED
  BY <1>1, <1>3, <1>4, <1>5, ReservationCounts

\* Without it, and with nobody meddling, the reservation is the first that counts: what came
\* before is released.
LEMMA FirstCounts ==
    ASSUME IInv, FactsInv, NEW s \in Sessions, NEW o, View(s, o), NEW q \in due[s], q \in reached,
           Journal(o) = {}, q.transport = "mcp", tampered = {}
    PROVE  Counted(o, q)
<1>1. q.marker = q.res /\ q.res \notin o.released
  BY ReachedUnreleased DEF FactsInv, RequestOk
<1>2. Shows(o.comments, q)
  BY DEF View, ViewComments
<1>3. PICK c \in o.comments : c.id = q.res /\ c.at = q.start /\ c.kind = "reservation"
  BY <1>1, <1>2 DEF Shows
<1>4. o.comments \subseteq comments /\ \A d \in o.comments : ~d.calls /\ ~d.edited
  <2>1. o.comments \subseteq comments
    BY DEF View, ViewComments
  <2>2. ASSUME NEW d \in o.comments
        PROVE  ~d.calls
    <3>1. d.calls => CallOf(d)
      BY DEF View, ViewComments
    <3>2. \A p \in reached : p = q
      BY ReachedIsLive
    <3>3. QED
      BY <3>1, <3>2 DEF CallOf
  <2>3. QED
    BY <2>1, <2>2 DEF FactsInv
<1>5. ASSUME NEW d \in Markers(o)
      PROVE  q.res <= d.id
  <2>1. d \in comments /\ d.id \in Nat /\ q.res \in Nat
    BY <1>4, ReachedIsLive, FactTypes DEF Markers
  <2>2. SUFFICES ASSUME d.id < q.res
                 PROVE  FALSE
    BY <2>1
  <2>3. /\ \E x \in o.subs : x.res = d.id /\ x.outcome = "not-submitted"
        /\ \A x \in o.subs : x.res = d.id => x.outcome = "not-submitted"
    BY <2>1, <2>2 DEF View, ViewRecords
  <2>4. d.id \in Released(o)
    BY <1>4, <2>3 DEF Released, Consuming
  <2>5. PICK x \in subs : x.res = d.id /\ x.outcome = "not-submitted"
    BY <2>3 DEF View, ViewRecords
  <2>6. PICK j \in journal : j.res = d.id
    BY <2>5 DEF IInv, AttemptInv
  <2>7. d.kind = "reservation"
    BY <2>1, <2>6 DEF FactsInv, Reserved
  <2>8. QED
    BY <2>4, <2>7 DEF Markers, View
<1>6. c \in Markers(o)
  BY <1>1, <1>3 DEF Markers
<1>7. IsWinner(o, c)
  <2>1. ASSUME NEW d \in Markers(o)
        PROVE  Earlier(c, d)
    <3>1. c \in comments /\ d \in comments /\ c.id <= d.id
      BY <1>3, <1>4, <1>5, <2>1 DEF Markers
    <3>2. c.at <= d.at
      BY <3>1 DEF IInv, MarkersInv
    <3>3. c.at \in Nat /\ d.at \in Nat
      BY <3>1, FactTypes
    <3>4. QED
      BY <3>1, <3>2, <3>3 DEF Earlier
  <2>2. QED
    BY <1>6, <2>1 DEF IsWinner
<1>8. ~OwnFresh(o, c)
  <2>1. Mine(o) = {}
    BY DEF Mine
  <2>2. QED
    BY <2>1 DEF OwnFresh, OwnState
<1>9. QED
  BY <1>3, <1>6, <1>7, <1>8, ReservationCounts DEF IsRequest

\* What a verdict has to see counts, unless it is exempt.
LEMMA SeenCounts ==
    ASSUME IInv, FactsInv, NEW s \in Sessions, NEW o, View(s, o), NEW q \in due[s], q \in reached,
           NEW v, InSight(q, v), IF v.blind THEN Journal(o) = {} ELSE Journal(o) = journal
    PROVE  Counted(o, q)
<1>1. q.marker \notin tampered /\ Shows(o.comments, q)
  BY DEF View, ViewComments, InSight
<1>2. q.transport \in {"mcp", "comment"}
  BY DEF FactsInv, RequestOk
<1>3. CASE q.transport = "comment"
  BY <1>1, <1>3, TriggerCounts
<1>4. CASE q.transport = "mcp" /\ ~v.blind
  BY <1>1, <1>4, JournaledCounts
<1>5. CASE q.transport = "mcp" /\ v.blind
  BY <1>5, FirstCounts DEF InSight, Unmeddled
<1>6. QED
  BY <1>2, <1>3, <1>4, <1>5

\* A run of ours is that of the one request.
LEMMA RunOfRequest ==
    ASSUME IInv, FactsInv, NEW q \in reached, NEW k \in runs, ~k.automatic
    PROVE  k.id = q.res
BY ReachedIsLive DEF FactsInv, RunOk, Run

LEMMA CompletedIsSo ==
    ASSUME IInv, FactsInv, NEW s \in Sessions, NEW o, View(s, o), NEW q \in due[s], q \in reached,
           NEW v, InSight(q, v), IF v.blind THEN Journal(o) = {} ELSE Journal(o) = journal,
           Decide(o) = "R14.completed"
    PROVE  \E r \in runs : r.id = q.res /\ r.status = "completed"
<1>1. /\ o.runs # {} /\ ~RunMayBeMissing(o)
      /\ \A r \in o.runs : r.status # "running" /\ r.status # "failed"
  BY CompletedMeans
<1>2. q.marker \notin tampered /\ Shows(o.comments, q)
  BY DEF View, ViewComments, InSight
<1>3. \E r \in o.runs : ~r.automatic
  <2>1. q.transport \in {"mcp", "comment"}
    BY DEF FactsInv, RequestOk
  <2>2. CASE q.transport = "comment"
    <3>1. PICK c \in o.comments : c.kind = "trigger"
      BY <1>2, <2>2 DEF Shows
    <3>2. c \in Markers(o)
      BY <3>1 DEF Markers
    <3>3. Explained(o, c.at)
      BY <1>1, <3>1, <3>2 DEF RunMayBeMissing
    <3>4. QED
      BY <3>3 DEF Explained
  <2>3. CASE q.transport = "mcp" /\ ~v.blind
    <3>1. PICK j \in Attempts(o) : j.res = q.res
      BY <1>2, <2>3, JournaledCounts
    <3>2. Explained(o, j.at)
      BY <1>1, <3>1 DEF RunMayBeMissing
    <3>3. QED
      BY <3>2 DEF Explained
  <2>4. CASE q.transport = "mcp" /\ v.blind
    <3>1. \A k \in runs : ~k.automatic
      BY <2>4 DEF InSight, Unmeddled
    <3>2. \A r \in o.runs : \E k \in runs : k.automatic = r.automatic
      BY DEF View, ViewRuns
    <3>3. QED
      BY <1>1, <3>1, <3>2
  <2>5. QED
    BY <2>1, <2>2, <2>3, <2>4
<1>4. PICK r \in o.runs : ~r.automatic
  BY <1>3
<1>5. PICK k \in runs : k.automatic = r.automatic /\ (r.status # "running" => k.status = r.status)
  BY DEF View, ViewRuns
<1>6. k.id = q.res
  BY <1>4, <1>5, RunOfRequest
<1>7. r.status = "completed"
  BY <1>1, ConstantsAssumption DEF View, ViewRuns
<1>8. QED
  BY <1>5, <1>6, <1>7

\* Whoever is told that no run will come, or proceeds at the user's word, has waited.
LEMMA SilentWaited ==
    ASSUME IInv, FactsInv, NEW s \in Sessions, NEW o, View(s, o), NEW q \in reached, Counted(o, q),
           Journal(o) \in {{}, journal},
           Decide(o) \in {"R14.no-response", "R14.user-decision"}
    PROVE  /\ LatestAt(Requests(o)) \in Nat
           /\ \A t \in Nat : ~(t < LatestAt(Requests(o)) + NoResponse) => Waited(q, t)
<1>1. now \in Nat /\ q.start \in Nat /\ NoResponse \in Nat
  BY FactTypes, ConstantsAssumption DEF FactsInv, RequestOk, Past
<1>2. /\ \A c \in o.comments : c.at \in Nat /\ c.at <= now
      /\ \A x \in o.subs : x.at \in Nat /\ x.at <= now
      /\ \A j \in Journal(o) : j.resAt \in Nat /\ j.resAt <= now
  BY DEF View, ViewComments, ViewRecords, FactsInv, Past
<1>3. /\ LatestAt(Requests(o)) \in Nat
      /\ \A t \in Nat : ~(t < LatestAt(Requests(o)) + NoResponse) => t >= q.start + NoResponse
  BY <1>1, <1>2, CountedWaits
<1>4. o.runs = {} /\ ~(o.seen < LatestAt(Requests(o)) + NoResponse)
  BY SilentMeans
<1>5. o.seen \in Nat /\ o.seen >= q.start + NoResponse
  BY <1>3, <1>4 DEF View, Past
<1>6. \A k \in runs : k.at \in Nat /\ o.seen <= k.at
  BY <1>4 DEF View, ViewRuns
<1>7. \A k \in runs : k.at >= q.start + NoResponse
  BY <1>1, <1>5, <1>6
<1>8. QED
  BY <1>3, <1>7 DEF Waited

LEMMA NoResponseIsByComment ==
    ASSUME IInv, FactsInv, NEW s \in Sessions, NEW o, View(s, o), NEW q \in reached,
           Decide(o) = "R14.no-response"
    PROVE  q.transport = "comment"
<1>1. PICK c \in o.comments : c.calls
  BY SilentMeans, ConfirmedCalls
<1>2. CallOf(c)
  BY <1>1 DEF View, ViewComments
<1>3. QED
  BY <1>2, ReachedIsLive DEF CallOf

LEMMA DecisionAnswered ==
    ASSUME NEW o, Decide(o) = "R14.user-decision"
    PROVE  \E a \in o.answers : Covers(Requests(o), a)
<1>1. Decide(o) = ReservationRow(o, OwnState(o))
  BY DEF Decide, PendingRow, TerminalRow
<1>2. Decide(o) = RequestRow(o, Requests(o))
  BY <1>1 DEF ReservationRow
<1>3. QED
  BY <1>2 DEF RequestRow

(***************************************************************************)
(* A decision.                                                             *)
(***************************************************************************)

\* What step of session s leaves the others as they are.
Apart(s) ==
    \A t \in Sessions \ {s} :
        /\ pc'[t] = pc[t] /\ own'[t] = own[t] /\ snap'[t] = snap[t]
        /\ due'[t] = due[t] /\ verdict'[t] = verdict[t]

LEMMA OnlyOne ==
    ASSUME IInv, LocalOk, Grows, FactsInv', NEW s \in Sessions, Apart(s),
           \A t \in Sessions : OwnInv(t) /\ ReadInv(t) /\ VerdictInv(t), FactsInv,
           due' = [t \in Sessions |-> due'[t]], verdict' = [t \in Sessions |-> verdict'[t]],
           due'[s] \subseteq reached', OwnInv(s)', ReadInv(s)', VerdictInv(s)'
    PROVE  SightInv'
<1>1. ASSUME NEW t \in Sessions \ {s}
      PROVE  due'[t] \subseteq reached' /\ OwnInv(t)' /\ ReadInv(t)' /\ VerdictInv(t)'
  <2>1. /\ pc'[t] = pc[t] /\ own'[t] = own[t] /\ snap'[t] = snap[t]
        /\ due'[t] = due[t] /\ verdict'[t] = verdict[t]
    BY DEF Apart
  <2>2. due[t] \subseteq reached
    BY DEF LocalOk
  <2>3. due'[t] \subseteq reached'
    BY <2>1, <2>2 DEF Grows
  <2>4. OwnInv(t)' /\ ReadInv(t)' /\ VerdictInv(t)'
    BY <2>1, <2>2, OwnStays, ReadStays, VerdictStays
  <2>5. QED
    BY <2>3, <2>4
<1>2. LocalOk'
  BY <1>1 DEF LocalOk
<1>3. \A t \in Sessions : OwnInv(t)' /\ ReadInv(t)' /\ VerdictInv(t)'
  BY <1>1
<1>4. QED
  BY <1>2, <1>3 DEF SightInv

\* Steps that leave the histories alone.
LEMMA Unmoved ==
    ASSUME IInv, FactsInv,
           UNCHANGED <<now, comments, lastId, tampered, journal, subs, answers, runs, reached>>
    PROVE  Grows /\ FactsInv'
<1>1. now <= now /\ lastId <= lastId
  BY FactTypes
<1>2. Grows
  BY <1>1, FactTypes DEF Grows
<1>3. FactsInv'
  BY DEF FactsInv, Past, Reserved, RunOk, RequestOk, CallOf, Shows, Tried
<1>4. QED
  BY <1>2, <1>3

\* A decision with what it was taken on.
Taken(s, entries, o) ==
    LET rule == Decide(o)
        next == After(rule)
    IN  /\ pc' = [pc EXCEPT ![s] = next]
        /\ verdict' = [verdict EXCEPT ![s] = IF next \in {"asked", "done"}
                                             THEN [rule |-> rule, seen |-> o.seen, edge |-> Edge(o, rule),
                                                   relied |-> Relied(o, rule), blind |-> entries = None]
                                             ELSE None]
        /\ due' = [due EXCEPT ![s] = IF next \in {"post", "done"} THEN @ ELSE {}]
        /\ own' = [own EXCEPT ![s] = IF next = "done" THEN None ELSE @]
        /\ snap' = [snap EXCEPT ![s] = IF next = "post" THEN GreptileOf(s) ELSE None]

LEMMA TakenOn ==
    ASSUME NEW s \in Sessions, TakeDecision(s)
    PROVE  /\ pc[s] = "collect"
           /\ \E entries \in {journal, None} : Taken(s, entries, Read(Observation(s, entries)))
           /\ UNCHANGED <<now, comments, lastId, tampered, journal, subs, answers, runs, reached>>
<1>1. /\ pc[s] = "collect"
      /\ DecideOn(s, journal) \/ DecideOn(s, None)
      /\ UNCHANGED <<now, comments, lastId, tampered, journal, subs, answers, runs, reached>>
  BY DEF TakeDecision, At, github, greptile, records
<1>2. PICK entries \in {journal, None} : DecideOn(s, entries)
  BY <1>1
<1>3. Taken(s, entries, Read(Observation(s, entries)))
  <2>1. PICK raw, o, rule, next :
            /\ raw \in {Observation(s, entries)} /\ o \in {Read(raw)}
            /\ rule \in {Decide(o)} /\ next \in {After(rule)}
            /\ pc' = [pc EXCEPT ![s] = next]
            /\ verdict' = [verdict EXCEPT ![s] =
                              IF next \in {"asked", "done"}
                              THEN [rule |-> rule, seen |-> o.seen, edge |-> Edge(o, rule),
                                    relied |-> Relied(o, rule), blind |-> entries = None]
                              ELSE None]
            /\ due' = [due EXCEPT ![s] = IF next \in {"post", "done"} THEN @ ELSE {}]
            /\ own' = [own EXCEPT ![s] = IF next = "done" THEN None ELSE @]
            /\ snap' = [snap EXCEPT ![s] = IF next = "post" THEN GreptileOf(s) ELSE None]
    BY <1>2, Zenon DEF DecideOn, Goto
  <2>2. raw = Observation(s, entries) /\ o = Read(raw) /\ rule = Decide(o) /\ next = After(rule)
    BY <2>1
  <2>3. Taken(s, entries, o)
    BY <2>1, <2>2, Zenon DEF Taken
  <2>4. QED
    BY <2>2, <2>3, Zenon
<1>4. QED
  BY <1>1, <1>3

LEMMA DecisionVerdict ==
    ASSUME IInv, SightInv, NEW s \in Sessions, NEW o, View(s, o), NEW entries \in {journal, None},
           Journal(o) = IF entries = None THEN {} ELSE entries,
           pc[s] = "collect", Taken(s, entries, o),
           UNCHANGED <<now, comments, lastId, tampered, journal, subs, answers, runs, reached>>
    PROVE  VerdictInv(s)'
<1> DEFINE rule == Decide(o)
           next == After(rule)
<1>1. FactsInv /\ LocalOk /\ TypeOK
  BY DEF SightInv, IInv
<1>2. PICK relied : relied = Relied(o, rule)
  OBVIOUS
<1>3. PICK v : v = [rule |-> rule, seen |-> o.seen, edge |-> Edge(o, rule), relied |-> relied,
                    blind |-> entries = None]
  OBVIOUS
<1>4. /\ pc'[s] = next /\ verdict'[s] = IF next \in {"asked", "done"} THEN v ELSE None
      /\ due'[s] = IF next \in {"post", "done"} THEN due[s] ELSE {}
  BY <1>1, <1>2, <1>3 DEF Taken, TypeOK, LocalOk
<1>5. /\ v.rule = rule /\ v.seen = o.seen /\ v.relied = relied /\ v.blind = (entries = None)
      /\ relied \subseteq answers
  BY <1>2, <1>3 DEF Relied, View
<1>6. \A a \in relied : rule = "R14.user-decision" /\ a \in answers /\ Covers(Requests(o), a)
  BY <1>2 DEF Relied, View
<1>7. rule = "R14.user-decision" => relied # {}
  BY <1>2, DecisionAnswered DEF Relied
<1>8. next = "post" => rule = "R13.record-reservation"
  BY AfterValues
<1> HIDE DEF next
<1>9. Past(v.seen)' /\ \A a \in v.relied : Past(a.seen)'
  BY <1>1, <1>5 DEF View, FactsInv, Past
<1>10. SUFFICES ASSUME verdict'[s] # None
               PROVE  VerdictInv(s)'
  BY <1>4, <1>9 DEF VerdictInv
<1>11. verdict'[s] = v /\ next \in {"asked", "done"}
  BY <1>4, <1>10
<1>12. pc'[s] # "done" => due'[s] = {}
  BY <1>4, <1>11
<1>13. IF v.blind THEN Journal(o) = {} ELSE Journal(o) = journal
  BY <1>5
<1>14. ASSUME NEW q \in due'[s], InSight(q, v)
       PROVE  /\ rule = "R14.completed" => \E r \in runs : r.id = q.res /\ r.status = "completed"
              /\ rule = "R14.no-response" => q.transport = "comment" /\ Waited(q, o.seen)
              /\ rule = "R14.user-decision" => \E a \in relied : Waited(q, a.seen)
  <2>1. q \in due[s] /\ q \in reached
    BY <1>1, <1>4, <1>14 DEF LocalOk
  <2>2. rule = "R14.completed" => \E r \in runs : r.id = q.res /\ r.status = "completed"
    BY <1>1, <1>13, <1>14, <2>1, CompletedIsSo
  <2>3. Counted(o, q)
    BY <1>1, <1>13, <1>14, <2>1, SeenCounts
  <2>4. Journal(o) \in {{}, journal}
    BY <1>13
  <2>5. ASSUME rule \in {"R14.no-response", "R14.user-decision"}
        PROVE  /\ LatestAt(Requests(o)) \in Nat
               /\ \A t \in Nat : ~(t < LatestAt(Requests(o)) + NoResponse) => Waited(q, t)
    BY <1>1, <2>1, <2>3, <2>4, <2>5, SilentWaited
  <2>6. ASSUME rule = "R14.no-response"
        PROVE  q.transport = "comment" /\ Waited(q, o.seen)
    <3>1. o.seen \in Nat /\ ~(o.seen < LatestAt(Requests(o)) + NoResponse)
      BY <2>6, SilentMeans DEF View, Past
    <3>2. QED
      BY <1>1, <2>1, <2>5, <2>6, <3>1, NoResponseIsByComment
  <2>7. ASSUME rule = "R14.user-decision"
        PROVE  \E a \in relied : Waited(q, a.seen)
    <3>1. PICK a \in relied : a \in answers /\ Covers(Requests(o), a)
      BY <1>6, <1>7, <2>7
    <3>2. a.seen \in Nat
      BY <1>1, <3>1 DEF FactsInv, Past
    <3>3. PICK l \in Nat : l = LatestAt(Requests(o))
      BY <2>5, <2>7
    <3>4. a.seen >= l + NoResponse
      BY <3>1, <3>3 DEF Covers
    <3>5. ~(a.seen < l + NoResponse)
      BY <3>2, <3>4, ConstantsAssumption
    <3>6. QED
      BY <2>5, <2>7, <3>1, <3>2, <3>3, <3>5
  <2>8. QED
    BY <2>2, <2>6, <2>7
<1>15. Earned(s)'
  BY <1>5, <1>11, <1>14 DEF Earned, InSight, Unmeddled, Waited
<1>16. QED
  BY <1>11, <1>9, <1>12, <1>15 DEF VerdictInv

\* Reading Greptile's histories now.
LEMMA GreptileRead ==
    ASSUME IInv, FactsInv, NEW s \in Sessions, snap'[s] = GreptileNow, due'[s] \subseteq reached,
           UNCHANGED <<now, comments, subs, runs>>
    PROVE  /\ snap'[s].family = "greptile" /\ Past(snap[s].at)' /\ \A x \in snap'[s].subs : Past(x.at)'
           /\ SightedOk(s)' /\ ProvenBefore(s)'
<1>1. /\ snap'[s].family = "greptile" /\ snap'[s].at = now /\ snap'[s].subs = subs /\ snap'[s].runs = Sightings
  BY DEF GreptileNow
<1>2. Past(snap[s].at)'
  <2>1. now \in Nat /\ now <= now
    BY FactTypes
  <2>2. QED
    BY <1>1, <2>1 DEF Past
<1>3. \A x \in snap'[s].subs : Past(x.at)'
  BY <1>1 DEF FactsInv, Past
<1>4. SightedOk(s)'
  <2>1. \A r \in snap'[s].runs :
              /\ r.status \in {"running"} \cup Endings
              /\ \E k \in runs' : /\ k.id = r.id /\ k.automatic = r.automatic
                                  /\ r.status # "running" => k.status = r.status
    BY <1>1, SightingsNow
  <2>2. \A k \in runs' : \E r \in snap'[s].runs : r.id = k.id
    BY <1>1, SightingsNow
  <2>3. QED
    BY <2>1, <2>2 DEF SightedOk
<1>5. ProvenBefore(s)'
  <2>1. \A q \in due'[s], c \in comments' : c.id < q.res =>
            /\ \E x \in snap'[s].subs : x.res = c.id /\ x.outcome = "not-submitted"
            /\ \A x \in snap'[s].subs : x.res = c.id => x.outcome = "not-submitted"
    BY <1>1, ProvenNow
  <2>2. QED
    BY <2>1 DEF ProvenBefore
<1>6. QED
  BY <1>1, <1>2, <1>3, <1>4, <1>5

LEMMA DecisionSight ==
    ASSUME IInv, SightInv, NEW s \in Sessions, TakeDecision(s)
    PROVE  SightInv'
<1>1. /\ FactsInv /\ LocalOk /\ TypeOK
      /\ \A t \in Sessions : OwnInv(t) /\ ReadInv(t) /\ VerdictInv(t)
  BY DEF SightInv, IInv
<1>2. /\ pc[s] = "collect"
      /\ UNCHANGED <<now, comments, lastId, tampered, journal, subs, answers, runs, reached>>
  BY TakenOn
<1>3. PICK entries \in {journal, None} : Taken(s, entries, Read(Observation(s, entries)))
  BY TakenOn
<1>4. PICK o : o = Read(Observation(s, entries)) /\ View(s, o)
  BY <1>2, ViewHolds
<1>5. Taken(s, entries, o)
  BY <1>3, <1>4
<1>6. Journal(o) = IF entries = None THEN {} ELSE entries
  BY <1>4 DEF Journal, Read, Observation
<1>7. VerdictInv(s)'
  BY <1>2, <1>4, <1>5, <1>6, DecisionVerdict
<1> DEFINE next == After(Decide(o))
<1>8. next \in {"post", "attempt", "asked", "done", "idle"}
  BY AfterValues
<1>9. /\ pc' = [pc EXCEPT ![s] = next] /\ pc'[s] = next
      /\ due' = [due EXCEPT ![s] = due'[s]] /\ due'[s] = IF next \in {"post", "done"} THEN due[s] ELSE {}
      /\ own' = [own EXCEPT ![s] = own'[s]] /\ own'[s] = IF next = "done" THEN None ELSE own[s]
      /\ snap' = [snap EXCEPT ![s] = snap'[s]] /\ snap'[s] = IF next = "post" THEN GreptileOf(s) ELSE None
      /\ verdict' = [verdict EXCEPT ![s] = verdict'[s]]
  BY <1>1, <1>5 DEF Taken, TypeOK, LocalOk
<1> HIDE DEF next
<1>10. Apart(s) /\ due' = [t \in Sessions |-> due'[t]] /\ verdict' = [t \in Sessions |-> verdict'[t]]
  BY <1>1, <1>9 DEF Apart, TypeOK, LocalOk
<1>11. due[s] \subseteq reached /\ due'[s] \subseteq reached
  BY <1>1, <1>9 DEF LocalOk
<1>12. Grows /\ FactsInv'
  BY <1>1, <1>2, Unmoved
<1>13. OwnInv(s)'
  <2>1. CASE own'[s] = own[s]
    BY <1>1, <1>8, <1>9, <1>12, <2>1, OwnStays
  <2>2. CASE own'[s] = None
    BY <1>8, <1>9, <2>2 DEF OwnInv
  <2>3. QED
    BY <1>9, <2>1, <2>2
<1>14. ReadInv(s)'
  <2>1. CASE next # "post"
    BY <1>8, <1>9, <2>1 DEF ReadInv
  <2>2. CASE next = "post" /\ snap[s].family = "greptile"
    BY <1>1, <1>2, <1>9, <1>11, <1>12, <2>2, ReadStays DEF GreptileOf
  <2>3. CASE next = "post" /\ snap[s].family # "greptile"
    <3>1. snap'[s] = GreptileNow
      BY <1>9, <2>3 DEF GreptileOf
    <3>2. QED
      BY <1>1, <1>2, <1>11, <3>1, GreptileRead DEF ReadInv
  <2>4. QED
    BY <2>1, <2>2, <2>3
<1>15. QED
  BY <1>1, <1>2, <1>7, <1>10, <1>11, <1>12, <1>13, <1>14, OnlyOne

LEMMA BeginSight ==
    ASSUME IInv, SightInv, NEW s \in Sessions, Begin(s)
    PROVE  SightInv'
<1>1. /\ FactsInv /\ LocalOk /\ TypeOK
      /\ \A t \in Sessions : OwnInv(t) /\ ReadInv(t) /\ VerdictInv(t)
  BY DEF SightInv, IInv
<1>2. /\ pc' = [pc EXCEPT ![s] = "collect"] /\ own' = [own EXCEPT ![s] = None]
      /\ verdict' = [verdict EXCEPT ![s] = None] /\ due' = [due EXCEPT ![s] = reached]
      /\ \E reading \in {CommentsNow, GreptileNow} : snap' = [snap EXCEPT ![s] = reading]
      /\ UNCHANGED <<now, comments, lastId, tampered, journal, subs, answers, runs, reached>>
  BY DEF Begin, Goto, github, greptile, records
<1>3. PICK reading \in {CommentsNow, GreptileNow} : snap' = [snap EXCEPT ![s] = reading]
  BY <1>2
<1>4. /\ pc'[s] = "collect" /\ own'[s] = None /\ verdict'[s] = None /\ due'[s] = reached
      /\ snap'[s] = reading
  BY <1>1, <1>2, <1>3 DEF TypeOK, LocalOk
<1>5. Apart(s) /\ due' = [t \in Sessions |-> due'[t]] /\ verdict' = [t \in Sessions |-> verdict'[t]]
  BY <1>1, <1>2, <1>3 DEF Apart, TypeOK, LocalOk
<1>6. Grows /\ FactsInv'
  BY <1>1, <1>2, Unmoved
<1>7. OwnInv(s)' /\ VerdictInv(s)'
  BY <1>4 DEF OwnInv, VerdictInv
<1>8. ReadInv(s)'
  <2>1. CASE reading = GreptileNow
    <3>1. snap'[s] = GreptileNow
      BY <1>4, <2>1
    <3>2. QED
      BY <1>1, <1>2, <1>4, <3>1, GreptileRead DEF ReadInv
  <2>2. CASE reading = CommentsNow
    <3>1. snap'[s].family = "comments" /\ snap'[s].comments = comments /\ snap'[s].at = now
      BY <1>4, <2>2 DEF CommentsNow
    <3>2. Past(snap[s].at)'
      <4>1. now \in Nat /\ now <= now
        BY FactTypes
      <4>2. QED
        BY <1>2, <3>1, <4>1 DEF Past
    <3>3. \A c \in comments : c \in Comment /\ Past(c.at)' /\ (c.calls => CallOf(c)')
      BY <1>1, <1>2, CommentsShow DEF Past, CallOf
    <3>4. \A q \in reached : q.marker \notin tampered => Shows(comments, q)
      BY <1>1, CommentsShow
    <3>5. \A q \in due'[s] : q.marker \notin tampered' => Shows(snap'[s].comments, q)
      BY <1>2, <1>4, <3>1, <3>4
    <3>6. \A c \in snap'[s].comments : c \in Comment /\ Past(c.at)' /\ (c.calls => CallOf(c)') /\ c \in comments'
      BY <1>2, <3>1, <3>3
    <3>7. QED
      BY <3>1, <3>2, <3>5, <3>6 DEF ReadInv, Shows
  <2>3. QED
    BY <2>1, <2>2
<1>9. QED
  BY <1>1, <1>2, <1>4, <1>5, <1>6, <1>7, <1>8, OnlyOne

(***************************************************************************)
(* The other steps.                                                        *)
(***************************************************************************)

\* Steps of session s between a decision and its end.
Moves(s, place) ==
    /\ pc' = [pc EXCEPT ![s] = place] /\ pc[s] # "done" /\ place \notin {"asked", "done"}
    /\ place \in {"collect", "post", "readback"} => pc[s] \in {"collect", "post", "readback"}
    /\ \A t \in Sessions \ {s} : own'[t] = own[t]
    /\ UNCHANGED <<snap, verdict, due>>

LEMMA MoveSight ==
    ASSUME IInv, SightInv, Grows, FactsInv', NEW s \in Sessions, NEW place, Moves(s, place), OwnInv(s)'
    PROVE  SightInv'
<1>1. /\ FactsInv /\ LocalOk /\ TypeOK
      /\ \A t \in Sessions : OwnInv(t) /\ ReadInv(t) /\ VerdictInv(t)
  BY DEF SightInv, IInv
<1>2. /\ pc'[s] = place /\ \A t \in Sessions \ {s} : pc'[t] = pc[t] /\ own'[t] = own[t]
      /\ pc[s] # "done" /\ place \notin {"asked", "done"}
      /\ place \in {"collect", "post", "readback"} => pc[s] \in {"collect", "post", "readback"}
      /\ UNCHANGED <<snap, verdict, due>>
  BY <1>1 DEF TypeOK, Moves
<1>3. Apart(s) /\ due' = [t \in Sessions |-> due'[t]] /\ verdict' = [t \in Sessions |-> verdict'[t]]
  BY <1>1, <1>2 DEF Apart, LocalOk
<1>4. due[s] \subseteq reached /\ due'[s] \subseteq reached'
  BY <1>1, <1>2 DEF LocalOk, Grows
<1>5. ReadInv(s)'
  BY <1>1, <1>2, <1>4, ReadStays
<1>6. VerdictInv(s)'
  BY <1>1, <1>2, <1>4, VerdictStays
<1>7. QED
  BY <1>1, <1>3, <1>4, <1>5, <1>6, OnlyOne

\* Steps of nobody here.
LEMMA AroundSight ==
    ASSUME IInv, SightInv, Grows, FactsInv', UNCHANGED <<pc, own, snap, verdict, due>>
    PROVE  SightInv'
<1>1. FactsInv /\ LocalOk /\ \A t \in Sessions : OwnInv(t) /\ ReadInv(t) /\ VerdictInv(t)
  BY DEF SightInv
<1>2. ASSUME NEW t \in Sessions
      PROVE  due[t] \subseteq reached' /\ OwnInv(t)' /\ ReadInv(t)' /\ VerdictInv(t)'
  <2>1. due[t] \subseteq reached
    BY <1>1 DEF LocalOk
  <2>2. due[t] \subseteq reached'
    BY <2>1 DEF Grows
  <2>3. QED
    BY <1>1, <2>1, <2>2, OwnStays, ReadStays, VerdictStays
<1>3. LocalOk'
  BY <1>1, <1>2 DEF LocalOk
<1>4. QED
  BY <1>2, <1>3 DEF SightInv

\* A new comment.
LEMMA CommentGrows ==
    ASSUME IInv, comments' \in SUBSET Comment, NEW kind, NEW calls, AddComment(kind, calls),
           reached \subseteq reached', UNCHANGED <<now, runs, journal>>
    PROVE  /\ Grows /\ lastId' = lastId + 1 /\ tampered' = tampered
           /\ comments' = comments \cup {[id |-> lastId + 1, kind |-> kind, head |-> Head, at |-> now,
                                          calls |-> calls, edited |-> FALSE]}
<1>1. /\ lastId' = lastId + 1 /\ tampered' = tampered
      /\ comments' = comments \cup {[id |-> lastId + 1, kind |-> kind, head |-> Head, at |-> now,
                                     calls |-> calls, edited |-> FALSE]}
  BY DEF AddComment
<1>2. now \in Nat /\ lastId \in Nat
  BY FactTypes
<1>3. now' \in Nat /\ now <= now' /\ lastId <= lastId' /\ lastId + 1 > lastId
  BY <1>1, <1>2
<1>4. \A c \in comments' : c.id > lastId \/ \E d \in comments : d.id = c.id /\ d.kind = c.kind
  BY <1>1, <1>3
<1>5. QED
  BY <1>1, <1>3, <1>4 DEF Grows

LEMMA PostSight ==
    ASSUME IInv, IInv', SightInv, NEW s \in Sessions, PostReservation(s)
    PROVE  SightInv'
<1>1. FactsInv /\ TypeOK /\ TypeOK'
  BY DEF SightInv, IInv
<1>2. /\ pc[s] = "post" /\ pc' = [pc EXCEPT ![s] = "readback"]
      /\ AddComment("reservation", FALSE)
      /\ own' = [own EXCEPT ![s] = [id |-> lastId + 1, at |-> now]]
      /\ UNCHANGED <<now, runs, reached, journal, subs, answers, snap, verdict, due>>
  BY DEF PostReservation, At, Goto, greptile, records
<1>3. PICK c : /\ comments' = comments \cup {c} /\ c.id = lastId + 1 /\ c.at = now
               /\ c.kind = "reservation" /\ ~c.calls /\ ~c.edited
  <2> DEFINE c == [id |-> lastId + 1, kind |-> "reservation", head |-> Head, at |-> now,
                   calls |-> FALSE, edited |-> FALSE]
  <2>1. comments' = comments \cup {c}
    BY <1>2, Zenon DEF AddComment
  <2>2. c.id = lastId + 1 /\ c.at = now /\ c.kind = "reservation" /\ ~c.calls /\ ~c.edited
    OBVIOUS
  <2> HIDE DEF c
  <2>3. QED
    BY <2>1, <2>2
<1>4. Grows /\ lastId' = lastId + 1 /\ tampered' = tampered
  BY <1>1, <1>2, CommentGrows DEF TypeOK
<1>5. lastId \in Nat /\ now \in Nat /\ now <= now
  BY FactTypes
<1>6. \A i \in tampered' : i \in Nat /\ i <= lastId'
  BY <1>1, <1>4, <1>5 DEF FactsInv
<1>7. FactsInv'
  BY <1>1, <1>2, <1>3, <1>4, <1>6, FactsStay DEF FactsInv
<1>8. OwnInv(s)'
  <2>1. own'[s].id = lastId + 1 /\ own'[s].at = now /\ pc'[s] = "readback"
    BY <1>1, <1>2 DEF TypeOK
  <2>2. own'[s].id # 0 /\ own'[s].id \notin tampered'
    BY <1>1, <1>4, <1>5, <2>1 DEF FactsInv
  <2>3. \A d \in comments : d.id # lastId + 1
    BY <1>5, FactTypes
  <2>4. Reserved(own[s].id)'
    BY <1>3, <2>1, <2>3 DEF Reserved
  <2>5. Past(own[s].at)'
    BY <1>2, <1>5, <2>1 DEF Past
  <2>6. \E d \in comments' : /\ d.id = own'[s].id /\ d.at = own'[s].at
                             /\ ~d.edited /\ d.kind = "reservation"
    BY <1>3, <2>1
  <2>7. QED
    BY <2>1, <2>2, <2>4, <2>5, <2>6 DEF OwnInv
<1>9. Moves(s, "readback")
  BY <1>1, <1>2 DEF TypeOK, Moves
<1>10. QED
  BY <1>4, <1>7, <1>8, <1>9, MoveSight

\* A new entry of the journal.
LEMMA WriteSight ==
    ASSUME IInv, SightInv, NEW s \in Sessions, own[s] # None,
           NEW confirmed, NEW phase, NEW transport, Write(s, confirmed, phase, transport),
           UNCHANGED <<now, comments, lastId, tampered, runs, reached>>
    PROVE  /\ Grows /\ FactsInv'
           /\ \E j \in journal' : j.res = own[s].id /\ j.phase = phase /\ j.transport = transport
<1>1. FactsInv /\ OwnInv(s) /\ comments \in SUBSET Comment
  BY FactTypes DEF SightInv
<1>2. PICK j : /\ journal' = journal \cup {j} /\ j.res = own[s].id /\ j.resAt = own[s].at
               /\ j.phase = phase /\ j.transport = transport
  <2> DEFINE j == [res |-> own[s].id, resAt |-> own[s].at, head |-> Head, session |-> s, obs |-> obs[s],
                   confirmed |-> confirmed, phase |-> phase, transport |-> transport, at |-> now]
  <2>1. journal' = journal \cup {j}
    BY Zenon DEF Write
  <2>2. j.res = own[s].id /\ j.resAt = own[s].at /\ j.phase = phase /\ j.transport = transport
    OBVIOUS
  <2> HIDE DEF j
  <2>3. QED
    BY <2>1, <2>2
<1>3. UNCHANGED <<subs, answers>>
  BY DEF Write
<1>4. now \in Nat /\ now <= now /\ lastId \in Nat /\ lastId <= lastId
  BY FactTypes
<1>5. Grows
  BY <1>1, <1>2, <1>4 DEF Grows
<1>6. Past(j.resAt)' /\ Reserved(j.res)'
  BY <1>1, <1>2 DEF OwnInv, Past, Reserved
<1>7. FactsInv'
  BY <1>1, <1>2, <1>3, <1>5, <1>6, FactsStay DEF FactsInv
<1>8. QED
  BY <1>2, <1>5, <1>7

LEMMA ReadBackSight ==
    ASSUME IInv, SightInv, NEW s \in Sessions, ReadBack(s)
    PROVE  SightInv'
<1>1. /\ pc[s] = "readback" /\ pc' = [pc EXCEPT ![s] = "collect"]
      /\ \E confirmed \in BOOLEAN : Write(s, confirmed, "confirmed-unattempted", "none")
      /\ UNCHANGED <<now, comments, lastId, tampered, runs, reached, own, snap, verdict, due>>
  BY DEF ReadBack, At, Goto, github, greptile
<1>2. own[s] # None /\ OwnInv(s) /\ pc'[s] = "collect"
  BY <1>1 DEF IInv, SessionInv, SightInv, TypeOK
<1>3. Grows /\ FactsInv'
  BY <1>1, <1>2, WriteSight
<1>4. OwnInv(s)'
  BY <1>1, <1>2, <1>3, OwnStays
<1>5. Moves(s, "collect")
  BY <1>1 DEF Moves
<1>6. QED
  BY <1>3, <1>4, <1>5, MoveSight

LEMMA AttemptSight ==
    ASSUME IInv, SightInv, NEW s \in Sessions, Attempt(s)
    PROVE  SightInv'
<1>1. PICK t \in Transports : /\ \E confirmed \in BOOLEAN : Write(s, confirmed, "attempted", t)
                              /\ pc' = [pc EXCEPT ![s] = IF t = "mcp" THEN "send-mcp" ELSE "send-comment"]
  BY DEF Attempt, Goto
<1>2. /\ pc[s] = "attempt"
      /\ UNCHANGED <<now, comments, lastId, tampered, runs, reached, own, snap, verdict, due>>
  BY DEF Attempt, At, github, greptile
<1>3. PICK place \in {"send-mcp", "send-comment"} :
          /\ pc' = [pc EXCEPT ![s] = place] /\ pc'[s] = place
          /\ place = "send-mcp" => t = "mcp"
  BY <1>1 DEF IInv, TypeOK
<1>4. own[s] # None /\ OwnInv(s)
  BY <1>2 DEF IInv, SessionInv, SightInv
<1>5. Grows /\ FactsInv' /\ \E j \in journal' : j.res = own[s].id /\ j.phase = "attempted" /\ j.transport = t
  BY <1>1, <1>2, <1>4, WriteSight
<1>6. OwnInv(s)'
  <2>1. \E j \in journal' : Tried(j) /\ j.res = own[s].id /\ j.transport = t
    BY <1>5 DEF Tried
  <2>2. own[s] # None => Past(own[s].at)' /\ Reserved(own[s].id)'
    BY <1>2, <1>4 DEF OwnInv, Past, Reserved
  <2>3. own[s].id \notin tampered =>
            \E c \in comments : c.id = own[s].id /\ c.at = own[s].at /\ ~c.edited /\ c.kind = "reservation"
    BY <1>4 DEF OwnInv
  <2>4. QED
    BY <1>2, <1>3, <1>4, <2>1, <2>2, <2>3 DEF OwnInv
<1>7. Moves(s, place)
  BY <1>1, <1>2, <1>3 DEF Moves
<1>8. QED
  BY <1>5, <1>6, <1>7, MoveSight

LEMMA SendMcpSight ==
    ASSUME IInv, SightInv, NEW s \in Sessions, SendMcp(s)
    PROVE  SightInv'
<1>1. /\ pc[s] = "send-mcp" /\ pc' = [pc EXCEPT ![s] = "record"]
      /\ Reach(s, "mcp", own[s].id, own[s].at) \/ UNCHANGED <<runs, reached>>
      /\ UNCHANGED <<now, comments, lastId, tampered, journal, subs, answers, own, snap, verdict, due>>
  BY DEF SendMcp, At, Goto, github, greptile, records
<1>2. FactsInv /\ OwnInv(s) /\ own[s] # None /\ own[s].id \in Nat /\ pc'[s] = "record"
  BY <1>1 DEF IInv, SessionInv, SightInv, TypeOK, Reservation
<1>3. UNCHANGED runs /\ (UNCHANGED reached \/ \E q :
          /\ reached' = reached \cup {q} /\ q.res = own[s].id /\ q.transport = "mcp"
          /\ q.marker = own[s].id /\ q.start = own[s].at)
  BY <1>1 DEF Reach
<1>4. now \in Nat /\ now <= now /\ lastId \in Nat /\ lastId <= lastId /\ comments \in SUBSET Comment
  BY FactTypes
<1>5. Grows
  BY <1>1, <1>3, <1>4 DEF Grows
<1>6. \A q \in reached' : q \in reached \/ RequestOk(q)'
  <2>1. SUFFICES ASSUME NEW q, /\ q.res = own[s].id /\ q.transport = "mcp"
                               /\ q.marker = own[s].id /\ q.start = own[s].at
                 PROVE  RequestOk(q)'
    BY <1>3
  <2>2. q.res \in Nat \ {0} /\ Past(q.start)'
    BY <1>1, <1>2, <2>1 DEF OwnInv, Past
  <2>3. q.marker \notin tampered => Shows(comments, q)
    BY <1>2, <2>1 DEF OwnInv, Shows
  <2>4. \E j \in journal : Tried(j) /\ j.res = q.res /\ j.transport # "comment"
    BY <1>1, <1>2, <2>1 DEF OwnInv
  <2>5. QED
    BY <1>1, <2>1, <2>2, <2>3, <2>4 DEF RequestOk, Shows, Tried
<1>7. FactsInv'
  BY <1>1, <1>2, <1>3, <1>5, <1>6, FactsStay DEF FactsInv
<1>8. OwnInv(s)'
  BY <1>1, <1>2, <1>5, OwnStays
<1>9. Moves(s, "record")
  BY <1>1 DEF Moves
<1>10. QED
  BY <1>5, <1>7, <1>8, <1>9, MoveSight

\* A trigger comment, which gets to Greptile if it carries the call.
LEMMA SendCommentSight ==
    ASSUME IInv, IInv', SightInv, NEW s \in Sessions, SendComment(s)
    PROVE  SightInv'
<1>1. /\ pc[s] = "send-comment" /\ pc' = [pc EXCEPT ![s] = "idle"]
      /\ \/ AddComment("trigger", TRUE) /\ Reach(s, "comment", lastId + 1, now)
         \/ AddComment("trigger", FALSE) /\ UNCHANGED <<runs, reached>>
         \/ UNCHANGED <<comments, lastId, tampered, runs, reached>>
      /\ UNCHANGED <<now, journal, subs, answers, own, snap, verdict, due>>
  BY DEF SendComment, At, Goto, github, greptile, records
<1>2. /\ FactsInv /\ OwnInv(s) /\ own[s] # None /\ own[s].id \in Nat /\ pc'[s] = "idle"
      /\ comments' \in SUBSET Comment
  BY <1>1 DEF IInv, SessionInv, SightInv, TypeOK, Reservation
<1>3. now \in Nat /\ now <= now /\ lastId \in Nat
  BY FactTypes
<1>4. Grows /\ FactsInv'
  <2>1. CASE UNCHANGED <<comments, lastId, tampered, runs, reached>>
    BY <1>1, <1>2, <2>1, Unmoved
  <2>2. ASSUME NEW calls \in BOOLEAN, AddComment("trigger", calls), UNCHANGED runs,
               IF calls
               THEN \E q : /\ reached' = reached \cup {q} /\ q.res = own[s].id /\ q.transport = "comment"
                           /\ q.marker = lastId + 1 /\ q.start = now
               ELSE UNCHANGED reached
        PROVE  Grows /\ FactsInv'
    <3>1. Grows /\ lastId' = lastId + 1 /\ tampered' = tampered
      BY <1>1, <1>2, <2>2, CommentGrows
    <3>2. PICK c : /\ comments' = comments \cup {c} /\ c.id = lastId + 1 /\ c.at = now
                   /\ c.kind = "trigger" /\ c.calls = calls /\ ~c.edited
      <4> DEFINE c == [id |-> lastId + 1, kind |-> "trigger", head |-> Head, at |-> now,
                       calls |-> calls, edited |-> FALSE]
      <4>1. comments' = comments \cup {c}
        BY <2>2, Zenon DEF AddComment
      <4>2. c.id = lastId + 1 /\ c.at = now /\ c.kind = "trigger" /\ c.calls = calls /\ ~c.edited
        OBVIOUS
      <4> HIDE DEF c
      <4>3. QED
        BY <4>1, <4>2
    <3>3. \A i \in tampered' : i \in Nat /\ i <= lastId'
      BY <1>2, <1>3, <3>1 DEF FactsInv
    <3>4. \A q \in reached' : q \in reached \/ RequestOk(q)'
      <4>1. SUFFICES ASSUME NEW q, calls, q.res = own[s].id, q.transport = "comment",
                            q.marker = lastId + 1, q.start = now
                     PROVE  RequestOk(q)'
        BY <2>2
      <4>2. q.res \in Nat \ {0} /\ Past(q.start)'
        BY <1>1, <1>2, <1>3, <4>1 DEF OwnInv, Past
      <4>3. Shows(comments', q)
        BY <3>2, <4>1 DEF Shows
      <4>4. QED
        BY <4>1, <4>2, <4>3 DEF RequestOk, Shows
    <3>5. \A d \in comments' : d \in comments \/ ((d.calls => CallOf(d)') /\ (d.edited => d.id \in tampered'))
      BY <2>2, <3>2 DEF CallOf
    <3>6. FactsInv'
      BY <1>1, <1>2, <2>2, <3>1, <3>3, <3>4, <3>5, FactsStay DEF FactsInv
    <3>7. QED
      BY <3>1, <3>6
  <2>3. CASE AddComment("trigger", TRUE) /\ Reach(s, "comment", lastId + 1, now)
    <3>1. UNCHANGED runs
      BY <2>3 DEF Reach
    <3>2. \E q : /\ reached' = reached \cup {q} /\ q.res = own[s].id /\ q.transport = "comment"
                 /\ q.marker = lastId + 1 /\ q.start = now
      <4> DEFINE q == [res |-> own[s].id, transport |-> "comment", marker |-> lastId + 1, start |-> now]
      <4>1. reached' = reached \cup {q}
        BY <2>3, Zenon DEF Reach
      <4>2. q.res = own[s].id /\ q.transport = "comment" /\ q.marker = lastId + 1 /\ q.start = now
        OBVIOUS
      <4> HIDE DEF q
      <4>3. QED
        BY <4>1, <4>2
    <3>3. QED
      BY <2>2, <2>3, <3>1, <3>2
  <2>4. CASE AddComment("trigger", FALSE) /\ UNCHANGED <<runs, reached>>
    BY <2>2, <2>4
  <2>5. QED
    BY <1>1, <2>1, <2>3, <2>4
<1>5. OwnInv(s)'
  BY <1>1, <1>2, <1>4, OwnStays
<1>6. Moves(s, "idle")
  BY <1>1 DEF Moves
<1>7. QED
  BY <1>4, <1>5, <1>6, MoveSight

LEMMA RecordSight ==
    ASSUME IInv, SightInv, NEW s \in Sessions, RecordAttempt(s)
    PROVE  SightInv'
<1>1. /\ pc[s] = "record" /\ pc' = [pc EXCEPT ![s] = "idle"]
      /\ UNCHANGED <<now, comments, lastId, tampered, journal, runs, reached, answers, own, snap, verdict, due>>
  BY DEF RecordAttempt, At, Goto, github, greptile
<1>2. /\ FactsInv /\ OwnInv(s) /\ own[s] # None /\ pc'[s] = "idle"
      /\ \E j \in journal : Tried(j) /\ j.res = own[s].id
  BY <1>1 DEF IInv, SessionInv, SightInv, TypeOK
<1> DEFINE attempt == CHOOSE j \in journal : j.res = own[s].id /\ j.phase = "attempted"
<1>3. attempt \in journal
  BY <1>2 DEF IInv, TypeOK, Entry, Tried
<1>4. attempt.at \in Nat /\ attempt.at <= now
  BY <1>3 DEF IInv, TypeOK, Entry, MarkersInv
<1>5. PICK x : /\ subs' = subs \cup {x} /\ x.res = own[s].id /\ x.at = attempt.at
               /\ x.outcome # "not-submitted"
  <2> DEFINE Record(outcome, run) == [id |-> own[s].id, res |-> own[s].id, session |-> s, obs |-> obs[s],
                                      at |-> attempt.at, outcome |-> outcome, run |-> run]
  <2>1. \E outcome \in {"accepted", "ambiguous"} : \E run : subs' = subs \cup {Record(outcome, run)}
    BY Zenon DEF RecordAttempt
  <2>2. PICK outcome \in {"accepted", "ambiguous"} : \E run : subs' = subs \cup {Record(outcome, run)}
    BY <2>1
  <2>3. outcome # "not-submitted"
    OBVIOUS
  <2>4. PICK run : subs' = subs \cup {Record(outcome, run)}
    BY <2>2
  <2> DEFINE x == Record(outcome, run)
  <2>5. subs' = subs \cup {x}
    BY <2>4
  <2>6. x.res = own[s].id /\ x.at = attempt.at /\ x.outcome # "not-submitted"
    BY <2>3
  <2> HIDE DEF x
  <2>7. QED
    BY <2>5, <2>6
<1> HIDE DEF attempt
<1>6. now \in Nat /\ now <= now /\ lastId \in Nat /\ lastId <= lastId /\ comments \in SUBSET Comment
  BY FactTypes
<1>7. Grows
  BY <1>1, <1>6 DEF Grows
<1>8. Past(x.at)'
  BY <1>1, <1>4, <1>5 DEF Past
<1>9. \A y \in subs : y.res = own[s].id => y.outcome # "not-submitted"
  BY <1>1, <1>2 DEF IInv, AttemptInv, Owns
<1>10. \A y, z \in subs' : y.res = z.res /\ y.outcome = "not-submitted" => z.outcome = "not-submitted"
  BY <1>2, <1>5, <1>9 DEF FactsInv
<1>11. FactsInv'
  BY <1>1, <1>2, <1>5, <1>7, <1>8, <1>10, FactsStay DEF FactsInv
<1>12. OwnInv(s)'
  BY <1>1, <1>2, <1>7, OwnStays
<1>13. Moves(s, "idle")
  BY <1>1 DEF Moves
<1>14. QED
  BY <1>7, <1>11, <1>12, <1>13, MoveSight

LEMMA KillSight ==
    ASSUME IInv, SightInv, NEW s \in Sessions, Kill(s)
    PROVE  SightInv'
<1>1. /\ FactsInv /\ LocalOk /\ TypeOK
      /\ \A t \in Sessions : OwnInv(t) /\ ReadInv(t) /\ VerdictInv(t)
  BY DEF SightInv, IInv
<1>2. /\ pc' = [pc EXCEPT ![s] = "dead"] /\ own' = [own EXCEPT ![s] = None]
      /\ snap' = [snap EXCEPT ![s] = None] /\ verdict' = [verdict EXCEPT ![s] = None]
      /\ due' = [due EXCEPT ![s] = {}]
      /\ UNCHANGED <<now, comments, lastId, tampered, journal, subs, answers, runs, reached>>
  BY DEF Kill, Goto, github, greptile, records
<1>3. pc'[s] = "dead" /\ own'[s] = None /\ verdict'[s] = None /\ due'[s] = {}
  BY <1>1, <1>2 DEF TypeOK, LocalOk
<1>4. Apart(s) /\ due' = [t \in Sessions |-> due'[t]] /\ verdict' = [t \in Sessions |-> verdict'[t]]
  BY <1>1, <1>2 DEF Apart, TypeOK, LocalOk
<1>5. Grows /\ FactsInv'
  BY <1>1, <1>2, Unmoved
<1>6. OwnInv(s)' /\ ReadInv(s)' /\ VerdictInv(s)'
  BY <1>3 DEF OwnInv, ReadInv, VerdictInv
<1>7. QED
  BY <1>1, <1>3, <1>4, <1>5, <1>6, OnlyOne

LEMMA AnswerSight ==
    ASSUME IInv, SightInv, NEW s \in Sessions, AnswerA(s)
    PROVE  SightInv'
<1>1. /\ pc[s] = "asked" /\ pc' = [pc EXCEPT ![s] = "idle"]
      /\ UNCHANGED <<now, comments, lastId, tampered, journal, subs, runs, reached, own, snap, verdict, due>>
  BY DEF AnswerA, At, Goto, github, greptile
<1>2. FactsInv /\ OwnInv(s) /\ VerdictInv(s) /\ pc'[s] = "idle"
  BY <1>1 DEF IInv, SightInv, TypeOK
<1>3. \A a \in answers' : a \in answers \/ a.seen = verdict[s].seen
  BY DEF AnswerA
<1>4. Past(verdict[s].seen)
  BY <1>1, <1>2 DEF VerdictInv
<1>5. now \in Nat /\ now <= now /\ lastId \in Nat /\ lastId <= lastId /\ comments \in SUBSET Comment
  BY FactTypes
<1>6. Grows
  BY <1>1, <1>5 DEF Grows
<1>7. \A a \in answers' : a \in answers \/ Past(a.seen)'
  BY <1>1, <1>3, <1>4 DEF Past
<1>8. FactsInv'
  BY <1>1, <1>2, <1>6, <1>7, FactsStay DEF FactsInv
<1>9. OwnInv(s)'
  BY <1>1, <1>2, <1>6, OwnStays
<1>10. Moves(s, "idle")
  BY <1>1 DEF Moves
<1>11. QED
  BY <1>6, <1>8, <1>9, <1>10, MoveSight

(***************************************************************************)
(* Everybody else.                                                         *)
(***************************************************************************)
LEMMA TickSight ==
    ASSUME IInv, SightInv, Tick
    PROVE  SightInv'
<1>1. /\ now' = now + 1
      /\ UNCHANGED <<comments, lastId, tampered, journal, subs, answers, runs, reached, pc, own, snap, verdict, due>>
  BY DEF Tick, github, greptile, records, local
<1>2. FactsInv /\ now' \in Nat /\ now <= now' /\ lastId \in Nat /\ lastId <= lastId /\ comments \in SUBSET Comment
  BY <1>1, FactTypes DEF SightInv
<1>3. Grows
  BY <1>1, <1>2 DEF Grows
<1>4. FactsInv'
  BY <1>1, <1>2, <1>3, FactsStay DEF FactsInv
<1>5. QED
  BY <1>1, <1>3, <1>4, AroundSight

LEMMA AddRunSight ==
    ASSUME IInv, SightInv, NEW id, NEW automatic \in BOOLEAN, AddRun(id, automatic),
           IF automatic THEN id = Automatic ELSE \E q \in reached : q.res = id
    PROVE  SightInv'
<1>1. UNCHANGED <<now, comments, lastId, tampered, journal, subs, answers, reached, pc, own, snap, verdict, due>>
  BY DEF AddRun, github, records, local
<1>2. PICK r : /\ runs' = runs \cup {r} /\ r.id = id /\ r.status = "running" /\ r.automatic = automatic
               /\ r.at = now /\ (id \in Nat => r \in Run)
  <2> DEFINE r == [id |-> id, status |-> "running", automatic |-> automatic, at |-> now]
  <2>1. runs' = runs \cup {r}
    BY Zenon DEF AddRun
  <2>2. r.id = id /\ r.status = "running" /\ r.automatic = automatic /\ r.at = now
    OBVIOUS
  <2>3. id \in Nat => r \in Run
    BY FactTypes DEF Run
  <2> HIDE DEF r
  <2>4. QED
    BY <2>1, <2>2, <2>3
<1>3. FactsInv /\ now \in Nat /\ now <= now /\ lastId \in Nat /\ lastId <= lastId /\ comments \in SUBSET Comment
  BY FactTypes DEF SightInv
<1>4. Grows
  BY <1>1, <1>2, <1>3 DEF Grows
<1>5. id \in Nat /\ r \in Run
  BY <1>2, <1>3 DEF FactsInv, RequestOk, Automatic, Run
<1>6. RunOk(r)'
  BY <1>1, <1>2, <1>3, <1>5 DEF RunOk, Past
<1>7. FactsInv'
  BY <1>1, <1>2, <1>3, <1>4, <1>6, FactsStay DEF FactsInv
<1>8. QED
  BY <1>1, <1>4, <1>7, AroundSight

LEMMA RunEndsSight ==
    ASSUME IInv, SightInv, NEW r \in runs, RunEnds(r)
    PROVE  SightInv'
<1>1. /\ r.status = "running"
      /\ UNCHANGED <<now, comments, lastId, tampered, journal, subs, answers, reached, pc, own, snap, verdict, due>>
  BY DEF RunEnds, github, records, local
<1>2. PICK status \in Endings : runs' = (runs \ {r}) \cup {[r EXCEPT !.status = status]}
  BY DEF RunEnds
<1>3. FactsInv /\ now \in Nat /\ now <= now /\ lastId \in Nat /\ lastId <= lastId /\ comments \in SUBSET Comment
  BY FactTypes DEF SightInv
<1>4. PICK k : /\ runs' = (runs \ {r}) \cup {k} /\ k.id = r.id /\ k.automatic = r.automatic /\ k.at = r.at
               /\ k.status \in Endings /\ k \in Run
  <2> DEFINE k == [r EXCEPT !.status = status]
  <2>1. runs' = (runs \ {r}) \cup {k}
    BY <1>2
  <2>2. k.id = r.id /\ k.automatic = r.automatic /\ k.at = r.at /\ k.status = status /\ k \in Run
    BY <1>3 DEF FactsInv, RunOk, Run
  <2> HIDE DEF k
  <2>3. QED
    BY <2>1, <2>2
<1>5. Grows
  BY <1>1, <1>3, <1>4 DEF Grows
<1>6. RunOk(k)'
  BY <1>1, <1>3, <1>4 DEF FactsInv, RunOk, Run, Past
<1>7. FactsInv'
  BY <1>1, <1>3, <1>4, <1>5, <1>6, FactsStay DEF FactsInv
<1>8. QED
  BY <1>1, <1>5, <1>7, AroundSight

LEMMA TamperSight ==
    ASSUME IInv, IInv', SightInv, NEW c \in comments, Delete(c) \/ Edit(c)
    PROVE  SightInv'
<1>1. /\ tampered' = tampered \cup {c.id}
      /\ UNCHANGED <<now, lastId, journal, subs, answers, runs, reached, pc, own, snap, verdict, due>>
  BY DEF Delete, Edit, Tamper, greptile, records, local
<1>2. FactsInv /\ now \in Nat /\ now <= now /\ lastId \in Nat /\ lastId <= lastId
  BY FactTypes DEF SightInv
<1>3. c \in Comment /\ c.id <= lastId /\ comments' \in SUBSET Comment
  BY FactTypes DEF IInv, TypeOK
<1> DEFINE edited == [c EXCEPT !.edited = TRUE]
<1>4. comments' = comments \ {c} \/ comments' = (comments \ {c}) \cup {edited}
  BY DEF Delete, Edit, Tamper
<1>5. edited.id = c.id /\ edited.kind = c.kind /\ edited.calls = c.calls
  BY <1>3 DEF Comment
<1> HIDE DEF edited
<1>6. \A d \in comments' : d \in comments \/ (d.id = c.id /\ d.kind = c.kind /\ d.calls = c.calls)
  BY <1>4, <1>5
<1>7. Grows
  BY <1>1, <1>2, <1>3, <1>4, <1>6 DEF Grows
<1>8. \A i \in tampered' : i \in Nat /\ i <= lastId'
  BY <1>1, <1>2, <1>3 DEF FactsInv, Comment
<1>9. \A d \in comments' : d \in comments \/ ((d.calls => CallOf(d)') /\ (d.edited => d.id \in tampered'))
  <2>1. c.calls => CallOf(c)
    BY <1>2 DEF FactsInv
  <2>2. QED
    BY <1>1, <1>6, <2>1 DEF CallOf
<1>10. FactsInv'
  BY <1>1, <1>2, <1>7, <1>8, <1>9, FactsStay DEF FactsInv
<1>11. QED
  BY <1>1, <1>7, <1>10, AroundSight

LEMMA ProveUnsentSight ==
    ASSUME IInv, SightInv, NEW j \in journal, ProveUnsent(j)
    PROVE  SightInv'
<1>1. UNCHANGED <<now, comments, lastId, tampered, journal, answers, runs, reached, pc, own, snap, verdict, due>>
  BY DEF ProveUnsent, github, greptile, local
<1>2. PICK x : /\ subs' = (subs \ {y \in subs : y.res = j.res}) \cup {x}
               /\ x.res = j.res /\ x.outcome = "not-submitted" /\ x.at = j.at
  <2> DEFINE x == [id |-> j.res, res |-> j.res, session |-> j.session, obs |-> j.obs, at |-> j.at,
                   outcome |-> "not-submitted", run |-> None]
  <2>1. subs' = (subs \ {y \in subs : y.res = j.res}) \cup {x}
    BY Zenon DEF ProveUnsent
  <2>2. x.res = j.res /\ x.outcome = "not-submitted" /\ x.at = j.at
    OBVIOUS
  <2> HIDE DEF x
  <2>3. QED
    BY <2>1, <2>2
<1>3. FactsInv /\ now \in Nat /\ now <= now /\ lastId \in Nat /\ lastId <= lastId /\ comments \in SUBSET Comment
  BY FactTypes DEF SightInv
<1>4. Grows
  BY <1>1, <1>3 DEF Grows
<1>5. Past(x.at)'
  BY <1>1, <1>2 DEF IInv, TypeOK, Entry, MarkersInv, Past
<1>6. \A y \in subs' : y = x \/ (y \in subs /\ y.res # j.res)
  BY <1>2
<1>7. \A y, z \in subs' : y.res = z.res /\ y.outcome = "not-submitted" => z.outcome = "not-submitted"
  BY <1>2, <1>3, <1>6 DEF FactsInv
<1>8. \A y \in subs' : y \in subs \/ Past(y.at)'
  BY <1>5, <1>6
<1>9. FactsInv'
  BY <1>1, <1>3, <1>4, <1>7, <1>8, FactsStay DEF FactsInv
<1>10. QED
  BY <1>1, <1>4, <1>9, AroundSight

LEMMA InitSight == Init => SightInv
<1> SUFFICES ASSUME Init PROVE SightInv
  OBVIOUS
<1>1. FactsInv /\ LocalOk
  BY DEF Init, FactsInv, LocalOk
<1>2. ASSUME NEW s \in Sessions
      PROVE  OwnInv(s) /\ ReadInv(s) /\ VerdictInv(s)
  BY DEF Init, OwnInv, ReadInv, VerdictInv
<1>3. QED
  BY <1>1, <1>2 DEF SightInv

LEMMA NextSight == IInv /\ SightInv /\ [Next]_vars => SightInv'
<1> SUFFICES ASSUME IInv, SightInv, [Next]_vars PROVE SightInv'
  OBVIOUS
<1>1. IInv'
  BY NextIInv
<1>2. ASSUME NEW s \in Sessions, SessionStep(s)
      PROVE  SightInv'
  BY <1>1, <1>2, BeginSight, DecisionSight, PostSight, ReadBackSight, AttemptSight, SendMcpSight, RecordSight,
     SendCommentSight DEF SessionStep
<1>3. ASSUME NEW s \in Sessions, Kill(s) \/ AnswerA(s)
      PROVE  SightInv'
  BY <1>3, KillSight, AnswerSight
<1>4. CASE Tick
  BY <1>4, TickSight
<1>5. CASE RunAppears
  <2>1. PICK q \in reached : AddRun(q.res, FALSE)
    BY <1>5 DEF RunAppears
  <2>2. QED
    BY <2>1, AddRunSight
<1>6. CASE AutomaticRun
  BY <1>6, AddRunSight DEF AutomaticRun
<1>7. CASE \E r \in runs : RunEnds(r)
  BY <1>7, RunEndsSight
<1>8. CASE \E c \in comments : Delete(c) \/ Edit(c)
  BY <1>1, <1>8, TamperSight
<1>9. CASE \E j \in journal : ProveUnsent(j)
  BY <1>9, ProveUnsentSight
<1>10. CASE UNCHANGED vars
  <2>1. UNCHANGED <<now, comments, lastId, tampered, journal, subs, answers, runs, reached,
                    pc, own, snap, verdict, due>>
    BY <1>10 DEF vars, github, greptile, records, local
  <2>2. FactsInv
    BY DEF SightInv
  <2>3. Grows /\ FactsInv'
    BY <2>1, <2>2, Unmoved
  <2>4. QED
    BY <2>1, <2>3, AroundSight
<1>11. QED
  BY <1>2, <1>3, <1>4, <1>5, <1>6, <1>7, <1>8, <1>9, <1>10 DEF Next

LEMMA SightInvariance == Spec => []SightInv
<1>1. Init /\ [][Next]_vars /\ []IInv => []SightInv
  BY InitSight, NextSight, PTL
<1>2. QED
  BY <1>1, Invariance, PTL DEF Spec

\* What a ready verdict rests on is so (decide.ts, rows R10, R11 and R14): any number of
\* sessions, faults, tampering and runs nobody asked for, and any clock.
THEOREM ReadyHolds == Spec => []ReadyIsEarned
<1>1. SightInv => ReadyIsEarned
  BY DEF SightInv, VerdictInv, Earned, ReadyIsEarned
<1>2. QED
  BY <1>1, SightInvariance, PTL

=============================================================================
