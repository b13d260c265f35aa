--------------------------- MODULE GreptilePolicy ---------------------------
(***************************************************************************)
(* The rows of src/greptile-lifecycle/decide.ts that read a PR's Greptile  *)
(* history: R08 (is it complete), R09 and R10 (runs), R13 and R11 (a       *)
(* reservation, a request without a run), and what is left, R13's trigger. *)
(* A pure function of one observation                                      *)
(*                                                                         *)
(*   [session, obs,       who observes, and the id of the observation      *)
(*    head,               the head of the PR                               *)
(*    comments,           marker comments of the running account           *)
(*    subs,               records of MCP attempts                          *)
(*    runs,               runs, one observation of each                    *)
(*    journal,            the reservation journal, or None if unavailable  *)
(*    answers,            the latest trusted (a) to each E4 and E6 edge    *)
(*    recorded,           requests and runs that receipts name             *)
(*    seen]               when the oldest of the three histories was read  *)
(*                                                                         *)
(* GreptileRules puts the other rows around these; Decide here is what     *)
(* they come to when no row before R08 and no local gate R12 or R14 puts   *)
(* something else in their place, and a rule named R14 is the basis its    *)
(* readiness would rest on.                                                *)
(***************************************************************************)
EXTENDS Naturals

CONSTANTS
    NoResponse,   \* the ten minutes (NO_RESPONSE_MS)
    None

Ref(kind, id) == [kind |-> kind, id |-> id]

Journal(o) == IF o.journal = None THEN {} ELSE o.journal
Reservations(o) == {c \in o.comments : c.kind = "reservation"}
Triggers(o) == {c \in o.comments : c.kind = "trigger"}

\* The journal does not say that nothing was tried.
Tried(j) == j.phase # "confirmed-unattempted"

\* A record not proven unsubmitted stands for a request.  (One without proof is ambiguous.)
Consuming(o) == {x \in o.subs : x.outcome # "not-submitted"}

-----------------------------------------------------------------------------
(* Who holds the allowance.                                                *)

\* A proof settles the attempt of its own session and observation, if made no earlier.
ProvenUnsent(o, j) ==
    \E x \in o.subs \ Consuming(o) :
        /\ x.res = j.res /\ x.session = j.session /\ x.obs = j.obs
        /\ j.at <= x.at

\* Reservations nothing was submitted under.
Released(o) ==
    {r \in {x.res : x \in o.subs \ Consuming(o)} :
        /\ \A x \in Consuming(o) : x.res # r
        /\ \A j \in Journal(o) : (j.res = r /\ Tried(j))
                                 => (j.phase = "attempted" /\ j.transport = "mcp" /\ ProvenUnsent(o, j))
        /\ \A c \in o.comments : c.id = r => (~c.calls /\ ~c.edited)}

Markers(o) == {c \in o.comments : c.kind = "trigger" \/ c.id \notin o.released}

\* By creation time, then id.
Earlier(a, b) == a.at < b.at \/ (a.at = b.at /\ a.id <= b.id)
IsWinner(o, c) == c \in Markers(o) /\ \A m \in Markers(o) : Earlier(c, m)

\* Journaled attempts that no proof undoes.
Attempts(o) == {j \in Journal(o) : Tried(j) /\ j.res \notin o.released}

\* A bug: a reservation somebody deleted is forgotten.
DeletedForgotten(o) == {}

\* Reservations the journal knows of and GitHub does not show any more.
Deleted(o) ==
    {j \in Journal(o) : /\ j.confirmed \/ Tried(j)
                        /\ \A c \in o.comments : c.id # j.res
                        /\ j.res \notin o.released}

\* Requests and runs a receipt names, but for those proven never submitted.
Recorded(o) ==
    o.recorded \ ({Ref("submission", x.id) : x \in o.subs \ Consuming(o)}
                  \cup {Ref("comment", r) : r \in o.released})

-----------------------------------------------------------------------------
(* This session's reservation in this observation.                         *)

Mine(o) == {j \in Journal(o) : j.session = o.session /\ j.obs = o.obs}
LatestMine(o) ==
    CHOOSE j \in Mine(o) : \A k \in Mine(o) : Earlier([at |-> k.at, id |-> k.res], [at |-> j.at, id |-> j.res])

Conflicting(o, j) ==
    \E k \in Mine(o) : /\ k.at = j.at /\ k.res = j.res
                       /\ k.confirmed # j.confirmed \/ k.phase # j.phase \/ k.resAt # j.resAt
                          \/ k.head # j.head

\* "none", "unconfirmed", "stale" or "fresh".
OwnState(o) ==
    IF Mine(o) = {} THEN "none"
    ELSE LET j == LatestMine(o)
             marker == {m \in Markers(o) : m.id = j.res}
         IN IF Conflicting(o, j) \/ ~j.confirmed \/ marker = {} \/ \E m \in marker : m.edited
            THEN "unconfirmed"
            ELSE IF /\ \A m \in marker : m.kind = "reservation" /\ m.at = j.resAt /\ ~m.calls
                    /\ \A m \in marker : m.head = j.head /\ j.head = o.head
                    /\ ~Tried(j)
                    /\ \A a \in Attempts(o) : a.res # j.res
                    /\ Ref("comment", j.res) \notin Recorded(o)
                    /\ \A k \in Journal(o) : k.res = j.res => (k.session = o.session /\ k.obs = o.obs)
                    /\ \A x \in Consuming(o) : x.res # j.res
                 THEN "fresh"
                 ELSE "stale"

Own(o) == LatestMine(o).res
OwnFresh(o, c) == OwnState(o) = "fresh" /\ Own(o) = c.id

-----------------------------------------------------------------------------
(* Requests and the consumed allowance.                                    *)

Request(ref, at, confirmed, certain) ==
    [ref |-> ref, at |-> at, confirmed |-> confirmed, certain |-> certain]

\* A trigger comment is a request; read back and unedited, a confirmed one.
TriggerRequests(o) ==
    {Request(Ref("comment", c.id), c.at, c.calls /\ ~c.edited, c.calls /\ ~c.edited) : c \in Triggers(o)}

Uncertain(o, c) == c.calls \/ \E j \in Attempts(o) : j.res = c.id /\ (j.phase = "unknown" \/ j.transport # "comment")

\* A reservation is one if something was or may have been sent under it.  The earliest is
\* one for everybody but its fresh owner; later ones that did nothing are history.
IsRequest(o, c) ==
    \/ Uncertain(o, c)
    \/ IsWinner(o, c) /\ ~OwnFresh(o, c)
    \/ \E j \in Attempts(o) : j.res = c.id
    \/ Ref("comment", c.id) \in Recorded(o)

ReservationRequests(o) ==
    {Request(Ref("comment", c.id), c.at, FALSE, ~Uncertain(o, c)) :
        c \in {m \in Markers(o) \cap Reservations(o) : IsRequest(o, m)}}

\* An MCP request counts from its reservation, when there is a trace of that.
SubmissionAt(o, x) ==
    LET shown == {c.at : c \in {m \in Markers(o) : m.id = x.res}}
        gone == {j.resAt : j \in {k \in Deleted(o) : k.res = x.res}}
    IN IF shown \cup gone = {} THEN x.at ELSE CHOOSE t \in shown \cup gone : \A u \in gone : t <= u

SubmissionRequests(o) ==
    {Request(Ref("submission", x.id), SubmissionAt(o, x), FALSE, FALSE) : x \in Consuming(o)}

\* It counts from the earliest entry.
DeletedRequests(o) ==
    {Request(Ref("comment", j.res), j.resAt, FALSE, FALSE) :
        j \in {k \in Deleted(o) : \A l \in Deleted(o) : l.res = k.res => k.resAt <= l.resAt}}

Requests(o) ==
    TriggerRequests(o) \cup ReservationRequests(o) \cup SubmissionRequests(o) \cup DeletedRequests(o)

\* By time; then comments by number before submissions.
Precedes(a, b) ==
    \/ a.at < b.at
    \/ a.at = b.at /\ a.ref.kind = "comment" /\ b.ref.kind = "submission"
    \/ a.at = b.at /\ a.ref.kind = b.ref.kind /\ a.ref.id <= b.ref.id
First(S) == CHOOSE q \in S : \A r \in S : Precedes(q, r)

\* Only a confirmed comment with nothing uncertain beside it falls back by itself.
ByComment(requests) ==
    /\ \E q \in requests : q.confirmed
    /\ \A q \in requests : q.certain

\* The request that names the E4 edge.
Named(requests) == First({q \in requests : ByComment(requests) => q.confirmed}).ref

\* Each request waits its own ten minutes.
LatestAt(requests) == CHOOSE t \in {q.at : q \in requests} : \A q \in requests : q.at <= t

-----------------------------------------------------------------------------
(* Is the history complete?                                                *)

\* A bug: any run explains any request before it.
ExplainedByAnyRun(o, at) == \E r \in o.runs : r.firstSeen >= at

\* A run this account may have asked for, first seen no earlier than the request.
Explained(o, at) == \E r \in o.runs : ~r.automatic /\ r.firstSeen >= at

RunMayBeMissing(o) ==
    \/ \E x \in Consuming(o) : IF x.run # None THEN \A r \in o.runs : r.id # x.run
                              ELSE ~Explained(o, x.at)
    \/ \E m \in Markers(o) : (m.kind = "trigger" \/ m.calls) /\ ~Explained(o, m.at)
    \/ \E j \in Attempts(o) : ~Explained(o, j.at)

\* A bug: a request without a run is taken for a gap in the history.
RunMissing(o) == RunMayBeMissing(o)

\* A run may be missing beside those observed.
UnexplainedRequest(o) == o.runs # {} /\ RunMayBeMissing(o)

\* A receipt names a request or run no history shows.
UnexplainedRecord(o) ==
    \E ref \in Recorded(o) : ref \notin {q.ref : q \in Requests(o)} \cup {Ref("run", r.id) : r \in o.runs}

Unresolved(o) == UnexplainedRequest(o) \/ UnexplainedRecord(o)

-----------------------------------------------------------------------------
(* The rows.                                                               *)

\* A run's timer starts with the submission that names it, or with its first sighting.
Anchor(o, r) ==
    LET times == {x.at : x \in {y \in Consuming(o) : y.run = r.id}} \cup {r.firstSeen}
    IN CHOOSE t \in times : \A u \in times : t <= u

Pending(o) == {r \in o.runs : r.status = "running"}
FirstPending(o) ==
    CHOOSE r \in Pending(o) : \A q \in Pending(o) :
        Earlier([at |-> Anchor(o, r), id |-> r.id], [at |-> Anchor(o, q), id |-> q.id])

\* A later anchor is another question.
WaitEdge(o, r) == [kind |-> "run", id |-> r.id, anchor |-> Anchor(o, r)]
ChosenWait(o, r) == {a \in o.answers : a.question = "E6" /\ a.ref = WaitEdge(o, r)}

PendingRow(o) ==
    LET r == FirstPending(o)
        chosen == ChosenWait(o, r)
    IN IF \E a \in chosen : o.seen < a.until THEN "R09.chosen-wait"
       ELSE IF chosen = {} /\ o.seen < Anchor(o, r) + NoResponse THEN "R09.monitor-run"
       ELSE "R09.E6"

TerminalRow(o) == IF \E r \in o.runs : r.status = "failed" THEN "R10.E2" ELSE "R14.completed"

\* An E4 (a) counts if the history it was given on had seen the ten minutes of every request.
Covers(requests, a) ==
    /\ a.question = "E4" /\ a.ref = Named(requests)
    /\ a.at >= LatestAt(requests) + NoResponse
    /\ a.seen >= LatestAt(requests) + NoResponse

RequestRow(o, requests) ==
    IF o.seen < LatestAt(requests) + NoResponse THEN "R11.monitor-request"
    ELSE IF ByComment(requests) THEN "R14.no-response"
    ELSE IF \E a \in o.answers : Covers(requests, a) THEN "R14.user-decision"
    ELSE "R11.E4"

Lost(o) ==
    \E w \in Markers(o) : IsWinner(o, w) /\ w.id # Own(o) /\ o.seen < w.at + NoResponse

ReservationRow(o, state) ==
    LET requests == Requests(o)
    IN IF state = "unconfirmed" THEN "R13.reservation-unconfirmed"
       ELSE IF state = "fresh" /\ Lost(o) THEN "R13.reservation-lost"
       ELSE IF requests # {} THEN RequestRow(o, requests)
       ELSE IF state = "fresh" THEN "R13.trigger"
       ELSE "R13.record-reservation"

\* What is released is worked out once.
Read(raw) ==
    [session |-> raw.session, obs |-> raw.obs, head |-> raw.head, comments |-> raw.comments,
     subs |-> raw.subs, runs |-> raw.runs, journal |-> raw.journal, answers |-> raw.answers,
     recorded |-> raw.recorded, seen |-> raw.seen, released |-> Released(raw)]

\* The rule that fires, in the order of greptilePath.
Decide(o) ==
    IF Unresolved(o) THEN "R08.history-unresolved"
    ELSE IF Pending(o) # {} THEN PendingRow(o)
    ELSE IF o.runs # {} THEN TerminalRow(o)
    ELSE ReservationRow(o, OwnState(o))
=============================================================================
