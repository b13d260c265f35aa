------------------------- MODULE GreptileLifecycle -------------------------
(***************************************************************************)
(* Sessions that prepare one pull request, each asking GreptilePolicy what *)
(* to do next.  They meet through the marker comments of the PR, the       *)
(* durable journal of one caller, the records of MCP attempts, and the     *)
(* runs Greptile shows; Greptile and the user come in between.             *)
(*                                                                         *)
(* No caller is in the repository yet.  What one has to do is the adoption *)
(* contract at the head of decide.ts, the comments of types.ts, and the    *)
(* procedure skills/review-and-prep.md gives an agent.  It is not assumed  *)
(* that a session looks again between decision and effect.                 *)
(***************************************************************************)
EXTENDS GreptilePolicy, FiniteSets, TLC

CONSTANTS
    Sessions,
    Transports,   \* what can carry a request: "mcp", "comment"
    Endings,      \* how a run may end: "completed", "failed"
    MaxTime,      \* bound: the clock stops here
    MaxFaults     \* bound: sessions killed, calls and reads that fail; comments tampered with
                  \* and runs nobody asked for count twice

ASSUME ConstantsAssumption ==
    /\ NoResponse \in Nat /\ MaxTime \in Nat /\ MaxFaults \in Nat
    /\ None \notin Nat \cup [id : Nat, at : Nat] /\ Transports \subseteq {"mcp", "comment"}
    /\ Endings \subseteq {"completed", "failed"}

VARIABLES
    now,
    comments,   \* marker comments on the PR: [id, kind, head, at, calls, edited]
    lastId,     \* the newest comment id
    journal,    \* the reservation journal: [res, resAt, head, session, obs, confirmed, phase, transport, at]
    subs,       \* records of MCP attempts: [id, res, session, obs, at, outcome, run]
    answers,    \* the latest (a) of the user to each question: [question, ref, at, seen, until]
    runs,       \* runs Greptile shows: [id, status, automatic, at]
    seen,       \* seen[r]: when a session first saw run r, or None
    pc,         \* pc[s]: where session s is
    obs,        \* obs[s]: the id of its observation
    own,        \* own[s]: the reservation it posted in this observation, or None
    snap,       \* snap[s]: the history it has read first, or None
    verdict,    \* verdict[s]: the last decision and what it rests on, or None
    reached,    \* requests that got to Greptile: [res, transport, marker, start] (history)
    due,        \* due[s]: those that had when s began to observe (history)
    tampered,   \* comments somebody else edited or deleted (history)
    faults

github == <<comments, lastId, tampered>>
greptile == <<runs, reached>>
records == <<journal, subs, answers>>
local == <<pc, obs, own, snap, verdict, due>>
vars == <<now, github, greptile, records, seen, local, faults>>

Ids == 0 .. lastId
Head == "head"    \* no commit is pushed while the sessions are at work
Automatic == 0    \* the id of the run nobody asked for; others have that of their reservation

Init ==
    /\ now = 0 /\ comments = {} /\ lastId = 0 /\ tampered = {} /\ faults = 0
    /\ journal = {} /\ subs = {} /\ answers = {} /\ runs = {} /\ reached = {}
    /\ seen = [r \in {Automatic} |-> None]
    /\ pc = [s \in Sessions |-> "idle"]
    /\ obs = [s \in Sessions |-> 0]
    /\ own = [s \in Sessions |-> None]
    /\ snap = [s \in Sessions |-> None]
    /\ verdict = [s \in Sessions |-> None]
    /\ due = [s \in Sessions |-> {}]

Fault ==
    /\ faults < MaxFaults
    /\ faults' = faults + 1

Meddle ==
    /\ faults + 2 <= MaxFaults
    /\ faults' = faults + 2

Goto(s, l) == pc' = [pc EXCEPT ![s] = l]
At(s, l) == pc[s] = l

-----------------------------------------------------------------------------
(* Observing and deciding.                                                 *)

\* The first sighting of a run is kept for all sessions.
Sight == seen' = [i \in Ids |-> IF seen[i] = None /\ \E r \in runs : r.id = i THEN now ELSE seen[i]]
Sightings == {[id |-> r.id, status |-> r.status, automatic |-> r.automatic, firstSeen |-> seen'[r.id]]
                : r \in runs}

CommentsNow == [family |-> "comments", comments |-> comments, at |-> now]
GreptileNow == [family |-> "greptile", subs |-> subs, runs |-> Sightings, at |-> now]

\* A new observation has a new id, so a reservation of an earlier one is not its own.  It
\* reads one of the two first.
Begin(s) ==
    /\ At(s, "idle")
    /\ Goto(s, "collect")
    /\ Sight
    /\ \E reading \in {CommentsNow, GreptileNow} : snap' = [snap EXCEPT ![s] = reading]
    /\ obs' = [obs EXCEPT ![s] = IF own[s] = None THEN @ ELSE @ + 1]
    /\ own' = [own EXCEPT ![s] = None]
    /\ verdict' = [verdict EXCEPT ![s] = None]
    /\ due' = [due EXCEPT ![s] = reached]
    /\ UNCHANGED <<now, github, greptile, records, faults>>

\* What it read first, and the other as it is now.
CommentsOf(s) == IF snap[s].family = "comments" THEN snap[s] ELSE CommentsNow
GreptileOf(s) == IF snap[s].family = "greptile" THEN snap[s] ELSE GreptileNow

\* Timers count from the older of the histories.
SeenFirst(s) == snap[s].at

\* The request or run an answer was about stands in its receipt.
NamedBy(a) == IF a.question = "E4" THEN a.ref ELSE Ref("run", a.ref.id)

Observation(s, entries) ==
    [session |-> s, obs |-> obs[s], head |-> Head, comments |-> CommentsOf(s).comments, subs |-> GreptileOf(s).subs,
     runs |-> GreptileOf(s).runs, journal |-> entries, answers |-> answers,
     recorded |-> {NamedBy(a) : a \in answers}, seen |-> SeenFirst(s)]

\* What the caller does about each rule; the rest is to look again.
After(rule) ==
    CASE rule = "R13.record-reservation" -> "post"
      [] rule = "R13.trigger" -> "attempt"
      [] rule \in {"R09.E6", "R11.E4"} -> "asked"
      [] rule \in {"R10.E2", "R14.completed", "R14.no-response", "R14.user-decision"} -> "done"
      [] OTHER -> "idle"

\* The question an ask is about.
Edge(o, rule) ==
    CASE rule = "R09.E6" -> WaitEdge(o, FirstPending(o))
      [] rule = "R11.E4" -> Named(Requests(o))
      [] OTHER -> None

\* The answers a decision of the user rests on.
Relied(o, rule) ==
    {a \in o.answers : rule = "R14.user-decision" /\ Covers(Requests(o), a)}

DecideOn(s, entries) ==
    \E raw \in {Observation(s, entries)} : \E o \in {Read(raw)} : \E rule \in {Decide(o)} : \E next \in {After(rule)} :
       /\ Goto(s, next)
       /\ verdict' = [verdict EXCEPT ![s] = IF next \in {"asked", "done"}
                                            THEN [rule |-> rule, seen |-> o.seen, edge |-> Edge(o, rule),
                                                  relied |-> Relied(o, rule), blind |-> entries = None]
                                            ELSE None]
       /\ due' = [due EXCEPT ![s] = IF next \in {"post", "done"} THEN @ ELSE {}]
       /\ own' = [own EXCEPT ![s] = IF next = "done" THEN None ELSE @]
       /\ snap' = [snap EXCEPT ![s] = IF next = "post" THEN GreptileOf(s) ELSE None]

\* The journal may be out of reach when it is needed.
TakeDecision(s) ==
    /\ At(s, "collect")
    /\ Sight
    /\ \/ DecideOn(s, journal) /\ UNCHANGED faults
       \/ Fault /\ DecideOn(s, None)
    /\ UNCHANGED <<now, github, greptile, records, obs>>

-----------------------------------------------------------------------------
(* Acting.                                                                 *)

AddComment(kind, calls) ==
    /\ lastId' = lastId + 1
    /\ comments' = comments \cup {[id |-> lastId + 1, kind |-> kind, head |-> Head, at |-> now,
                                   calls |-> calls, edited |-> FALSE]}
    /\ seen' = [i \in 0 .. lastId + 1 |-> IF i \in Ids THEN seen[i] ELSE None]
    /\ UNCHANGED tampered

PostReservation(s) ==
    /\ At(s, "post")
    /\ AddComment("reservation", FALSE)
    /\ own' = [own EXCEPT ![s] = [id |-> lastId + 1, at |-> now]]
    /\ Goto(s, "readback")
    /\ UNCHANGED <<now, greptile, records, obs, snap, verdict, due, faults>>

Write(s, confirmed, phase, transport) ==
    /\ journal' = journal \cup {[res |-> own[s].id, resAt |-> own[s].at, head |-> Head, session |-> s, obs |-> obs[s],
                                 confirmed |-> confirmed, phase |-> phase,
                                 transport |-> transport, at |-> now]}
    /\ UNCHANGED <<subs, answers>>

\* Read the reservation back, journal it, and read the markers again.
ReadBack(s) ==
    /\ At(s, "readback")
    /\ \/ /\ \E c \in comments : c.id = own[s].id
          /\ Write(s, TRUE, "confirmed-unattempted", "none")
          /\ UNCHANGED faults
       \/ /\ \A c \in comments : c.id # own[s].id
          /\ Write(s, FALSE, "confirmed-unattempted", "none")
          /\ UNCHANGED faults
       \/ Fault /\ Write(s, FALSE, "confirmed-unattempted", "none")
    /\ Goto(s, "collect")
    /\ UNCHANGED <<now, github, greptile, seen, obs, own, snap, verdict, due>>

\* The attempt is in the journal before it is made.
Attempt(s) ==
    /\ At(s, "attempt")
    /\ \E t \in Transports :
          /\ Write(s, TRUE, "attempted", t)
          /\ Goto(s, IF t = "mcp" THEN "send-mcp" ELSE "send-comment")
    /\ UNCHANGED <<now, github, greptile, seen, obs, own, snap, verdict, due, faults>>

Reach(s, transport, marker, start) ==
    /\ reached' = reached \cup {[res |-> own[s].id, transport |-> transport, marker |-> marker,
                                 start |-> start]}
    /\ UNCHANGED runs

\* The call gets to Greptile or is lost on the way.
SendMcp(s) ==
    /\ At(s, "send-mcp")
    /\ Goto(s, "record")
    /\ \/ Reach(s, "mcp", own[s].id, own[s].at) /\ UNCHANGED faults
       \/ Fault /\ UNCHANGED greptile
    /\ UNCHANGED <<now, github, records, seen, obs, own, snap, verdict, due>>

\* Its answer, which may name the run; a lost one is ambiguous.
RecordAttempt(s) ==
    LET delivered == \E q \in reached : q.res = own[s].id
        attempt == CHOOSE j \in journal : j.res = own[s].id /\ j.phase = "attempted"
        AddRecord(outcome, run) ==
            subs' = subs \cup {[id |-> own[s].id, res |-> own[s].id, session |-> s, obs |-> obs[s],
                                at |-> attempt.at, outcome |-> outcome, run |-> run]}
    IN /\ At(s, "record")
       /\ Goto(s, "idle")
       /\ \/ /\ delivered /\ UNCHANGED faults
             /\ \E run \in {None, own[s].id} : AddRecord("accepted", run)
          \/ /\ delivered /\ Fault
             /\ AddRecord("ambiguous", None)
          \/ /\ ~delivered /\ UNCHANGED faults
             /\ AddRecord("ambiguous", None)
       /\ UNCHANGED <<now, github, greptile, journal, answers, seen, obs, own, snap, verdict, due>>

\* A comment that lost its call asks for nothing; one that was not posted is not there.
SendComment(s) ==
    /\ At(s, "send-comment")
    /\ Goto(s, "idle")
    /\ \/ /\ AddComment("trigger", TRUE)
          /\ Reach(s, "comment", lastId + 1, now)
          /\ UNCHANGED faults
       \/ /\ Fault
          /\ AddComment("trigger", FALSE)
          /\ UNCHANGED greptile
       \/ /\ Fault
          /\ UNCHANGED <<github, greptile, seen>>
    /\ UNCHANGED <<now, records, obs, own, snap, verdict, due>>

\* Request history shows, when the attempt is over, that nothing was submitted.
ProveUnsent(j) ==
    /\ j.phase = "attempted" /\ j.transport = "mcp"
    /\ \A q \in reached : q.res # j.res
    /\ pc[j.session] \in {"send-mcp", "record"} => own[j.session].id # j.res
    /\ LET old == {x \in subs : x.res = j.res}
       IN /\ \A x \in old : x.outcome # "not-submitted"
          /\ subs' = (subs \ old) \cup {[id |-> j.res, res |-> j.res, session |-> j.session,
                                         obs |-> j.obs, at |-> j.at, outcome |-> "not-submitted",
                                         run |-> None]}
    /\ UNCHANGED <<now, github, greptile, journal, answers, seen, local, faults>>

-----------------------------------------------------------------------------
(* Everybody else.                                                         *)

\* Killed before it reserves, a session is one that was not there.
Kill(s) ==
    /\ Fault
    /\ own[s] # None
    /\ Goto(s, "dead")
    /\ snap' = [snap EXCEPT ![s] = None]
    /\ own' = [own EXCEPT ![s] = None]
    /\ verdict' = [verdict EXCEPT ![s] = None]
    /\ due' = [due EXCEPT ![s] = {}]
    /\ UNCHANGED <<now, github, greptile, records, seen, obs>>

\* The user takes (a): proceed unverified, or keep waiting for ten minutes.
AnswerA(s) ==
    LET question == IF verdict[s].rule = "R09.E6" THEN "E6" ELSE "E4"
        edge == verdict[s].edge
    IN /\ At(s, "asked")
       /\ answers' = {a \in answers : a.question # question \/ a.ref # edge}
                     \cup {[question |-> question, ref |-> edge, at |-> now, seen |-> verdict[s].seen,
                            until |-> now + NoResponse]}
       /\ Goto(s, "idle")
       /\ UNCHANGED <<now, github, greptile, journal, subs, seen, obs, own, snap, verdict, due, faults>>

Tick ==
    /\ now < MaxTime
    /\ now' = now + 1
    /\ UNCHANGED <<github, greptile, records, seen, local, faults>>

AddRun(id, automatic) ==
    /\ \A r \in runs : r.id # id
    /\ runs' = runs \cup {[id |-> id, status |-> "running", automatic |-> automatic, at |-> now]}
    /\ UNCHANGED <<now, github, reached, records, seen, local>>

RunAppears == \E q \in reached : AddRun(q.res, FALSE) /\ UNCHANGED faults
AutomaticRun == now = 0 /\ AddRun(Automatic, TRUE) /\ Meddle   \* what the opened PR starts, bound: at first

RunEnds(r) ==
    /\ r.status = "running"
    /\ \E status \in Endings : runs' = (runs \ {r}) \cup {[r EXCEPT !.status = status]}
    /\ UNCHANGED <<now, github, reached, records, seen, local, faults>>

Tamper(c, left) ==
    /\ Meddle
    /\ comments' = (comments \ {c}) \cup left
    /\ tampered' = tampered \cup {c.id}
    /\ UNCHANGED <<now, lastId, greptile, records, seen, local>>

Delete(c) == Tamper(c, {})
Edit(c) == Tamper(c, {[c EXCEPT !.edited = TRUE]})

-----------------------------------------------------------------------------

SessionStep(s) ==
    \/ Begin(s) \/ TakeDecision(s)
    \/ PostReservation(s) \/ ReadBack(s) \/ Attempt(s)
    \/ SendMcp(s) \/ RecordAttempt(s) \/ SendComment(s)

Next ==
    \/ \E s \in Sessions : SessionStep(s) \/ Kill(s) \/ AnswerA(s)
    \/ Tick
    \/ RunAppears \/ AutomaticRun
    \/ \E r \in runs : RunEnds(r)
    \/ \E c \in comments : Delete(c) \/ Edit(c)
    \/ \E j \in journal : ProveUnsent(j)

Fairness == WF_vars(Tick) /\ \A s \in Sessions : WF_vars(SessionStep(s))

Spec == Init /\ [][Next]_vars /\ Fairness

-----------------------------------------------------------------------------
(* Properties.                                                             *)

\* One request at most gets to Greptile for a pull request (decide.ts 36-38: the allowance is
\* single), however many sessions reserve, crash and resume.
OneRequest == Cardinality(reached) <= 1

\* A verdict has to see a request whose comment nobody else has changed (such a comment no
\* longer says when it was).  One taken without the journal does not see an MCP request that
\* is not on record yet, when in addition a comment was tampered with or a run nobody asked
\* for is there to be taken for its run (types.ts 23 makes no more of an unknown journal).
Unmeddled == tampered = {} /\ \A r \in runs : ~r.automatic
InSight(q, v) ==
    /\ q.marker \notin tampered
    /\ v.blind /\ q.transport = "mcp" => Unmeddled

\* Request q had its ten minutes, counted as the rules count them, at t, and no run in them.
Waited(q, t) ==
    /\ t >= q.start + NoResponse
    /\ \A r \in runs : r.id = q.res => r.at >= q.start + NoResponse

\* What a ready verdict rests on is so, of every request made before the session began to
\* look.  Completed: it has a run that is complete.  No response: it was a comment and had its
\* ten minutes without a run.  The user's decision: so it had when the user was asked, in an
\* answer the verdict rests on (another session's answer may have replaced it since).
ReadyIsEarned ==
    \A s \in Sessions : verdict[s] # None =>
        \A q \in due[s] : InSight(q, verdict[s]) =>
            /\ verdict[s].rule = "R14.completed" =>
                  \E r \in runs : r.id = q.res /\ r.status = "completed"
            /\ verdict[s].rule = "R14.no-response" => q.transport = "comment" /\ Waited(q, verdict[s].seen)
            /\ verdict[s].rule = "R14.user-decision" =>
                  \E a \in verdict[s].relied : Waited(q, a.seen)

\* A session that is not killed comes, again and again, to a question or a basis for readiness:
\* no wait, refresh or lost race (decide.ts 1771-1858) goes on for ever.  Timers the bound on
\* the clock cuts short do not count.
Settled(s) == pc[s] \in {"asked", "done", "dead"}
Started == {c.at : c \in comments} \cup {x.at : x \in subs} \cup {a.at : a \in answers}
           \cup {seen[i] : i \in {k \in Ids : seen[k] # None}}
CutShort == \E t \in Started : t + NoResponse > MaxTime
EverySessionSettles == \A s \in Sessions : []<>Settled(s) \/ <>[]CutShort
=============================================================================
