------------------------------- MODULE MCAutoplan -------------------------------
(* Plans: one that seals, one whose code example quotes a review record, one    *)
(* that cites a decision nobody accepted, one that is too long and leaves a     *)
(* fence open.                                                                  *)
EXTENDS AutoplanPlan
Fence(is, len) == Line(is, [char |-> "tick", len |-> len, indented |-> FALSE])
Card == <<Heading("acceptance"), Heading("item"), Line("tier", "standard"), Line("verify", "make")>>
Decided == <<Heading("decisions"), Line("settle", [phase |-> "eng", id |-> "d1", long |-> FALSE])>>
Tasks(id) == <<Heading("tasks"), Line("cite", id)>>
Quoting == <<Fence("info", 4), Fence("fence", 3), Heading("record"), Heading("raw"), Fence("fence", 4)>>
Plain1 == Card \o Decided \o Tasks("d1")
MCPropers == {Card \o Quoting \o Tasks("d1") \o Decided, Card \o Tasks("d2") \o Decided,
              Card \o <<Line("text", 1), Line("text", 2), Fence("info", 3)>> \o Decided \o Tasks("d1")}
MCPlans == {Plain1 \o <<Heading("report")>>}
MCSource == <<Heading("text"), Heading("text"), Heading("report"), Heading("text")>>

(* Messages: as the skill prints one; after an example of an old handoff; with  *)
(* the fields before the fence that is copied; with another commit; without one *)
(* of the fields; with a line after the block; with no fence and a long bullet.  *)
MCShapes == {"plain", "after example", "fields outside", "other commit", "incomplete", "trailing", "bare"}
Fields(b) == <<Line("fields", b @@ [complete |-> TRUE])>>
Run == <<Heading("run")>>
Branch(head) == <<Line("branch", head)>>
Decisions == <<Heading("auto"), Heading("bullet")>>
Fenced3(lines) == <<Fence("info", 3)>> \o lines \o <<Fence("fence", 3)>>
Stage(b) == <<Line("stage", [goes |-> TRUE, plan |-> b.plan, head |-> "now"])>>
Old == [plan |-> <<>>, tier |-> "standard", verify |-> "make", record |-> Foreign]
MCMessageFor(shape, b) ==
    CASE shape = "plain" -> Fenced3(Run \o Fields(b) \o Branch("now") \o Decisions) \o Stage(b)
      [] shape = "after example" -> Fenced3(Run \o Fields(Old) \o Branch("old") \o Decisions) \o
             Fenced3(Run \o Fields(b) \o Branch("now") \o Decisions) \o Stage(b)
      [] shape = "fields outside" -> Run \o Fields(b) \o <<Fence("info", 3)>> \o Run \o Branch("now") \o Decisions
             \o <<[Fence("fence", 3) EXCEPT !.of.indented = TRUE]>> \o Stage(b)
      [] shape = "other commit" -> Fenced3(Run \o Fields(b) \o Branch("old") \o Decisions) \o Stage(b)
      [] shape = "incomplete" -> Fenced3(Run \o <<Line("fields", b @@ [complete |-> FALSE])>> \o Branch("now") \o Decisions) \o Stage(b)
      [] shape = "trailing" -> Fenced3(Run \o Fields(b) \o Branch("now") \o Decisions) \o <<Heading("text")>> \o Stage(b)
      [] shape = "bare" -> Run \o Fields(b) \o Branch("now") \o Decisions \o <<Heading("continued")>> \o Stage(b)
================================================================================
