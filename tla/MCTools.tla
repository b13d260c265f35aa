--------------------------------- MODULE MCTools ----------------------------------
(* The tools of Tools on the instances their MC modules describe, and a fourth, *)
(* the roadmap tools. Their plans: collisions across layers and in shared       *)
(* documents; a folder with a new and an old file in it, and a legacy track;    *)
(* three tracks for a group of two, and two of one identity.                    *)
EXTENDS Tools, MCAutoplan, MCLayoutScaffold, PregateGraph, TrackPacking

(* Roadmaps.                                                                    *)
X == FileTouch(<<3, 4>>)
Y == FileTouch(<<3, 5>>)
Z == FileTouch(<<6>>)
Area == FolderTouch(<<3>>)
Shared == FileTouch(<<7>>)
Listed == FileTouch(<<8>>)
Track(touches, blocked, title) == [touches |-> touches, blocked |-> blocked, title |-> title]
MCRoadmaps == {
    ("A" :> Track({X}, <<>>, 1)) @@ ("B" :> Track({Y}, <<>>, 2)) @@ ("C" :> Track({X, Shared}, <<"B">>, 3)) @@ ("D" :> Track({Shared, Listed}, <<>>, 4)),
    ("A" :> Track({Area}, <<>>, 1)) @@ ("B" :> Track({NewTouch(X)}, <<>>, 2)) @@ ("C" :> Track({Y}, <<"B">>, 3)) @@ ("D" :> Track({}, <<>>, 4)),
    ("A" :> Track({Z}, <<>>, 1)) @@ ("B" :> Track({Y}, <<>>, 2)) @@ ("C" :> Track({X}, <<>>, 3)) @@ ("D" :> Track({X}, <<"A">>, 3))}
MCRetouches == {{X, Listed}, {NewTouch(Area)}}
MCShared == {<<7>>}
MCListed == {Listed, X, FolderTouch(<<3>>)}
MCProtected == {<<3, 4>>}
--------------------------------------------------------------------------------
(* Gate dependencies: a package of two modules, a helper among the tests, a     *)
(* test outside the root, one inside it, and a second root.                     *)
Pkg == <<"src", "pkg", "__init__">>
Alpha == <<"src", "pkg", "alpha">>
Beta == <<"src", "pkg", "beta">>
Other == <<"lib", "alpha">>
Helper == <<"app", "tests", "helper">>
TestA == <<"tests", "test_a">>
TestIn == <<"src", "pkg", "test_a">>
Glob == <<"src", "odd*">>

Sources ==
    (Pkg :> {}) @@ (Alpha :> {FromImport(1, <<"beta">>, {"f"})}) @@ (Beta :> {}) @@ (Other :> {})
    @@ (Helper :> {Import(<<"pkg", "alpha">>)}) @@ (TestA :> {FromImport(0, <<"app", "tests">>, {"helper"})})
    @@ (TestIn :> {FromImport(1, <<>>, {"beta"})})
MCTrees == {Sources, [Sources EXCEPT ![TestA] = {Literal(<<"pkg", "beta", "f">>)}]}
MCSourceEdits ==
    {Sources, [Sources EXCEPT ![Alpha] = {}], [Sources EXCEPT ![TestIn] = {Import(<<"pkg", "alpha">>), FromImport(3, <<"lib">>, {"alpha"})}],
     [Sources EXCEPT ![TestA] = {FromImport(0, <<"pkg">>, {"test_a"}), Import(<<"alpha">>)}],
     [Sources EXCEPT ![Beta] = {Import(<<"pkg", "alpha">>)}, ![Helper] = {Literal(<<"pkg", "alpha">>)}],
     [Sources EXCEPT ![Helper] = {Literal(<<"alpha">>), FromImport(4, <<>>, {"alpha"})}],
     (Glob :> {}) @@ [Sources EXCEPT ![TestA] = {Import(<<"odd*">>)}]}
MCPolicies ==
    {Policy(<<>>), Policy((Beta :> {}) @@ (Glob :> {TestA}) @@ (TestIn :> {TestA})),
     Policy((Alpha :> {TestA, TestIn}) @@ (Other :> {TestA}))}
MCPolicyEdits == {Policy(Beta :> {TestA}), BadPolicy("missing_config"), BadPolicy("invalid_config"), BadPolicy("invalid_dependencies")}
MCRootSets == {{<<"src">>, <<"lib">>}, {<<"src", "pkg">>}, {<<"app">>}}
MCTestNames == {"test_a"}
--------------------------------------------------------------------------------
VARIABLES tracks, order, groups, shipped, cap, report, fresh
roadmap == <<tracks, order, groups, shipped, cap, report, fresh>>
all == <<vars, roadmap>>

R == INSTANCE Roadmap WITH
        Plans <- MCRoadmaps, Caps <- {2}, Retouches <- MCRetouches, HotfixIds <- {"H"}, MaxGroup <- 6, MaxEdits <- 1

NoRoadmap == /\ tracks = Unused /\ order = Unused /\ groups = Unused /\ shipped = Unused
             /\ cap = Unused /\ report = Unused /\ fresh = Unused
MCInit ==
    \/ Init /\ NoRoadmap
    \/ tool = "roadmap" /\ R!Init /\ NoAutoplan /\ NoLayout /\ NoPregate
       /\ last = Unused /\ job = Unused /\ faults = Unused /\ commands = Unused
MCNext ==
    \/ Next /\ UNCHANGED roadmap
    \/ tool = "roadmap" /\ R!Next /\ UNCHANGED <<tool, autoplan, layout, pregate, last, job, faults, commands>>
MCSpec == MCInit /\ [][MCNext]_all
--------------------------------------------------------------------------------
(* Roadmap tools. Packing what the packer wrote gives the same groups.          *)
PackingIsAFixpoint == tool = "roadmap" => R!PackingIsAFixpoint
(* A plan the audit passes launches no two tracks that touch one path.          *)
AuditedFrontierIsSafe == tool = "roadmap" => R!AuditedFrontierIsSafe
================================================================================
