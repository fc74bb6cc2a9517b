--------------------------- MODULE MCPackageGraph ---------------------------
(***************************************************************************)
(* Instances of PackageGraph for TLC: three modules in two packages, paths *)
(* of which two fold together, and import graphs with chains, a diamond-   *)
(* free join, cycles and a self import.                                    *)
(***************************************************************************)
EXTENDS PackageGraph

CONSTANTS a, b, c, p, q

MCModules == {a, b, c}
MCPackages == {p, q}
MCPackageOf == [m \in MCModules |-> IF m = c THEN q ELSE p]

MCPaths == {"main", "Main", "other"}
MCFold == [path \in MCPaths |-> IF path = "Main" THEN "main" ELSE path]
MCSlots == {"first", "second"}

Chain == {<<a, b>>, <<b, c>>}
Join == {<<a, c>>, <<b, c>>}
CycleBelow == {<<a, b>>, <<b, c>>, <<c, b>>}
CycleAbove == {<<a, b>>, <<b, a>>, <<b, c>>}
Ring == {<<a, b>>, <<b, c>>, <<c, a>>}
SelfImport == {<<a, a>>, <<b, a>>}

AllGraphs == {{}, Chain, Join, CycleBelow, CycleAbove, Ring, SelfImport}
\* The graphs of the search for colliding files.
OutputGraphs == {{}, Chain, CycleAbove}

EntryChoices == {{}, {a}}
AllOrTail == {MCModules, {b, c}}
Everything == {MCModules}

\* One file, a differently spelled one, and a list that collides with itself.
OneFile == {<<"first", "main">>}
OtherCase == {<<"first", "Main">>}
SelfColliding == {<<"first", "main">>, <<"second", "Main">>}
SamePathTwice == {<<"first", "main">>, <<"second", "main">>}
PipelineOutputs == {OneFile, OtherCase, SamePathTwice}
OutputOutputs == {{}, OneFile, OtherCase, SelfColliding, SamePathTwice}

Keep == [path \in MCPaths |-> path]
Merge == [path \in MCPaths |-> "other"]
KeepOrMerge == {Keep, Merge}
ManifestFile == {<<p, "Main">>}

=============================================================================
