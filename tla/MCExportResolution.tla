------------------------- MODULE MCExportResolution -------------------------
\* Instances of ExportResolution.
EXTENDS ExportResolution

CONSTANTS a, b, c, d, e, f, app, lib

AllModules == {a, b, c, d, e, f}

Nothing == [m \in AllModules |-> [n \in Names |-> Absent]]
NoStars == [m \in AllModules |-> << >>]

Lists(S) == {<< >>} \cup {<<s>> : s \in S} \cup {l \in S \X S : l[1] # l[2]}

Entry(ex, ey, ed) == [x |-> ex, y |-> ey, default |-> ed]
Request(i, m, ns) == [importer |-> i, barrel |-> m, names |-> ns]

\* d is in a package of its own, which the package of the others may not know.
Packages == {[m \in AllModules |-> IF m = d THEN lib ELSE app]}
Knowledge == {[q \in {app, lib} |-> IF q = app THEN {lib} ELSE {}], [q \in {app, lib} |-> {}]}

(***************************************************************************)
(* Two barrels a and b over the modules c and d, which declare x each: a   *)
(* barrel declares x, imports and exports it, re-exports it from the other *)
(* barrel or from c, under its name or another, or leaves it to its stars. *)
(***************************************************************************)
BarrelEntries(o) ==
  {Absent, Own("x"), Through("x", c, "x"), From(o, "x"), From(c, "x"), From(c, "y"), Namespace(c)}

BarrelExports ==
  {[Nothing EXCEPT ![a] = Entry(ax, From(c, "y"), Absent), ![b] = Entry(bx, Absent, From(c, "y")),
                   ![c] = Entry(Own("x"), Own("y"), Own("default")), ![d] = Entry(Own("x"), Absent, Absent)] :
     ax \in BarrelEntries(b), bx \in BarrelEntries(a)}

BarrelStars ==
  {[NoStars EXCEPT ![a] = as, ![b] = bs] : as \in Lists({b, c, d}), bs \in Lists({a, c, d})}

Lanes ==
  [explicit : BarrelExports, stars : BarrelStars, package : Packages, depends : {[q \in {app, lib} |-> {}]},
   lanes : {{a, b}}, requests : {{}}]

Imports ==
  [explicit : BarrelExports, stars : BarrelStars, package : Packages, depends : Knowledge, lanes : {{}},
   requests : {{Request(e, a, {"x", "y"}), Request(e, b, {"x"}), Request(a, b, {"x"})}}]

(***************************************************************************)
(* A module a that re-exports x beside an export-star, under two barrels   *)
(* that may pass each other on: x of a stands on d's x, some passes behind *)
(* f, while its star offers c's.                                           *)
(***************************************************************************)
ShadowExports ==
  {[Nothing EXCEPT ![a] = Entry(From(f, "x"), Absent, Absent), ![f] = Entry(fx, Absent, Absent),
                   ![c] = Entry(Own("x"), Absent, Absent), ![d] = Entry(Own("x"), Own("y"), Absent)] :
     fx \in {Absent, From(d, "x"), From(d, "y")}}

ShadowStars ==
  {[NoStars EXCEPT ![a] = as, ![b] = bs, ![e] = es, ![f] = fs] :
     as \in Lists({c}), bs \in Lists({a, e}), es \in Lists({a, b}), fs \in Lists({b, d})}

ShadowLanes ==
  [explicit : ShadowExports, stars : ShadowStars, package : Packages, depends : {[q \in {app, lib} |-> {}]},
   lanes : {{a, b, e, f}}, requests : {{Request(c, a, {})}}]

(***************************************************************************)
(* A chain of names between a, b and c, which comes back to the modules    *)
(* under other names.                                                      *)
(***************************************************************************)
ChainEntries(o) == {Absent, From(o, "x"), From(o, "y"), From(o, "default"), From(c, "x")}

ChainLanes ==
  [explicit : {[Nothing EXCEPT ![a] = Entry(ax, From(b, "x"), ad), ![b] = Entry(bx, by, Absent), ![c] = Entry(Own("x"), Absent, Absent)] :
                 ax \in ChainEntries(b), ad \in ChainEntries(b), bx \in ChainEntries(a), by \in ChainEntries(a)},
   stars : {NoStars}, package : Packages, depends : {[q \in {app, lib} |-> {}]}, lanes : {{a, b}}, requests : {{}}]

MCGraphs == Lanes \cup Imports \cup ShadowLanes \cup ChainLanes
=============================================================================
