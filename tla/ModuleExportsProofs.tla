------------------------ MODULE ModuleExportsProofs ------------------------
(***************************************************************************)
(* Lemmas about ModuleExports: what leads where in any finite graph, and   *)
(* which declarations a name stands for.                                   *)
(***************************************************************************)
EXTENDS ModuleExports, FiniteSetTheorems, NaturalsInduction, WellFoundedInduction, TLAPS

-----------------------------------------------------------------------------
(* Least elements *)

\* A nonempty set has an element whose measure is least.
LEMMA LeastMeasure ==
  ASSUME NEW S, S # {}, NEW f, \A x \in S : f[x] \in Nat
  PROVE  \E x \in S : \A y \in S : f[x] <= f[y]
<1> DEFINE Less == OpToRel(<, Nat)
           V == {f[x] : x \in S}
<1>1. \A x, y \in Nat : y < x => <<y, x>> \in Less
  <2> TAKE x, y \in Nat
  <2> HAVE y < x
  <2>1. <<y, x>> \in Nat \X Nat /\ <<y, x>>[1] < <<y, x>>[2]
    OBVIOUS
  <2> QED
    BY <2>1, Zenon DEF OpToRel
<1>2. \E v \in V : \A w \in V : <<w, v>> \notin Less
  <2>1. V \subseteq Nat /\ V # {}
    OBVIOUS
  <2> HIDE DEF V, Less
  <2> QED
    BY <2>1, NatLessThanWellFounded, WFMin DEF Less
<1> HIDE DEF Less
<1>3. PICK v \in V : \A w \in V : <<w, v>> \notin Less
  BY <1>2
<1>4. PICK x \in S : v = f[x]
  BY <1>3
<1>5. \A y \in S : f[x] <= f[y]
  <2> TAKE y \in S
  <2>1. f[x] \in Nat /\ f[y] \in Nat /\ ~(f[y] < f[x])
    BY <1>1, <1>3, <1>4
  <2> QED
    BY <2>1
<1> QED
  BY <1>5

-----------------------------------------------------------------------------
(* The closure of a set under what its elements lead to *)

Grown(L, S) == S \cup UNION {L[p] : p \in S}

Closed(L, X) == \A p \in X : L[p] \subseteq X

Closure(U, L, S) ==
  {p \in U : \A X \in SUBSET U : S \subseteq X /\ Closed(L, X) => p \in X}

\* The closure is the least closed set around S.
LEMMA ClosureIsLeast ==
  ASSUME NEW U, NEW L \in [U -> SUBSET U], NEW S \in SUBSET U
  PROVE  /\ Closure(U, L, S) \in SUBSET U
         /\ S \subseteq Closure(U, L, S)
         /\ Closed(L, Closure(U, L, S))
         /\ \A X \in SUBSET U : S \subseteq X /\ Closed(L, X) => Closure(U, L, S) \subseteq X
<1>1. Closed(L, Closure(U, L, S))
  <2> SUFFICES ASSUME NEW p \in Closure(U, L, S), NEW q \in L[p], NEW X \in SUBSET U,
                      S \subseteq X, Closed(L, X)
               PROVE  q \in U /\ q \in X
    BY DEF Closed, Closure
  <2>1. p \in U /\ p \in X
    BY DEF Closure
  <2> QED
    BY <2>1 DEF Closed
<1> QED
  BY <1>1 DEF Closure

\* One step of growth stays inside the universe, and does not change the closure.
LEMMA ClosureOfGrown ==
  ASSUME NEW U, NEW L \in [U -> SUBSET U], NEW S \in SUBSET U
  PROVE  /\ Grown(L, S) \in SUBSET U
         /\ Closure(U, L, Grown(L, S)) = Closure(U, L, S)
         /\ Grown(L, S) = S => Closure(U, L, S) = S
<1>1. Grown(L, S) \in SUBSET U
  BY DEF Grown
<1>2. \A X \in SUBSET U : Closed(L, X) => (S \subseteq X <=> Grown(L, S) \subseteq X)
  BY DEF Grown, Closed
<1>3. Closure(U, L, Grown(L, S)) = Closure(U, L, S)
  BY <1>2, Zenon DEF Closure
<1>4. ASSUME Grown(L, S) = S PROVE Closure(U, L, S) = S
  <2>1. Closed(L, S)
    BY <1>4 DEF Grown, Closed
  <2> QED
    BY <2>1, ClosureIsLeast
<1> QED
  BY <1>1, <1>3, <1>4

\* The only function that grows a set of a finite universe until it is closed.
LEMMA GrowthIsClosure ==
  ASSUME NEW U, IsFiniteSet(U), NEW L \in [U -> SUBSET U],
         NEW f, \A S \in SUBSET U : f[S] = IF Grown(L, S) = S THEN S ELSE f[Grown(L, S)]
  PROVE  \A S \in SUBSET U : f[S] = Closure(U, L, S)
<1> DEFINE Bad == {S \in SUBSET U : f[S] # Closure(U, L, S)}
           left == [S \in SUBSET U |-> Cardinality(U \ S)]
<1>1. \A S \in SUBSET U : left[S] \in Nat
  BY FS_Difference, FS_CardinalityType
<1> SUFFICES ASSUME Bad # {} PROVE FALSE
  OBVIOUS
<1>2. PICK S \in Bad : \A T \in Bad : left[S] <= left[T]
  <2> \A x \in Bad : left[x] \in Nat
    BY <1>1
  <2> HIDE DEF Bad, left
  <2> QED
    BY LeastMeasure
<1>3. S \in SUBSET U
  OBVIOUS
<1>4. Grown(L, S) # S
  BY <1>3, ClosureOfGrown
<1>5. Grown(L, S) \in SUBSET U /\ S \subseteq Grown(L, S)
  BY <1>3, ClosureOfGrown DEF Grown
<1>6. Grown(L, S) \in Bad
  BY <1>3, <1>4, <1>5, ClosureOfGrown
<1>7. left[Grown(L, S)] < left[S]
  <2>1. IsFiniteSet(U \ S)
    BY FS_Difference
  <2>2. U \ Grown(L, S) \subseteq U \ S /\ U \ Grown(L, S) # U \ S
    BY <1>4, <1>5
  <2>3. Cardinality(U \ Grown(L, S)) <= Cardinality(U \ S)
        /\ Cardinality(U \ Grown(L, S)) # Cardinality(U \ S)
    BY <2>1, <2>2, FS_Subset
  <2>4. Cardinality(U \ Grown(L, S)) \in Nat /\ Cardinality(U \ S) \in Nat
    BY <1>1, <1>3, <1>5
  <2>5. Cardinality(U \ Grown(L, S)) < Cardinality(U \ S)
    BY <2>3, <2>4
  <2> QED
    BY <1>3, <1>5, <2>5
<1>8. left[Grown(L, S)] \in Nat /\ left[S] \in Nat /\ left[S] <= left[Grown(L, S)]
  BY <1>1, <1>2, <1>3, <1>5, <1>6
<1> QED
  BY <1>7, <1>8

-----------------------------------------------------------------------------
(* What names lead to *)

\* There are finitely many pairs, and everything about an export is of its type.
LEMMA PairsFinite ==
  IsFiniteSet(Pairs)
BY ModulesAssumption, NamesAssumption, FS_Product DEF Pairs

\* The entry of an export, by kind, in a graph.
LEMMA ExportType ==
  ASSUME IsGraph(graph), NEW p \in Pairs
  PROVE  /\ Export(p) \in Entries
         /\ p[1] \in Modules /\ p[2] \in Names /\ p = <<p[1], p[2]>>
         /\ Stars(p[1]) \subseteq Modules
<1>1. p[1] \in Modules /\ p[2] \in Names /\ p = <<p[1], p[2]>>
  BY DEF Pairs
<1>2. Export(p) \in Entries
  BY <1>1 DEF IsGraph, Export
<1>3. graph.stars[p[1]] \in Seq(Modules)
  BY <1>1 DEF IsGraph
<1>4. Stars(p[1]) \subseteq Modules
  BY <1>3 DEF Stars, Range
<1> QED
  BY <1>1, <1>2, <1>4

\* What the kinds of an entry tell of its other fields.
LEMMA EntryKinds ==
  ASSUME NEW entry \in Entries
  PROVE  /\ entry.kind \in {"absent", "own", "namespace", "from", "through"}
         /\ entry.kind = "own" => entry.binding \in Names
         /\ entry.kind = "from" => entry.from \in Modules /\ entry.name \in Names
         /\ entry.kind = "through" =>
              entry.binding \in Names /\ entry.from \in Modules /\ entry.name \in Names
         /\ entry.kind = "namespace" => entry.from \in Modules
BY DEF Entries

\* A name leads to names of modules of the graph.
LEMMA LeadsType ==
  ASSUME IsGraph(graph), NEW p \in Pairs
  PROVE  Leads(p) \subseteq Pairs
BY ExportType, EntryKinds DEF Leads, Pairs

\* Behind is the closure under Leads.
LEMMA BehindIsClosure ==
  ASSUME IsGraph(graph), NEW S \in SUBSET Pairs
  PROVE  Behind[S] = Closure(Pairs, [p \in Pairs |-> Leads(p)], S)
<1> DEFINE L == [p \in Pairs |-> Leads(p)]
           g == [X \in SUBSET Pairs |-> Closure(Pairs, L, X)]
<1>1. L \in [Pairs -> SUBSET Pairs]
  BY LeadsType
<1>2. \A X \in SUBSET Pairs : Grown(L, X) = X \cup UNION {Leads(p) : p \in X}
  BY DEF Grown
<1>3. \A X \in SUBSET Pairs : g[X] = IF Grown(L, X) = X THEN X ELSE g[Grown(L, X)]
  <2> HIDE DEF L
  <2> TAKE X \in SUBSET Pairs
  <2> QED
    BY <1>1, ClosureOfGrown
<1>4. g = [X \in SUBSET Pairs |->
             LET T == X \cup UNION {Leads(p) : p \in X}
             IN IF T = X THEN X ELSE g[T]]
  <2> HIDE DEF L
  <2>1. \A X \in SUBSET Pairs : g[X] = LET T == X \cup UNION {Leads(p) : p \in X}
                                       IN IF T = X THEN X ELSE g[T]
    <3> HIDE DEF g
    <3> QED
      BY <1>2, <1>3
  <2>2. g = [X \in SUBSET Pairs |-> g[X]]
    OBVIOUS
  <2> HIDE DEF g
  <2> QED
    BY <2>1, <2>2
<1>5. Behind = [X \in SUBSET Pairs |->
                  LET T == X \cup UNION {Leads(p) : p \in X}
                  IN IF T = X THEN X ELSE Behind[T]]
  <2> HIDE DEF g
  <2> QED
    BY <1>4, Zenon DEF Behind
<1>6. \A X \in SUBSET Pairs : Behind[X] = IF Grown(L, X) = X THEN X ELSE Behind[Grown(L, X)]
  <2>1. \A X \in SUBSET Pairs : Behind[X] = LET T == X \cup UNION {Leads(p) : p \in X}
                                            IN IF T = X THEN X ELSE Behind[T]
    BY <1>5, Zenon
  <2> HIDE DEF L
  <2> QED
    BY <1>2, <2>1
<1> HIDE DEF L
<1>7. \A X \in SUBSET Pairs : Behind[X] = Closure(Pairs, L, X)
  BY <1>1, <1>6, PairsFinite, GrowthIsClosure
<1> QED
  BY <1>7 DEF L

\* Behind a set are the names that it leads to, and no others.
LEMMA BehindIsLeast ==
  ASSUME IsGraph(graph), NEW S \in SUBSET Pairs
  PROVE  /\ Behind[S] \in SUBSET Pairs
         /\ S \subseteq Behind[S]
         /\ \A p \in Behind[S] : Leads(p) \subseteq Behind[S]
         /\ \A X \in SUBSET Pairs :
              S \subseteq X /\ (\A p \in X : Leads(p) \subseteq X) => Behind[S] \subseteq X
<1> DEFINE L == [p \in Pairs |-> Leads(p)]
<1>1. L \in [Pairs -> SUBSET Pairs]
  BY LeadsType
<1>2. \A X \in SUBSET Pairs : Closed(L, X) <=> \A p \in X : Leads(p) \subseteq X
  BY DEF Closed
<1>3. Behind[S] = Closure(Pairs, L, S)
  BY BehindIsClosure
<1> HIDE DEF L
<1>4. /\ Closure(Pairs, L, S) \in SUBSET Pairs
      /\ S \subseteq Closure(Pairs, L, S)
      /\ Closed(L, Closure(Pairs, L, S))
      /\ \A X \in SUBSET Pairs : S \subseteq X /\ Closed(L, X) => Closure(Pairs, L, S) \subseteq X
  BY <1>1, ClosureIsLeast
<1> QED
  BY <1>2, <1>3, <1>4

\* The names a name leads to: itself and what follows from each of its leads.
LEMMA FollowIsLeast ==
  ASSUME IsGraph(graph), NEW p \in Pairs
  PROVE  /\ Follow(p) \in SUBSET Pairs
         /\ p \in Follow(p)
         /\ \A q \in Follow(p) : Leads(q) \subseteq Follow(p)
         /\ \A X \in SUBSET Pairs :
              p \in X /\ (\A q \in X : Leads(q) \subseteq X) => Follow(p) \subseteq X
<1>1. PICK S \in SUBSET Pairs : S = {p}
  OBVIOUS
<1>2. Follow(p) = Behind[S]
  BY <1>1 DEF Follow
<1>3. p \in S /\ \A X : p \in X => S \subseteq X
  BY <1>1
<1> QED
  BY <1>2, <1>3, BehindIsLeast

\* The names behind a name are itself and those behind what it leads to.
LEMMA BehindOne ==
  ASSUME IsGraph(graph), NEW p \in Pairs
  PROVE  /\ Leads(p) \subseteq Follow(p)
         /\ Follow(p) = {p} \cup Behind[Leads(p)]
         /\ Behind[Leads(p)] = UNION {Follow(q) : q \in Leads(p)}
         /\ \A q \in Follow(p) : Follow(q) \subseteq Follow(p)
<1>1. Leads(p) \in SUBSET Pairs
  BY LeadsType
<1>2. /\ Behind[Leads(p)] \in SUBSET Pairs
      /\ Leads(p) \subseteq Behind[Leads(p)]
      /\ \A q \in Behind[Leads(p)] : Leads(q) \subseteq Behind[Leads(p)]
      /\ \A X \in SUBSET Pairs :
           Leads(p) \subseteq X /\ (\A q \in X : Leads(q) \subseteq X) => Behind[Leads(p)] \subseteq X
  BY <1>1, BehindIsLeast
<1>3. \A q \in Pairs :
        /\ Follow(q) \in SUBSET Pairs
        /\ q \in Follow(q)
        /\ \A r \in Follow(q) : Leads(r) \subseteq Follow(q)
        /\ \A X \in SUBSET Pairs :
             q \in X /\ (\A r \in X : Leads(r) \subseteq X) => Follow(q) \subseteq X
  BY FollowIsLeast
<1>4. \A q \in Follow(p) : Follow(q) \subseteq Follow(p)
  BY <1>3
<1>5. \A q \in Leads(p) : Follow(q) \subseteq Behind[Leads(p)]
  BY <1>1, <1>2, <1>3
<1>6. Behind[Leads(p)] \subseteq UNION {Follow(q) : q \in Leads(p)}
  <2> DEFINE X == UNION {Follow(q) : q \in Leads(p)}
  <2>1. X \in SUBSET Pairs
    BY <1>1, <1>3
  <2>2. Leads(p) \subseteq X
    BY <1>1, <1>3
  <2>3. \A r \in X : Leads(r) \subseteq X
    BY <1>1, <1>3
  <2> HIDE DEF X
  <2>4. Behind[Leads(p)] \subseteq X
    BY <1>2, <2>1, <2>2, <2>3
  <2> QED
    BY <2>4 DEF X
<1>7. Follow(p) \subseteq {p} \cup Behind[Leads(p)]
  <2> DEFINE X == {p} \cup Behind[Leads(p)]
  <2>1. X \in SUBSET Pairs /\ p \in X
    BY <1>2
  <2>2. \A r \in X : Leads(r) \subseteq X
    BY <1>2
  <2> HIDE DEF X
  <2>3. Follow(p) \subseteq X
    BY <1>3, <2>1, <2>2
  <2> QED
    BY <2>3 DEF X
<1>8. Leads(p) \subseteq Follow(p) /\ Behind[Leads(p)] \subseteq Follow(p)
  BY <1>2, <1>3
<1>9. UNION {Follow(q) : q \in Leads(p)} \subseteq Behind[Leads(p)]
  BY <1>5
<1>10. p \in Follow(p)
  BY <1>3
<1> QED
  BY <1>4, <1>6, <1>7, <1>8, <1>9, <1>10

\* What a name stands for is what it declares and what the names it leads to stand for.
LEMMA OriginsUnfold ==
  ASSUME IsGraph(graph), NEW p \in Pairs
  PROVE  Origins(p) = Declared(p) \cup UNION {Origins(q) : q \in Leads(p)}
<1>1. Follow(p) = {p} \cup UNION {Follow(q) : q \in Leads(p)}
  BY BehindOne
<1>2. \A r, d : d \in Origins(r) <=> \E s \in Follow(r) : d \in Declared(s)
  BY DEF Origins
<1>3. \A d : d \in UNION {Origins(q) : q \in Leads(p)}
             <=> \E q \in Leads(p) : \E s \in Follow(q) : d \in Declared(s)
  BY <1>2
<1>4. \A s : s \in Follow(p) <=> s = p \/ \E q \in Leads(p) : s \in Follow(q)
  BY <1>1
<1> QED
  BY <1>2, <1>3, <1>4

\* The declarations behind a name are among those of a name that leads to it.
LEMMA OriginsBehind ==
  ASSUME IsGraph(graph), NEW p \in Pairs, NEW q \in Follow(p)
  PROVE  q \in Pairs /\ Origins(q) \subseteq Origins(p)
<1>1. q \in Pairs /\ Follow(q) \subseteq Follow(p)
  BY BehindOne, FollowIsLeast
<1>2. \A r, d : d \in Origins(r) <=> \E s \in Follow(r) : d \in Declared(s)
  BY DEF Origins
<1> QED
  BY <1>1, <1>2

Declarations == Modules \X (Names \cup {NamespaceObject})

\* A name declares at most one thing where it stands, and stands for finitely many.
LEMMA OriginsFinite ==
  ASSUME IsGraph(graph), NEW p \in Pairs
  PROVE  /\ Declared(p) \subseteq Declarations
         /\ Origins(p) \subseteq Declarations
         /\ IsFiniteSet(Declarations)
         /\ IsFiniteSet(Origins(p))
<1>1. \A q \in Pairs : Declared(q) \subseteq Declarations
  BY ExportType, EntryKinds DEF Declared, Declarations
<1>2. Origins(p) \subseteq Declarations
  BY <1>1, FollowIsLeast DEF Origins
<1>3. IsFiniteSet(Names \cup {NamespaceObject})
  BY NamesAssumption, FS_AddElement
<1>4. IsFiniteSet(Declarations)
  BY <1>3, ModulesAssumption, FS_Product DEF Declarations
<1> QED
  BY <1>1, <1>2, <1>4, FS_Subset

\* A set with one element is a singleton.
LEMMA OneElement ==
  ASSUME NEW S, IsFiniteSet(S)
  PROVE  /\ Cardinality(S) = 1 <=> \E x : S = {x}
         /\ Cardinality(S) = 1 => S # {} /\ \A x, y \in S : x = y
         /\ Cardinality(S) = 0 <=> S = {}
         /\ Cardinality(S) \in Nat
         /\ \A x \in S : (\A y \in S : y = x) => Cardinality(S) = 1
<1>1. Cardinality(S) = 1 <=> \E x : S = {x}
  BY FS_Singleton
<1>2. \A x \in S : (\A y \in S : y = x) => S = {x}
  OBVIOUS
<1> QED
  BY <1>1, <1>2, FS_EmptySet, FS_CardinalityType

\* While the graph is the same, so is everything that is said of it.
LEMMA GraphFrozen ==
  ASSUME UNCHANGED graph
  PROVE  /\ Behind' = Behind
         /\ \A p : Follow(p)' = Follow(p)
         /\ \A p : /\ Export(p)' = Export(p)
                   /\ Leads(p)' = Leads(p)
                   /\ Declared(p)' = Declared(p)
                   /\ Origins(p)' = Origins(p)
         /\ \A m : Stars(m)' = Stars(m)
         /\ Wellformed' = Wellformed
         /\ Acyclic' = Acyclic
         /\ Revisits' = Revisits
         /\ \A m, b : Denoted(m, b)' = Denoted(m, b)
<1>1. \A p : Export(p)' = Export(p)
  BY DEF Export
<1>2. \A m : Stars(m)' = Stars(m)
  BY DEF Stars
<1>3. \A p : Leads(p)' = Leads(p)
  BY DEF Leads, Export, Stars
<1>4. \A p : Declared(p)' = Declared(p)
  BY DEF Declared, Export
<1>5. Behind' = Behind
  BY DEF Behind, Leads, Export, Stars
<1>6. \A p : Origins(p)' = Origins(p)
  BY <1>5 DEF Origins, Follow, Declared, Export
<1> QED
  BY <1>1, <1>2, <1>3, <1>4, <1>5, <1>6 DEF Wellformed, Acyclic, Revisits, Denoted, Origins, Follow, Declared, Export, Leads, Stars

=============================================================================
