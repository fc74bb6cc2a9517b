----------------------- MODULE ExportResolutionProofs -----------------------
(***************************************************************************)
(* Theorems about the two resolutions of exports, for every finite graph.  *)
(*                                                                         *)
(* The workspace inventory: what it publishes is what the language says,   *)
(* and what it refuses is refused by the language, but for two situations  *)
(* that are named.  The tracing of imports through barrels, in every order *)
(* of the requests: the cached answers, the answers of the open calls, and *)
(* the links made from them.                                               *)
(***************************************************************************)
EXTENDS ExportResolution, ModuleExportsProofs, SequenceTheorems

-----------------------------------------------------------------------------
(* The inventory.                                                          *)

Cand(table, p) == table[p[1]][p[2]]

Tables == UNION {[D -> [Names -> SUBSET Declarations]] : D \in SUBSET Modules}

-----------------------------------------------------------------------------
(* The modules of a lane *)

\* What a module refers to are modules, and its names lead to no others.
LEMMA ReferencesType ==
  ASSUME IsGraph(graph), NEW m \in Modules
  PROVE  /\ References(m) \subseteq Modules
         /\ \A n \in Names : \A q \in Leads(<<m, n>>) : q[1] \in References(m) /\ q[2] \in Names
         /\ \A n \in Names : Export(<<m, n>>).kind = "from" => Export(<<m, n>>).from \in References(m)
         /\ Stars(m) \subseteq References(m)
<1>1. \A n \in Names : <<m, n>> \in Pairs /\ <<m, n>>[1] = m /\ <<m, n>>[2] = n
  BY DEF Pairs
<1>2. \A n \in Names : Export(<<m, n>>) \in Entries
  BY <1>1, ExportType
<1>3. Stars(m) \subseteq Modules
  <2>1. <<m, Default>> \in Pairs /\ <<m, Default>>[1] = m
    BY <1>1, NamesAssumption
  <2> QED
    BY <2>1, ExportType
<1>4. References(m) \subseteq Modules
  BY <1>2, <1>3, EntryKinds DEF References
<1>5. Stars(m) \subseteq References(m)
  BY DEF References
<1>6. \A n \in Names : Export(<<m, n>>).kind \in {"from", "through", "namespace"} =>
                         Export(<<m, n>>).from \in References(m)
  BY DEF References
<1>7. ASSUME NEW n \in Names, NEW q \in Leads(<<m, n>>)
      PROVE  q[1] \in References(m) /\ q[2] \in Names
  <2>1. CASE Export(<<m, n>>).kind \in {"from", "through"}
    <3>1. q = <<Export(<<m, n>>).from, Export(<<m, n>>).name>>
      BY <1>7, <2>1 DEF Leads
    <3>2. Export(<<m, n>>).name \in Names
      BY <1>2, <2>1, EntryKinds
    <3> QED
      BY <1>6, <2>1, <3>1, <3>2
  <2>2. CASE Export(<<m, n>>).kind \notin {"from", "through"}
    <3>1. q \in Stars(m) \X {n}
      BY <1>1, <1>7, <2>2 DEF Leads
    <3> QED
      BY <1>5, <3>1
  <2> QED
    BY <2>1, <2>2
<1> QED
  BY <1>4, <1>5, <1>6, <1>7

\* The modules of a lane are the root and what the unresolved ones refer to.
LEMMA ExportGraphClosed ==
  ASSUME IsGraph(graph), NEW root \in Modules
  PROVE  /\ ExportGraph[{root}] \subseteq Modules
         /\ root \in ExportGraph[{root}]
         /\ \A m \in ExportGraph[{root}] : m \notin DOMAIN resolved => References(m) \subseteq ExportGraph[{root}]
<1> DEFINE L == [m \in Modules |-> IF m \in DOMAIN resolved THEN {} ELSE References(m)]
           g == [X \in SUBSET Modules |-> Closure(Modules, L, X)]
<1>1. L \in [Modules -> SUBSET Modules]
  BY ReferencesType
<1>2. \A X \in SUBSET Modules :
        Grown(L, X) = X \cup UNION {References(m) : m \in X \ DOMAIN resolved}
  <2> TAKE X \in SUBSET Modules
  <2>1. \A e : e \in Grown(L, X) <=> e \in X \/ \E m \in X : e \in L[m]
    BY DEF Grown
  <2>2. \A m \in X : \A e : e \in L[m] <=> m \notin DOMAIN resolved /\ e \in References(m)
    OBVIOUS
  <2> HIDE DEF L
  <2> QED
    BY <2>1, <2>2
<1>3. \A X \in SUBSET Modules : g[X] = IF Grown(L, X) = X THEN X ELSE g[Grown(L, X)]
  <2> HIDE DEF L
  <2> TAKE X \in SUBSET Modules
  <2> QED
    BY <1>1, ClosureOfGrown
<1>4. g = [X \in SUBSET Modules |->
             LET T == X \cup UNION {References(m) : m \in X \ DOMAIN resolved}
             IN IF T = X THEN X ELSE g[T]]
  <2> HIDE DEF L
  <2>1. \A X \in SUBSET Modules : g[X] = LET T == X \cup UNION {References(m) : m \in X \ DOMAIN resolved}
                                       IN IF T = X THEN X ELSE g[T]
    <3> HIDE DEF g
    <3> QED
      BY <1>2, <1>3
  <2>2. g = [X \in SUBSET Modules |-> g[X]]
    OBVIOUS
  <2> HIDE DEF g
  <2> QED
    BY <2>1, <2>2
<1>5. ExportGraph = [X \in SUBSET Modules |->
                  LET T == X \cup UNION {References(m) : m \in X \ DOMAIN resolved}
                  IN IF T = X THEN X ELSE ExportGraph[T]]
  <2> HIDE DEF g
  <2> QED
    BY <1>4, Zenon DEF ExportGraph
<1>6. \A X \in SUBSET Modules : ExportGraph[X] = IF Grown(L, X) = X THEN X ELSE ExportGraph[Grown(L, X)]
  <2>1. \A X \in SUBSET Modules :
          ExportGraph[X] = LET T == X \cup UNION {References(m) : m \in X \ DOMAIN resolved}
                           IN IF T = X THEN X ELSE ExportGraph[T]
    BY <1>5, Zenon
  <2> HIDE DEF L
  <2> QED
    BY <1>2, <2>1
<1> HIDE DEF L
<1>7. \A X \in SUBSET Modules : ExportGraph[X] = Closure(Modules, L, X)
  BY <1>1, <1>6, ModulesAssumption, GrowthIsClosure
<1>8. PICK S \in SUBSET Modules : S = {root}
  OBVIOUS
<1>9. /\ Closure(Modules, L, S) \in SUBSET Modules
      /\ S \subseteq Closure(Modules, L, S)
      /\ Closed(L, Closure(Modules, L, S))
  BY <1>1, ClosureIsLeast
<1>10. /\ ExportGraph[S] \in SUBSET Modules
       /\ root \in ExportGraph[S]
       /\ \A m \in ExportGraph[S] : L[m] \subseteq ExportGraph[S]
  BY <1>7, <1>8, <1>9 DEF Closed
<1>11. \A m \in ExportGraph[S] : m \notin DOMAIN resolved => L[m] = References(m)
  BY <1>10 DEF L
<1> QED
  BY <1>8, <1>10, <1>11

-----------------------------------------------------------------------------
(* Tables of candidates *)

\* A table has candidates for every name of the modules it knows.
LEMMA TableType ==
  ASSUME NEW t \in Tables
  PROVE  /\ DOMAIN t \in SUBSET Modules
         /\ t \in [DOMAIN t -> [Names -> SUBSET Declarations]]
         /\ \A p \in (DOMAIN t) \X Names : p \in Pairs /\ Cand(t, p) \subseteq Declarations
<1>1. PICK D \in SUBSET Modules : t \in [D -> [Names -> SUBSET Declarations]]
  BY DEF Tables
<1>2. DOMAIN t = D
  BY <1>1
<1>3. \A p \in D \X Names : p \in Pairs /\ t[p[1]] \in [Names -> SUBSET Declarations] /\ p[2] \in Names
  BY <1>1 DEF Pairs
<1> QED
  BY <1>1, <1>2, <1>3 DEF Cand

\* One table over another is a table.
LEMMA TableMerge ==
  ASSUME NEW s \in Tables, NEW t \in Tables
  PROVE  /\ Over(s, t) \in Tables
         /\ DOMAIN Over(s, t) = (DOMAIN s) \cup (DOMAIN t)
         /\ \A p \in (DOMAIN s) \X Names : Cand(Over(s, t), p) = Cand(s, p)
         /\ \A p \in (DOMAIN t) \X Names : p[1] \notin DOMAIN s => Cand(Over(s, t), p) = Cand(t, p)
<1> DEFINE D == (DOMAIN s) \cup (DOMAIN t)
<1>1. Over(s, t) = [x \in D |-> IF x \in DOMAIN s THEN s[x] ELSE t[x]]
  BY DEF Over
<1>2. /\ DOMAIN s \in SUBSET Modules /\ s \in [DOMAIN s -> [Names -> SUBSET Declarations]]
      /\ DOMAIN t \in SUBSET Modules /\ t \in [DOMAIN t -> [Names -> SUBSET Declarations]]
  BY TableType
<1>3. Over(s, t) \in [D -> [Names -> SUBSET Declarations]]
  BY <1>1, <1>2
<1>4. D \in SUBSET Modules
  BY <1>2
<1> QED
  BY <1>1, <1>3, <1>4 DEF Tables, Cand

-----------------------------------------------------------------------------
(* One pass *)

\* The first candidates of a module are declarations of its own.
LEMMA DirectSays ==
  ASSUME IsGraph(graph), NEW m \in Modules
  PROVE  /\ Direct(m) \in [Names -> SUBSET Declarations]
         /\ \A n \in Names : Direct(m)[n] \subseteq Declared(<<m, n>>)
<1> SUFFICES ASSUME NEW n \in Names
             PROVE  Direct(m)[n] \subseteq Declared(<<m, n>>) /\ Declared(<<m, n>>) \subseteq Declarations
  BY DEF Direct
<1>1. <<m, n>> \in Pairs /\ <<m, n>>[1] = m
  BY DEF Pairs
<1>2. Declared(<<m, n>>) \subseteq Declarations
  BY <1>1, OriginsFinite
<1>3. ASSUME Export(<<m, n>>) = Own(n) PROVE Declared(<<m, n>>) = {<<m, n>>}
  BY <1>1, <1>3 DEF Declared, Own
<1> QED
  BY <1>2, <1>3 DEF Direct

\* A pass takes over what a name declares and the candidates of all it leads to;
\* and nothing else, but from a star beside a re-export that has no candidate yet.
LEMMA SourcePassSays ==
  ASSUME IsGraph(graph), states \in Tables, NEW m \in DOMAIN states, References(m) \subseteq DOMAIN states,
         NEW n \in Names
  PROVE  LET p == <<m, n>>
         IN /\ Declared(p) \subseteq SourcePass(m)[n]
            /\ \A q \in Leads(p) : Cand(states, q) \subseteq SourcePass(m)[n]
            /\ \A d \in SourcePass(m)[n] :
                 \/ d \in Declared(p)
                 \/ \E q \in Leads(p) : d \in Cand(states, q)
                 \/ /\ Export(p).kind \in {"from", "through"}
                    /\ \A q \in Leads(p) : Cand(states, q) = {}
                    /\ \E s \in Stars(m) : d \in states[s][n]
<1> DEFINE p == <<m, n>>
           stars == UNION {states[s][n] : s \in Stars(m)}
           target == states[Export(p).from][Export(p).name]
           named == IF Export(p).kind \in {"from", "through"} THEN target ELSE Declared(p)
<1>1. m \in Modules
  BY TableType
<1>2. p \in Pairs /\ p[1] = m /\ p[2] = n
  BY <1>1 DEF Pairs
<1>3. Export(p) \in Entries
  BY <1>2, ExportType
<1>4. SourcePass(m)[n] = IF named # {} \/ n = Default THEN named ELSE stars
  BY DEF SourcePass
<1>5. CASE Export(p).kind \in {"from", "through"}
  <2>1. Leads(p) = {<<Export(p).from, Export(p).name>>} /\ Declared(p) = {}
    BY <1>5 DEF Leads, Declared
  <2>2. \A q \in Leads(p) : Cand(states, q) = target
    BY <2>1 DEF Cand
  <2>3. named = target
    BY <1>5
  <2>4. \A d \in stars : \E s \in Stars(m) : d \in states[s][n]
    OBVIOUS
  <2> HIDE DEF target, named, stars, p
  <2>5. \A d \in SourcePass(m)[n] : d \in target \/ (target = {} /\ d \in stars)
    BY <1>4, <2>3
  <2>6. \A d \in target : \E q \in Leads(p) : d \in Cand(states, q)
    BY <2>1, <2>2
  <2>7. \A d \in target : d \in SourcePass(m)[n]
    BY <1>4, <2>3
  <2> QED
    BY <1>5, <2>1, <2>2, <2>4, <2>5, <2>6, <2>7 DEF p
<1>6. CASE Export(p).kind = "absent"
  <2>1. named = {} /\ Declared(p) = {}
    BY <1>6 DEF Declared
  <2>2. CASE n = Default
    <3>1. Leads(p) = {}
      BY <1>2, <1>6, <2>2 DEF Leads
    <3> QED
      BY <1>4, <2>1, <2>2, <3>1
  <2>3. CASE n # Default
    <3>1. Leads(p) = Stars(m) \X {n}
      BY <1>2, <1>6, <2>3 DEF Leads
    <3>2. SourcePass(m)[n] = stars
      BY <1>4, <2>1, <2>3
    <3>3. \A q \in Leads(p) : q[1] \in Stars(m) /\ Cand(states, q) = states[q[1]][n]
      BY <3>1 DEF Cand
    <3>4. \A s \in Stars(m) : <<s, n>> \in Leads(p) /\ Cand(states, <<s, n>>) = states[s][n]
      BY <3>1 DEF Cand
    <3>5. \A d : d \in stars <=> \E s \in Stars(m) : d \in states[s][n]
      OBVIOUS
    <3> HIDE DEF stars, named, p, target
    <3>6. \A q \in Leads(p) : Cand(states, q) \subseteq SourcePass(m)[n]
      BY <3>2, <3>3, <3>5
    <3>7. \A d \in SourcePass(m)[n] : \E q \in Leads(p) : d \in Cand(states, q)
      BY <3>2, <3>4, <3>5
    <3> QED
      BY <2>1, <3>6, <3>7 DEF p
  <2> QED
    BY <2>2, <2>3
<1>7. CASE Export(p).kind \in {"own", "namespace"}
  <2>1. named = Declared(p) /\ Declared(p) # {} /\ Leads(p) = {}
    BY <1>7 DEF Declared, Leads
  <2>2. SourcePass(m)[n] = Declared(p)
    BY <1>4, <2>1
  <2> QED
    BY <2>1, <2>2
<1> QED
  BY <1>3, <1>5, <1>6, <1>7, EntryKinds

-----------------------------------------------------------------------------
(* The invariant of the inventory *)

InventoryType ==
  /\ IsGraph(graph)
  /\ resolved \in Tables
  /\ states \in Tables
  /\ passes \in Nat

\* What is resolved refers to nothing else; a lane refers to its own modules, or to
\* those of its modules that are resolved.
LanesClosed ==
  /\ \A m \in DOMAIN resolved : References(m) \subseteq DOMAIN resolved
  /\ \A m \in DOMAIN states : m \notin DOMAIN resolved => References(m) \subseteq DOMAIN states
  /\ \A m \in DOMAIN states : m \in DOMAIN resolved => states[m] = resolved[m]

\* A name has what it declares and all that the names it leads to have.
Flows(t) ==
  \A p \in (DOMAIN t) \X Names :
    /\ Declared(p) \subseteq Cand(t, p)
    /\ \A q \in Leads(p) : q \in (DOMAIN t) \X Names /\ Cand(t, q) \subseteq Cand(t, p)

\* Only a name that stands for something has candidates.
Grounded(t) ==
  \A p \in (DOMAIN t) \X Names : Cand(t, p) # {} => Origins(p) # {}

InventoryInv ==
  /\ InventoryType
  /\ LanesClosed
  /\ Flows(resolved)
  /\ Wellformed => Grounded(resolved) /\ Grounded(states)

\* The candidates of a table that flows hold everything that the language says.
LEMMA FlowsContain ==
  ASSUME IsGraph(graph), NEW t \in Tables, Flows(t), NEW p \in (DOMAIN t) \X Names
  PROVE  p \in Pairs /\ Origins(p) \subseteq Cand(t, p)
<1> DEFINE Z == {q \in (DOMAIN t) \X Names : Cand(t, q) \subseteq Cand(t, p)}
<1>1. \A q \in (DOMAIN t) \X Names : q \in Pairs
  BY TableType
<1>2. Z \in SUBSET Pairs /\ p \in Z
  BY <1>1
<1>3. \A q \in Z : Leads(q) \subseteq Z
  BY DEF Flows
<1>4. \A q \in Z : Declared(q) \subseteq Cand(t, p)
  BY DEF Flows
<1> HIDE DEF Z
<1>5. Follow(p) \subseteq Z
  BY <1>2, <1>3, FollowIsLeast
<1> QED
  BY <1>2, <1>4, <1>5 DEF Origins

\* A pass over a lane gives a table of the same modules; what it says of the
\* unresolved ones is SourcePass.
LEMMA PassSays ==
  ASSUME InventoryType, LanesClosed
  PROVE  /\ Pass \in Tables
         /\ DOMAIN Pass = DOMAIN states
         /\ \A p \in (DOMAIN states) \X Names :
              Cand(Pass, p) = IF p[1] \in DOMAIN resolved THEN Cand(resolved, p) ELSE SourcePass(p[1])[p[2]]
<1>1. \A m \in DOMAIN states : m \in DOMAIN resolved => resolved[m] \in [Names -> SUBSET Declarations]
  BY TableType DEF InventoryType
<1>2. ASSUME NEW m \in DOMAIN states, m \notin DOMAIN resolved
      PROVE  SourcePass(m) \in [Names -> SUBSET Declarations]
  <2>1. SourcePass(m) = [n \in Names |-> SourcePass(m)[n]]
    BY DEF SourcePass
  <2>2. m \in Modules /\ References(m) \subseteq DOMAIN states
    BY <1>2, TableType DEF InventoryType, LanesClosed
  <2>3. ASSUME NEW n \in Names PROVE SourcePass(m)[n] \subseteq Declarations
    <3> DEFINE p == <<m, n>>
    <3>1. p \in Pairs /\ p[1] = m
      BY <2>2 DEF Pairs
    <3>2. Declared(p) \subseteq Declarations
      BY <3>1, OriginsFinite DEF InventoryType
    <3>3. \A q \in Leads(p) : q \in (DOMAIN states) \X Names
      <4>1. \A q \in Leads(p) : q \in Pairs /\ q[1] \in References(m)
        BY <2>2, <3>1, ReferencesType, LeadsType DEF InventoryType
      <4> QED
        BY <2>2, <4>1 DEF Pairs
    <3>4. \A q \in Leads(p) : Cand(states, q) \subseteq Declarations
      BY <3>3, TableType DEF InventoryType
    <3>5. \A s \in Stars(m) : states[s][n] \subseteq Declarations
      <4>1. \A s \in Stars(m) : <<s, n>> \in (DOMAIN states) \X Names /\ Cand(states, <<s, n>>) = states[s][n]
        BY <2>2, ReferencesType DEF InventoryType, Cand
      <4>2. \A q \in (DOMAIN states) \X Names : Cand(states, q) \subseteq Declarations
        BY TableType DEF InventoryType
      <4> HIDE DEF p
      <4> QED
        BY <4>1, <4>2
    <3>6. \A d \in SourcePass(m)[n] :
                 \/ d \in Declared(p)
                 \/ \E q \in Leads(p) : d \in Cand(states, q)
                 \/ \E s \in Stars(m) : d \in states[s][n]
      BY <2>2, SourcePassSays DEF InventoryType
    <3> QED
      BY <3>2, <3>4, <3>5, <3>6
  <2> QED
    BY <2>1, <2>3
<1>3. Pass \in [DOMAIN states -> [Names -> SUBSET Declarations]]
  BY <1>1, <1>2 DEF Pass
<1>4. DOMAIN states \in SUBSET Modules
  BY TableType DEF InventoryType
<1> QED
  BY <1>3, <1>4 DEF Tables, Cand, Pass

\* What the candidates of an unresolved module are after a pass, by pairs.
LEMMA PassByPair ==
  ASSUME InventoryType, LanesClosed, NEW p \in (DOMAIN states) \X Names, p[1] \notin DOMAIN resolved
  PROVE  /\ p \in Pairs
         /\ Declared(p) \subseteq Cand(Pass, p)
         /\ \A q \in Leads(p) : q \in (DOMAIN states) \X Names /\ Cand(states, q) \subseteq Cand(Pass, p)
         /\ \A d \in Cand(Pass, p) :
              \/ d \in Declared(p)
              \/ \E q \in Leads(p) : d \in Cand(states, q)
              \/ /\ Export(p).kind \in {"from", "through"}
                 /\ \A q \in Leads(p) : Cand(states, q) = {}
                 /\ \E s \in Stars(p[1]) : <<s, p[2]>> \in (DOMAIN states) \X Names /\ d \in Cand(states, <<s, p[2]>>)
<1>1. PICK m \in DOMAIN states, n \in Names : p = <<m, n>>
  OBVIOUS
<1>2. m \in Modules /\ m \notin DOMAIN resolved /\ References(m) \subseteq DOMAIN states
  BY <1>1, TableType DEF InventoryType, LanesClosed
<1>3. Cand(Pass, p) = SourcePass(m)[n]
  BY <1>1, <1>2, PassSays
<1>4. p \in Pairs
  BY <1>1, <1>2 DEF Pairs
<1>5. \A q \in Leads(p) : q \in (DOMAIN states) \X Names
  <2>1. \A q \in Leads(p) : q \in Pairs /\ q[1] \in References(m)
    BY <1>1, <1>2, <1>4, ReferencesType, LeadsType DEF InventoryType
  <2> QED
    BY <1>2, <2>1 DEF Pairs
<1>6. \A s \in Stars(m) : <<s, n>> \in (DOMAIN states) \X Names /\ Cand(states, <<s, n>>) = states[s][n]
  BY <1>2, ReferencesType DEF InventoryType, Cand
<1>7. p[1] = m /\ p[2] = n
  BY <1>1
<1>8. /\ Declared(p) \subseteq SourcePass(m)[n]
      /\ \A q \in Leads(p) : Cand(states, q) \subseteq SourcePass(m)[n]
      /\ \A d \in SourcePass(m)[n] :
           \/ d \in Declared(p)
           \/ \E q \in Leads(p) : d \in Cand(states, q)
           \/ /\ Export(p).kind \in {"from", "through"}
              /\ \A q \in Leads(p) : Cand(states, q) = {}
              /\ \E s \in Stars(m) : d \in states[s][n]
  BY <1>1, <1>2, SourcePassSays DEF InventoryType
<1> QED
  BY <1>3, <1>4, <1>5, <1>6, <1>7, <1>8

\* When a pass changes nothing, the lane and what was resolved before flow together.
LEMMA FixpointFlows ==
  ASSUME InventoryInv, Pass = states
  PROVE  Flows(Over(states, resolved))
<1> DEFINE K == Over(states, resolved)
<1>1. /\ K \in Tables
      /\ DOMAIN K = (DOMAIN states) \cup (DOMAIN resolved)
      /\ \A p \in (DOMAIN states) \X Names : Cand(K, p) = Cand(states, p)
      /\ \A p \in (DOMAIN resolved) \X Names : p[1] \notin DOMAIN states => Cand(K, p) = Cand(resolved, p)
  BY TableMerge DEF InventoryInv, InventoryType
<1>2. \A p \in (DOMAIN states) \X Names : p[1] \in DOMAIN resolved => Cand(states, p) = Cand(resolved, p)
  BY DEF InventoryInv, LanesClosed, Cand
<1> HIDE DEF K
<1>3. \A p \in (DOMAIN resolved) \X Names : Cand(K, p) = Cand(resolved, p)
  BY <1>1, <1>2
<1> SUFFICES ASSUME NEW p \in (DOMAIN K) \X Names
             PROVE  /\ Declared(p) \subseteq Cand(K, p)
                    /\ \A q \in Leads(p) : q \in (DOMAIN K) \X Names /\ Cand(K, q) \subseteq Cand(K, p)
  BY DEF K, Flows
<1>4. CASE p[1] \in DOMAIN resolved
  <2>1. p \in (DOMAIN resolved) \X Names
    BY <1>4
  <2>2. /\ Declared(p) \subseteq Cand(resolved, p)
        /\ \A q \in Leads(p) : q \in (DOMAIN resolved) \X Names /\ Cand(resolved, q) \subseteq Cand(resolved, p)
    BY <2>1 DEF InventoryInv, Flows
  <2>3. \A q \in (DOMAIN resolved) \X Names : q \in (DOMAIN K) \X Names
    BY <1>1
  <2> QED
    BY <1>3, <2>1, <2>2, <2>3
<1>5. CASE p[1] \notin DOMAIN resolved
  <2>1. p \in (DOMAIN states) \X Names
    BY <1>1, <1>5
  <2>2. /\ Declared(p) \subseteq Cand(states, p)
        /\ \A q \in Leads(p) : q \in (DOMAIN states) \X Names /\ Cand(states, q) \subseteq Cand(states, p)
    BY <1>5, <2>1, PassByPair DEF InventoryInv
  <2>3. \A q \in (DOMAIN states) \X Names : q \in (DOMAIN K) \X Names
    BY <1>1
  <2> QED
    BY <1>1, <2>1, <2>2, <2>3
<1> QED
  BY <1>4, <1>5

\* In a program a pass gives candidates only to names that stand for something.
LEMMA PassGrounded ==
  ASSUME InventoryInv, Wellformed
  PROVE  Grounded(Pass)
<1> SUFFICES ASSUME NEW p \in (DOMAIN Pass) \X Names, NEW d \in Cand(Pass, p)
             PROVE  Origins(p) # {}
  BY DEF Grounded
<1>1. p \in (DOMAIN states) \X Names
  BY PassSays DEF InventoryInv
<1>2. CASE p[1] \in DOMAIN resolved
  <2>1. Cand(Pass, p) = Cand(resolved, p) /\ p \in (DOMAIN resolved) \X Names
    BY <1>1, <1>2, PassSays DEF InventoryInv
  <2> QED
    BY <2>1 DEF InventoryInv, Grounded
<1>3. CASE p[1] \notin DOMAIN resolved
  <2>1. p \in Pairs
    BY <1>1, <1>3, PassByPair DEF InventoryInv
  <2>2. Origins(p) = Declared(p) \cup UNION {Origins(q) : q \in Leads(p)}
    BY <2>1, OriginsUnfold DEF InventoryInv, InventoryType
  <2>3. CASE d \in Declared(p)
    BY <2>2, <2>3
  <2>4. CASE \E q \in Leads(p) : d \in Cand(states, q)
    <3>1. PICK q \in Leads(p) : d \in Cand(states, q) /\ q \in (DOMAIN states) \X Names
      BY <1>1, <1>3, <2>4, PassByPair DEF InventoryInv
    <3>2. Origins(q) # {}
      BY <3>1 DEF InventoryInv, Grounded
    <3> QED
      BY <2>2, <3>2
  <2>5. CASE Export(p).kind \in {"from", "through"}
    <3>1. Cardinality(Origins(p)) = 1
      BY <2>1, <2>5 DEF Wellformed
    <3> QED
      BY <3>1, FS_EmptySet
  <2> QED
    BY <1>1, <1>3, <2>3, <2>4, <2>5, PassByPair DEF InventoryInv
<1> QED
  BY <1>2, <1>3

\* What is said of the graph, and of given tables, stays while the graph does.
LEMMA TablesFrozen ==
  ASSUME UNCHANGED graph
  PROVE  /\ \A m : References(m)' = References(m)
         /\ \A t : Flows(t)' = Flows(t) /\ Grounded(t)' = Grounded(t)
<1>1. \A m : References(m)' = References(m)
  BY DEF References, Stars, Export
<1>2. \A p : /\ Leads(p)' = Leads(p)
             /\ Declared(p)' = Declared(p)
             /\ Origins(p)' = Origins(p)
  BY GraphFrozen
<1>3. \A t : Flows(t)' = Flows(t)
  BY <1>2 DEF Flows, Cand
<1>4. \A t : Grounded(t)' = Grounded(t)
  BY <1>2 DEF Grounded, Cand
<1> QED
  BY <1>1, <1>3, <1>4

\* The invariant for the next state, from the tables it has.
LEMMA InventoryInvNext ==
  ASSUME InventoryInv, UNCHANGED graph, passes' \in Nat,
         NEW r, NEW s, r = resolved', s = states', r \in Tables, s \in Tables,

         \A m \in DOMAIN r : References(m) \subseteq DOMAIN r,
         \A m \in DOMAIN s : m \notin DOMAIN r => References(m) \subseteq DOMAIN s,
         \A m \in DOMAIN s : m \in DOMAIN r => s[m] = r[m],
         Flows(r), Wellformed => Grounded(r) /\ Grounded(s)
  PROVE  InventoryInv'
<1>1. InventoryType'
  BY DEF InventoryInv, InventoryType, IsGraph, Binds
<1>2. LanesClosed'
  BY TablesFrozen DEF LanesClosed
<1>3. Flows(resolved)'
  <2>1. Flows(resolved)' = Flows(r)'
    BY DEF Flows, Cand
  <2> QED
    BY <2>1, TablesFrozen
<1>4. (Wellformed => Grounded(resolved) /\ Grounded(states))'
  <2>1. Grounded(resolved)' = Grounded(r)' /\ Grounded(states)' = Grounded(s)'
    BY DEF Grounded, Cand
  <2> QED
    BY <2>1, TablesFrozen, GraphFrozen
<1> QED
  BY <1>1, <1>2, <1>3, <1>4 DEF InventoryInv

\* A table of no module.
LEMMA EmptyTable ==
  << >> \in Tables /\ DOMAIN << >> = {} /\ Flows(<< >>) /\ Grounded(<< >>)
<1>1. << >> \in [{} -> [Names -> SUBSET Declarations]] /\ DOMAIN << >> = {}
  OBVIOUS
<1> QED
  BY <1>1 DEF Tables, Flows, Grounded

\* The invariant holds initially.
LEMMA InventoryInvInit ==
  ASSUME Init
  PROVE  InventoryInv
<1>1. IsGraph(graph) /\ resolved = << >> /\ states = << >> /\ passes = 0
  BY GraphsAssumption DEF Init, InventoryInit
<1>2. resolved \in Tables /\ states \in Tables /\ DOMAIN resolved = {} /\ DOMAIN states = {}
  BY <1>1, EmptyTable
<1>3. Flows(resolved) /\ Grounded(resolved) /\ Grounded(states)
  BY <1>1, EmptyTable
<1> QED
  BY <1>1, <1>2, <1>3 DEF InventoryInv, InventoryType, LanesClosed

\* A lane opens on modules that are closed under what the unresolved ones refer to.
LEMMA OpenLaneKeeps ==
  ASSUME InventoryInv, UNCHANGED graph, NEW root \in graph.lanes, OpenLane(root)
  PROVE  InventoryInv'
<1> DEFINE E == ExportGraph[{root}]
           s == [m \in E |-> IF m \in DOMAIN resolved THEN resolved[m] ELSE Direct(m)]
<1>0. IsGraph(graph) /\ resolved \in Tables
  BY DEF InventoryInv, InventoryType
<1>1. root \in Modules
  BY <1>0 DEF IsGraph
<1>2. /\ E \subseteq Modules /\ root \in E
      /\ \A m \in E : m \notin DOMAIN resolved => References(m) \subseteq E
  BY <1>0, <1>1, ExportGraphClosed
<1>3. /\ states' = s /\ resolved' = resolved /\ passes' = 0 /\ lane' = root
  BY DEF OpenLane
<1> HIDE DEF E
<1>4. \A m \in DOMAIN resolved : resolved[m] \in [Names -> SUBSET Declarations]
  BY <1>0, TableType
<1>5. \A m \in E : Direct(m) \in [Names -> SUBSET Declarations]
  BY <1>0, <1>2, DirectSays
<1>6. s \in [E -> [Names -> SUBSET Declarations]]
  BY <1>4, <1>5
<1>7. s \in Tables /\ DOMAIN s = E
  BY <1>2, <1>6 DEF Tables
<1>8. \A m \in DOMAIN s : m \in DOMAIN resolved => s[m] = resolved[m]
  OBVIOUS
<1>9. ASSUME Wellformed PROVE Grounded(s)
  <2> SUFFICES ASSUME NEW p \in (DOMAIN s) \X Names, Cand(s, p) # {}
               PROVE  Origins(p) # {}
    BY DEF Grounded
  <2>1. PICK m \in E, n \in Names : p = <<m, n>>
    BY <1>7
  <2>2. CASE m \in DOMAIN resolved
    <3>1. Cand(resolved, p) # {} /\ p \in (DOMAIN resolved) \X Names
      BY <2>1, <2>2 DEF Cand
    <3> QED
      BY <1>9, <3>1 DEF InventoryInv, Grounded
  <2>3. CASE m \notin DOMAIN resolved
    <3>1. Cand(s, p) = Direct(m)[n]
      BY <2>1, <2>3 DEF Cand
    <3>2. Declared(p) # {} /\ p \in Pairs
      BY <1>0, <1>2, <2>1, <3>1, DirectSays DEF Pairs
    <3> QED
      BY <1>0, <3>2, OriginsUnfold
  <2> QED
    BY <2>2, <2>3
<1>10. Grounded(resolved) \/ ~Wellformed
  BY DEF InventoryInv
<1>11. /\ \A m \in DOMAIN resolved : References(m) \subseteq DOMAIN resolved
       /\ Flows(resolved)
  BY DEF InventoryInv, LanesClosed
<1>12. \A m \in DOMAIN s : m \notin DOMAIN resolved => References(m) \subseteq DOMAIN s
  BY <1>2, <1>7
<1> HIDE DEF s
<1> QED
  BY <1>0, <1>3, <1>7, <1>8, <1>9, <1>10, <1>11, <1>12, InventoryInvNext

\* A pass that changes something.
LEMMA RepeatPassKeeps ==
  ASSUME InventoryInv, UNCHANGED graph, RepeatPass
  PROVE  InventoryInv'
<1>1. states' = Pass /\ resolved' = resolved /\ passes' = passes + 1 /\ passes \in Nat
  BY DEF RepeatPass, InventoryInv, InventoryType
<1>2. Pass \in Tables /\ DOMAIN Pass = DOMAIN states
  BY PassSays DEF InventoryInv
<1>3. Wellformed => Grounded(Pass) /\ Grounded(resolved)
  BY PassGrounded DEF InventoryInv
<1>4. /\ \A m \in DOMAIN resolved : References(m) \subseteq DOMAIN resolved
      /\ \A m \in DOMAIN Pass : m \notin DOMAIN resolved => References(m) \subseteq DOMAIN Pass
      /\ Flows(resolved) /\ resolved \in Tables
  BY <1>2 DEF InventoryInv, LanesClosed, InventoryType
<1>5. \A m \in DOMAIN Pass : m \in DOMAIN resolved => Pass[m] = resolved[m]
  BY DEF Pass
<1>6. passes' \in Nat
  BY <1>1
<1>7. PICK s : s = Pass
  OBVIOUS
<1> QED
  BY <1>1, <1>2, <1>3, <1>4, <1>5, <1>6, <1>7, InventoryInvNext

\* What is published refers to nothing that is not, and flows.
LEMMA CloseLaneKeeps ==
  ASSUME InventoryInv, UNCHANGED graph, CloseLane
  PROVE  InventoryInv'
<1>1. /\ states' = << >> /\ resolved' = Over(states, resolved) /\ passes' = 0
      /\ Pass = states
  BY DEF CloseLane
<1>2. PICK K : K = Over(states, resolved)
  OBVIOUS
<1>3. /\ K \in Tables
      /\ DOMAIN K = (DOMAIN states) \cup (DOMAIN resolved)
      /\ \A p \in (DOMAIN states) \X Names : Cand(K, p) = Cand(states, p)
      /\ \A p \in (DOMAIN resolved) \X Names : p[1] \notin DOMAIN states => Cand(K, p) = Cand(resolved, p)
  BY <1>2, TableMerge DEF InventoryInv, InventoryType
<1>4. Flows(K)
  BY <1>1, <1>2, FixpointFlows
<1>5. \A m \in DOMAIN K : References(m) \subseteq DOMAIN K
  BY <1>3 DEF InventoryInv, LanesClosed
<1>6. ASSUME Wellformed PROVE Grounded(K)
  <2> SUFFICES ASSUME NEW p \in (DOMAIN K) \X Names, Cand(K, p) # {}
               PROVE  Origins(p) # {}
    BY DEF Grounded
  <2>1. CASE p \in (DOMAIN states) \X Names
    BY <1>3, <1>6, <2>1 DEF InventoryInv, Grounded
  <2>2. CASE p \notin (DOMAIN states) \X Names
    <3>1. p \in (DOMAIN resolved) \X Names /\ p[1] \notin DOMAIN states
      BY <1>3, <2>2
    <3> QED
      BY <1>3, <1>6, <3>1 DEF InventoryInv, Grounded
  <2> QED
    BY <2>1, <2>2
<1>7. PICK s : s = << >>
  OBVIOUS
<1>8. s \in Tables /\ DOMAIN s = {} /\ Grounded(s)
  BY <1>7, EmptyTable
<1> QED
  BY <1>1, <1>2, <1>3, <1>4, <1>5, <1>6, <1>7, <1>8, InventoryInvNext

\* A step that leaves the tables alone.
LEMMA InventoryInvStutter ==
  ASSUME InventoryInv, UNCHANGED <<graph, resolved, states, passes>>
  PROVE  InventoryInv'
BY InventoryInvNext DEF InventoryInv, InventoryType, LanesClosed

\* Every step keeps the invariant.
LEMMA InventoryInvStep ==
  ASSUME InventoryInv, [Next]_exportVars
  PROVE  InventoryInv'
<1>1. ASSUME NEW root \in graph.lanes, OpenLane(root), UNCHANGED graph PROVE InventoryInv'
  BY <1>1, OpenLaneKeeps
<1>2. CASE RepeatPass /\ UNCHANGED graph
  BY <1>2, RepeatPassKeeps
<1>3. CASE CloseLane /\ UNCHANGED graph
  BY <1>3, CloseLaneKeeps
<1>4. CASE RefuseExport /\ UNCHANGED graph
  BY <1>4, InventoryInvStutter DEF RefuseExport
<1>5. CASE AbandonLane /\ UNCHANGED graph
  BY <1>5, InventoryInvStutter DEF AbandonLane
<1>6. CASE UNCHANGED inventoryVars /\ UNCHANGED graph
  BY <1>6, InventoryInvStutter DEF inventoryVars
<1>7. CASE UNCHANGED exportVars
  BY <1>7, InventoryInvStutter DEF exportVars
<1> QED
  BY <1>1, <1>2, <1>3, <1>4, <1>5, <1>6, <1>7 DEF Next, InventoryNext

\* In every program, what is published for a name holds all that it stands for, and
\* the one candidate of a published export is its one declaration.
LEMMA InventoryInvPublishes ==
  ASSUME InventoryInv
  PROVE  PublishedIsTrue
<1> SUFFICES ASSUME Wellformed, NEW m \in DOMAIN resolved, NEW n \in Names
             PROVE  LET origins == Origins(<<m, n>>)
                    IN /\ origins \subseteq resolved[m][n]
                       /\ Cardinality(resolved[m][n]) = 1 => resolved[m][n] = origins
  BY DEF PublishedIsTrue
<1>0. PICK p : p = <<m, n>>
  OBVIOUS
<1>1. p = <<m, n>> /\ p \in (DOMAIN resolved) \X Names /\ Cand(resolved, p) = resolved[m][n]
  BY <1>0 DEF Cand
<1>2. p \in Pairs /\ Origins(p) \subseteq Cand(resolved, p)
  BY <1>1, FlowsContain DEF InventoryInv, InventoryType
<1>3. Cand(resolved, p) # {} => Origins(p) # {}
  BY <1>1 DEF InventoryInv, Grounded
<1>4. IsFiniteSet(Cand(resolved, p))
  <2>1. Cand(resolved, p) \subseteq Declarations /\ IsFiniteSet(Declarations)
    BY <1>1, <1>2, TableType, OriginsFinite DEF InventoryInv, InventoryType
  <2> QED
    BY <2>1, FS_Subset
<1>5. ASSUME Cardinality(Cand(resolved, p)) = 1 PROVE Cand(resolved, p) = Origins(p)
  <2>1. PICK d : Cand(resolved, p) = {d}
    BY <1>4, <1>5, OneElement
  <2> QED
    BY <1>2, <1>3, <2>1
<1> QED
  BY <1>1, <1>2, <1>5

\* The inventory's tables are closed, flow and are grounded in every reachable state.
THEOREM InventoryHolds == Spec => []InventoryInv
<1>1. Init => InventoryInv
  BY InventoryInvInit
<1>2. InventoryInv /\ [Next]_exportVars => InventoryInv'
  BY InventoryInvStep
<1> QED
  BY <1>1, <1>2, PTL DEF Spec

\* What the inventory publishes is what the language says, for every finite graph,
\* whatever lanes come in whatever order.
THEOREM PublicationTrue == Spec => []PublishedIsTrue
BY InventoryHolds, InventoryInvPublishes, PTL

-----------------------------------------------------------------------------
(* Refusals *)

\* No module has export-stars beside a re-export.
NoShadows == \A p \in Pairs : Export(p).kind \in {"from", "through"} => Stars(p[1]) = {}

\* The modules of D that hold a name p leads to, and those among them where that
\* name has the candidate d.
Ahead(D, p) == {m \in D : \E q \in Follow(p) : q[1] = m}
Holders(t, p, d) == {m \in DOMAIN t : \E q \in Follow(p) : q[1] = m /\ d \in Cand(t, q)}

\* What a name is to have after a pass, shadows aside.
Due(t, p) == Declared(p) \cup UNION {Cand(t, q) : q \in Leads(p)}

Exact(t) == \A p \in (DOMAIN t) \X Names : Cand(t, p) = Origins(p)

\* After k passes a name has its declarations unless more than k modules are ahead.
Settled(t, k) ==
  \A p \in (DOMAIN t) \X Names : Cand(t, p) = Origins(p) \/ Cardinality(Ahead(DOMAIN t, p)) > k

\* Candidates are declarations, and none is lost by a pass.
Within(t, r) ==
  \A p \in (DOMAIN t) \X Names :
    /\ Cand(t, p) \subseteq Origins(p)
    /\ p[1] \notin DOMAIN r => Cand(t, p) \subseteq Due(t, p)

\* A candidate that arrives by pass k + 1 came through k modules, one by pass.
Waits(t, r, k) ==
  \A p \in (DOMAIN t) \X Names : \A d \in Due(t, p) :
    p[1] \notin DOMAIN r /\ d \notin Cand(t, p) => Cardinality(Holders(t, p, d)) >= k

Progress(r, t, k) ==
  Wellformed =>
    /\ Acyclic \/ NoShadows => Exact(r)
    /\ Acyclic /\ ~Revisits => Settled(t, k)
    /\ NoShadows => Within(t, r)
    /\ NoShadows /\ ~Revisits => Waits(t, r, k)

\* In a graph without cycles less is ahead of the names that a name leads to.
LEMMA AcyclicLeads ==
  ASSUME IsGraph(graph), Acyclic, NEW p \in Pairs, NEW q \in Leads(p)
  PROVE  /\ q \in Pairs
         /\ Follow(q) \subseteq Follow(p) /\ p \notin Follow(q)
         /\ IsFiniteSet(Follow(p)) /\ Cardinality(Follow(p)) \in Nat
         /\ Cardinality(Follow(q)) \in Nat
         /\ Cardinality(Follow(q)) < Cardinality(Follow(p))
<1>1. q \in Pairs
  BY LeadsType
<1>2. /\ p \notin Behind[Leads(p)]
      /\ Follow(q) \subseteq Behind[Leads(p)]
      /\ Behind[Leads(p)] \subseteq Follow(p)
      /\ p \in Follow(p) /\ Follow(p) \subseteq Pairs
  BY BehindOne, FollowIsLeast DEF Acyclic
<1>3. IsFiniteSet(Follow(p))
  BY <1>2, PairsFinite, FS_Subset
<1>4. Follow(q) \in SUBSET Follow(p) /\ Follow(q) # Follow(p)
  BY <1>2
<1>5. /\ IsFiniteSet(Follow(q))
      /\ Cardinality(Follow(q)) <= Cardinality(Follow(p))
      /\ Cardinality(Follow(q)) # Cardinality(Follow(p))
  BY <1>3, <1>4, FS_Subset
<1>6. Cardinality(Follow(q)) \in Nat /\ Cardinality(Follow(p)) \in Nat
  BY <1>3, <1>5, FS_CardinalityType
<1>7. Cardinality(Follow(q)) < Cardinality(Follow(p))
  BY <1>5, <1>6
<1> QED
  BY <1>1, <1>2, <1>3, <1>6, <1>7

\* Once the names it leads to have their declarations, a pass gives a name its own.
LEMMA PassExact ==
  ASSUME InventoryInv, Wellformed, NEW p \in (DOMAIN states) \X Names, p[1] \notin DOMAIN resolved,
         \A q \in Leads(p) : Cand(states, q) = Origins(q)
  PROVE  Cand(Pass, p) = Origins(p)
<1>1. /\ p \in Pairs
      /\ Declared(p) \subseteq Cand(Pass, p)
      /\ \A q \in Leads(p) : q \in (DOMAIN states) \X Names /\ Cand(states, q) \subseteq Cand(Pass, p)
      /\ \A d \in Cand(Pass, p) :
           \/ d \in Declared(p)
           \/ \E q \in Leads(p) : d \in Cand(states, q)
           \/ /\ Export(p).kind \in {"from", "through"}
              /\ \A q \in Leads(p) : Cand(states, q) = {}
  BY PassByPair DEF InventoryInv
<1>2. Origins(p) = Declared(p) \cup UNION {Origins(q) : q \in Leads(p)}
  BY <1>1, OriginsUnfold DEF InventoryInv, InventoryType
<1>3. ASSUME Export(p).kind \in {"from", "through"}, \A q \in Leads(p) : Cand(states, q) = {}
      PROVE  FALSE
  <2>1. Declared(p) = {}
    BY <1>3 DEF Declared
  <2>2. Origins(p) = {}
    BY <1>2, <1>3, <2>1
  <2>3. Cardinality(Origins(p)) = 1
    BY <1>1, <1>3 DEF Wellformed
  <2> QED
    BY <2>2, <2>3, FS_EmptySet
<1> QED
  BY <1>1, <1>2, <1>3

\* Without shadows a pass gives a name what is due to it.
LEMMA PassDue ==
  ASSUME InventoryInv, NoShadows, NEW p \in (DOMAIN states) \X Names, p[1] \notin DOMAIN resolved
  PROVE  p \in Pairs /\ Cand(Pass, p) = Due(states, p) /\ Leads(p) \subseteq (DOMAIN states) \X Names
<1>1. /\ p \in Pairs
      /\ Declared(p) \subseteq Cand(Pass, p)
      /\ \A q \in Leads(p) : q \in (DOMAIN states) \X Names /\ Cand(states, q) \subseteq Cand(Pass, p)
      /\ \A d \in Cand(Pass, p) :
           \/ d \in Declared(p)
           \/ \E q \in Leads(p) : d \in Cand(states, q)
           \/ /\ Export(p).kind \in {"from", "through"}
              /\ \A q \in Leads(p) : Cand(states, q) = {}
              /\ \E s \in Stars(p[1]) : <<s, p[2]>> \in (DOMAIN states) \X Names /\ d \in Cand(states, <<s, p[2]>>)
  BY PassByPair DEF InventoryInv
<1>2. \A d \in Cand(Pass, p) : d \in Declared(p) \/ \E q \in Leads(p) : d \in Cand(states, q)
  <2>1. Export(p).kind \in {"from", "through"} => Stars(p[1]) = {}
    BY <1>1 DEF NoShadows
  <2> QED
    BY <1>1, <2>1
<1>3. \A d : d \in Due(states, p) <=> d \in Declared(p) \/ \E q \in Leads(p) : d \in Cand(states, q)
  BY DEF Due
<1>4. \A d : d \in Due(states, p) <=> d \in Cand(Pass, p)
  BY <1>1, <1>2, <1>3
<1>5. Cand(Pass, p) = Due(states, p)
  <2>1. PICK A : A = Cand(Pass, p)
    OBVIOUS
  <2>2. PICK B : B = Due(states, p)
    OBVIOUS
  <2>3. \A d : d \in A <=> d \in B
    BY <1>4, <2>1, <2>2
  <2>4. A = B
    BY <2>3
  <2> QED
    BY <2>1, <2>2, <2>4
<1> QED
  BY <1>1, <1>5

\* Where a pass changes nothing, a program's names have their declarations.
LEMMA FixpointExact ==
  ASSUME InventoryInv, Progress(resolved, states, passes), Pass = states,
         Wellformed, Acyclic \/ NoShadows
  PROVE  Exact(Over(states, resolved))
<1> DEFINE K == Over(states, resolved)
<1>1. /\ K \in Tables
      /\ DOMAIN K = (DOMAIN states) \cup (DOMAIN resolved)
      /\ \A p \in (DOMAIN states) \X Names : Cand(K, p) = Cand(states, p)
      /\ \A p \in (DOMAIN resolved) \X Names : p[1] \notin DOMAIN states => Cand(K, p) = Cand(resolved, p)
  BY TableMerge DEF InventoryInv, InventoryType
<1>2. \A p \in (DOMAIN states) \X Names : p[1] \in DOMAIN resolved => Cand(states, p) = Cand(resolved, p)
  BY DEF InventoryInv, LanesClosed, Cand
<1>3. Flows(K)
  BY FixpointFlows
<1> HIDE DEF K
<1>4. \A p \in (DOMAIN resolved) \X Names : Cand(K, p) = Origins(p)
  BY <1>1, <1>2 DEF Progress, Exact
<1>5. \A p \in (DOMAIN K) \X Names : p \in Pairs /\ Origins(p) \subseteq Cand(K, p)
  BY <1>1, <1>3, FlowsContain DEF InventoryInv, InventoryType
<1>6. CASE NoShadows
  <2>1. \A p \in (DOMAIN states) \X Names : Cand(states, p) \subseteq Origins(p)
    BY <1>6 DEF Progress, Within
  <2>2. \A p \in (DOMAIN K) \X Names : p \in (DOMAIN states) \X Names \/ p \in (DOMAIN resolved) \X Names
    BY <1>1
  <2>3. \A p \in (DOMAIN K) \X Names : Cand(K, p) = Origins(p)
    BY <1>1, <1>4, <1>5, <2>1, <2>2
  <2> QED
    BY <2>3 DEF Exact, K
<1>7. CASE Acyclic
  <2> DEFINE Bad == {p \in (DOMAIN K) \X Names : Cand(K, p) # Origins(p)}
             size == [p \in Pairs |-> Cardinality(Follow(p))]
  <2> SUFFICES ASSUME Bad # {} PROVE FALSE
    BY DEF Exact, K
  <2>1. \A p \in Bad : p \in Pairs /\ size[p] = Cardinality(Follow(p)) /\ size[p] \in Nat
    <3> SUFFICES ASSUME NEW p \in Bad PROVE p \in Pairs /\ Cardinality(Follow(p)) \in Nat
      OBVIOUS
    <3>1. p \in Pairs
      BY <1>5
    <3>2. Follow(p) \subseteq Pairs
      BY <3>1, FollowIsLeast DEF InventoryInv, InventoryType
    <3> QED
      BY <3>1, <3>2, PairsFinite, FS_Subset, FS_CardinalityType
  <2>2. PICK p \in Bad : \A q \in Bad : size[p] <= size[q]
    <3> HIDE DEF Bad, size
    <3> QED
      BY <2>1, LeastMeasure
  <2>3. /\ p \in (DOMAIN K) \X Names /\ Cand(K, p) # Origins(p)
    OBVIOUS
  <2>4. p \notin (DOMAIN resolved) \X Names
    BY <1>4, <2>3
  <2>5. p \in (DOMAIN states) \X Names /\ p[1] \notin DOMAIN resolved
    BY <1>1, <2>3, <2>4
  <2>6. \A q \in Leads(p) : q \in (DOMAIN states) \X Names
    BY <2>5, PassByPair DEF InventoryInv
  <2>7. ASSUME NEW q \in Leads(p) PROVE Cand(states, q) = Origins(q)
    <3>1. q \in (DOMAIN K) \X Names /\ Cand(K, q) = Cand(states, q)
      BY <1>1, <2>6
    <3>2. Cardinality(Follow(q)) \in Nat /\ Cardinality(Follow(p)) \in Nat
          /\ Cardinality(Follow(q)) < Cardinality(Follow(p))
      BY <1>7, <2>1, AcyclicLeads DEF InventoryInv, InventoryType
    <3>3. q \notin Bad
      <4> SUFFICES ASSUME q \in Bad PROVE FALSE
        OBVIOUS
      <4>1. size[p] <= size[q] /\ p \in Bad
        BY <2>2
      <4>2. size[p] = Cardinality(Follow(p)) /\ size[q] = Cardinality(Follow(q))
        BY <2>1, <4>1
      <4> HIDE DEF Bad, size
      <4>3. PICK i, j : i = Cardinality(Follow(p)) /\ j = Cardinality(Follow(q))
        OBVIOUS
      <4>4. i \in Nat /\ j \in Nat /\ j < i /\ i <= j
        BY <3>2, <4>1, <4>2, <4>3
      <4> QED
        BY <4>4
    <3> QED
      BY <3>1, <3>3
  <2>8. Cand(Pass, p) = Origins(p)
    BY <2>5, <2>7, PassExact
  <2> QED
    BY <1>1, <2>3, <2>5, <2>8
<1> QED
  BY <1>6, <1>7

\* Tables with the same candidates are the same.
LEMMA TableEqual ==
  ASSUME NEW s \in Tables, NEW t \in Tables, DOMAIN s = DOMAIN t,
         \A p \in (DOMAIN s) \X Names : Cand(s, p) = Cand(t, p)
  PROVE  s = t
<1>1. \A m \in DOMAIN s : s[m] = t[m]
  <2> TAKE m \in DOMAIN s
  <2>1. s[m] \in [Names -> SUBSET Declarations] /\ t[m] \in [Names -> SUBSET Declarations]
    BY TableType
  <2>2. \A n \in Names : s[m][n] = t[m][n]
    <3> TAKE n \in Names
    <3>1. Cand(s, <<m, n>>) = s[m][n] /\ Cand(t, <<m, n>>) = t[m][n] /\ <<m, n>> \in (DOMAIN s) \X Names
      BY DEF Cand
    <3> QED
      BY <3>1
  <2> QED
    BY <2>1, <2>2
<1>2. s = [m \in DOMAIN s |-> s[m]] /\ t = [m \in DOMAIN s |-> t[m]]
  BY TableType
<1> QED
  BY <1>1, <1>2

\* In a graph without cycles, in which no name comes back to a module, a module
\* drops out with every step.
LEMMA AheadShrinks ==
  ASSUME IsGraph(graph), NEW D \in SUBSET Modules, NEW p \in D \X Names
  PROVE  /\ Cardinality(Ahead(D, p)) \in Nat /\ Cardinality(D) \in Nat
         /\ Cardinality(Ahead(D, p)) > 0
         /\ Cardinality(Ahead(D, p)) <= Cardinality(D)
         /\ Acyclic /\ ~Revisits => \A q \in Leads(p) : Cardinality(Ahead(D, q)) \in Nat
                                     /\ Cardinality(Ahead(D, q)) < Cardinality(Ahead(D, p))
<1>1. p \in Pairs /\ p[1] \in D
  BY DEF Pairs
<1>2. p \in Follow(p)
  BY <1>1, FollowIsLeast
<1>3. p[1] \in Ahead(D, p)
  BY <1>1, <1>2 DEF Ahead
<1>4. IsFiniteSet(D) /\ Ahead(D, p) \in SUBSET D
  BY ModulesAssumption, FS_Subset DEF Ahead
<1>5. IsFiniteSet(Ahead(D, p)) /\ Cardinality(Ahead(D, p)) <= Cardinality(D)
  BY <1>4, FS_Subset
<1>6. Cardinality(Ahead(D, p)) \in Nat /\ Cardinality(D) \in Nat /\ Cardinality(Ahead(D, p)) # 0
  BY <1>3, <1>4, <1>5, FS_CardinalityType, FS_EmptySet
<1>7. ASSUME Acyclic, ~Revisits, NEW q \in Leads(p)
      PROVE  Cardinality(Ahead(D, q)) \in Nat /\ Cardinality(Ahead(D, q)) < Cardinality(Ahead(D, p))
  <2>1. Follow(q) \subseteq Follow(p) /\ p \notin Follow(q)
    BY <1>1, <1>7, AcyclicLeads
  <2>2. \A r \in Follow(p) : r[1] = p[1] => r = p
    BY <1>1, <1>7 DEF Revisits
  <2>3. p[1] \notin Ahead(D, q)
    BY <2>1, <2>2 DEF Ahead
  <2>4. Ahead(D, q) \in SUBSET Ahead(D, p)
    BY <2>1 DEF Ahead
  <2>5. /\ IsFiniteSet(Ahead(D, q))
        /\ Cardinality(Ahead(D, q)) <= Cardinality(Ahead(D, p))
        /\ Cardinality(Ahead(D, q)) # Cardinality(Ahead(D, p))
    BY <1>3, <1>5, <2>3, <2>4, FS_Subset
  <2>6. Cardinality(Ahead(D, q)) \in Nat
    BY <2>5, FS_CardinalityType
  <2> QED
    BY <1>6, <2>5, <2>6
<1>8. Cardinality(Ahead(D, p)) > 0
  BY <1>6
<1> QED
  BY <1>5, <1>6, <1>7, <1>8

\* The holders of a candidate are modules of the table, and the module of a name
\* that has not got it is none of them unless a name comes back to its module.
LEMMA HoldersType ==
  ASSUME IsGraph(graph), NEW t \in Tables, NEW p \in (DOMAIN t) \X Names, NEW d
  PROVE  /\ IsFiniteSet(Holders(t, p, d)) /\ IsFiniteSet(DOMAIN t)
         /\ Holders(t, p, d) \subseteq DOMAIN t
         /\ Cardinality(Holders(t, p, d)) \in Nat
         /\ ~Revisits /\ d \notin Cand(t, p) => p[1] \notin Holders(t, p, d)
<1>1. p \in Pairs /\ DOMAIN t \in SUBSET Modules
  BY TableType
<1>2. IsFiniteSet(DOMAIN t) /\ Holders(t, p, d) \in SUBSET DOMAIN t
  BY <1>1, ModulesAssumption, FS_Subset DEF Holders
<1>3. IsFiniteSet(Holders(t, p, d)) /\ Cardinality(Holders(t, p, d)) \in Nat
  BY <1>2, FS_Subset, FS_CardinalityType
<1>4. ~Revisits => \A r \in Follow(p) : r[1] = p[1] => r = p
  BY <1>1 DEF Revisits
<1> QED
  BY <1>2, <1>3, <1>4 DEF Holders

\* Without shadows no candidate is lost by a pass.
LEMMA PassGrows ==
  ASSUME InventoryInv, NoShadows, Within(states, resolved), NEW p \in (DOMAIN states) \X Names
  PROVE  /\ Cand(states, p) \subseteq Cand(Pass, p)
         /\ p[1] \in DOMAIN resolved => Cand(states, p) = Cand(Pass, p)
<1>1. CASE p[1] \in DOMAIN resolved
  BY <1>1, PassSays DEF InventoryInv, LanesClosed, Cand
<1>2. CASE p[1] \notin DOMAIN resolved
  BY <1>2, PassDue DEF Within
<1> QED
  BY <1>1, <1>2

\* After as many passes as a lane has modules, a further one changes nothing.
LEMMA PassesSuffice ==
  ASSUME InventoryInv, Progress(resolved, states, passes), Wellformed, Acyclic \/ NoShadows, ~Revisits,
         passes = Cardinality(DOMAIN states)
  PROVE  Pass = states
<1>1. IsGraph(graph) /\ states \in Tables /\ Pass \in Tables /\ DOMAIN Pass = DOMAIN states
  BY PassSays DEF InventoryInv, InventoryType
<1>2. DOMAIN states \in SUBSET Modules
  BY <1>1, TableType
<1> SUFFICES ASSUME NEW p \in (DOMAIN states) \X Names PROVE Cand(Pass, p) = Cand(states, p)
  BY <1>1, TableEqual
<1>3. CASE p[1] \in DOMAIN resolved
  BY <1>3, PassSays DEF InventoryInv, LanesClosed, Cand
<1>4. CASE p[1] \notin DOMAIN resolved /\ Acyclic
  <2>1. \A q \in (DOMAIN states) \X Names : Cand(states, q) = Origins(q)
    <3> TAKE q \in (DOMAIN states) \X Names
    <3>1. /\ Cardinality(Ahead(DOMAIN states, q)) \in Nat /\ Cardinality(DOMAIN states) \in Nat
          /\ Cardinality(Ahead(DOMAIN states, q)) <= Cardinality(DOMAIN states)
      BY <1>1, <1>2, AheadShrinks
    <3>2. Cand(states, q) = Origins(q) \/ Cardinality(Ahead(DOMAIN states, q)) > Cardinality(DOMAIN states)
      BY <1>4 DEF Progress, Settled
    <3> QED
      BY <3>1, <3>2
  <2>2. \A q \in Leads(p) : q \in (DOMAIN states) \X Names
    BY <1>4, PassByPair DEF InventoryInv
  <2>3. Cand(Pass, p) = Origins(p)
    BY <1>4, <2>1, <2>2, PassExact
  <2> QED
    BY <2>1, <2>3
<1>5. CASE p[1] \notin DOMAIN resolved /\ NoShadows
  <2>1. Within(states, resolved) /\ Waits(states, resolved, passes)
    BY <1>5 DEF Progress
  <2>2. Cand(states, p) \subseteq Cand(Pass, p) /\ Cand(Pass, p) = Due(states, p)
    BY <1>5, <2>1, PassGrows, PassDue
  <2>3. ASSUME NEW d \in Due(states, p), d \notin Cand(states, p) PROVE FALSE
    <3> DEFINE H == Holders(states, p, d)
    <3>1. /\ IsFiniteSet(H) /\ IsFiniteSet(DOMAIN states) /\ H \in SUBSET DOMAIN states
          /\ p[1] \notin H /\ Cardinality(H) \in Nat
      BY <1>1, <2>3, HoldersType
    <3>2. Cardinality(H) >= Cardinality(DOMAIN states)
      BY <1>5, <2>1, <2>3 DEF Waits
    <3> HIDE DEF H
    <3>3. Cardinality(H) <= Cardinality(DOMAIN states) /\ Cardinality(DOMAIN states) \in Nat
      BY <3>1, FS_Subset, FS_CardinalityType
    <3>4. Cardinality(H) = Cardinality(DOMAIN states)
      BY <3>1, <3>2, <3>3
    <3>5. H = DOMAIN states
      BY <3>1, <3>4, FS_Subset
    <3> QED
      BY <3>1, <3>5
  <2> QED
    BY <2>2, <2>3
<1> QED
  BY <1>3, <1>4, <1>5

\* A pass settles the names whose leads are settled.
LEMMA PassSettles ==
  ASSUME InventoryInv, Wellformed, Acyclic, ~Revisits, Exact(resolved), Settled(states, passes)
  PROVE  Settled(Pass, passes + 1)
<1>1. IsGraph(graph) /\ states \in Tables /\ DOMAIN Pass = DOMAIN states /\ passes \in Nat
  BY PassSays DEF InventoryInv, InventoryType
<1>2. DOMAIN states \in SUBSET Modules
  BY <1>1, TableType
<1> SUFFICES ASSUME NEW p \in (DOMAIN states) \X Names
             PROVE  Cand(Pass, p) = Origins(p) \/ Cardinality(Ahead(DOMAIN states, p)) > passes + 1
  BY <1>1 DEF Settled
<1>3. CASE p[1] \in DOMAIN resolved
  <2>1. Cand(Pass, p) = Cand(resolved, p) /\ p \in (DOMAIN resolved) \X Names
    BY <1>3, PassSays DEF InventoryInv
  <2> QED
    BY <2>1 DEF Exact
<1>4. CASE p[1] \notin DOMAIN resolved /\ \A q \in Leads(p) : Cand(states, q) = Origins(q)
  BY <1>4, PassExact
<1>5. ASSUME p[1] \notin DOMAIN resolved, NEW q \in Leads(p), Cand(states, q) # Origins(q)
      PROVE  Cardinality(Ahead(DOMAIN states, p)) > passes + 1
  <2>1. q \in (DOMAIN states) \X Names
    BY <1>5, PassByPair DEF InventoryInv
  <2>2. Cardinality(Ahead(DOMAIN states, q)) > passes
    BY <1>5, <2>1 DEF Settled
  <2>3. /\ Cardinality(Ahead(DOMAIN states, q)) \in Nat
        /\ Cardinality(Ahead(DOMAIN states, p)) \in Nat
        /\ Cardinality(Ahead(DOMAIN states, q)) < Cardinality(Ahead(DOMAIN states, p))
    BY <1>1, <1>2, AheadShrinks
  <2> QED
    BY <1>1, <2>2, <2>3
<1> QED
  BY <1>3, <1>4, <1>5

\* A pass gives declarations only, and the next one keeps them.
LEMMA PassWithin ==
  ASSUME InventoryInv, NoShadows, Exact(resolved), Within(states, resolved)
  PROVE  Within(Pass, resolved)
<1>1. IsGraph(graph) /\ DOMAIN Pass = DOMAIN states
  BY PassSays DEF InventoryInv, InventoryType
<1> SUFFICES ASSUME NEW p \in (DOMAIN states) \X Names
             PROVE  /\ Cand(Pass, p) \subseteq Origins(p)
                    /\ p[1] \notin DOMAIN resolved => Cand(Pass, p) \subseteq Due(Pass, p)
  BY <1>1 DEF Within
<1>2. CASE p[1] \in DOMAIN resolved
  <2>1. Cand(Pass, p) = Cand(resolved, p) /\ p \in (DOMAIN resolved) \X Names
    BY <1>2, PassSays DEF InventoryInv
  <2> QED
    BY <1>2, <2>1 DEF Exact
<1>3. CASE p[1] \notin DOMAIN resolved
  <2>1. p \in Pairs /\ Cand(Pass, p) = Due(states, p) /\ Leads(p) \subseteq (DOMAIN states) \X Names
    BY <1>3, PassDue
  <2>2. Origins(p) = Declared(p) \cup UNION {Origins(q) : q \in Leads(p)}
    BY <1>1, <2>1, OriginsUnfold
  <2>3. \A q \in Leads(p) : Cand(states, q) \subseteq Origins(q) /\ Cand(states, q) \subseteq Cand(Pass, q)
    BY <2>1, PassGrows DEF Within
  <2>4. Due(states, p) \subseteq Origins(p)
    BY <2>2, <2>3 DEF Due
  <2>5. Due(states, p) \subseteq Due(Pass, p)
    BY <2>3 DEF Due
  <2> QED
    BY <2>1, <2>4, <2>5
<1> QED
  BY <1>2, <1>3

\* What is due after a pass came through one module more.
LEMMA PassWaits ==
  ASSUME InventoryInv, NoShadows, ~Revisits, Within(states, resolved), Waits(states, resolved, passes)
  PROVE  Waits(Pass, resolved, passes + 1)
<1>1. /\ IsGraph(graph) /\ DOMAIN Pass = DOMAIN states /\ passes \in Nat
      /\ states \in Tables /\ Pass \in Tables
  BY PassSays DEF InventoryInv, InventoryType
<1> SUFFICES ASSUME NEW p \in (DOMAIN states) \X Names, NEW d \in Due(Pass, p),
                    p[1] \notin DOMAIN resolved, d \notin Cand(Pass, p)
             PROVE  Cardinality(Holders(Pass, p, d)) >= passes + 1
  BY <1>1 DEF Waits
<1>2. p \in Pairs /\ Cand(Pass, p) = Due(states, p) /\ Leads(p) \subseteq (DOMAIN states) \X Names
  BY PassDue
<1>3. PICK q \in Leads(p) : d \in Cand(Pass, q) /\ d \notin Cand(states, q)
  BY <1>2 DEF Due
<1>4. q \in (DOMAIN states) \X Names /\ q[1] \notin DOMAIN resolved
  BY <1>2, <1>3, PassGrows
<1>5. d \in Due(states, q)
  BY <1>3, <1>4, PassDue
<1>6. Cardinality(Holders(states, q, d)) >= passes
  BY <1>3, <1>4, <1>5 DEF Waits
<1>7. /\ IsFiniteSet(Holders(states, q, d)) /\ Cardinality(Holders(states, q, d)) \in Nat
      /\ q[1] \notin Holders(states, q, d)
  BY <1>1, <1>3, <1>4, HoldersType
<1>8. q \in Pairs /\ q \in Follow(q) /\ Follow(q) \subseteq Follow(p) /\ Follow(q) \subseteq Pairs
  BY <1>1, <1>2, LeadsType, BehindOne, FollowIsLeast
<1>9. Holders(states, q, d) \cup {q[1]} \subseteq Holders(Pass, p, d)
  <2>1. \A r \in Follow(q) : r[1] \in DOMAIN states => r \in (DOMAIN states) \X Names
    BY <1>8 DEF Pairs
  <2>2. \A r \in (DOMAIN states) \X Names : Cand(states, r) \subseteq Cand(Pass, r)
    BY PassGrows
  <2> QED
    BY <1>1, <1>3, <1>4, <1>8, <2>1, <2>2 DEF Holders
<1>10. /\ IsFiniteSet(Holders(states, q, d) \cup {q[1]})
       /\ Cardinality(Holders(states, q, d) \cup {q[1]}) = Cardinality(Holders(states, q, d)) + 1
  BY <1>7, FS_AddElement
<1>11. IsFiniteSet(Holders(Pass, p, d)) /\ Cardinality(Holders(Pass, p, d)) \in Nat
  BY <1>1, HoldersType
<1>12. Cardinality(Holders(states, q, d) \cup {q[1]}) <= Cardinality(Holders(Pass, p, d))
  BY <1>9, <1>11, FS_Subset
<1> QED
  BY <1>1, <1>6, <1>7, <1>10, <1>11, <1>12

\* A pass makes progress.
LEMMA PassProgresses ==
  ASSUME InventoryInv, Progress(resolved, states, passes)
  PROVE  Progress(resolved, Pass, passes + 1)
BY PassSettles, PassWithin, PassWaits DEF Progress

\* A lane opens with all of its passes to come.
LEMMA OpenLaneProgresses ==
  ASSUME InventoryInv, Progress(resolved, states, passes), NEW root \in graph.lanes, OpenLane(root), UNCHANGED graph
  PROVE  Progress(resolved', states', passes')
<1> DEFINE E == ExportGraph[{root}]
<1>0. IsGraph(graph) /\ resolved \in Tables
  BY DEF InventoryInv, InventoryType
<1>1. root \in Modules
  BY <1>0 DEF IsGraph
<1>2. E \subseteq Modules
  BY <1>0, <1>1, ExportGraphClosed
<1>3. PICK s : s = [m \in E |-> IF m \in DOMAIN resolved THEN resolved[m] ELSE Direct(m)]
  OBVIOUS
<1>4. /\ states' = s /\ resolved' = resolved /\ passes' = 0
  BY <1>3 DEF OpenLane
<1> HIDE DEF E
<1>5. \A m \in DOMAIN resolved : resolved[m] \in [Names -> SUBSET Declarations]
  BY <1>0, TableType
<1>6. \A m \in E : Direct(m) \in [Names -> SUBSET Declarations]
  BY <1>0, <1>2, DirectSays
<1>7. s \in Tables /\ DOMAIN s = E
  <2>1. s \in [E -> [Names -> SUBSET Declarations]]
    BY <1>3, <1>5, <1>6
  <2> QED
    BY <1>2, <2>1 DEF Tables
<1>8. ASSUME NEW p \in E \X Names
      PROVE  /\ p \in Pairs
             /\ p[1] \in DOMAIN resolved => Cand(s, p) = Cand(resolved, p) /\ p \in (DOMAIN resolved) \X Names
             /\ p[1] \notin DOMAIN resolved => Cand(s, p) \subseteq Declared(p)
  <2>1. PICK m \in E, n \in Names : p = <<m, n>>
    OBVIOUS
  <2>2. m \in Modules /\ Direct(m)[n] \subseteq Declared(<<m, n>>)
    BY <1>0, <1>2, DirectSays
  <2> QED
    BY <1>3, <2>1, <2>2 DEF Cand, Pairs
<1>9. Settled(s, 0)
  <2>1. \A p \in E \X Names : Cardinality(Ahead(E, p)) > 0
    BY <1>0, <1>2, AheadShrinks
  <2> QED
    BY <1>7, <2>1 DEF Settled
<1>10. Waits(s, resolved, 0)
  <2>1. \A p \in E \X Names : \A d : Cardinality(Holders(s, p, d)) \in Nat
    BY <1>0, <1>7, HoldersType
  <2>2. \A p \in E \X Names : \A d : Cardinality(Holders(s, p, d)) >= 0
    BY <2>1
  <2> QED
    BY <1>7, <2>2 DEF Waits
<1>11. ASSUME Exact(resolved) PROVE Within(s, resolved)
  <2> SUFFICES ASSUME NEW p \in E \X Names
               PROVE  /\ Cand(s, p) \subseteq Origins(p)
                      /\ p[1] \notin DOMAIN resolved => Cand(s, p) \subseteq Due(s, p)
    BY <1>7 DEF Within
  <2>1. Declared(p) \subseteq Origins(p) /\ Declared(p) \subseteq Due(s, p)
    BY <1>0, <1>8, OriginsUnfold DEF Due
  <2> QED
    BY <1>8, <1>11, <2>1 DEF Exact
<1> QED
  BY <1>4, <1>9, <1>10, <1>11 DEF Progress

\* Every candidate set that a closing lane looks at has one element.
LEMMA AssertedSingle ==
  ASSUME InventoryInv, Wellformed, Pass = states, Exact(Over(states, resolved)), NEW c \in Asserted
  PROVE  Cardinality(c) = 1
<1>1. PICK K : K = Over(states, resolved)
  OBVIOUS
<1>2. /\ K \in Tables
      /\ DOMAIN K = (DOMAIN states) \cup (DOMAIN resolved)
      /\ \A p \in (DOMAIN states) \X Names : Cand(K, p) = Cand(states, p)
  BY <1>1, TableMerge DEF InventoryInv, InventoryType
<1>3. Flows(K) /\ \A p \in (DOMAIN K) \X Names : p \in Pairs /\ Cand(K, p) = Origins(p)
  BY <1>1, <1>2, FixpointFlows, TableType DEF Exact
<1> DEFINE clauses == {p \in (DOMAIN states) \X Names :
                    \/ Export(p).kind \in {"from", "through"}
                    \/ Export(p).kind = "own" /\ Export(p).binding # p[2]}
<1>4. \A p \in clauses : p \in (DOMAIN K) \X Names /\ p \in Pairs
  BY <1>2, <1>3
<1>5. ASSUME NEW p \in clauses PROVE Cardinality(Origins(p)) = 1
  <2>1. CASE Export(p).kind \in {"from", "through"}
    BY <1>4, <2>1 DEF Wellformed
  <2>2. CASE Export(p).kind = "own"
    <3>1. Leads(p) = {} /\ Declared(p) = {<<p[1], Export(p).binding>>}
      BY <2>2 DEF Leads, Declared
    <3>2. Origins(p) = {<<p[1], Export(p).binding>>}
      BY <1>4, <3>1, OriginsUnfold DEF InventoryInv, InventoryType
    <3> QED
      BY <3>2, FS_Singleton
  <2> QED
    BY <2>1, <2>2
<1>6. CASE \E p \in clauses : c = states[p[1]][p[2]]
  <2>1. PICK p \in clauses : c = states[p[1]][p[2]]
    BY <1>6
  <2>2. c = Cand(states, p) /\ p \in (DOMAIN states) \X Names
    BY <2>1 DEF Cand
  <2>3. c = Origins(p)
    BY <1>2, <1>3, <1>4, <2>2
  <2> QED
    BY <1>5, <2>3
<1>7. CASE \E p \in {q \in clauses : Export(q).kind = "from"} : c = K[Export(p).from][Export(p).name]
  <2>1. PICK p \in clauses : Export(p).kind = "from" /\ c = K[Export(p).from][Export(p).name]
    BY <1>7
  <2>2. PICK q : q = <<Export(p).from, Export(p).name>>
    OBVIOUS
  <2>3. Leads(p) = {q} /\ Declared(p) = {}
    BY <2>1, <2>2 DEF Leads, Declared
  <2>4. c = Cand(K, q)
    BY <2>1, <2>2 DEF Cand
  <2>5. q \in (DOMAIN K) \X Names
    BY <1>3, <1>4, <2>3 DEF Flows
  <2>6. Origins(p) = Origins(q)
    <3>1. Origins(p) = Declared(p) \cup UNION {Origins(k) : k \in Leads(p)}
      BY <1>4, <2>1, OriginsUnfold DEF InventoryInv, InventoryType
    <3> QED
      BY <2>3, <3>1
  <2> QED
    BY <1>3, <1>5, <2>3, <2>4, <2>5, <2>6
<1> QED
  BY <1>1, <1>6, <1>7 DEF Asserted

\* What is said of given tables stays while the graph does.
LEMMA ProgressFrozen ==
  ASSUME UNCHANGED graph, NEW r, NEW s, NEW k
  PROVE  /\ Progress(r, s, k)' = Progress(r, s, k)
         /\ NoShadows' = NoShadows
         /\ ShadowsInCycle' = ShadowsInCycle
<1>1. /\ \A p : /\ Export(p)' = Export(p)
                /\ Leads(p)' = Leads(p)
                /\ Declared(p)' = Declared(p)
                /\ Origins(p)' = Origins(p)
                /\ Follow(p)' = Follow(p)
      /\ \A m : Stars(m)' = Stars(m)
      /\ Wellformed' = Wellformed
      /\ Acyclic' = Acyclic
      /\ Revisits' = Revisits
  BY GraphFrozen
<1>2. NoShadows' = NoShadows /\ ShadowsInCycle' = ShadowsInCycle
  BY <1>1 DEF NoShadows, ShadowsInCycle
<1>3. Exact(r)' = Exact(r)
  BY <1>1 DEF Exact, Cand
<1>4. Settled(s, k)' = Settled(s, k)
  BY <1>1 DEF Settled, Ahead, Cand
<1>5. Within(s, r)' = Within(s, r)
  BY <1>1 DEF Within, Due, Cand
<1>6. Waits(s, r, k)' = Waits(s, r, k)
  <2>1. \A p : Due(s, p)' = Due(s, p)
    BY <1>1 DEF Due, Cand
  <2>2. \A p, d : Holders(s, p, d)' = Holders(s, p, d)
    BY <1>1 DEF Holders, Cand
  <2>3. \A p : Cand(s, p)' = Cand(s, p)
    BY DEF Cand
  <2> QED
    BY <2>1, <2>2, <2>3 DEF Waits
<1> QED
  BY <1>1, <1>2, <1>3, <1>4, <1>5, <1>6 DEF Progress

RefusalInv ==
  /\ InventoryInv
  /\ Progress(resolved, states, passes)
  /\ OtherRefusalsAreErrors

\* Refusals are named ones initially: there are none, and nothing is resolved.
LEMMA RefusalInvInit ==
  ASSUME Init
  PROVE  RefusalInv
<1>1. InventoryInv
  BY InventoryInvInit
<1>2. DOMAIN resolved = {} /\ DOMAIN states = {} /\ failure = NoFailure
  BY EmptyTable DEF Init, InventoryInit
<1> QED
  BY <1>1, <1>2 DEF RefusalInv, OtherRefusalsAreErrors, Progress, Exact, Settled, Within, Waits

\* A step makes progress, whatever it does.
LEMMA ProgressStep ==
  ASSUME InventoryInv, Progress(resolved, states, passes), [Next]_exportVars
  PROVE  Progress(resolved, states, passes)'
<1>0. UNCHANGED graph
  BY DEF Next, exportVars
<1> SUFFICES Progress(resolved', states', passes')
  <2>1. PICK r, s, k : r = resolved' /\ s = states' /\ k = passes'
    OBVIOUS
  <2>2. Progress(r, s, k)' = Progress(r, s, k)
    BY <1>0, ProgressFrozen
  <2>3. Progress(resolved, states, passes)' = Progress(r, s, k)'
    BY <2>1 DEF Progress, Exact, Settled, Within, Waits, Due, Holders, Cand
  <2> QED
    BY <2>1, <2>2, <2>3
<1>1. ASSUME NEW root \in graph.lanes, OpenLane(root) PROVE Progress(resolved', states', passes')
  BY <1>0, <1>1, OpenLaneProgresses
<1>2. CASE RepeatPass
  BY <1>2, PassProgresses DEF RepeatPass
<1>3. CASE CloseLane
  <2>1. states' = << >> /\ resolved' = Over(states, resolved) /\ Pass = states
    BY <1>3 DEF CloseLane
  <2>2. PICK s, k : s = << >> /\ k = passes'
    OBVIOUS
  <2>3. DOMAIN s = {}
    BY <2>2, EmptyTable
  <2>4. Wellformed /\ (Acyclic \/ NoShadows) => Exact(resolved')
    BY <2>1, FixpointExact
  <2>5. Settled(s, k) /\ Within(s, resolved') /\ Waits(s, resolved', k)
    BY <2>3 DEF Settled, Within, Waits
  <2> QED
    BY <2>1, <2>2, <2>4, <2>5 DEF Progress
<1>4. CASE UNCHANGED <<resolved, states, passes>>
  BY <1>4
<1> QED
  BY <1>1, <1>2, <1>3, <1>4
     DEF Next, InventoryNext, RefuseExport, AbandonLane, inventoryVars, exportVars

\* A lane is refused, for a candidate set or for its passes, only where that is said.
LEMMA RefusalStep ==
  ASSUME RefusalInv, [Next]_exportVars
  PROVE  OtherRefusalsAreErrors'
<1>0. UNCHANGED graph
  BY DEF Next, exportVars
<1>1. /\ Wellformed' = Wellformed /\ Revisits' = Revisits
      /\ ShadowsInCycle' = ShadowsInCycle
      /\ ~ShadowsInCycle => Acyclic \/ NoShadows
  BY <1>0, GraphFrozen, ProgressFrozen DEF ShadowsInCycle, NoShadows
<1>2. CASE UNCHANGED failure
  BY <1>1, <1>2 DEF RefusalInv, OtherRefusalsAreErrors, OutOfPasses
<1>3. CASE RefuseExport
  <2>1. Pass = states /\ \E c \in Asserted : Cardinality(c) # 1
    BY <1>3 DEF RefuseExport
  <2>2. ~Wellformed \/ ShadowsInCycle
    BY <1>1, <2>1, FixpointExact, AssertedSingle DEF RefusalInv
  <2> QED
    BY <1>1, <2>2 DEF OtherRefusalsAreErrors
<1>4. CASE AbandonLane
  <2>1. Pass # states /\ passes + 1 = Cardinality(DOMAIN states) + 1 /\ failure' = "did not converge"
    BY <1>4 DEF AbandonLane, MaximumPasses
  <2>2. passes = Cardinality(DOMAIN states)
    <3>1. IsFiniteSet(DOMAIN states) /\ passes \in Nat
      BY TableType, ModulesAssumption, FS_Subset DEF RefusalInv, InventoryInv, InventoryType
    <3>2. PICK i : i = Cardinality(DOMAIN states)
      OBVIOUS
    <3>3. i \in Nat
      BY <3>1, <3>2, FS_CardinalityType
    <3>4. passes + 1 = i + 1
      BY <2>1, <3>2
    <3>5. passes = i
      BY <3>1, <3>3, <3>4
    <3> QED
      BY <3>2, <3>5
  <2>3. ~Wellformed \/ ShadowsInCycle \/ Revisits
    BY <1>1, <2>1, <2>2, PassesSuffice DEF RefusalInv
  <2> QED
    BY <1>1, <2>1, <2>3 DEF OtherRefusalsAreErrors, OutOfPasses
<1> QED
  BY <1>2, <1>3, <1>4
     DEF Next, InventoryNext, OpenLane, RepeatPass, CloseLane, inventoryVars, exportVars

\* The passes of every lane make progress, in every reachable state.
THEOREM RefusalsHold == Spec => []RefusalInv
<1>1. Init => RefusalInv
  BY RefusalInvInit
<1>2. RefusalInv /\ [Next]_exportVars => RefusalInv'
  BY InventoryInvStep, ProgressStep, RefusalStep DEF RefusalInv
<1> QED
  BY <1>1, <1>2, PTL DEF Spec

\* A lane of a program is refused only for a name that comes back to its module, when
\* the passes run out, or for a re-export beside an export-star in a graph with a
\* cycle; and never for the lanes before it.
THEOREM RefusalsNamed == Spec => []OtherRefusalsAreErrors
<1>1. RefusalInv => OtherRefusalsAreErrors
  BY DEF RefusalInv
<1> QED
  BY <1>1, RefusalsHold, PTL

(***************************************************************************)
(* Outside graphs where a re-export and an export-star meet in a cycle,    *)
(* what resolveExports keeps is a function of the graph alone: for every   *)
(* name of every module, the declarations that the language resolves it    *)
(* to, whichever lanes were asked for and in whichever order.              *)
(***************************************************************************)
THEOREM PublicationExact == Spec => [](Wellformed /\ ~ShadowsInCycle => Exact(resolved))
<1>1. RefusalInv => (Wellformed /\ ~ShadowsInCycle => Exact(resolved))
  BY DEF RefusalInv, Progress, ShadowsInCycle, NoShadows
<1> QED
  BY <1>1, RefusalsHold, PTL

-----------------------------------------------------------------------------
(* The tracing.                                                            *)

Resolutions ==
  {Missing, Unknown} \cup [kind : {"resolved"}, module : Modules, exported : Names]

Calls == [pair : Pairs, left : Seq(Pairs), answers : SUBSET Resolutions]

\* A namespace object or an exported import is on the way of the name.
Opaque(p) == \E q \in Follow(p) : Export(q).kind \in {"namespace", "through"}

\* What the answer r for the name p is worth: a resolved name is resolved to something
\* that it stands for; and without cycles the answer is exact.
Told(p, r) ==
  Wellformed =>
    /\ r.kind = "resolved" => /\ Denoted(r.module, r.exported) # {}
                              /\ Denoted(r.module, r.exported) \subseteq Origins(p)
    /\ Acyclic =>
         /\ r.kind = "resolved" => /\ Origins(p) = Denoted(r.module, r.exported)
                                   /\ Opaque(p) \/ Origins(p) = {<<r.module, r.exported>>}
         /\ r = Missing => Origins(p) = {}
         /\ r = Unknown => Cardinality(Origins(p)) > 1 \/ Opaque(p)

-----------------------------------------------------------------------------
(* Answers *)

\* The kinds of a resolution, and that there are finitely many.
LEMMA ResolutionKinds ==
  /\ \A r \in Resolutions : r = Missing \/ r = Unknown \/
       (r.kind = "resolved" /\ r.module \in Modules /\ r.exported \in Names /\ r # Missing /\ r # Unknown)
  /\ Missing.kind = "absent" /\ Unknown.kind = "unknown" /\ Missing # Unknown
  /\ \A m \in Modules, b \in Names : Resolved(m, b) \in Resolutions /\ Resolved(m, b).kind = "resolved"
       /\ Resolved(m, b).module = m /\ Resolved(m, b).exported = b
  /\ \A r, s \in Resolutions : r.kind = "resolved" /\ s.kind = "resolved"
       /\ r.module = s.module /\ r.exported = s.exported => r = s
BY DEF Resolutions, Missing, Unknown, Resolved

\* There are finitely many resolutions.
LEMMA ResolutionsFinite ==
  IsFiniteSet(Resolutions)
<1> DEFINE R == [kind : {"resolved"}, module : Modules, exported : Names]
           f == [p \in Pairs |-> Resolved(p[1], p[2])]
<1>1. \A p \in Pairs : f[p] \in R
  BY DEF Resolved, Pairs
<1>2. \A r \in R : \E p \in Pairs : f[p] = r
  <2> TAKE r \in R
  <2>1. <<r.module, r.exported>> \in Pairs /\ r = Resolved(r.module, r.exported)
    BY DEF Pairs, Resolved
  <2> QED
    BY <2>1
<1>3. f \in [Pairs -> R]
  BY <1>1
<1>4. f \in Surjection(Pairs, R)
  <2> HIDE DEF f, R
  <2> QED
    BY <1>2, <1>3 DEF Surjection
<1> HIDE DEF f, R
<1>5. IsFiniteSet(R)
  BY <1>4, PairsFinite, FS_Surjection
<1>6. IsFiniteSet({Missing, Unknown})
  <2>1. IsFiniteSet({Missing}) /\ {Missing, Unknown} = {Missing} \cup {Unknown}
    BY FS_Singleton
  <2> QED
    BY <2>1, FS_AddElement
<1>7. Resolutions = {Missing, Unknown} \cup R
  BY DEF Resolutions, R
<1> QED
  BY <1>5, <1>6, <1>7, FS_Union

\* A binding stands for what every export of it stands for.
LEMMA DenotedOfExport ==
  ASSUME IsGraph(graph), NEW p \in Pairs, NEW b, Binds(Export(p), b)
  PROVE  /\ Denoted(p[1], b) = Origins(p)
         /\ b \in Names
         /\ Export(p).kind = "own" => Origins(p) = {<<p[1], b>>}
<1>1. p[1] \in Modules /\ p[2] \in Names /\ p = <<p[1], p[2]>> /\ Export(p) \in Entries
  BY ExportType
<1>2. b \in Names
  BY <1>1, EntryKinds DEF Binds
<1>3. ASSUME NEW n \in Names, Binds(Export(<<p[1], n>>), b)
      PROVE  Origins(<<p[1], n>>) = Origins(p)
  <2>1. <<p[1], n>> \in Pairs
    BY <1>1 DEF Pairs
  <2>2. Export(<<p[1], n>>) = Export(p)
    BY <1>1, <1>2, <1>3 DEF IsGraph, Export
  <2>3. Export(p).kind \in {"own", "through"}
    BY DEF Binds
  <2>4. Leads(<<p[1], n>>) = Leads(p)
    BY <2>2, <2>3 DEF Leads
  <2>5. Declared(<<p[1], n>>) = Declared(p)
    BY <2>2, <2>3 DEF Declared
  <2> QED
    BY <2>1, <2>4, <2>5, OriginsUnfold
<1>4. Denoted(p[1], b) = Origins(p)
  <2> DEFINE N == {k \in Names : Binds(Export(<<p[1], k>>), b)}
  <2>1. p[2] \in N
    BY <1>1
  <2>2. \A n \in N : Origins(<<p[1], n>>) = Origins(p)
    BY <1>3
  <2>3. \A d : d \in Denoted(p[1], b) <=> \E n \in N : d \in Origins(<<p[1], n>>)
    BY DEF Denoted
  <2> HIDE DEF N
  <2>4. \A d : d \in Denoted(p[1], b) <=> d \in Origins(p)
    BY <2>1, <2>2, <2>3
  <2>5. \A d \in Denoted(p[1], b) : d \in Origins(p)
    BY <2>4
  <2>6. \A d \in Origins(p) : d \in Denoted(p[1], b)
    BY <2>4
  <2> QED
    BY <2>5, <2>6 DEF Denoted
<1>5. ASSUME Export(p).kind = "own" PROVE Origins(p) = {<<p[1], b>>}
  <2>1. Leads(p) = {} /\ Declared(p) = {<<p[1], b>>}
    BY <1>5 DEF Leads, Declared, Binds
  <2> QED
    BY <2>1, OriginsUnfold
<1> QED
  BY <1>2, <1>4, <1>5

\* What is resolved without asking another module is resolved right.
LEMMA ImmediateTold ==
  ASSUME IsGraph(graph), NEW p \in Pairs, Immediate(p)
  PROVE  /\ ImmediateResolution(p) \in Resolutions
         /\ Told(p, ImmediateResolution(p))
<1>1. p[1] \in Modules /\ Export(p) \in Entries /\ p \in Follow(p)
  BY ExportType, FollowIsLeast
<1>2. CASE Export(p).kind \in {"own", "through"}
  <2>1. PICK b : b = Export(p).binding
    OBVIOUS
  <2>2. /\ Denoted(p[1], b) = Origins(p) /\ b \in Names
        /\ Export(p).kind = "own" => Origins(p) = {<<p[1], b>>}
    BY <1>2, <2>1, DenotedOfExport DEF Binds
  <2>3. ImmediateResolution(p) = Resolved(p[1], b)
    BY <1>2, <2>1 DEF ImmediateResolution
  <2>4. Export(p).kind = "through" => Opaque(p)
    BY <1>1 DEF Opaque
  <2>5. ASSUME Wellformed PROVE Origins(p) # {}
    <3>1. CASE Export(p).kind = "own"
      BY <2>2, <3>1
    <3>2. CASE Export(p).kind = "through"
      <4>1. Cardinality(Origins(p)) = 1
        BY <2>5, <3>2 DEF Wellformed
      <4> QED
        BY <4>1, FS_EmptySet
    <3> QED
      BY <1>2, <3>1, <3>2
  <2>6. Resolved(p[1], b) \in Resolutions /\ Resolved(p[1], b).kind = "resolved"
        /\ Resolved(p[1], b).module = p[1] /\ Resolved(p[1], b).exported = b
        /\ Resolved(p[1], b) # Missing /\ Resolved(p[1], b) # Unknown
    BY <1>1, <2>2, ResolutionKinds
  <2> QED
    BY <1>2, <2>2, <2>3, <2>4, <2>5, <2>6 DEF Told
<1>3. CASE Export(p).kind = "namespace"
  <2>1. ImmediateResolution(p) = Unknown /\ Opaque(p)
    BY <1>1, <1>3 DEF ImmediateResolution, Opaque
  <2> QED
    BY <2>1, ResolutionKinds DEF Told, Resolutions
<1>4. CASE Export(p).kind = "absent" /\ p[2] = Default
  <2>1. ImmediateResolution(p) = Missing /\ Leads(p) = {} /\ Declared(p) = {}
    BY <1>4 DEF ImmediateResolution, Leads, Declared
  <2>2. Origins(p) = {}
    BY <2>1, OriginsUnfold
  <2> QED
    BY <2>1, <2>2, ResolutionKinds DEF Told, Resolutions
<1> QED
  BY <1>2, <1>3, <1>4 DEF Immediate

\* What the other names ask are the names they lead to, and they declare nothing.
LEMMA AsksLeads ==
  ASSUME IsGraph(graph), NEW p \in Pairs, ~Immediate(p)
  PROVE  /\ Asks(p) \in Seq(Pairs)
         /\ \A i \in 1..Len(Asks(p)) : Asks(p)[i] \in Leads(p)
         /\ \A q \in Leads(p) : \E i \in 1..Len(Asks(p)) : Asks(p)[i] = q
         /\ Declared(p) = {}
         /\ Export(p).kind \in {"from", "absent"}
<1>1. p[1] \in Modules /\ p[2] \in Names /\ Export(p) \in Entries
  BY ExportType
<1>2. CASE Export(p).kind = "from"
  <2>1. Leads(p) = {<<Export(p).from, Export(p).name>>} /\ Declared(p) = {}
    BY <1>2 DEF Leads, Declared
  <2>2. Asks(p) = <<<<Export(p).from, Export(p).name>>>>
    BY <1>2 DEF Asks
  <2>3. <<Export(p).from, Export(p).name>> \in Pairs
    BY <1>1, <1>2, EntryKinds DEF Pairs
  <2> QED
    BY <1>2, <2>1, <2>2, <2>3
<1>3. CASE Export(p).kind = "absent" /\ p[2] # Default
  <2>1. Leads(p) = Stars(p[1]) \X {p[2]} /\ Declared(p) = {}
    BY <1>3 DEF Leads, Declared
  <2>2. PICK s : s = graph.stars[p[1]]
    OBVIOUS
  <2>3. s \in Seq(Modules)
    BY <1>1, <2>2 DEF IsGraph
  <2>4. Asks(p) = [i \in 1..Len(s) |-> <<s[i], p[2]>>]
    BY <1>3, <2>2 DEF Asks
  <2>5. \A i \in 1..Len(s) : s[i] \in Modules
    BY <2>3
  <2>6. Asks(p) \in Seq(Pairs) /\ Len(Asks(p)) = Len(s)
        /\ \A i \in 1..Len(s) : Asks(p)[i] = <<s[i], p[2]>>
    <3>1. \A i \in 1..Len(s) : <<s[i], p[2]>> \in Pairs
      BY <1>1, <2>5 DEF Pairs
    <3> QED
      BY <2>3, <2>4, <3>1
  <2>7. \A m : m \in Stars(p[1]) <=> \E i \in 1..Len(s) : s[i] = m
    BY <2>2, <2>3 DEF Stars, Range
  <2>8. \A i \in 1..Len(s) : Asks(p)[i] \in Leads(p)
    BY <2>1, <2>6, <2>7
  <2>9. ASSUME NEW q \in Leads(p) PROVE \E i \in 1..Len(s) : Asks(p)[i] = q
    <3>1. PICK m \in Stars(p[1]) : q = <<m, p[2]>>
      BY <2>1
    <3> QED
      BY <2>6, <2>7, <3>1
  <2> QED
    BY <1>3, <2>1, <2>6, <2>8, <2>9
<1> QED
  BY <1>1, <1>2, <1>3, EntryKinds DEF Immediate

-----------------------------------------------------------------------------
(* The answer of a call *)

\* What is opaque behind a lead is opaque behind the name.
LEMMA OpaqueLeads ==
  ASSUME IsGraph(graph), NEW p \in Pairs, NEW q \in Leads(p)
  PROVE  /\ q \in Pairs
         /\ Origins(q) \subseteq Origins(p)
         /\ Opaque(q) => Opaque(p)
<1>1. q \in Follow(p) /\ Follow(q) \subseteq Follow(p)
  BY BehindOne
<1> QED
  BY <1>1, OriginsBehind DEF Opaque

\* Two different declarations make a name ambiguous.
LEMMA TwoOrigins ==
  ASSUME IsGraph(graph), NEW p \in Pairs, NEW c \in Origins(p), NEW d \in Origins(p), c # d
  PROVE  Cardinality(Origins(p)) > 1
<1>1. IsFiniteSet(Origins(p))
  BY OriginsFinite
<1>2. Cardinality(Origins(p)) \in Nat /\ Cardinality(Origins(p)) # 0 /\ Cardinality(Origins(p)) # 1
  BY <1>1, OneElement
<1> QED
  BY <1>2

\* A name that leads to an ambiguous one is ambiguous.
LEMMA AmbiguousLeads ==
  ASSUME IsGraph(graph), NEW p \in Pairs, NEW q \in Leads(p), Cardinality(Origins(q)) > 1
  PROVE  Cardinality(Origins(p)) > 1
<1>1. Origins(q) \in SUBSET Origins(p) /\ IsFiniteSet(Origins(p)) /\ IsFiniteSet(Origins(q))
  BY OpaqueLeads, OriginsFinite
<1>2. Cardinality(Origins(q)) <= Cardinality(Origins(p))
  BY <1>1, FS_Subset
<1>3. Cardinality(Origins(q)) \in Nat /\ Cardinality(Origins(p)) \in Nat
  BY <1>1, FS_CardinalityType
<1> QED
  BY <1>2, <1>3

\* The cases of the resolution of a list of stars.
LEMMA StarResolutionSays ==
  ASSUME NEW answers \in SUBSET Resolutions
  PROVE  \/ Unknown \in answers /\ StarResolution(answers) = Unknown
         \/ /\ Unknown \notin answers /\ StarResolution(answers) = Unknown
            /\ \E r, s \in answers : r # s /\ r.kind = "resolved" /\ s.kind = "resolved"
         \/ answers \subseteq {Missing} /\ StarResolution(answers) = Missing
         \/ /\ StarResolution(answers) \in answers /\ StarResolution(answers).kind = "resolved"
            /\ answers \subseteq {Missing, StarResolution(answers)}
<1> DEFINE sources == answers \ {Missing}
<1>1. IsFiniteSet(sources)
  BY ResolutionsFinite, FS_Subset
<1>2. CASE Unknown \in answers
  BY <1>2 DEF StarResolution
<1>3. CASE Unknown \notin answers /\ Cardinality(sources) > 1
  <2>1. StarResolution(answers) = Unknown
    BY <1>3 DEF StarResolution
  <2>2. Cardinality(sources) # 0 /\ Cardinality(sources) # 1 /\ Cardinality(sources) \in Nat
    BY <1>1, <1>3, OneElement
  <2>3. PICK r \in sources, s \in sources : r # s
    BY <1>1, <2>2, OneElement
  <2> QED
    BY <1>3, <2>1, <2>3, ResolutionKinds
<1>4. CASE Unknown \notin answers /\ ~(Cardinality(sources) > 1) /\ sources = {}
  BY <1>4 DEF StarResolution
<1>5. CASE Unknown \notin answers /\ ~(Cardinality(sources) > 1) /\ sources # {}
  <2>1. StarResolution(answers) = CHOOSE r \in sources : TRUE
    BY <1>5 DEF StarResolution
  <2>2. StarResolution(answers) \in sources
    BY <1>5, <2>1
  <2>3. Cardinality(sources) = 1
    <3>1. Cardinality(sources) \in Nat /\ Cardinality(sources) # 0
      BY <1>1, <1>5, OneElement
    <3> QED
      BY <1>5, <3>1
  <2>4. \A r \in sources : r = StarResolution(answers)
    BY <1>1, <2>2, <2>3, OneElement
  <2> QED
    BY <1>5, <2>2, <2>4, ResolutionKinds
<1> QED
  BY <1>2, <1>3, <1>4, <1>5

\* An open call: it has answers to what its name leads to, and asks for the others.
CallTrue(c) ==
  /\ c \in Calls
  /\ ~Immediate(c.pair)
  /\ \A i \in 1..Len(c.left) : c.left[i] \in Leads(c.pair)
  /\ \A r \in c.answers : \E q \in Leads(c.pair) : Told(q, r)
  /\ \A q \in Leads(c.pair) :
       (\E i \in 1..Len(c.left) : c.left[i] = q) \/ (\E r \in c.answers : Told(q, r))

\* A call that has all its answers gives a right one.
LEMMA ResolutionTold ==
  ASSUME IsGraph(graph), NEW c, CallTrue(c), c.left = << >>
  PROVE  Resolution(c) \in Resolutions /\ Told(c.pair, Resolution(c))
<1> DEFINE p == c.pair
           A == c.answers
           R == StarResolution(A)
<1>1. /\ p \in Pairs /\ A \in SUBSET Resolutions /\ ~Immediate(p)
      /\ \A r \in A : \E q \in Leads(p) : Told(q, r)
      /\ \A q \in Leads(p) : \E r \in A : Told(q, r)
  BY DEF CallTrue, Calls
<1>2. Declared(p) = {} /\ Export(p).kind \in {"from", "absent"}
  BY <1>1, AsksLeads
<1>3. Origins(p) = UNION {Origins(q) : q \in Leads(p)}
  BY <1>1, <1>2, OriginsUnfold
<1>4. /\ \A r \in Resolutions : r = Missing \/ r = Unknown \/
              (r.kind = "resolved" /\ r.module \in Modules /\ r.exported \in Names /\ r # Missing /\ r # Unknown)
      /\ Missing.kind = "absent" /\ Unknown.kind = "unknown" /\ Missing # Unknown
      /\ Missing \in Resolutions /\ Unknown \in Resolutions
      /\ \A r, s \in Resolutions : r.kind = "resolved" /\ s.kind = "resolved"
              /\ r.module = s.module /\ r.exported = s.exported => r = s
  BY ResolutionKinds DEF Resolutions
<1>5. Resolution(c) = IF Export(p).kind = "from" /\ R = Missing THEN Unknown ELSE R
  BY DEF Resolution
<1>6. \/ Unknown \in A /\ R = Unknown
      \/ /\ Unknown \notin A /\ R = Unknown
         /\ \E r, s \in A : r # s /\ r.kind = "resolved" /\ s.kind = "resolved"
      \/ A \subseteq {Missing} /\ R = Missing
      \/ /\ R \in A /\ R.kind = "resolved"
         /\ A \subseteq {Missing, R}
  BY <1>1, StarResolutionSays
<1>7. \A q \in Leads(p) : q \in Pairs /\ Origins(q) \subseteq Origins(p) /\ (Opaque(q) => Opaque(p))
  BY <1>1, OpaqueLeads
<1> HIDE DEF p, A, R
<1>8. CASE Unknown \in A /\ R = Unknown
  <2>1. PICK q \in Leads(p) : Told(q, Unknown)
    BY <1>1, <1>8
  <2>2. Resolution(c) = Unknown
    BY <1>4, <1>5, <1>8
  <2>3. ASSUME Wellformed, Acyclic PROVE Cardinality(Origins(p)) > 1 \/ Opaque(p)
    BY <1>1, <1>7, <2>1, <2>3, AmbiguousLeads DEF Told
  <2> QED
    BY <1>4, <2>2, <2>3 DEF Told, p
<1>9. CASE R = Unknown /\ \E r, s \in A : r # s /\ r.kind = "resolved" /\ s.kind = "resolved"
  <2>1. PICK r \in A, s \in A : r # s /\ r.kind = "resolved" /\ s.kind = "resolved"
    BY <1>9
  <2>2. Resolution(c) = Unknown
    BY <1>4, <1>5, <1>9
  <2>3. PICK q1 \in Leads(p) : Told(q1, r)
    BY <1>1, <2>1
  <2>4. PICK q2 \in Leads(p) : Told(q2, s)
    BY <1>1, <2>1
  <2>5. ASSUME Wellformed, Acyclic, ~Opaque(p) PROVE Cardinality(Origins(p)) > 1
    <3>1. Origins(q1) = {<<r.module, r.exported>>} /\ Origins(q2) = {<<s.module, s.exported>>}
      BY <1>7, <2>1, <2>3, <2>4, <2>5 DEF Told
    <3>2. <<r.module, r.exported>> \in Origins(p) /\ <<s.module, s.exported>> \in Origins(p)
      BY <1>7, <3>1
    <3>3. <<r.module, r.exported>> # <<s.module, s.exported>>
      BY <1>1, <1>4, <2>1
    <3> QED
      BY <1>1, <3>2, <3>3, TwoOrigins
  <2> QED
    BY <1>4, <2>2, <2>5 DEF Told, p
<1>10. CASE A \subseteq {Missing} /\ R = Missing
  <2>1. ASSUME Wellformed, Acyclic PROVE Origins(p) = {} /\ Export(p).kind # "from"
    <3>1. \A q \in Leads(p) : Origins(q) = {}
      BY <1>1, <1>10, <2>1 DEF Told
    <3>2. Origins(p) = {}
      BY <1>3, <3>1
    <3>3. Export(p).kind # "from"
      <4>1. Export(p).kind = "from" => Cardinality(Origins(p)) = 1
        BY <1>1, <2>1 DEF Wellformed
      <4> QED
        BY <3>2, <4>1, FS_EmptySet
    <3> QED
      BY <3>2, <3>3
  <2>2. Resolution(c) = Missing \/ (Resolution(c) = Unknown /\ Export(p).kind = "from")
    BY <1>5, <1>10
  <2> QED
    BY <1>4, <2>1, <2>2 DEF Told, p
<1>11. CASE R \in A /\ R.kind = "resolved" /\ A \subseteq {Missing, R}
  <2>1. Resolution(c) = R /\ R \in Resolutions /\ R # Missing /\ R # Unknown
    BY <1>1, <1>4, <1>5, <1>11
  <2>2. PICK q \in Leads(p) : Told(q, R)
    BY <1>1, <1>11
  <2>3. ASSUME Wellformed
        PROVE  Denoted(R.module, R.exported) # {} /\ Denoted(R.module, R.exported) \subseteq Origins(p)
    BY <1>7, <1>11, <2>2, <2>3 DEF Told
  <2>4. ASSUME Wellformed, Acyclic
        PROVE  /\ Origins(p) = Denoted(R.module, R.exported)
               /\ Opaque(p) \/ Origins(p) = {<<R.module, R.exported>>}
    <3>1. \A k \in Leads(p) : Origins(k) = {} \/ Origins(k) = Denoted(R.module, R.exported)
      <4> TAKE k \in Leads(p)
      <4>1. PICK r \in A : Told(k, r)
        BY <1>1
      <4>2. r = Missing \/ r = R
        BY <1>11
      <4> QED
        BY <1>11, <2>4, <4>1, <4>2 DEF Told
    <3>2. Origins(p) = Denoted(R.module, R.exported)
      BY <1>3, <2>3, <2>4, <3>1
    <3>3. Origins(q) = Denoted(R.module, R.exported) /\ (Opaque(q) \/ Origins(q) = {<<R.module, R.exported>>})
      BY <1>11, <2>2, <2>4 DEF Told
    <3> QED
      BY <1>7, <3>2, <3>3
  <2> QED
    BY <2>1, <2>3, <2>4 DEF Told, p
<1> QED
  BY <1>6, <1>8, <1>9, <1>10, <1>11

-----------------------------------------------------------------------------
(* The open calls *)

\* The open calls of request q: each asks for the one above it, and all of them lead
\* to the innermost.
StackTrue(s, q) ==
  /\ s \in Seq(Calls)
  /\ \A i \in 1..Len(s) : CallTrue(s[i])
  /\ Len(s) > 0 => s[1].pair[1] = q.barrel /\ s[1].pair[2] \in q.names
  /\ \A i \in 1..Len(s) - 1 : s[i].left # << >> /\ s[i + 1].pair = Head(s[i].left)
  /\ \A i, j \in 1..Len(s) : i <= j => s[j].pair \in Follow(s[i].pair)

TargetsTrue(t, q) ==
  /\ DOMAIN t \subseteq q.names
  /\ \A n \in DOMAIN t : t[n] \in Resolutions /\ Told(<<q.barrel, n>>, t[n])

\* What the innermost call of s asks, or the request itself.
AskedBy(p, s, q) ==
  IF s = << >> THEN p[1] = q.barrel /\ p[2] \in q.names
  ELSE s[Len(s)].left # << >> /\ p = Head(s[Len(s)].left)

\* A right answer to a call keeps it right.
LEMMA CallAnswered ==
  ASSUME NEW c, CallTrue(c), c.left # << >>, NEW r \in Resolutions, Told(Head(c.left), r),
         NEW d, d = [c EXCEPT !.left = Tail(@), !.answers = @ \cup {r}]
  PROVE  CallTrue(d) /\ d.pair = c.pair
<1>1. /\ c \in Calls /\ c.left \in Seq(Pairs) /\ c.answers \in SUBSET Resolutions /\ c.pair \in Pairs
      /\ c = [pair |-> c.pair, left |-> c.left, answers |-> c.answers]
  BY DEF CallTrue, Calls
<1>2. d = [pair |-> c.pair, left |-> Tail(c.left), answers |-> c.answers \cup {r}]
  BY <1>1
<1>3. /\ Tail(c.left) \in Seq(Pairs) /\ Len(Tail(c.left)) = Len(c.left) - 1 /\ Len(c.left) \in Nat
      /\ \A i \in 1..Len(c.left) - 1 : Tail(c.left)[i] = c.left[i + 1]
      /\ Head(c.left) = c.left[1] /\ Len(c.left) > 0
  BY <1>1
<1>4. d \in Calls
  <2>1. c.answers \cup {r} \in SUBSET Resolutions
    BY <1>1
  <2>2. [pair |-> c.pair, left |-> Tail(c.left), answers |-> c.answers \cup {r}] \in Calls
    BY <1>1, <1>3, <2>1 DEF Calls
  <2> QED
    BY <1>2, <2>2
<1>5. d.pair = c.pair /\ d.left = Tail(c.left) /\ d.answers = c.answers \cup {r}
  BY <1>2
<1>6. ASSUME NEW i \in 1..Len(d.left) PROVE d.left[i] \in Leads(d.pair)
  <2>1. i \in 1..Len(c.left) - 1 /\ i + 1 \in 1..Len(c.left)
    BY <1>3, <1>5, <1>6
  <2> QED
    BY <1>3, <1>5, <2>1 DEF CallTrue
<1>7. Head(c.left) \in Leads(c.pair)
  <2>1. 1 \in 1..Len(c.left)
    BY <1>3
  <2> QED
    BY <1>3, <2>1 DEF CallTrue
<1>8. ASSUME NEW x \in d.answers PROVE \E q \in Leads(d.pair) : Told(q, x)
  BY <1>5, <1>7, <1>8 DEF CallTrue
<1>9. ASSUME NEW q \in Leads(d.pair)
      PROVE  (\E i \in 1..Len(d.left) : d.left[i] = q) \/ (\E x \in d.answers : Told(q, x))
  <2>1. CASE \E x \in c.answers : Told(q, x)
    BY <1>5, <2>1
  <2>2. CASE \E i \in 1..Len(c.left) : c.left[i] = q
    <3>1. PICK i \in 1..Len(c.left) : c.left[i] = q
      BY <2>2
    <3>2. CASE i = 1
      BY <1>3, <1>5, <3>1, <3>2
    <3>3. CASE i # 1
      <4>1. i - 1 \in 1..Len(c.left) - 1 /\ (i - 1) + 1 = i
        BY <1>3, <3>3
      <4>2. d.left[i - 1] = q /\ i - 1 \in 1..Len(d.left)
        BY <1>3, <1>5, <3>1, <4>1
      <4> QED
        BY <4>2
    <3> QED
      BY <3>2, <3>3
  <2> QED
    BY <1>5, <2>1, <2>2 DEF CallTrue
<1> QED
  BY <1>4, <1>5, <1>6, <1>8, <1>9 DEF CallTrue

\* A right answer to the innermost call keeps the stack right.
LEMMA StackAnswered ==
  ASSUME NEW q, NEW s, StackTrue(s, q), s # << >>,
         NEW p, AskedBy(p, s, q), NEW r \in Resolutions, Told(p, r)
  PROVE  StackTrue([s EXCEPT ![Len(s)].left = Tail(@), ![Len(s)].answers = @ \cup {r}], q)
<1>1. PICK n \in Nat : n = Len(s) /\ n > 0 /\ s \in Seq(Calls) /\ \A i \in 1..n : s[i] \in Calls
  BY DEF StackTrue
<1>2. PICK c : c = s[n] /\ CallTrue(c) /\ c.left # << >> /\ p = Head(c.left)
  <2>1. n \in 1..n
    BY <1>1
  <2> QED
    BY <1>1, <2>1 DEF StackTrue, AskedBy
<1>3. PICK d : d = [c EXCEPT !.left = Tail(@), !.answers = @ \cup {r}]
  OBVIOUS
<1>4. CallTrue(d) /\ d.pair = c.pair /\ d \in Calls
  <2>1. CallTrue(d) /\ d.pair = c.pair
    BY <1>2, <1>3, CallAnswered
  <2> QED
    BY <2>1 DEF CallTrue
<1>5. PICK t : t = [s EXCEPT ![n] = d]
  OBVIOUS
<1>6. [s EXCEPT ![Len(s)].left = Tail(@), ![Len(s)].answers = @ \cup {r}] = t
  BY <1>1, <1>2, <1>3, <1>5
<1>7. /\ t \in Seq(Calls) /\ Len(t) = n /\ t[n] = d
      /\ \A i \in 1..n : i # n => t[i] = s[i]
  BY <1>1, <1>4, <1>5
<1>8. \A i \in 1..n : t[i].pair = s[i].pair /\ CallTrue(t[i])
  BY <1>1, <1>2, <1>4, <1>7 DEF StackTrue
<1>9. \A i \in 1..n - 1 : i \in 1..n /\ i + 1 \in 1..n /\ i # n
  BY <1>1
<1>10. \A i \in 1..n - 1 : t[i].left # << >> /\ t[i + 1].pair = Head(t[i].left)
  BY <1>1, <1>7, <1>8, <1>9 DEF StackTrue
<1>11. 1 \in 1..n
  BY <1>1
<1>12. t[1].pair[1] = q.barrel /\ t[1].pair[2] \in q.names
  BY <1>1, <1>8, <1>11 DEF StackTrue
<1>13. \A i, j \in 1..n : i <= j => t[j].pair \in Follow(t[i].pair)
  BY <1>1, <1>8 DEF StackTrue
<1>14. StackTrue(t, q)
  BY <1>7, <1>8, <1>10, <1>12, <1>13 DEF StackTrue
<1> QED
  BY <1>6, <1>14

\* A right answer to the request itself keeps its targets right.
LEMMA TargetAnswered ==
  ASSUME NEW q, NEW t, TargetsTrue(t, q), NEW p \in Pairs, AskedBy(p, << >>, q),
         NEW r \in Resolutions, Told(p, r)
  PROVE  TargetsTrue(With(t, p[2], r), q)
<1>1. p = <<q.barrel, p[2]>> /\ p[2] \in q.names
  BY DEF AskedBy, Pairs
<1>2. PICK n : n = p[2]
  OBVIOUS
<1>3. p = <<q.barrel, n>> /\ n \in q.names
  BY <1>1, <1>2
<1> QED
  BY <1>2, <1>3 DEF TargetsTrue, With

\* A call opened for what was asked.
LEMMA StackDescends ==
  ASSUME IsGraph(graph), NEW q \in Requests, NEW s, StackTrue(s, q), NEW p \in Pairs, AskedBy(p, s, q), ~Immediate(p)
  PROVE  StackTrue(Append(s, Call(p, Asks(p))), q)
<1>1. PICK n \in Nat : n = Len(s) /\ s \in Seq(Calls)
  BY DEF StackTrue
<1>2. PICK c : c = Call(p, Asks(p))
  OBVIOUS
<1>3. c.pair = p /\ c.left = Asks(p) /\ c.answers = {}
  BY <1>2 DEF Call
<1>4. CallTrue(c) /\ c \in Calls
  <2>1. /\ Asks(p) \in Seq(Pairs)
        /\ \A i \in 1..Len(Asks(p)) : Asks(p)[i] \in Leads(p)
        /\ \A k \in Leads(p) : \E i \in 1..Len(Asks(p)) : Asks(p)[i] = k
    BY AsksLeads
  <2>2. c \in Calls
    BY <1>2, <2>1 DEF Call, Calls
  <2> QED
    BY <1>3, <2>1, <2>2 DEF CallTrue
<1>5. PICK t : t = Append(s, c)
  OBVIOUS
<1>6. /\ t \in Seq(Calls) /\ Len(t) = n + 1 /\ t[n + 1] = c
      /\ \A i \in 1..n : t[i] = s[i]
  BY <1>1, <1>4, <1>5
<1>7. \A i \in 1..n + 1 : i \in 1..n \/ i = n + 1
  BY <1>1
<1>8. \A i \in 1..Len(t) : CallTrue(t[i])
  BY <1>1, <1>4, <1>6, <1>7 DEF StackTrue
<1>9. n > 0 => 1 \in 1..n /\ n \in 1..n
  BY <1>1
<1>10. n = 0 => s = << >> /\ n + 1 = 1
  <2>1. s # << >> => Len(s) \in Nat \ {0}
    BY <1>1, EmptySeq
  <2> QED
    BY <1>1, <2>1
<1>11. n > 0 => s # << >>
  BY <1>1
<1>12. t[1].pair[1] = q.barrel /\ t[1].pair[2] \in q.names
  <2>1. CASE n = 0
    BY <1>3, <1>6, <1>10, <2>1 DEF AskedBy
  <2>2. CASE n > 0
    BY <1>1, <1>6, <1>9, <2>2 DEF StackTrue
  <2> QED
    BY <1>1, <2>1, <2>2
<1>13. \A i \in 1..Len(t) - 1 : t[i].left # << >> /\ t[i + 1].pair = Head(t[i].left)
  <2> SUFFICES ASSUME NEW i \in 1..n PROVE t[i].left # << >> /\ t[i + 1].pair = Head(t[i].left)
    BY <1>1, <1>6
  <2>1. CASE i = n
    BY <1>1, <1>3, <1>6, <1>11, <2>1 DEF AskedBy
  <2>2. CASE i # n
    <3>1. i \in 1..n - 1 /\ i + 1 \in 1..n
      BY <1>1, <2>2
    <3> QED
      BY <1>1, <1>6, <3>1 DEF StackTrue
  <2> QED
    BY <2>1, <2>2
<1>14. ASSUME NEW i \in 1..n + 1 PROVE p \in Follow(t[i].pair)
  <2>1. CASE i = n + 1
    BY <1>3, <1>6, <2>1, FollowIsLeast
  <2>2. CASE i # n + 1
    <3>1. i \in 1..n /\ n \in 1..n /\ i <= n /\ n > 0
      BY <1>1, <2>2
    <3>2. s[n].pair \in Follow(s[i].pair)
      BY <1>1, <3>1 DEF StackTrue
    <3>3. CallTrue(s[n]) /\ p = Head(s[n].left) /\ s[n].left # << >> /\ s[i].pair \in Pairs
      <4>1. p = Head(s[n].left) /\ s[n].left # << >>
        BY <1>1, <1>11, <3>1 DEF AskedBy
      <4>2. CallTrue(s[n]) /\ CallTrue(s[i])
        BY <1>1, <3>1 DEF StackTrue
      <4>3. s[i].pair \in Pairs
        BY <4>2 DEF CallTrue, Calls
      <4> QED
        BY <4>1, <4>2, <4>3
    <3>4. p \in Leads(s[n].pair)
      <4>1. s[n].left \in Seq(Pairs)
        BY <3>3 DEF CallTrue, Calls
      <4>2. 1 \in 1..Len(s[n].left) /\ p = s[n].left[1]
        BY <3>3, <4>1
      <4> QED
        BY <3>3, <4>2 DEF CallTrue
    <3>5. p \in Follow(s[i].pair)
      BY <3>2, <3>3, <3>4, FollowIsLeast
    <3> QED
      BY <1>6, <3>1, <3>5
  <2> QED
    BY <2>1, <2>2
<1>15. ASSUME NEW i \in 1..n + 1, NEW j \in 1..n + 1, i <= j
       PROVE  t[j].pair \in Follow(t[i].pair)
  <2>1. CASE j = n + 1
    BY <1>3, <1>6, <1>14, <2>1
  <2>2. CASE j # n + 1
    <3>1. j \in 1..n /\ i \in 1..n
      BY <1>1, <1>15, <2>2
    <3> QED
      BY <1>1, <1>6, <1>15, <3>1 DEF StackTrue
  <2> QED
    BY <2>1, <2>2
<1>16. StackTrue(t, q)
  BY <1>6, <1>8, <1>12, <1>13, <1>15 DEF StackTrue
<1> QED
  BY <1>2, <1>5, <1>16

\* The stack without its innermost call, whose name the one under it had asked for.
LEMMA StackReturns ==
  ASSUME NEW q, NEW s, StackTrue(s, q), s # << >>
  PROVE  /\ Last(s) \in Calls /\ CallTrue(Last(s))
         /\ StackTrue(Front(s), q)
         /\ AskedBy(Last(s).pair, Front(s), q)
<1>1. PICK n \in Nat \ {0} : n = Len(s) /\ s \in Seq(Calls)
  BY EmptySeq DEF StackTrue
<1>2. Last(s) = s[n] /\ n \in 1..n /\ 1 \in 1..n
  BY <1>1 DEF Last
<1>3. Last(s) \in Calls /\ CallTrue(Last(s))
  BY <1>1, <1>2 DEF StackTrue
<1>4. PICK t : t = Front(s)
  OBVIOUS
<1>5. t = SubSeq(s, 1, n - 1)
  BY <1>1, <1>4 DEF Front
<1>6. /\ t \in Seq(Calls) /\ Len(t) = n - 1 /\ n - 1 \in Nat
      /\ \A i \in 1..n - 1 : t[i] = s[i]
  BY <1>1, <1>5
<1>7. \A i \in 1..n - 1 : i \in 1..n
  BY <1>1
<1>8. \A i \in 1..Len(t) : CallTrue(t[i])
  BY <1>1, <1>6, <1>7 DEF StackTrue
<1>9. Len(t) > 0 => t[1].pair[1] = q.barrel /\ t[1].pair[2] \in q.names
  <2>1. Len(t) > 0 => 1 \in 1..n - 1
    BY <1>6
  <2> QED
    BY <1>1, <1>6, <2>1 DEF StackTrue
<1>10. \A i \in 1..Len(t) - 1 : t[i].left # << >> /\ t[i + 1].pair = Head(t[i].left)
  <2> SUFFICES ASSUME NEW i \in 1..Len(t) - 1 PROVE t[i].left # << >> /\ t[i + 1].pair = Head(t[i].left)
    OBVIOUS
  <2>1. i \in 1..n - 1 /\ i + 1 \in 1..n - 1
    BY <1>6
  <2> QED
    BY <1>1, <1>6, <2>1 DEF StackTrue
<1>11. \A i, j \in 1..Len(t) : i <= j => t[j].pair \in Follow(t[i].pair)
  BY <1>1, <1>6, <1>7 DEF StackTrue
<1>12. StackTrue(t, q)
  BY <1>6, <1>8, <1>9, <1>10, <1>11 DEF StackTrue
<1>13. AskedBy(s[n].pair, t, q)
  <2>1. CASE n = 1
    <3>1. t = << >>
      <4>1. t # << >> => Len(t) \in Nat \ {0}
        BY <1>6, EmptySeq
      <4> QED
        BY <1>6, <2>1, <4>1
    <3> QED
      BY <1>1, <2>1, <3>1 DEF StackTrue, AskedBy
  <2>2. CASE n # 1
    <3>1. n - 1 \in 1..n - 1 /\ (n - 1) + 1 = n
      BY <1>1, <2>2
    <3>2. t # << >> /\ t[Len(t)] = s[n - 1]
      <4>1. Len(t) # 0
        BY <1>6, <3>1
      <4>2. t # << >>
        BY <4>1
      <4> QED
        BY <1>6, <3>1, <4>2
    <3>3. s[n - 1].left # << >> /\ s[(n - 1) + 1].pair = Head(s[n - 1].left)
      BY <1>1, <3>1 DEF StackTrue
    <3> QED
      BY <3>1, <3>2, <3>3 DEF AskedBy
  <2> QED
    BY <2>1, <2>2
<1> QED
  BY <1>2, <1>3, <1>4, <1>12, <1>13

\* What is asked is a name, and follows from the name of every open call.
LEMMA AskedFollows ==
  ASSUME IsGraph(graph), NEW q \in Requests, NEW s, StackTrue(s, q), NEW p, AskedBy(p, s, q), p = <<p[1], p[2]>>
  PROVE  /\ p \in Pairs
         /\ \A i \in 1..Len(s) : s[i].pair \in Pairs /\ p \in Behind[Leads(s[i].pair)]
<1>1. CASE s = << >>
  <2>1. p[1] \in Modules /\ p[2] \in Names
    BY <1>1 DEF AskedBy, Requests
  <2> QED
    BY <1>1, <2>1 DEF Pairs
<1>2. CASE s # << >>
  <2>1. PICK n \in Nat \ {0} : n = Len(s) /\ s \in Seq(Calls)
    BY <1>2, EmptySeq DEF StackTrue
  <2>2. PICK c : c = s[n]
    OBVIOUS
  <2>3. CallTrue(c) /\ c.left # << >> /\ p = Head(c.left)
    <3>1. n \in 1..n
      BY <2>1
    <3> QED
      BY <1>2, <2>1, <2>2, <3>1 DEF StackTrue, AskedBy
  <2>4. c.pair \in Pairs /\ c.left \in Seq(Pairs)
    BY <2>3 DEF CallTrue, Calls
  <2>5. 1 \in 1..Len(c.left) /\ p = c.left[1]
    BY <2>3, <2>4
  <2>6. p \in Leads(c.pair)
    BY <2>3, <2>5 DEF CallTrue
  <2>7. p \in Pairs
    BY <2>4, <2>6, LeadsType
  <2>8. ASSUME NEW i \in 1..Len(s) PROVE s[i].pair \in Pairs /\ p \in Behind[Leads(s[i].pair)]
    <3>1. i \in 1..n /\ n \in 1..n /\ i <= n
      BY <2>1, <2>8
    <3>2. c.pair \in Follow(s[i].pair)
      BY <2>1, <2>2, <3>1 DEF StackTrue
    <3>3. PICK o : o = s[i].pair
      OBVIOUS
    <3>4. o \in Pairs
      BY <2>1, <3>1, <3>3 DEF StackTrue, CallTrue, Calls
    <3>5. Leads(o) \in SUBSET Pairs
      BY <3>4, LeadsType
    <3>6. Leads(o) \subseteq Behind[Leads(o)] /\ \A k \in Behind[Leads(o)] : Leads(k) \subseteq Behind[Leads(o)]
      BY <3>5, BehindIsLeast
    <3>7. c.pair = o \/ c.pair \in Behind[Leads(o)]
      BY <3>2, <3>3, <3>4, BehindOne
    <3>8. p \in Behind[Leads(o)]
      BY <2>6, <3>6, <3>7
    <3> QED
      BY <3>3, <3>4, <3>8
  <2> QED
    BY <2>7, <2>8
<1> QED
  BY <1>1, <1>2

\* In a graph without cycles nothing is cut, so a cut answer is worth what it has to be.
LEMMA CutTold ==
  ASSUME IsGraph(graph), NEW q \in Requests, NEW s, StackTrue(s, q), NEW p, AskedBy(p, s, q), p = <<p[1], p[2]>>,
         NEW i \in 1..Len(s), s[i].pair = p
  PROVE  Told(p, Missing)
<1>1. p \in Pairs /\ p \in Behind[Leads(p)]
  BY AskedFollows
<1>2. ~Acyclic
  BY <1>1 DEF Acyclic
<1>3. Missing.kind # "resolved" /\ Missing \in Resolutions
  BY ResolutionKinds DEF Resolutions
<1> QED
  BY <1>2, <1>3 DEF Told

-----------------------------------------------------------------------------
(* The invariant *)

CacheTrue ==
  DOMAIN cache \subseteq Pairs /\ \A p \in DOMAIN cache : cache[p] \in Resolutions /\ Told(p, cache[p])

Idle == request = NoRequest /\ targets = << >> /\ calls = << >>

AtWork == request \in Requests /\ StackTrue(calls, request) /\ TargetsTrue(targets, request)

\* The link set L of request r takes each of its names to where the name is declared.
Reaches(r, L) ==
  \A n \in r.names :
    LET of == {l \in L : n \in l.names}
    IN Cardinality(Origins(<<r.barrel, n>>)) = 1 =>
         /\ Cardinality(of) = 1
         /\ \A l \in of : l.target # r.barrel =>
              /\ Denoted(l.target, n) = Origins(<<r.barrel, n>>)
              /\ MayReach(r.importer, l.target)

TracingInv == IsGraph(graph) /\ CacheTrue /\ (Idle \/ AtWork) /\ NamesReachTheirDeclarations

\* What is said of a graph and of given calls and answers stays as the graph does.
LEMMA TracingFrozen ==
  ASSUME UNCHANGED graph
  PROVE  /\ \A p, r : Told(p, r)' = Told(p, r)
         /\ \A s, q : StackTrue(s, q)' = StackTrue(s, q)
         /\ \A t, q : TargetsTrue(t, q)' = TargetsTrue(t, q)
         /\ \A r, L : Reaches(r, L)' = Reaches(r, L)
         /\ Wellformed' = Wellformed
<1>1. /\ \A p : /\ Follow(p)' = Follow(p)
                /\ Export(p)' = Export(p)
                /\ Leads(p)' = Leads(p)
                /\ Origins(p)' = Origins(p)
      /\ Wellformed' = Wellformed /\ Acyclic' = Acyclic
      /\ \A m, b : Denoted(m, b)' = Denoted(m, b)
  BY GraphFrozen
<1>2. \A p : Opaque(p)' = Opaque(p)
  BY <1>1 DEF Opaque
<1>3. \A p, r : Told(p, r)' = Told(p, r)
  BY <1>1, <1>2 DEF Told
<1>4. \A p : Immediate(p)' = Immediate(p)
  BY <1>1 DEF Immediate
<1>5. \A c : CallTrue(c)' = CallTrue(c)
  BY <1>1, <1>3, <1>4 DEF CallTrue
<1>6. \A s, q : StackTrue(s, q)' = StackTrue(s, q)
  BY <1>1, <1>5 DEF StackTrue
<1>7. \A t, q : TargetsTrue(t, q)' = TargetsTrue(t, q)
  BY <1>3 DEF TargetsTrue
<1>8. \A i, m : MayReach(i, m)' = MayReach(i, m)
  BY DEF MayReach
<1>9. \A r, L : Reaches(r, L)' = Reaches(r, L)
  BY <1>1, <1>8 DEF Reaches
<1> QED
  BY <1>1, <1>3, <1>6, <1>7, <1>9

\* A request is not the absence of one.
LEMMA RequestsAreRequests ==
  NoRequest \notin Requests
BY DEF NoRequest, Requests

\* What is to be resolved next is a name, and the innermost call or the request asks it.
LEMMA AskedOfType ==
  ASSUME IsGraph(graph), Idle \/ AtWork, NEW p \in Asked
  PROVE  AtWork /\ p \in Pairs /\ AskedBy(p, calls, request)
<1>1. AtWork /\ request # NoRequest
  BY DEF Asked, Idle
<1>2. CASE calls = << >>
  <2>1. PICK n \in request.names : p = <<request.barrel, n>>
    BY <1>1, <1>2 DEF Asked
  <2>2. request.barrel \in Modules /\ n \in Names
    BY <1>1, <2>1 DEF AtWork, Requests
  <2> QED
    BY <1>1, <1>2, <2>1, <2>2 DEF AskedBy, Pairs
<1>3. CASE calls # << >>
  <2>1. Last(calls).left # << >> /\ p = Head(Last(calls).left)
    BY <1>1, <1>3 DEF Asked
  <2>2. Last(calls) \in Calls
    BY <1>1, <1>3, StackReturns DEF AtWork
  <2>3. PICK s : s = Last(calls).left
    OBVIOUS
  <2>4. s \in Seq(Pairs)
    BY <2>2, <2>3 DEF Calls
  <2>5. Head(s) \in Pairs
    BY <2>1, <2>3, <2>4, HeadTailProperties
  <2> QED
    BY <1>1, <1>3, <2>1, <2>3, <2>5 DEF AskedBy, Last
<1> QED
  BY <1>2, <1>3

\* A right answer to what was asked of the open calls keeps the work right.
LEMMA AnswerKeeps ==
  ASSUME IsGraph(graph), UNCHANGED <<graph, request>>, request \in Requests, TargetsTrue(targets, request),
         NEW open, StackTrue(open, request), NEW p \in Pairs, AskedBy(p, open, request),
         NEW r \in Resolutions, Told(p, r), Answer(p, r, open)
  PROVE  AtWork'
<1>1. PICK q : q = request
  OBVIOUS
<1>2. PICK s : s = calls'
  OBVIOUS
<1>3. PICK t : t = targets'
  OBVIOUS
<1>4. StackTrue(s, q) /\ TargetsTrue(t, q)
  <2>1. CASE open = << >>
    <3>1. t = With(targets, p[2], r) /\ s = << >>
      BY <1>2, <1>3, <2>1 DEF Answer
    <3>2. StackTrue(<< >>, q)
      BY <1>1, <2>1
    <3>3. AskedBy(p, << >>, q)
      BY <1>1, <2>1
    <3> QED
      BY <1>1, <3>1, <3>2, <3>3, TargetAnswered
  <2>2. CASE open # << >>
    <3>1. s = [open EXCEPT ![Len(open)].left = Tail(@), ![Len(open)].answers = @ \cup {r}] /\ t = targets
      BY <1>2, <1>3, <2>2 DEF Answer
    <3> QED
      BY <1>1, <2>2, <3>1, StackAnswered
  <2> QED
    BY <2>1, <2>2
<1>5. StackTrue(s, q)' /\ TargetsTrue(t, q)'
  BY <1>4, TracingFrozen
<1>6. request' = q /\ calls' = s /\ targets' = t
  BY <1>1, <1>2, <1>3
<1> QED
  BY <1>1, <1>5, <1>6 DEF AtWork

\* A cache that gains a right answer stays right.
LEMMA CacheKept ==
  ASSUME UNCHANGED graph, CacheTrue, cache' = cache
  PROVE  CacheTrue'
<1>1. PICK k : k = cache
  OBVIOUS
<1>2. \A p \in DOMAIN k : Told(p, k[p])'
  BY <1>1, TracingFrozen DEF CacheTrue
<1> QED
  BY <1>1, <1>2 DEF CacheTrue, Pairs, Resolutions, Missing, Unknown

\* The cache keeps a resolution that is right.
LEMMA CacheGains ==
  ASSUME UNCHANGED graph, CacheTrue, NEW p \in Pairs, NEW r \in Resolutions, Told(p, r), cache' = With(cache, p, r)
  PROVE  CacheTrue'
<1>1. PICK k : k = cache'
  OBVIOUS
<1>2. /\ DOMAIN k = DOMAIN cache \cup {p} /\ k[p] = r
      /\ \A q \in DOMAIN cache : q # p => k[q] = cache[q]
  BY <1>1 DEF With
<1>3. DOMAIN k \subseteq Pairs /\ \A q \in DOMAIN k : k[q] \in Resolutions /\ Told(q, k[q])
  BY <1>2 DEF CacheTrue
<1>4. \A q \in DOMAIN k : Told(q, k[q])'
  BY <1>3, TracingFrozen
<1> QED
  BY <1>1, <1>3, <1>4 DEF CacheTrue, Pairs, Resolutions, Missing, Unknown

\* The work of a request stays right while nothing of it changes.
LEMMA WorkKept ==
  ASSUME UNCHANGED <<graph, request, targets, calls>>, Idle \/ AtWork
  PROVE  (Idle \/ AtWork)'
<1>1. PICK q : q = request
  OBVIOUS
<1>2. PICK s : s = calls
  OBVIOUS
<1>3. PICK t : t = targets
  OBVIOUS
<1>4. CASE Idle
  BY <1>4 DEF Idle
<1>5. CASE AtWork
  <2>1. StackTrue(s, q)' /\ TargetsTrue(t, q)'
    BY <1>1, <1>2, <1>3, <1>5, TracingFrozen DEF AtWork
  <2> QED
    BY <1>1, <1>2, <1>3, <1>5, <2>1 DEF AtWork
<1> QED
  BY <1>4, <1>5

\* The links stay right while they are the same, or gain those of a request that are.
LEMMA LinksKept ==
  ASSUME UNCHANGED <<graph, links>>, NamesReachTheirDeclarations
  PROVE  NamesReachTheirDeclarations'
<1>1. PICK k : k = links
  OBVIOUS
<1>2. Wellformed => \A r \in DOMAIN k : Reaches(r, k[r])
  BY <1>1 DEF NamesReachTheirDeclarations, Reaches
<1>3. Wellformed' => \A r \in DOMAIN k : Reaches(r, k[r])'
  BY <1>2, TracingFrozen
<1> QED
  BY <1>1, <1>3 DEF NamesReachTheirDeclarations, Reaches

\* The links gain those of a request.
LEMMA LinksGain ==
  ASSUME UNCHANGED graph, NamesReachTheirDeclarations, NEW q, NEW L, Wellformed => Reaches(q, L),
         links' = With(links, q, L)
  PROVE  NamesReachTheirDeclarations'
<1>1. PICK k : k = links'
  OBVIOUS
<1>2. DOMAIN k = DOMAIN links \cup {q} /\ k[q] = L /\ \A r \in DOMAIN links : r # q => k[r] = links[r]
  BY <1>1 DEF With
<1>3. Wellformed => \A r \in DOMAIN links : Reaches(r, links[r])
  BY DEF NamesReachTheirDeclarations, Reaches
<1>4. Wellformed => \A r \in DOMAIN k : Reaches(r, k[r])
  BY <1>2, <1>3
<1>5. Wellformed' => \A r \in DOMAIN k : Reaches(r, k[r])'
  BY <1>4, TracingFrozen
<1> QED
  BY <1>1, <1>5 DEF NamesReachTheirDeclarations, Reaches

\* A request linked to its barrel.
LEMMA BarrelReaches ==
  ASSUME NEW q \in Requests
  PROVE  Reaches(q, ToBarrel(q))
<1> SUFFICES ASSUME NEW n \in q.names
             PROVE  LET of == {l \in ToBarrel(q) : n \in l.names}
                    IN Cardinality(of) = 1 /\ \A l \in of : l.target = q.barrel
  BY DEF Reaches
<1>1. PICK k : k = [target |-> q.barrel, names |-> q.names]
  OBVIOUS
<1>2. {l \in ToBarrel(q) : n \in l.names} = {k} /\ k.target = q.barrel
  BY <1>1 DEF ToBarrel
<1> QED
  BY <1>2, FS_Singleton

\* A request linked to what its names were traced to.
LEMMA DeclarationsReach ==
  ASSUME IsGraph(graph), NEW q \in Requests, NEW t, TargetsTrue(t, q), DOMAIN t = q.names,
         Traceable(q, t), Wellformed
  PROVE  Reaches(q, ToDeclarations(q, t))
<1> SUFFICES ASSUME NEW n \in q.names, Cardinality(Origins(<<q.barrel, n>>)) = 1
             PROVE  LET of == {l \in ToDeclarations(q, t) : n \in l.names}
                    IN /\ Cardinality(of) = 1
                       /\ \A l \in of : /\ Denoted(l.target, n) = Origins(<<q.barrel, n>>)
                                        /\ MayReach(q.importer, l.target)
  BY DEF Reaches
<1>1. PICK k : k = [target |-> t[n].module, names |-> {j \in q.names : t[j].module = t[n].module}]
  OBVIOUS
<1>2. k \in ToDeclarations(q, t) /\ n \in k.names /\ k.target = t[n].module
  BY <1>1 DEF ToDeclarations
<1>3. ASSUME NEW l \in ToDeclarations(q, t), n \in l.names PROVE l = k
  <2>1. PICK m : l = [target |-> m, names |-> {j \in q.names : t[j].module = m}]
    BY DEF ToDeclarations
  <2>2. t[n].module = m
    BY <1>3, <2>1
  <2> QED
    BY <1>1, <2>1, <2>2
<1>4. {l \in ToDeclarations(q, t) : n \in l.names} = {k}
  BY <1>2, <1>3
<1>5. MayReach(q.importer, t[n].module) /\ t[n].kind = "resolved" /\ t[n].exported = n
  BY DEF Traceable
<1>6. Denoted(t[n].module, n) # {} /\ Denoted(t[n].module, n) \subseteq Origins(<<q.barrel, n>>)
  <2>1. Told(<<q.barrel, n>>, t[n])
    BY DEF TargetsTrue
  <2> QED
    BY <1>5, <2>1 DEF Told
<1>7. <<q.barrel, n>> \in Pairs
  BY DEF Requests, Pairs
<1>8. \A x, y \in Origins(<<q.barrel, n>>) : x = y
  BY <1>7, OriginsFinite, OneElement
<1>9. Denoted(t[n].module, n) = Origins(<<q.barrel, n>>)
  <2>1. \A x \in Origins(<<q.barrel, n>>) : x \in Denoted(t[n].module, n)
    BY <1>6, <1>8
  <2> QED
    BY <1>6, <2>1 DEF Denoted
<1> QED
  BY <1>2, <1>4, <1>5, <1>9, FS_Singleton

-----------------------------------------------------------------------------
(* The steps *)

\* At the start nothing is cached, linked or in work.
LEMMA TracingStarts ==
  Init => TracingInv
<1> SUFFICES ASSUME Init PROVE TracingInv
  OBVIOUS
<1>1. IsGraph(graph)
  BY GraphsAssumption DEF Init
<1>2. DOMAIN cache = {} /\ DOMAIN links = {} /\ Idle
  BY DEF Init, TracingInit, Idle
<1> QED
  BY <1>1, <1>2 DEF TracingInv, CacheTrue, NamesReachTheirDeclarations

\* Every step of the tracing keeps the invariant.
LEMMA TracingSteps ==
  ASSUME TracingInv, UNCHANGED graph, TracingNext
  PROVE  TracingInv'
<1>1. /\ IsGraph(graph) /\ CacheTrue /\ (Idle \/ AtWork) /\ NamesReachTheirDeclarations
      /\ graph.requests \subseteq Requests
  BY DEF TracingInv, IsGraph
<1>2. IsGraph(graph)'
  BY <1>1 DEF IsGraph
<1>3. ASSUME NEW r \in graph.requests, KeepBarrel(r) PROVE TracingInv'
  <2>1. CacheTrue'
    BY <1>1, <1>3, CacheKept DEF KeepBarrel
  <2>2. (Idle \/ AtWork)'
    BY <1>1, <1>3, WorkKept DEF KeepBarrel
  <2>3. Reaches(r, ToBarrel(r))
    BY <1>1, BarrelReaches
  <2>4. NamesReachTheirDeclarations'
    BY <1>1, <1>3, <2>3, LinksGain DEF KeepBarrel
  <2> QED
    BY <1>2, <2>1, <2>2, <2>4 DEF TracingInv
<1>4. ASSUME NEW r \in graph.requests, BeginRequest(r) PROVE TracingInv'
  <2>1. CacheTrue' /\ NamesReachTheirDeclarations'
    BY <1>1, <1>4, CacheKept, LinksKept DEF BeginRequest
  <2>2. Idle
    BY <1>1, <1>4, RequestsAreRequests DEF BeginRequest, AtWork
  <2>3. request' = r /\ calls' = << >> /\ targets' = << >>
    BY <1>4, <2>2 DEF BeginRequest, Idle
  <2>4. StackTrue(<< >>, r)' /\ TargetsTrue(<< >>, r)'
    <3>1. << >> \in Seq(Calls) /\ Len(<< >>) = 0 /\ DOMAIN << >> = {}
      BY EmptySeq
    <3>2. StackTrue(<< >>, r) /\ TargetsTrue(<< >>, r)
      BY <3>1 DEF StackTrue, TargetsTrue
    <3> QED
      BY <3>2, TracingFrozen
  <2>5. AtWork'
    BY <1>1, <2>3, <2>4 DEF AtWork
  <2> QED
    BY <1>2, <2>1, <2>5 DEF TracingInv
<1>5. ASSUME NEW p \in Asked, Recall(p) PROVE TracingInv'
  <2>1. AtWork /\ p \in Pairs /\ AskedBy(p, calls, request)
    BY <1>1, AskedOfType
  <2>2. cache[p] \in Resolutions /\ Told(p, cache[p])
    BY <1>1, <1>5 DEF Recall, CacheTrue
  <2>3. AtWork'
    BY <1>1, <1>5, <2>1, <2>2, AnswerKeeps DEF Recall, AtWork
  <2>4. CacheTrue' /\ NamesReachTheirDeclarations'
    BY <1>1, <1>5, CacheKept, LinksKept DEF Recall
  <2> QED
    BY <1>2, <2>3, <2>4 DEF TracingInv
<1>6. ASSUME NEW p \in Asked, Cut(p) PROVE TracingInv'
  <2>1. AtWork /\ p \in Pairs /\ AskedBy(p, calls, request)
    BY <1>1, AskedOfType
  <2>2. PICK i \in 1..Len(calls) : calls[i].pair = p
    BY <1>6, <2>1 DEF Cut, Active, AtWork, StackTrue
  <2>3. Told(p, Missing)
    <3>1. p = <<p[1], p[2]>>
      BY <2>1 DEF Pairs
    <3> QED
      BY <1>1, <2>1, <2>2, <3>1, CutTold DEF AtWork
  <2>4. AtWork'
    BY <1>1, <1>6, <2>1, <2>3, ResolutionKinds, AnswerKeeps DEF Cut, AtWork, Resolutions
  <2>5. CacheTrue' /\ NamesReachTheirDeclarations'
    BY <1>1, <1>6, CacheKept, LinksKept DEF Cut
  <2> QED
    BY <1>2, <2>4, <2>5 DEF TracingInv
<1>7. ASSUME NEW p \in Asked, ResolveHere(p) PROVE TracingInv'
  <2>1. AtWork /\ p \in Pairs /\ AskedBy(p, calls, request)
    BY <1>1, AskedOfType
  <2>2. ImmediateResolution(p) \in Resolutions /\ Told(p, ImmediateResolution(p))
    BY <1>1, <1>7, <2>1, ImmediateTold DEF ResolveHere
  <2>3. AtWork'
    BY <1>1, <1>7, <2>1, <2>2, AnswerKeeps DEF ResolveHere, AtWork
  <2>4. CacheTrue'
    BY <1>1, <1>7, <2>1, <2>2, CacheGains DEF ResolveHere
  <2>5. NamesReachTheirDeclarations'
    BY <1>1, <1>7, LinksKept DEF ResolveHere
  <2> QED
    BY <1>2, <2>3, <2>4, <2>5 DEF TracingInv
<1>8. ASSUME NEW p \in Asked, Descend(p) PROVE TracingInv'
  <2>1. AtWork /\ p \in Pairs /\ AskedBy(p, calls, request)
    BY <1>1, AskedOfType
  <2>2. PICK q : q = request
    OBVIOUS
  <2>3. PICK t : t = targets
    OBVIOUS
  <2>4. PICK s : s = calls'
    OBVIOUS
  <2>5. StackTrue(s, q) /\ TargetsTrue(t, q)
    BY <1>1, <1>8, <2>1, <2>2, <2>3, <2>4, StackDescends DEF Descend, AtWork
  <2>6. StackTrue(s, q)' /\ TargetsTrue(t, q)'
    BY <2>5, TracingFrozen
  <2>7. AtWork'
    BY <1>8, <2>1, <2>2, <2>3, <2>4, <2>6 DEF Descend, AtWork
  <2>8. CacheTrue' /\ NamesReachTheirDeclarations'
    BY <1>1, <1>8, CacheKept, LinksKept DEF Descend
  <2> QED
    BY <1>2, <2>7, <2>8 DEF TracingInv
<1>9. ASSUME Return PROVE TracingInv'
  <2>1. AtWork /\ calls # << >>
    BY <1>1, <1>9 DEF Return, Idle
  <2>2. PICK c : c = Last(calls)
    OBVIOUS
  <2>3. PICK open : open = Front(calls)
    OBVIOUS
  <2>4. c \in Calls /\ CallTrue(c) /\ StackTrue(open, request) /\ AskedBy(c.pair, open, request)
    BY <2>1, <2>2, <2>3, StackReturns DEF AtWork
  <2>5. c.left = << >> /\ cache' = With(cache, c.pair, Resolution(c)) /\ Answer(c.pair, Resolution(c), open)
        /\ UNCHANGED <<links, request>>
    BY <1>9, <2>2, <2>3 DEF Return
  <2>6. Resolution(c) \in Resolutions /\ Told(c.pair, Resolution(c))
    BY <1>1, <2>4, <2>5, ResolutionTold
  <2>7. c.pair \in Pairs
    BY <2>4 DEF Calls
  <2>8. AtWork'
    BY <1>1, <2>1, <2>4, <2>5, <2>6, <2>7, AnswerKeeps DEF AtWork
  <2>9. CacheTrue'
    BY <1>1, <2>5, <2>6, <2>7, CacheGains
  <2>10. NamesReachTheirDeclarations'
    BY <1>1, <2>5, LinksKept
  <2> QED
    BY <1>2, <2>8, <2>9, <2>10 DEF TracingInv
<1>10. ASSUME LinkRequest PROVE TracingInv'
  <2>1. AtWork /\ DOMAIN targets = request.names
    BY <1>1, <1>10 DEF LinkRequest, Idle
  <2>2. Idle'
    BY <1>10 DEF LinkRequest, Idle
  <2>3. CacheTrue'
    BY <1>1, <1>10, CacheKept DEF LinkRequest
  <2>4. PICK L : L = IF Traceable(request, targets) THEN ToDeclarations(request, targets) ELSE ToBarrel(request)
    OBVIOUS
  <2>5. Wellformed => Reaches(request, L)
    BY <1>1, <2>1, <2>4, BarrelReaches, DeclarationsReach DEF AtWork
  <2>6. links' = With(links, request, L)
    BY <1>10, <2>4 DEF LinkRequest
  <2>7. NamesReachTheirDeclarations'
    BY <1>1, <2>5, <2>6, LinksGain
  <2> QED
    BY <1>2, <2>2, <2>3, <2>7 DEF TracingInv
<1> QED
  BY <1>3, <1>4, <1>5, <1>6, <1>7, <1>8, <1>9, <1>10 DEF TracingNext

\* The steps of the inventory, and those that change nothing, are no steps of the tracing.
LEMMA TracingRests ==
  ASSUME TracingInv, UNCHANGED <<graph, tracingVars>>
  PROVE  TracingInv'
<1>1. UNCHANGED <<graph, cache, links, request, targets, calls>>
  BY DEF tracingVars
<1>2. CacheTrue' /\ (Idle \/ AtWork)' /\ NamesReachTheirDeclarations'
  BY <1>1, CacheKept, WorkKept, LinksKept DEF TracingInv
<1>3. IsGraph(graph)'
  BY <1>1 DEF TracingInv, IsGraph
<1> QED
  BY <1>2, <1>3 DEF TracingInv

(***************************************************************************)
(* createCompilerPackageGraphModuleDependencies, for every graph and every *)
(* order of the requests: each open call of                                *)
(* resolveCompilerPackageGraphExportSource follows from the ones around it, *)
(* each answer kept for it or in the cache is sound, and exact without a   *)
(* cycle, and each link made so far is right.                              *)
(***************************************************************************)
THEOREM TracingHolds == Spec => []TracingInv
<1>1. Init => TracingInv
  BY TracingStarts
<1>2. TracingInv /\ [Next]_exportVars => TracingInv'
  <2> SUFFICES ASSUME TracingInv, [Next]_exportVars PROVE TracingInv'
    OBVIOUS
  <2>1. CASE Next
    <3>1. UNCHANGED graph /\ (UNCHANGED tracingVars \/ TracingNext)
      BY <2>1 DEF Next
    <3> QED
      BY <3>1, TracingSteps, TracingRests
  <2>2. CASE UNCHANGED exportVars
    BY <2>2, TracingRests DEF exportVars, tracingVars
  <2> QED
    BY <2>1, <2>2
<1> QED
  BY <1>1, <1>2, PTL DEF Spec

(***************************************************************************)
(* A name imported through a barrel is linked to one module, and if that   *)
(* is not the barrel, the module's binding of the name stands for what the *)
(* language imports and its package is one that the importer's depends on. *)
(***************************************************************************)
THEOREM NamesReach == Spec => []NamesReachTheirDeclarations
<1>1. TracingInv => NamesReachTheirDeclarations
  BY DEF TracingInv
<1> QED
  BY <1>1, TracingHolds, PTL

(***************************************************************************)
(* In a graph without cycles every entry of exportResolutionCache is exact, *)
(* whatever requests were traced before it was made.                       *)
(***************************************************************************)
THEOREM AcyclicExact == Spec => []AcyclicTracesAreExact
<1>1. TracingInv => AcyclicTracesAreExact
  <2> SUFFICES ASSUME TracingInv, Acyclic, Wellformed, NEW p \in DOMAIN cache
               PROVE  CASE cache[p].kind = "resolved" -> Denoted(cache[p].module, cache[p].exported) = Origins(p)
                        [] cache[p].kind = "absent"   -> Origins(p) = {}
                        [] OTHER -> \/ Cardinality(Origins(p)) # 1
                                    \/ \E q \in Follow(p) : Export(q).kind \in {"namespace", "through"}
    BY DEF AcyclicTracesAreExact
  <2>1. p \in Pairs /\ cache[p] \in Resolutions /\ Told(p, cache[p])
    BY DEF TracingInv, CacheTrue
  <2>2. CASE cache[p] = Missing
    BY <2>1, <2>2, ResolutionKinds DEF Told
  <2>3. CASE cache[p] = Unknown
    <3>1. Cardinality(Origins(p)) > 1 \/ Opaque(p)
      BY <2>1, <2>3 DEF Told
    <3>2. Cardinality(Origins(p)) # 1 \/ Opaque(p)
      BY <3>1
    <3> QED
      BY <2>3, <3>2, ResolutionKinds DEF Opaque
  <2>4. CASE cache[p].kind = "resolved"
    BY <2>1, <2>4 DEF Told
  <2> QED
    BY <2>1, <2>2, <2>3, <2>4, ResolutionKinds
<1> QED
  BY <1>1, TracingHolds, PTL

=============================================================================
