----------------------- MODULE ModuleEvaluationProofs -----------------------
(***************************************************************************)
(* Theorems about ModuleEvaluation, for every module graph: the depth-first *)
(* visit finds the strongly connected components of the runtime graph and   *)
(* completes them dependencies first, in the order of the source language   *)
(* where there are no cycles, and what is projected can be evaluated.       *)
(***************************************************************************)
EXTENDS ModuleEvaluation, SequenceTheorems, NaturalsInduction, WellFoundedInduction,
        FiniteSetTheorems, TLAPS

-----------------------------------------------------------------------------
(* Sequences and least places *)

\* What a sequence contains, by its places.
LEMMA ElementsOf ==
  ASSUME NEW S, NEW s \in Seq(S)
  PROVE  /\ ToSet(s) \subseteq S
         /\ \A e : e \in ToSet(s) <=> \E i \in 1..Len(s) : s[i] = e
         /\ \A e : Contains(s, e) <=> e \in ToSet(s)
BY DEF ToSet, Contains

\* What appending an element does to a sequence and to its elements.
LEMMA ElementsOfAppend ==
  ASSUME NEW S, NEW s \in Seq(S), NEW e \in S
  PROVE  /\ Append(s, e) \in Seq(S)
         /\ Len(Append(s, e)) = Len(s) + 1
         /\ \A i \in 1..Len(s) : Append(s, e)[i] = s[i]
         /\ Append(s, e)[Len(s) + 1] = e
         /\ ToSet(Append(s, e)) = ToSet(s) \cup {e}
<1>1. /\ Append(s, e) \in Seq(S)
      /\ Len(Append(s, e)) = Len(s) + 1
      /\ \A i \in 1..Len(s) : Append(s, e)[i] = s[i]
      /\ Append(s, e)[Len(s) + 1] = e
  OBVIOUS
<1>2. \A i \in 1..Len(s) + 1 : i \in 1..Len(s) \/ i = Len(s) + 1
  OBVIOUS
<1>3. 1..Len(s) \subseteq 1..Len(s) + 1 /\ Len(s) + 1 \in 1..Len(s) + 1
  OBVIOUS
<1>5. \A x : x \in ToSet(s) <=> \E i \in 1..Len(s) : s[i] = x
  BY ElementsOf
<1>7. \A i \in 1..Len(s) + 1 : Append(s, e)[i] \in ToSet(s) \cup {e}
  <2> TAKE i \in 1..Len(s) + 1
  <2>1. CASE i \in 1..Len(s)
    BY <1>1, <1>5, <2>1
  <2>2. CASE i = Len(s) + 1
    BY <1>1, <2>2
  <2> QED
    BY <1>2, <2>1, <2>2
<1>4. \A x : x \in ToSet(Append(s, e)) <=> \E i \in 1..Len(s) + 1 : Append(s, e)[i] = x
  BY <1>1 DEF ToSet
<1>8. \A x \in ToSet(s) : x \in ToSet(Append(s, e))
  BY <1>1, <1>3, <1>4, <1>5
<1>6. \A x : x \in ToSet(Append(s, e)) <=> x \in ToSet(s) \cup {e}
  BY <1>1, <1>3, <1>4, <1>7, <1>8
<1> QED
  BY <1>1, <1>6

\* A prefix keeps its length and its elements.
LEMMA Prefix ==
  ASSUME NEW S, NEW s \in Seq(S), NEW k \in 0..Len(s)
  PROVE  /\ SubSeq(s, 1, k) \in Seq(S)
         /\ Len(SubSeq(s, 1, k)) = k
         /\ \A i \in 1..k : SubSeq(s, 1, k)[i] = s[i]
OBVIOUS

\* A set of naturals that is not empty has its minimum.
LEMMA Least ==
  ASSUME NEW S \in SUBSET Nat, S # {}
  PROVE  Min(S) \in S /\ \A y \in S : Min(S) <= y
<1> DEFINE Less == OpToRel(<, Nat)
<1>1. \A x, y \in Nat : y < x => <<y, x>> \in Less
  <2> TAKE x, y \in Nat
  <2> HAVE y < x
  <2>1. <<y, x>> \in Nat \X Nat /\ <<y, x>>[1] < <<y, x>>[2]
    OBVIOUS
  <2> QED
    BY <2>1, Zenon DEF OpToRel
<1>2. \E x \in S : \A y \in S : <<y, x>> \notin Less
  BY NatLessThanWellFounded, WFMin
<1> HIDE DEF Less
<1>3. PICK x \in S : \A y \in S : <<y, x>> \notin Less
  BY <1>2
<1>4. \A y \in S : x <= y
  <2> TAKE y \in S
  <2>1. x \in Nat /\ y \in Nat /\ ~(y < x)
    BY <1>1, <1>3
  <2> QED
    BY <2>1
<1> QED
  BY <1>4 DEF Min

\* The next runtime request from a place on, or the place behind the last request.
LEMMA Places ==
  ASSUME requests \in [Modules -> Seq(Request)], NEW m \in Modules,
         NEW k \in 1..Len(requests[m]) + 1
  PROVE  /\ PlaceFrom(m, k) \in k..Len(requests[m]) + 1
         /\ PlaceFrom(m, k) <= Len(requests[m]) => PlaceFrom(m, k) \in RuntimePlaces(m)
         /\ \A p \in RuntimePlaces(m) : p >= k => PlaceFrom(m, k) <= p
<1> DEFINE S == {l \in RuntimePlaces(m) : l >= k} \cup {Len(requests[m]) + 1}
<1>1. Len(requests[m]) \in Nat /\ RuntimePlaces(m) \subseteq 1..Len(requests[m])
  BY DEF RuntimePlaces
<1>2. S \in SUBSET Nat /\ Len(requests[m]) + 1 \in S
  BY <1>1
<1>3. /\ \A l \in S : l >= k /\ l <= Len(requests[m]) + 1
      /\ \A l \in S : l <= Len(requests[m]) => l \in RuntimePlaces(m)
      /\ \A p \in RuntimePlaces(m) : p >= k => p \in S
  BY <1>1
<1>4. PlaceFrom(m, k) = Min(S)
  BY DEF PlaceFrom
<1> HIDE DEF S
<1>5. Min(S) \in S /\ \A y \in S : Min(S) <= y
  BY <1>2, Least
<1>6. Min(S) \in Nat /\ k \in Nat
  <2>1. Min(S) \in Nat
    BY <1>2, <1>5
  <2>2. k \in Nat
    BY <1>1
  <2> QED
    BY <2>1, <2>2
<1>7. PlaceFrom(m, k) \in k..Len(requests[m]) + 1
  BY <1>1, <1>3, <1>4, <1>5, <1>6
<1>8. PlaceFrom(m, k) <= Len(requests[m]) => PlaceFrom(m, k) \in RuntimePlaces(m)
  BY <1>3, <1>4, <1>5
<1>9. \A p \in RuntimePlaces(m) : p >= k => PlaceFrom(m, k) <= p
  BY <1>3, <1>4, <1>5
<1> QED
  BY <1>7, <1>8, <1>9, Zenon

-----------------------------------------------------------------------------
(* The order of the visit: what the stack, the open calls and the groups say *)
(* of each other                                                             *)

Caller(k) == frames[k].module
Callers == {Caller(k) : k \in 1..Len(frames)}

TraversalTypes ==
  /\ requests \in [Modules -> Seq(Request)]
  /\ entries \in Seq(Modules)
  /\ position \in Nat \ {0}
  /\ visited \in Seq(Modules)
  /\ lowLinks \in [Modules -> Nat]
  /\ stack \in Seq(Modules)
  /\ frames \in Seq([module : Modules, next : Nat])
  /\ groups \in GroupList

\* The indices of the modules.
Order == [m \in Modules |-> Index(m)]

VisitedOnce == \A i, j \in 1..Len(visited) : visited[i] = visited[j] => i = j

\* The component stack and the open calls are in the order of the visits.
StackInOrder ==
  /\ ToSet(stack) \subseteq ToSet(visited)
  /\ \A i, j \in 1..Len(stack) : i < j => Order[stack[i]] < Order[stack[j]]
CallersInOrder ==
  /\ Callers \subseteq ToSet(stack)
  /\ \A i, j \in 1..Len(frames) : i < j => Order[Caller(i)] < Order[Caller(j)]

\* A visited module waits on the stack or is in a group.
StackOrGroups ==
  /\ ToSet(visited) = ToSet(stack) \cup Scheduled(groups)
  /\ ToSet(stack) \cap Scheduled(groups) = {}

LowLinksInRange == \A m \in ToSet(visited) : lowLinks[m] \in 1..Order[m]

\* Each call is at one of its runtime requests or past them, and a call that has
\* made another is at the request it made it for.
CallsFollowRequests ==
  /\ \A k \in 1..Len(frames) :
       /\ frames[k].next \in 1..Len(requests[Caller(k)]) + 1
       /\ frames[k].next <= Len(requests[Caller(k)]) => frames[k].next \in RuntimePlaces(Caller(k))
  /\ \A k \in 1..Len(frames) - 1 :
       /\ frames[k].next <= Len(requests[Caller(k)])
       /\ requests[Caller(k)][frames[k].next].target = Caller(k + 1)

Structure ==
  /\ TraversalTypes
  /\ VisitedOnce
  /\ StackInOrder
  /\ CallersInOrder
  /\ StackOrGroups
  /\ LowLinksInRange
  /\ CallsFollowRequests

\* Each visited module has one index, and stands there.
LEMMA Positions ==
  ASSUME visited \in Seq(Modules), VisitedOnce
  PROVE  /\ \A i \in 1..Len(visited) : Order[visited[i]] = i
         /\ \A m \in ToSet(visited) : Order[m] \in 1..Len(visited) /\ visited[Order[m]] = m
<1>1. \A i \in 1..Len(visited) : Order[visited[i]] = i
  BY DEF VisitedOnce, Order, Index
<1>2. \A m \in ToSet(visited) : \E i \in 1..Len(visited) : visited[i] = m
  BY ElementsOf
<1> QED
  BY <1>1, <1>2

\* What follows from the structure for the call that runs.
LEMMA RunningCall ==
  ASSUME Structure, frames # <<>>
  PROVE  /\ Len(frames) \in Nat \ {0}
         /\ Last(frames) = frames[Len(frames)]
         /\ Current = Caller(Len(frames))
         /\ Current \in Modules /\ Current \in Callers /\ Current \in ToSet(stack) /\ Current \in ToSet(visited)
         /\ requests[Current] \in Seq(Request)
         /\ \A m \in Callers : Order[m] <= Order[Current]
         /\ \A k \in 1..Len(frames) - 1 : Order[Caller(k)] < Order[Current]
<1> USE DEF Structure
<1>1. frames \in Seq([module : Modules, next : Nat])
  BY DEF TraversalTypes
<1>2. Len(frames) \in Nat \ {0} /\ Len(frames) \in 1..Len(frames)
  BY <1>1
<1>3. Last(frames) = frames[Len(frames)] /\ Current = Caller(Len(frames)) /\ Current \in Callers
  BY <1>2 DEF Last, Current, Caller, Callers
<1>4. Current \in ToSet(stack) /\ Current \in ToSet(visited) /\ Current \in Modules
  <2>1. Current \in ToSet(stack) /\ Current \in ToSet(visited)
    BY <1>3 DEF CallersInOrder, StackInOrder
  <2>2. ToSet(visited) \subseteq Modules
    BY ElementsOf DEF TraversalTypes
  <2> QED
    BY <2>1, <2>2
<1>5. requests[Current] \in Seq(Request)
  BY <1>4 DEF TraversalTypes
<1>6. \A k \in 1..Len(frames) - 1 : Order[Caller(k)] < Order[Current]
  <2> TAKE k \in 1..Len(frames) - 1
  <2>1. k \in 1..Len(frames) /\ k < Len(frames)
    BY <1>2
  <2> QED
    BY <1>2, <1>3, <2>1 DEF CallersInOrder
<1>7. \A m \in ToSet(visited) : Order[m] \in Nat
  BY Positions DEF TraversalTypes
<1>8. \A m \in Callers : Order[m] <= Order[Current]
  <2> TAKE m \in Callers
  <2>1. PICK k \in 1..Len(frames) : m = Caller(k)
    BY DEF Callers
  <2>2. k \in 1..Len(frames) - 1 \/ k = Len(frames)
    BY <1>2
  <2>3. Order[m] \in Nat
    BY <1>7 DEF CallersInOrder, StackInOrder
  <2>4. Order[Current] \in Nat
    BY <1>4, <1>7
  <2>5. CASE k = Len(frames)
    BY <1>3, <2>1, <2>4, <2>5
  <2>6. CASE k \in 1..Len(frames) - 1
    BY <1>6, <2>1, <2>3, <2>4, <2>6
  <2> QED
    BY <2>2, <2>5, <2>6
<1> QED
  BY <1>2, <1>3, <1>4, <1>5, <1>6, <1>8

\* What entering a visit changes.
LEMMA OpenEffects ==
  ASSUME Structure, NEW x \in Modules, x \notin ToSet(visited), Open(x)
  PROVE  /\ visited' \in Seq(Modules) /\ VisitedOnce'
         /\ ToSet(visited)' = ToSet(visited) \cup {x}
         /\ \A m \in ToSet(visited) : Order'[m] = Order[m] /\ Order[m] < Len(visited) + 1
         /\ Order'[x] = Len(visited) + 1
         /\ stack' \in Seq(Modules) /\ Len(stack') = Len(stack) + 1
         /\ \A i \in 1..Len(stack) : stack'[i] = stack[i]
         /\ stack'[Len(stack) + 1] = x
         /\ ToSet(stack)' = ToSet(stack) \cup {x}
         /\ frames' \in Seq([module : Modules, next : Nat]) /\ Len(frames') = Len(frames) + 1
         /\ \A k \in 1..Len(frames) : frames'[k] = frames[k]
         /\ frames'[Len(frames) + 1] = [module |-> x, next |-> PlaceFrom(x, 1)]
         /\ lowLinks' \in [Modules -> Nat]
         /\ \A m \in Modules \ {x} : lowLinks'[m] = lowLinks[m]
         /\ lowLinks'[x] = Len(visited) + 1
<1> USE DEF Structure
<1>1. /\ visited \in Seq(Modules) /\ stack \in Seq(Modules) /\ lowLinks \in [Modules -> Nat]
      /\ frames \in Seq([module : Modules, next : Nat])
      /\ requests \in [Modules -> Seq(Request)]
  BY DEF TraversalTypes
<1>2. PlaceFrom(x, 1) \in Nat
  <2>1. Len(requests[x]) \in Nat
    BY <1>1
  <2> QED
    BY <1>1, <2>1, Places
<1>3. /\ visited' = Append(visited, x) /\ stack' = Append(stack, x)
      /\ frames' = Append(frames, [module |-> x, next |-> PlaceFrom(x, 1)])
      /\ lowLinks' = [lowLinks EXCEPT ![x] = Len(visited) + 1]
  BY DEF Open
<1>4. /\ visited' \in Seq(Modules) /\ Len(visited') = Len(visited) + 1
      /\ \A i \in 1..Len(visited) : visited'[i] = visited[i]
      /\ visited'[Len(visited) + 1] = x
      /\ ToSet(visited)' = ToSet(visited) \cup {x}
  BY <1>1, <1>3, ElementsOfAppend
<1>5. \A i \in 1..Len(visited) : visited[i] # x
  BY <1>1, ElementsOf
<1>6. Len(visited) \in Nat
  BY <1>1
<1>7. VisitedOnce'
  <2> SUFFICES ASSUME NEW i \in 1..Len(visited'), NEW j \in 1..Len(visited'), visited'[i] = visited'[j]
               PROVE  i = j
    BY DEF VisitedOnce
  <2>1. /\ i \in 1..Len(visited) \/ i = Len(visited) + 1
        /\ j \in 1..Len(visited) \/ j = Len(visited) + 1
    BY <1>4, <1>6
  <2> QED
    BY <1>4, <1>5, <2>1 DEF VisitedOnce
<1>9. \A m \in ToSet(visited) : Order'[m] = Order[m] /\ Order[m] < Len(visited) + 1
  <2> TAKE m \in ToSet(visited)
  <2>1. Order[m] \in 1..Len(visited) /\ visited[Order[m]] = m
    BY Positions, <1>1
  <2>2. Order[m] \in 1..Len(visited') /\ visited'[Order[m]] = m
    BY <1>4, <1>6, <2>1
  <2>3. (CHOOSE k \in 1..Len(visited') : visited'[k] = m) = Order[m]
    BY <1>7, <2>2 DEF VisitedOnce
  <2>4. m \in Modules
    BY <1>1, ElementsOf
  <2>5. Order'[m] = Order[m]
    BY <2>3, <2>4 DEF Order, Index
  <2> QED
    BY <1>6, <2>1, <2>5
<1>10. Order'[x] = Len(visited) + 1
  <2>1. Len(visited) + 1 \in 1..Len(visited')
    BY <1>4, <1>6
  <2>2. (CHOOSE k \in 1..Len(visited') : visited'[k] = x) = Len(visited) + 1
    BY <1>4, <1>7, <2>1 DEF VisitedOnce
  <2> QED
    BY <2>2 DEF Order, Index
<1>11. /\ stack' \in Seq(Modules) /\ Len(stack') = Len(stack) + 1
       /\ \A i \in 1..Len(stack) : stack'[i] = stack[i]
       /\ stack'[Len(stack) + 1] = x
       /\ ToSet(stack)' = ToSet(stack) \cup {x}
  BY <1>1, <1>3, ElementsOfAppend
<1>12. /\ frames' \in Seq([module : Modules, next : Nat]) /\ Len(frames') = Len(frames) + 1
       /\ \A k \in 1..Len(frames) : frames'[k] = frames[k]
       /\ frames'[Len(frames) + 1] = [module |-> x, next |-> PlaceFrom(x, 1)]
  <2>1. [module |-> x, next |-> PlaceFrom(x, 1)] \in [module : Modules, next : Nat]
    BY <1>2
  <2> QED
    BY <1>1, <1>3, <2>1, ElementsOfAppend
<1>13. /\ lowLinks' \in [Modules -> Nat]
       /\ \A m \in Modules \ {x} : lowLinks'[m] = lowLinks[m]
       /\ lowLinks'[x] = Len(visited) + 1
  BY <1>1, <1>3, <1>6
<1> QED
  BY <1>4, <1>7, <1>9, <1>10, <1>11, <1>12, <1>13

\* Entering a visit keeps the structure.
LEMMA OpenKeepsStructure ==
  ASSUME Structure, NEW x \in Modules, x \notin ToSet(visited), Open(x),
         UNCHANGED <<requests, entries, groups>>, position' \in Nat \ {0},
         frames = <<>> \/ (AtRequest /\ x = Dependency)
  PROVE  Structure'
<1> USE DEF Structure
<1>1. TraversalTypes'
  BY OpenEffects DEF TraversalTypes
<1>2. VisitedOnce'
  BY OpenEffects
<1>3. /\ ToSet(visited)' = ToSet(visited) \cup {x}
      /\ ToSet(stack)' = ToSet(stack) \cup {x}
      /\ \A m \in ToSet(visited) : Order'[m] = Order[m] /\ Order[m] < Len(visited) + 1
      /\ Order'[x] = Len(visited) + 1
  BY OpenEffects
<1>4. \A m \in ToSet(visited) : Order[m] \in Nat
  BY Positions DEF TraversalTypes
<1>5. Len(stack) \in Nat /\ Len(frames) \in Nat /\ Len(visited) \in Nat
  BY DEF TraversalTypes
<1>6. StackInOrder'
  <2>0. \A k \in 1..Len(stack) : stack[k] \in ToSet(visited)
    BY ElementsOf DEF StackInOrder, TraversalTypes
  <2>1. ToSet(stack)' \subseteq ToSet(visited)'
    BY <1>3 DEF StackInOrder
  <2>2. ASSUME NEW i \in 1..Len(stack'), NEW j \in 1..Len(stack'), i < j
        PROVE  Order'[stack'[i]] < Order'[stack'[j]]
    <3>1. Len(stack') = Len(stack) + 1 /\ stack'[Len(stack) + 1] = x
          /\ \A k \in 1..Len(stack) : stack'[k] = stack[k]
      BY OpenEffects
    <3>2. i \in 1..Len(stack) /\ (j \in 1..Len(stack) \/ j = Len(stack) + 1)
      BY <1>5, <2>2, <3>1
    <3>3. stack'[i] = stack[i] /\ stack[i] \in ToSet(visited)
      BY <2>0, <3>1, <3>2
    <3>4. CASE j \in 1..Len(stack)
      <4>1. stack'[j] = stack[j] /\ stack[j] \in ToSet(visited)
        BY <2>0, <3>1, <3>4
      <4>2. Order[stack[i]] < Order[stack[j]]
        BY <2>2, <3>2, <3>4 DEF StackInOrder
      <4>3. Order'[stack[i]] = Order[stack[i]] /\ Order'[stack[j]] = Order[stack[j]]
        BY <1>3, <3>3, <4>1
      <4> QED
        BY <3>3, <4>1, <4>2, <4>3
    <3>5. CASE j = Len(stack) + 1
      BY <1>3, <3>1, <3>3, <3>5
    <3> QED
      BY <3>2, <3>4, <3>5
  <2> QED
    BY <2>1, <2>2 DEF StackInOrder
<1>7. /\ \A k \in 1..Len(frames) : Caller(k)' = Caller(k) /\ frames'[k] = frames[k]
      /\ \A k : k = Len(frames) + 1 => Caller(k)' = x /\ frames'[k].next = PlaceFrom(x, 1)
      /\ Len(frames') = Len(frames) + 1
      /\ \A k \in 1..Len(frames') : k \in 1..Len(frames) \/ k = Len(frames) + 1
  <2>1. /\ \A k \in 1..Len(frames) : frames'[k] = frames[k]
        /\ frames'[Len(frames) + 1] = [module |-> x, next |-> PlaceFrom(x, 1)]
        /\ Len(frames') = Len(frames) + 1
    BY OpenEffects
  <2>2. \A k \in 1..Len(frames') : k \in 1..Len(frames) \/ k = Len(frames) + 1
    BY <1>5, <2>1
  <2> QED
    BY <2>1, <2>2 DEF Caller
<1>8. \A k \in 1..Len(frames) : Caller(k) \in ToSet(stack) /\ Caller(k) \in ToSet(visited) /\ Caller(k) \in Modules
  <2>1. ToSet(visited) \subseteq Modules
    BY ElementsOf DEF TraversalTypes
  <2> QED
    BY <2>1 DEF Callers, CallersInOrder, StackInOrder
<1>9. CallersInOrder'
  <2>1. Callers' \subseteq ToSet(stack)'
    BY <1>3, <1>7, <1>8 DEF Callers
  <2>2. ASSUME NEW i \in 1..Len(frames'), NEW j \in 1..Len(frames'), i < j
        PROVE  Order'[Caller(i)'] < Order'[Caller(j)']
    <3>1. i \in 1..Len(frames)
      BY <1>5, <1>7, <2>2
    <3>2. CASE j \in 1..Len(frames)
      BY <1>3, <1>7, <1>8, <2>2, <3>1, <3>2 DEF CallersInOrder
    <3>3. CASE j = Len(frames) + 1
      BY <1>3, <1>7, <1>8, <3>1, <3>3
    <3> QED
      BY <1>7, <3>2, <3>3
  <2> QED
    BY <2>1, <2>2 DEF CallersInOrder
<1>10. StackOrGroups'
  <2>1. Scheduled(groups)' = Scheduled(groups)
    BY DEF Scheduled, Members
  <2> QED
    BY <1>3, <2>1 DEF StackOrGroups
<1>11. LowLinksInRange'
  <2> SUFFICES ASSUME NEW m \in ToSet(visited)' PROVE lowLinks'[m] \in 1..Order'[m]
    BY DEF LowLinksInRange
  <2>1. CASE m = x
    <3>1. lowLinks'[x] = Len(visited) + 1
      BY OpenEffects
    <3> QED
      BY <1>3, <1>5, <2>1, <3>1
  <2>2. CASE m \in ToSet(visited)
    <3>1. m \in Modules \ {x}
      BY <2>2, ElementsOf DEF TraversalTypes
    <3> QED
      BY <1>3, <2>2, <3>1, OpenEffects DEF LowLinksInRange
  <2> QED
    BY <1>3, <2>1, <2>2
<1>12. CallsFollowRequests'
  <2>1. /\ PlaceFrom(x, 1) \in 1..Len(requests[x]) + 1
        /\ PlaceFrom(x, 1) <= Len(requests[x]) => PlaceFrom(x, 1) \in RuntimePlaces(x)
    <3>1. requests \in [Modules -> Seq(Request)] /\ 1 \in 1..Len(requests[x]) + 1
      BY DEF TraversalTypes
    <3> QED
      BY <3>1, Places
  <2>2. \A m : RuntimePlaces(m)' = RuntimePlaces(m)
    BY DEF RuntimePlaces
  <2>3. ASSUME NEW k \in 1..Len(frames')
        PROVE  /\ frames'[k].next \in 1..Len(requests'[Caller(k)']) + 1
               /\ frames'[k].next <= Len(requests'[Caller(k)'])
                    => frames'[k].next \in RuntimePlaces(Caller(k))'
    <3>1. CASE k \in 1..Len(frames)
      <4>1. RuntimePlaces(Caller(k))' = RuntimePlaces(Caller(k))
        BY <1>7, <3>1 DEF RuntimePlaces
      <4> QED
        BY <1>7, <3>1, <4>1 DEF CallsFollowRequests
    <3>2. CASE k = Len(frames) + 1
      <4>1. RuntimePlaces(Caller(k))' = RuntimePlaces(x)
        BY <1>7, <3>2 DEF RuntimePlaces
      <4> QED
        BY <1>7, <2>1, <3>2, <4>1
    <3> QED
      BY <1>7, <3>1, <3>2
  <2>4. ASSUME NEW k \in 1..Len(frames') - 1
        PROVE  /\ frames'[k].next <= Len(requests'[Caller(k)'])
               /\ requests'[Caller(k)'][frames'[k].next].target = Caller(k + 1)'
    <3>1. k \in 1..Len(frames) /\ (k + 1 \in 1..Len(frames) \/ k = Len(frames))
      BY <1>5, <1>7
    <3>2. CASE k + 1 \in 1..Len(frames)
      <4>1. k \in 1..Len(frames) - 1
        BY <1>5, <3>1, <3>2
      <4> QED
        BY <1>7, <3>1, <3>2, <4>1 DEF CallsFollowRequests
    <3>3. CASE k = Len(frames)
      <4>1. frames # <<>>
        BY <3>1, <3>3
      <4>2. AtRequest /\ x = Dependency
        BY <4>1
      <4>3. Current = Caller(k) /\ Last(frames) = frames[k]
        BY <3>3, <4>1, RunningCall
      <4> QED
        BY <1>7, <3>1, <3>3, <4>2, <4>3 DEF AtRequest, Dependency
    <3> QED
      BY <3>1, <3>2, <3>3
  <2> QED
    BY <2>3, <2>4 DEF CallsFollowRequests
<1> QED
  BY <1>1, <1>2, <1>6, <1>9, <1>10, <1>11, <1>12

\* What advancing a call to its next request changes: the call that runs, or
\* the one it returns to.
LEMMA AdvanceEffects ==
  ASSUME Structure, frames # <<>>, NEW n \in {Len(frames), Len(frames) - 1},
         n = Len(frames) => AtRequest,
         frames' = Advanced(SubSeq(frames, 1, n))
  PROVE  /\ n \in Nat
         /\ frames' \in Seq([module : Modules, next : Nat])
         /\ Len(frames') = n
         /\ \A k \in 1..n : frames'[k].module = frames[k].module
         /\ \A k \in 1..n - 1 : frames'[k] = frames[k]
         /\ n > 0 => /\ frames[n].next \in RuntimePlaces(Caller(n))
                     /\ frames'[n].next = PlaceFrom(Caller(n), frames[n].next + 1)
<1> USE DEF Structure
<1> DEFINE calls == SubSeq(frames, 1, n)
<1>1. frames \in Seq([module : Modules, next : Nat]) /\ requests \in [Modules -> Seq(Request)]
  BY DEF TraversalTypes
<1>2. n \in 0..Len(frames) /\ n \in Nat
  BY <1>1, RunningCall
<1>3. /\ calls \in Seq([module : Modules, next : Nat]) /\ Len(calls) = n
      /\ \A k \in 1..n : calls[k] = frames[k]
  BY <1>1, <1>2, Prefix
<1>4. CASE n = 0
  <2>1. calls = <<>>
    BY <1>3, <1>4
  <2>2. frames' = <<>>
    BY <2>1 DEF Advanced
  <2>3. frames' \in Seq([module : Modules, next : Nat]) /\ Len(frames') = 0
    BY <2>2, EmptySeq
  <2>4. 1..n = {} /\ 1..n - 1 = {} /\ ~(n > 0)
    BY <1>4
  <2> QED
    BY <1>2, <1>4, <2>3, <2>4
<1>5. CASE n > 0
  <2>1. n \in 1..n /\ n \in 1..Len(frames) /\ calls # <<>>
    BY <1>2, <1>3, <1>5
  <2>2. frames[n] \in [module : Modules, next : Nat]
    BY <1>1, <2>1, ElementOfSeq
  <2>14. Caller(n) \in Modules /\ frames[n].next \in Nat
    BY <2>2 DEF Caller
  <2>3. frames[n].next <= Len(requests[Caller(n)])
    <3>1. CASE n = Len(frames)
      BY <3>1, RunningCall DEF AtRequest
    <3>2. CASE n = Len(frames) - 1
      BY <2>1, <3>2 DEF CallsFollowRequests
    <3> QED
      BY <3>1, <3>2
  <2>4. frames[n].next \in RuntimePlaces(Caller(n)) /\ frames[n].next \in 1..Len(requests[Caller(n)])
    BY <2>1, <2>3 DEF CallsFollowRequests, RuntimePlaces
  <2>5. Last(calls) = frames[n] /\ calls[Len(calls)] = frames[n]
    BY <1>3, <2>1 DEF Last
  <2>6. PlaceFrom(Caller(n), frames[n].next + 1) \in Nat
    <3>1. Len(requests[Caller(n)]) \in Nat
      BY <1>1, <2>14
    <3>2. frames[n].next + 1 \in 1..Len(requests[Caller(n)]) + 1
      BY <2>4, <3>1
    <3> QED
      BY <1>1, <2>14, <3>1, <3>2, Places
  <2>7. frames' = [calls EXCEPT ![n].next = PlaceFrom(Caller(n), frames[n].next + 1)]
    BY <1>3, <2>1, <2>5 DEF Advanced, Caller
  <2> HIDE DEF calls
  <2>8. frames' = [calls EXCEPT ![n] = [frames[n] EXCEPT !.next = PlaceFrom(Caller(n), frames[n].next + 1)]]
    BY <1>3, <2>1, <2>7
  <2>9. [frames[n] EXCEPT !.next = PlaceFrom(Caller(n), frames[n].next + 1)] \in [module : Modules, next : Nat]
    BY <2>2, <2>6
  <2>10. /\ frames' \in Seq([module : Modules, next : Nat]) /\ Len(frames') = n
         /\ \A k \in 1..n : k # n => frames'[k] = frames[k]
         /\ frames'[n] = [frames[n] EXCEPT !.next = PlaceFrom(Caller(n), frames[n].next + 1)]
    <3>1. calls \in Seq([module : Modules, next : Nat]) /\ Len(calls) = n /\ n \in 1..Len(calls)
      BY <1>3, <2>1
    <3> DEFINE frame == [frames[n] EXCEPT !.next = PlaceFrom(Caller(n), frames[n].next + 1)]
    <3>2. frame \in [module : Modules, next : Nat] /\ frames' = [calls EXCEPT ![n] = frame]
      BY <2>8, <2>9
    <3> HIDE DEF frame
    <3>3. /\ frames' \in Seq([module : Modules, next : Nat]) /\ Len(frames') = n
          /\ \A k \in 1..n : frames'[k] = IF k = n THEN frame ELSE calls[k]
      <4>1. frame \in [module : Modules, next : Nat]
        BY <3>2
      <4>2. /\ [calls EXCEPT ![n] = frame] \in Seq([module : Modules, next : Nat])
            /\ Len([calls EXCEPT ![n] = frame]) = Len(calls)
            /\ \A k \in 1..Len(calls) : [calls EXCEPT ![n] = frame][k] = IF k = n THEN frame ELSE calls[k]
        BY <3>1, <4>1, ExceptSeq
      <4> QED
        BY <3>1, <3>2, <4>2
    <3>4. frames'[n] = frame /\ \A k \in 1..n : k # n => frames'[k] = frames[k]
      BY <1>3, <2>1, <3>3
    <3> QED
      BY <3>3, <3>4 DEF frame
  <2>11. frames'[n].module = frames[n].module /\ frames'[n].next = PlaceFrom(Caller(n), frames[n].next + 1)
    BY <2>2, <2>10
  <2>12. \A k \in 1..n - 1 : k \in 1..n /\ k # n
    BY <1>2
  <2> QED
    BY <1>2, <2>4, <2>10, <2>11, <2>12
<1> QED
  BY <1>2, <1>4, <1>5

\* A step that visits nothing keeps the calls in order.
LEMMA AdvanceKeepsCalls ==
  ASSUME Structure, frames # <<>>, NEW n \in {Len(frames), Len(frames) - 1},
         n = Len(frames) => AtRequest,
         frames' = Advanced(SubSeq(frames, 1, n)),
         UNCHANGED <<requests, visited>>,
         \A k \in 1..n : Caller(k) \in ToSet(stack)'
  PROVE  CallersInOrder' /\ CallsFollowRequests'
<1> USE DEF Structure
<1>1. n \in Nat /\ Len(frames') = n /\ Len(frames) \in Nat /\ n <= Len(frames)
  BY AdvanceEffects, RunningCall
<1>2. \A k \in 1..n : k \in 1..Len(frames) /\ Caller(k)' = Caller(k)
  <2> TAKE k \in 1..n
  <2>1. frames'[k].module = frames[k].module
    BY AdvanceEffects
  <2> QED
    BY <1>1, <2>1 DEF Caller
<1>3. Order' = Order
  BY DEF Order, Index
<1>4. CallersInOrder'
  BY <1>1, <1>2, <1>3 DEF CallersInOrder, Callers
<1>5. ASSUME NEW k \in 1..n
      PROVE  /\ frames'[k].next \in 1..Len(requests[Caller(k)]) + 1
             /\ frames'[k].next <= Len(requests[Caller(k)]) => frames'[k].next \in RuntimePlaces(Caller(k))
  <2>1. CASE k \in 1..n - 1
    BY <1>2, <2>1, AdvanceEffects DEF CallsFollowRequests
  <2>2. CASE k = n
    <3>1. frames[n].next \in RuntimePlaces(Caller(n)) /\ frames'[n].next = PlaceFrom(Caller(n), frames[n].next + 1)
      BY <1>1, <2>2, AdvanceEffects
    <3>2. requests \in [Modules -> Seq(Request)] /\ Caller(n) \in Modules
      <4>1. n \in 1..Len(frames)
        BY <1>2, <2>2
      <4>2. frames[n] \in [module : Modules, next : Nat]
        BY <4>1, ElementOfSeq DEF TraversalTypes
      <4> QED
        BY <4>2 DEF TraversalTypes, Caller
    <3>3. Len(requests[Caller(n)]) \in Nat /\ frames[n].next \in 1..Len(requests[Caller(n)])
      BY <3>1, <3>2 DEF RuntimePlaces
    <3>4. frames[n].next + 1 \in 1..Len(requests[Caller(n)]) + 1
      BY <3>3
    <3>5. /\ PlaceFrom(Caller(n), frames[n].next + 1) \in frames[n].next + 1..Len(requests[Caller(n)]) + 1
          /\ PlaceFrom(Caller(n), frames[n].next + 1) <= Len(requests[Caller(n)])
               => PlaceFrom(Caller(n), frames[n].next + 1) \in RuntimePlaces(Caller(n))
      BY <3>2, <3>4, Places
    <3> QED
      BY <2>2, <3>1, <3>3, <3>5
  <2> QED
    BY <1>1, <2>1, <2>2
<1>6. ASSUME NEW k \in 1..n - 1
      PROVE  /\ frames'[k].next <= Len(requests[Caller(k)])
             /\ requests[Caller(k)][frames'[k].next].target = Caller(k + 1)
  <2>1. k \in 1..Len(frames) - 1 /\ frames'[k] = frames[k]
    BY <1>1, AdvanceEffects
  <2> QED
    BY <2>1 DEF CallsFollowRequests
<1>7. \A m : RuntimePlaces(m)' = RuntimePlaces(m)
  BY DEF RuntimePlaces
<1>8. \A k \in 1..n : RuntimePlaces(Caller(k))' = RuntimePlaces(Caller(k))
  BY <1>2 DEF RuntimePlaces
<1>9. \A k \in 1..n - 1 : k \in 1..n /\ k + 1 \in 1..n
  BY <1>1
<1> QED
  BY <1>1, <1>2, <1>4, <1>5, <1>6, <1>8, <1>9 DEF CallsFollowRequests

\* What is scheduled is in some group of the list.
LEMMA InGroups ==
  ASSUME NEW list \in GroupList
  PROVE  /\ \A m : m \in Scheduled(list) <=> \E k \in 1..Len(list) : m \in Members(list[k])
         /\ \A k \in 1..Len(list) : Members(list[k]) \subseteq Modules
<1>1. list \in Seq([cyclic : BOOLEAN, modules : Seq(Modules)])
  BY DEF GroupList
<1>2. \A g : g \in ToSet(list) <=> \E k \in 1..Len(list) : list[k] = g
  BY <1>1, ElementsOf
<1>3. ASSUME NEW k \in 1..Len(list) PROVE Members(list[k]) \subseteq Modules
  <2>1. list[k] \in [cyclic : BOOLEAN, modules : Seq(Modules)]
    BY <1>1, ElementOfSeq
  <2>2. list[k].modules \in Seq(Modules)
    BY <2>1
  <2> QED
    BY <2>2, ElementsOf DEF Members
<1> QED
  BY <1>2, <1>3 DEF Scheduled

\* The elements of the next stack, by their places.
LEMMA LaterStack ==
  ASSUME stack' \in Seq(Modules)
  PROVE  \A m : m \in ToSet(stack)' <=> \E i \in 1..Len(stack') : stack'[i] = m
BY ElementsOf

\* What closing a group takes off the stack: all that was visited since its
\* first module was.
LEMMA ClosingEffects ==
  ASSUME Structure, frames # <<>>,
         stack' = SubSeq(stack, 1, Len(stack) - Len(Popped(Current)))
  PROVE  /\ Popped(Current) \in Seq(Modules) /\ IsInjective(Popped(Current))
         /\ ToSet(Popped(Current)) = {m \in ToSet(stack) : Order[m] >= Order[Current]}
         /\ stack' \in Seq(Modules) /\ Len(stack') <= Len(stack)
         /\ \A i \in 1..Len(stack') : stack'[i] = stack[i]
         /\ ToSet(stack)' = {m \in ToSet(stack) : Order[m] < Order[Current]}
<1> USE DEF Structure
<1> DEFINE c == Current
           p == CHOOSE k \in 1..Len(stack) : stack[k] = c
           top == SubSeq(stack, p, Len(stack))
<1>1. stack \in Seq(Modules) /\ Len(stack) \in Nat
  BY DEF TraversalTypes
<1>17. \A m \in ToSet(visited) : Order[m] \in Nat
  BY Positions DEF TraversalTypes
<1>2. p \in 1..Len(stack) /\ stack[p] = c
  <2>1. \E k \in 1..Len(stack) : stack[k] = c
    BY <1>1, RunningCall, ElementsOf
  <2> QED
    BY <2>1
<1>3. Popped(c) = Reverse(top)
  BY DEF Popped
<1> HIDE DEF c, p
<1>4. /\ top \in Seq(Modules) /\ Len(top) = Len(stack) - p + 1
      /\ \A i \in 1..Len(stack) - p + 1 : top[i] = stack[p + i - 1]
  <2>1. \A i \in p..Len(stack) : stack[i] \in Modules
    BY <1>1, <1>2
  <2> QED
    BY <1>1, <1>2, <2>1, SubSeqProperties
<1> DEFINE size == Len(stack) - p + 1
<1>5. size \in 1..Len(stack) /\ \A i \in 1..size : size - i + 1 \in 1..size
  BY <1>1, <1>2
<1> HIDE DEF top
<1>6. Reverse(top) = [i \in 1..size |-> stack[Len(stack) - i + 1]]
  <2>1. \A i \in 1..size : top[(size - i) + 1] = stack[Len(stack) - i + 1]
    <3> TAKE i \in 1..size
    <3>1. size - i + 1 \in 1..Len(stack) - p + 1 /\ p + (size - i + 1) - 1 = Len(stack) - i + 1
      BY <1>1, <1>2, <1>5
    <3> QED
      BY <1>4, <3>1
  <2> QED
    BY <1>4, <2>1 DEF Reverse
<1> HIDE DEF size
<1>7. \A i \in 1..size : Len(stack) - i + 1 \in p..Len(stack) /\ Len(stack) - i + 1 \in 1..Len(stack)
  BY <1>1, <1>2 DEF size
<1>8. Popped(c) \in Seq(Modules) /\ Len(Popped(c)) = size
  <2>1. Popped(c) \in [1..size -> Modules]
    BY <1>1, <1>3, <1>6, <1>7
  <2> QED
    BY <1>5, <2>1
<1>9. \A i, j \in 1..Len(stack) : stack[i] = stack[j] => i = j
  <2>1. \A i \in 1..Len(stack) : stack[i] \in ToSet(visited)
    BY <1>1, ElementsOf DEF StackInOrder
  <2>3. \A i, j \in 1..Len(stack) : i < j => stack[i] # stack[j]
    BY <1>17, <2>1 DEF StackInOrder
  <2> QED
    BY <2>3
<1>10. IsInjective(Popped(c))
  <2> SUFFICES ASSUME NEW i \in 1..size, NEW j \in 1..size,
                      stack[Len(stack) - i + 1] = stack[Len(stack) - j + 1]
               PROVE  i = j
    BY <1>3, <1>6 DEF IsInjective
  <2>1. Len(stack) - i + 1 = Len(stack) - j + 1
    BY <1>7, <1>9
  <2> QED
    BY <1>1, <2>1
<1>11. \A i \in 1..Len(stack) : Order[stack[i]] \in Nat /\ (i < p <=> Order[stack[i]] < Order[c])
  <2> TAKE i \in 1..Len(stack)
  <2>1. Order[stack[i]] \in Nat /\ Order[c] \in Nat
    <3>1. stack[i] \in ToSet(visited) /\ c \in ToSet(visited)
      BY <1>1, <1>2, ElementsOf DEF StackInOrder
    <3> QED
      BY <1>17, <3>1
  <2>2. i < p => Order[stack[i]] < Order[c]
    BY <1>2 DEF StackInOrder
  <2>3. i > p => Order[c] < Order[stack[i]]
    BY <1>2 DEF StackInOrder
  <2>4. i = p => Order[c] = Order[stack[i]]
    BY <1>2
  <2> QED
    BY <1>1, <1>2, <2>1, <2>2, <2>3, <2>4
<1>12. \A m : m \in ToSet(Popped(c)) <=> \E i \in 1..Len(stack) : i >= p /\ stack[i] = m
  <2>1. \A m : m \in ToSet(Popped(c)) <=> \E i \in 1..size : stack[Len(stack) - i + 1] = m
    BY <1>3, <1>6 DEF ToSet
  <2>2. \A i \in 1..Len(stack) : i >= p => Len(stack) - i + 1 \in 1..size /\ Len(stack) - (Len(stack) - i + 1) + 1 = i
    BY <1>1, <1>2 DEF size
  <2>3. \A i \in 1..size : Len(stack) - i + 1 >= p
    BY <1>1, <1>2, <1>7
  <2>4. ASSUME NEW m, m \in ToSet(Popped(c)) PROVE \E i \in 1..Len(stack) : i >= p /\ stack[i] = m
    BY <1>7, <2>1, <2>3, <2>4
  <2>5. ASSUME NEW i \in 1..Len(stack), i >= p PROVE stack[i] \in ToSet(Popped(c))
    BY <2>1, <2>2, <2>5
  <2> QED
    BY <2>4, <2>5
<1>13. ToSet(Popped(c)) = {m \in ToSet(stack) : Order[m] >= Order[c]}
  <2>1. \A m : m \in ToSet(stack) <=> \E i \in 1..Len(stack) : stack[i] = m
    BY <1>1, ElementsOf
  <2>2. \A i \in 1..Len(stack) : i >= p <=> Order[stack[i]] >= Order[c]
    <3>1. Order[c] \in Nat /\ p \in Nat
      BY <1>2, <1>11
    <3> QED
      BY <1>11, <3>1
  <2>3. ASSUME NEW m, m \in ToSet(Popped(c)) PROVE m \in ToSet(stack) /\ Order[m] >= Order[c]
    BY <1>12, <2>1, <2>2, <2>3
  <2>4. ASSUME NEW m \in ToSet(stack), Order[m] >= Order[c] PROVE m \in ToSet(Popped(c))
    BY <1>12, <2>1, <2>2, <2>4
  <2> QED
    BY <2>3, <2>4
<1>14. stack' = SubSeq(stack, 1, p - 1) /\ p - 1 \in 0..Len(stack)
  BY <1>1, <1>2, <1>8 DEF size, c
<1>15. /\ stack' \in Seq(Modules) /\ Len(stack') = p - 1
       /\ \A i \in 1..p - 1 : stack'[i] = stack[i]
  BY <1>1, <1>14, Prefix
<1>16. ToSet(stack)' = {m \in ToSet(stack) : Order[m] < Order[c]}
  <2>1. \A m : m \in ToSet(stack) <=> \E i \in 1..Len(stack) : stack[i] = m
    BY <1>1, ElementsOf
  <2>6. \A m : m \in ToSet(stack)' <=> \E i \in 1..Len(stack') : stack'[i] = m
    <3>1. stack' \in Seq(Modules)
      BY <1>15
    <3> QED
      BY <3>1, LaterStack
  <2>2. \A m : m \in ToSet(stack)' <=> \E i \in 1..p - 1 : stack[i] = m
    BY <1>15, <2>6
  <2>3. \A i : i \in 1..p - 1 <=> i \in 1..Len(stack) /\ i < p
    BY <1>1, <1>2
  <2>4. ASSUME NEW m, m \in ToSet(stack)' PROVE m \in ToSet(stack) /\ Order[m] < Order[c]
    BY <1>11, <2>1, <2>2, <2>3, <2>4
  <2>5. ASSUME NEW m \in ToSet(stack), Order[m] < Order[c] PROVE m \in ToSet(stack)'
    BY <1>11, <2>1, <2>2, <2>3, <2>5
  <2> QED
    BY <2>4, <2>5
<1> QED
  BY <1>1, <1>8, <1>10, <1>13, <1>14, <1>15, <1>16 DEF c

\* A call that is at a request is at a runtime request of its module.
LEMMA NextDependency ==
  ASSUME Structure, AtRequest
  PROVE  /\ frames # <<>>
         /\ frames[Len(frames)].next \in RuntimePlaces(Current)
         /\ Dependency = requests[Current][frames[Len(frames)].next].target
         /\ Dependency \in Modules /\ Dependency \in RuntimeTargets(Current)
<1> USE DEF Structure
<1>1. frames # <<>> /\ Last(frames).next <= Len(requests[Current])
  BY DEF AtRequest
<1>2. /\ Last(frames) = frames[Len(frames)] /\ Current = Caller(Len(frames))
      /\ Len(frames) \in 1..Len(frames) /\ requests[Current] \in Seq(Request)
  BY <1>1, RunningCall
<1>3. frames[Len(frames)].next \in RuntimePlaces(Current)
  BY <1>1, <1>2 DEF CallsFollowRequests
<1>4. Dependency = requests[Current][frames[Len(frames)].next].target
  BY <1>2 DEF Dependency
<1>5. requests[Current][frames[Len(frames)].next] \in Request
  BY <1>2, <1>3, ElementOfSeq DEF RuntimePlaces
<1>6. Dependency \in Modules
  BY <1>4, <1>5 DEF Request
<1> QED
  BY <1>1, <1>3, <1>4, <1>6 DEF RuntimeTargets

\* The lower of two naturals.
LEMMA SmallerLink ==
  ASSUME NEW x \in Nat, NEW y \in Nat
  PROVE  /\ Lower(x, y) \in Nat /\ Lower(x, y) \in {x, y}
         /\ Lower(x, y) <= x /\ Lower(x, y) <= y
BY DEF Lower

\* A dependency that was visited before keeps the structure.
LEMMA RevisitKeepsStructure ==
  ASSUME Structure, RevisitDependency
  PROVE  Structure'
<1> USE DEF Structure
<1>1. /\ AtRequest /\ frames # <<>> /\ Dependency \in ToSet(visited) /\ Dependency \in Modules
      /\ UNCHANGED <<requests, entries, position, visited, stack, groups>>
      /\ frames' = Advanced(frames)
  BY NextDependency, ElementsOf DEF RevisitDependency, TraversalTypes, input
<1>2. frames' = Advanced(SubSeq(frames, 1, Len(frames)))
  BY <1>1, SubSeqFull DEF TraversalTypes
<1>3. Order' = Order
  BY <1>1 DEF Order, Index
<1>4. Current \in ToSet(visited) /\ Current \in Modules
  BY <1>1, RunningCall
<1>5. Order[Dependency] = Index(Dependency) /\ Order[Dependency] \in Nat \ {0}
  <2>1. Order[Dependency] \in 1..Len(visited)
    BY <1>1, Positions DEF TraversalTypes
  <2> QED
    BY <1>1, <2>1 DEF Order, TraversalTypes
<1>6. lowLinks' \in [Modules -> Nat] /\ LowLinksInRange'
  <2>1. lowLinks[Current] \in 1..Order[Current] /\ Order[Current] \in Nat
    BY <1>4, Positions DEF LowLinksInRange, TraversalTypes
  <2>2. Lower(lowLinks[Current], Order[Dependency]) \in 1..Order[Current]
    <3>1. lowLinks[Current] \in Nat /\ lowLinks[Current] >= 1 /\ lowLinks[Current] <= Order[Current]
      BY <2>1
    <3> QED
      BY <1>5, <2>1, <3>1 DEF Lower
  <2>3. lowLinks' = lowLinks \/ lowLinks' = [lowLinks EXCEPT ![Current] = Lower(lowLinks[Current], Order[Dependency])]
    BY <1>4, <1>5 DEF RevisitDependency, TraversalTypes
  <2>4. /\ lowLinks' \in [Modules -> Nat]
        /\ \A m \in Modules : lowLinks'[m] = lowLinks[m] \/ (m = Current /\ lowLinks'[m] \in 1..Order[Current])
    BY <1>4, <2>1, <2>2, <2>3 DEF TraversalTypes
  <2>5. ToSet(visited) \subseteq Modules
    BY ElementsOf DEF TraversalTypes
  <2> QED
    BY <1>1, <1>3, <2>4, <2>5 DEF LowLinksInRange
<1>7. TraversalTypes'
  BY <1>1, <1>2, <1>6, AdvanceEffects DEF TraversalTypes
<1>8. VisitedOnce' /\ StackInOrder' /\ StackOrGroups'
  BY <1>1, <1>3 DEF VisitedOnce, StackInOrder, StackOrGroups, Scheduled, Members
<1>9. CallersInOrder' /\ CallsFollowRequests'
  BY <1>1, <1>2, AdvanceKeepsCalls DEF CallersInOrder, Callers
<1> QED
  BY <1>6, <1>7, <1>8, <1>9

\* What returning from the call that runs does to the low links.
LEMMA ReturnEffects ==
  ASSUME Structure, frames # <<>>, Return(Current)
  PROVE  /\ frames' = Advanced(SubSeq(frames, 1, Len(frames) - 1))
         /\ lowLinks' \in [Modules -> Nat]
         /\ Len(frames) = 1 => lowLinks' = lowLinks
         /\ \A k : k = Len(frames) - 1 /\ k > 0 =>
              /\ k \in 1..Len(frames) /\ Caller(k) \in Modules
              /\ lowLinks'[Caller(k)] = Lower(lowLinks[Caller(k)], lowLinks[Current])
              /\ \A m \in Modules : m # Caller(k) => lowLinks'[m] = lowLinks[m]
<1> USE DEF Structure
<1>1. /\ frames \in Seq([module : Modules, next : Nat]) /\ Len(frames) \in Nat \ {0}
      /\ lowLinks \in [Modules -> Nat] /\ Current \in Modules
  BY RunningCall DEF TraversalTypes
<1> DEFINE n == Len(frames) - 1
           calls == SubSeq(frames, 1, n)
<1>6. n \in 0..Len(frames)
  BY <1>1
<1>2. n \in 0..Len(frames) /\ calls \in Seq([module : Modules, next : Nat]) /\ Len(calls) = n
      /\ \A k \in 1..n : calls[k] = frames[k]
  BY <1>1, <1>6, Prefix
<1>3. /\ frames' = Advanced(calls)
      /\ lowLinks' = IF calls = <<>> THEN lowLinks
                     ELSE [lowLinks EXCEPT ![Last(calls).module] = Lower(@, lowLinks[Current])]
  BY DEF Return, Front
<1>7. n \in Nat /\ n = Len(frames) - 1
  BY <1>1
<1> HIDE DEF n, calls
<1>4. CASE n = 0
  <2>1. calls = <<>>
    BY <1>2, <1>4, EmptySeq
  <2>2. Len(frames) = 1 /\ ~(Len(frames) - 1 > 0) /\ lowLinks' = lowLinks
    <3>3. Len(frames) \in Nat /\ Len(frames) - 1 = 0
      BY <1>1, <1>4, <1>7
    <3>4. Len(frames) = 1
      BY <3>3
    <3>1. Len(frames) = 1 /\ ~(Len(frames) - 1 > 0)
      BY <3>4
    <3>2. lowLinks' = lowLinks
      BY <1>3, <2>1
    <3> QED
      BY <3>1, <3>2
  <2> QED
    BY <1>1, <1>3, <2>2 DEF n, calls
<1>5. CASE n > 0
  <2>1. n \in 1..n /\ n \in 1..Len(frames) /\ calls # <<>>
    <3>1. n \in 1..n /\ n \in 1..Len(frames)
      BY <1>1, <1>5, <1>7
    <3> QED
      BY <1>2, <1>5, <3>1
  <2>2. Last(calls) = frames[n]
    BY <1>2, <2>1 DEF Last
  <2>3. frames[n] \in [module : Modules, next : Nat]
    BY <1>1, <2>1, ElementOfSeq
  <2>4. Caller(n) \in Modules /\ Caller(n) = Last(calls).module
    BY <2>2, <2>3 DEF Caller
  <2>5. lowLinks' = [lowLinks EXCEPT ![Caller(n)] = Lower(lowLinks[Caller(n)], lowLinks[Current])]
    BY <1>1, <1>3, <2>1, <2>4
  <2>6. Lower(lowLinks[Caller(n)], lowLinks[Current]) \in Nat
    BY <1>1, <2>4, SmallerLink
  <2>7. /\ lowLinks' \in [Modules -> Nat]
        /\ lowLinks'[Caller(n)] = Lower(lowLinks[Caller(n)], lowLinks[Current])
        /\ \A m \in Modules : m # Caller(n) => lowLinks'[m] = lowLinks[m]
    BY <1>1, <2>4, <2>5, <2>6
  <2>8. Len(frames) # 1
    BY <1>1, <1>5, <1>7
  <2> QED
    BY <1>3, <2>1, <2>4, <2>7, <2>8 DEF n, calls
<1> QED
  BY <1>4, <1>5, <1>7

\* The low links stay in range when a call returns.
LEMMA ReturnKeepsLinks ==
  ASSUME Structure, frames # <<>>, Return(Current), visited' = visited
  PROVE  LowLinksInRange'
<1> USE DEF Structure
<1>1. Order' = Order
  BY DEF Order, Index
<1>2. ToSet(visited) \subseteq Modules /\ \A m \in ToSet(visited) : Order[m] \in Nat
  <2>1. visited \in Seq(Modules) /\ VisitedOnce
    BY DEF TraversalTypes
  <2>2. \A m \in ToSet(visited) : Order[m] \in Nat
    BY <2>1, Positions
  <2> QED
    BY <2>1, <2>2, ElementsOf
<1>3. Len(frames) \in Nat \ {0}
  BY RunningCall
<1>4. CASE Len(frames) = 1
  BY <1>1, <1>4, ReturnEffects DEF LowLinksInRange
<1>5. CASE Len(frames) # 1
  <2> DEFINE k == Len(frames) - 1
  <2>1. k = Len(frames) - 1 /\ k > 0
    BY <1>3, <1>5
  <2> HIDE DEF k
  <2>2. /\ k \in 1..Len(frames) /\ Caller(k) \in Modules
        /\ lowLinks'[Caller(k)] = Lower(lowLinks[Caller(k)], lowLinks[Current])
        /\ \A m \in Modules : m # Caller(k) => lowLinks'[m] = lowLinks[m]
    BY <2>1, ReturnEffects
  <2>3. Caller(k) \in ToSet(visited) /\ Current \in ToSet(visited)
    BY <2>2, RunningCall DEF CallersInOrder, StackInOrder, Callers
  <2>4. lowLinks[Caller(k)] \in 1..Order[Caller(k)] /\ lowLinks[Current] \in 1..Order[Current]
    BY <2>3 DEF LowLinksInRange
  <2>5. lowLinks[Current] \in Nat /\ lowLinks[Current] >= 1
    BY <1>2, <2>3, <2>4
  <2>6. lowLinks'[Caller(k)] \in 1..Order[Caller(k)]
    BY <1>2, <2>2, <2>3, <2>4, <2>5 DEF Lower
  <2> QED
    BY <1>1, <1>2, <2>2, <2>6 DEF LowLinksInRange
<1> QED
  BY <1>4, <1>5

\* Returning with the module still on the stack keeps the structure.
LEMMA LeaveKeepsStructure ==
  ASSUME Structure, LeaveOnStack
  PROVE  Structure'
<1> USE DEF Structure
<1>1. /\ frames # <<>> /\ Return(Current)
      /\ UNCHANGED <<requests, entries, position, visited, stack, groups>>
  BY DEF LeaveOnStack, input
<1>2. Len(frames) \in Nat \ {0}
  BY <1>1, RunningCall
<1> DEFINE n == Len(frames) - 1
<1>3. /\ n \in {Len(frames), Len(frames) - 1} /\ n # Len(frames)
      /\ frames' = Advanced(SubSeq(frames, 1, n))
      /\ \A k \in 1..n : k \in 1..Len(frames)
  BY <1>1, <1>2, ReturnEffects
<1> HIDE DEF n
<1>4. Order' = Order
  BY <1>1 DEF Order, Index
<1>5. LowLinksInRange' /\ lowLinks' \in [Modules -> Nat]
  BY <1>1, ReturnKeepsLinks, ReturnEffects
<1>6. TraversalTypes'
  BY <1>1, <1>3, <1>5, AdvanceEffects DEF TraversalTypes
<1>7. VisitedOnce' /\ StackInOrder' /\ StackOrGroups'
  BY <1>1, <1>4 DEF VisitedOnce, StackInOrder, StackOrGroups, Scheduled, Members
<1>8. CallersInOrder' /\ CallsFollowRequests'
  <2>1. \A k \in 1..n : Caller(k) \in ToSet(stack)'
    BY <1>1, <1>3 DEF CallersInOrder, Callers
  <2> QED
    BY <1>1, <1>3, <2>1, AdvanceKeepsCalls
<1> QED
  BY <1>5, <1>6, <1>7, <1>8

\* What closing a group adds to the groups.
LEMMA GroupEffects ==
  ASSUME Structure, CloseGroup
  PROVE  /\ groups' \in GroupList /\ Len(groups) \in Nat /\ Len(groups') = Len(groups) + 1
         /\ \A k \in 1..Len(groups) : groups'[k] = groups[k]
         /\ groups'[Len(groups) + 1].modules = Popped(Current)
         /\ Members(groups'[Len(groups) + 1]) = ToSet(Popped(Current))
         /\ Scheduled(groups') = Scheduled(groups) \cup ToSet(Popped(Current))
<1> DEFINE group == [cyclic  |-> Len(Popped(Current)) > 1 \/ Current \in RuntimeTargets(Current),
                     modules |-> Popped(Current)]
<1>1. groups' = Append(groups, group)
  BY DEF CloseGroup
<1>2. Popped(Current) \in Seq(Modules)
  BY ClosingEffects DEF CloseGroup
<1>3. group \in [cyclic : BOOLEAN, modules : Seq(Modules)] /\ group.modules = Popped(Current)
  BY <1>2
<1> HIDE DEF group
<1>4. groups \in Seq([cyclic : BOOLEAN, modules : Seq(Modules)])
  BY DEF Structure, TraversalTypes, GroupList
<1>5. /\ groups' \in Seq([cyclic : BOOLEAN, modules : Seq(Modules)])
      /\ Len(groups') = Len(groups) + 1
      /\ \A k \in 1..Len(groups) : groups'[k] = groups[k]
      /\ groups'[Len(groups) + 1] = group
      /\ ToSet(groups') = ToSet(groups) \cup {group}
  <2> DEFINE S == [cyclic : BOOLEAN, modules : Seq(Modules)]
  <2>1. group \in S /\ groups \in Seq(S)
    BY <1>3, <1>4
  <2> HIDE DEF S
  <2>2. /\ Append(groups, group) \in Seq(S)
        /\ Len(Append(groups, group)) = Len(groups) + 1
        /\ \A k \in 1..Len(groups) : Append(groups, group)[k] = groups[k]
        /\ Append(groups, group)[Len(groups) + 1] = group
        /\ ToSet(Append(groups, group)) = ToSet(groups) \cup {group}
    BY <2>1, ElementsOfAppend
  <2> QED
    BY <1>1, <2>2 DEF S
<1>6. Members(group) = ToSet(Popped(Current))
  BY <1>3 DEF Members
<1>7. Scheduled(groups') = Scheduled(groups) \cup Members(group)
  BY <1>5 DEF Scheduled
<1> QED
  BY <1>3, <1>4, <1>5, <1>6, <1>7 DEF GroupList

\* Closing a group keeps the structure.
LEMMA CloseKeepsStructure ==
  ASSUME Structure, CloseGroup
  PROVE  Structure'
<1> USE DEF Structure
<1>1. /\ frames # <<>> /\ Return(Current)
      /\ UNCHANGED <<requests, entries, position, visited>>
      /\ stack' = SubSeq(stack, 1, Len(stack) - Len(Popped(Current)))
  BY DEF CloseGroup, input
<1>2. Len(frames) \in Nat \ {0} /\ Current \in ToSet(stack)
  BY <1>1, RunningCall
<1> DEFINE n == Len(frames) - 1
<1>3. /\ n \in {Len(frames), Len(frames) - 1} /\ n # Len(frames) /\ n \in Nat
      /\ frames' = Advanced(SubSeq(frames, 1, n))
      /\ \A k \in 1..n : k \in 1..Len(frames) /\ k \in 1..Len(frames) - 1
  BY <1>1, <1>2, ReturnEffects
<1> HIDE DEF n
<1>4. Order' = Order
  BY <1>1 DEF Order, Index
<1>5. LowLinksInRange' /\ lowLinks' \in [Modules -> Nat]
  BY <1>1, ReturnKeepsLinks, ReturnEffects
<1>6. /\ stack' \in Seq(Modules) /\ Len(stack') <= Len(stack)
      /\ \A i \in 1..Len(stack') : stack'[i] = stack[i]
      /\ ToSet(stack)' = {m \in ToSet(stack) : Order[m] < Order[Current]}
      /\ ToSet(Popped(Current)) = {m \in ToSet(stack) : Order[m] >= Order[Current]}
  BY <1>1, ClosingEffects
<1>7. TraversalTypes'
  BY <1>1, <1>3, <1>5, <1>6, AdvanceEffects, GroupEffects DEF TraversalTypes
<1>8. VisitedOnce'
  BY <1>1 DEF VisitedOnce
<1>9. StackInOrder'
  <2>1. \A i \in 1..Len(stack') : i \in 1..Len(stack)
    <3>1. Len(stack) \in Nat /\ Len(stack') \in Nat
      BY <1>6 DEF TraversalTypes
    <3> QED
      BY <1>6, <3>1
  <2>2. \A i, j \in 1..Len(stack') : i < j => Order'[stack'[i]] < Order'[stack'[j]]
    BY <1>4, <1>6, <2>1 DEF StackInOrder
  <2> QED
    BY <1>1, <1>6, <2>2 DEF StackInOrder
<1>10. StackOrGroups'
  <2>1. Scheduled(groups)' = Scheduled(groups) \cup ToSet(Popped(Current))
    BY GroupEffects
  <2>2. \A m \in ToSet(visited) : Order[m] \in Nat
    BY Positions DEF TraversalTypes
  <2>3. \A m \in ToSet(stack) : Order[m] < Order[Current] <=> ~(Order[m] >= Order[Current])
    BY <1>2, <2>2 DEF StackInOrder
  <2> QED
    BY <1>1, <1>6, <2>1, <2>3 DEF StackOrGroups
<1>11. CallersInOrder' /\ CallsFollowRequests'
  <2>1. \A k \in 1..n : Caller(k) \in ToSet(stack)'
    BY <1>1, <1>3, <1>6, RunningCall DEF CallersInOrder, Callers
  <2> QED
    BY <1>1, <1>3, <2>1, AdvanceKeepsCalls
<1> QED
  BY <1>5, <1>7, <1>8, <1>9, <1>10, <1>11

\* The entry at the position of the loop is one of the entries.
LEMMA EntryInRange ==
  ASSUME Structure, position <= Len(entries)
  PROVE  position \in 1..Len(entries) /\ entries[position] \in Modules /\ entries[position] \in ToSet(entries)
<1>1. entries \in Seq(Modules) /\ position \in Nat \ {0}
  BY DEF Structure, TraversalTypes
<1>2. position \in 1..Len(entries)
  BY <1>1
<1> QED
  BY <1>1, <1>2, ElementOfSeq, ElementsOf

\* A step that leaves the traversal alone keeps the structure.
LEMMA QuietKeepsStructure ==
  ASSUME Structure, UNCHANGED <<requests, entries, visited, lowLinks, stack, frames, groups>>,
         position' \in Nat \ {0}
  PROVE  Structure'
<1> USE DEF Structure
<1>1. Order' = Order /\ Callers' = Callers /\ \A k : Caller(k)' = Caller(k)
  BY DEF Order, Index, Callers, Caller
<1>2. TraversalTypes' /\ VisitedOnce'
  BY DEF TraversalTypes, VisitedOnce
<1>3. StackInOrder' /\ CallersInOrder' /\ LowLinksInRange'
  BY <1>1 DEF StackInOrder, CallersInOrder, LowLinksInRange
<1>4. StackOrGroups'
  BY DEF StackOrGroups, Scheduled, Members
<1>5. CallsFollowRequests'
  BY DEF CallsFollowRequests, Caller, RuntimePlaces
<1> QED
  BY <1>2, <1>3, <1>4, <1>5

\* The structure holds of nothing visited.
LEMMA InitStructure == Init => Structure
<1> SUFFICES ASSUME Init PROVE Structure
  OBVIOUS
<1>1. /\ requests \in [Modules -> Seq(Request)] /\ entries \in Seq(Modules) /\ position = 1
      /\ visited = <<>> /\ lowLinks = [m \in Modules |-> 0] /\ stack = <<>>
      /\ frames = <<>> /\ groups = <<>>
  BY InputAssumption DEF Init
<1>2. TraversalTypes
  BY <1>1 DEF TraversalTypes, GroupList
<1>3. ToSet(visited) = {} /\ ToSet(stack) = {} /\ ToSet(groups) = {} /\ Callers = {}
  BY <1>1 DEF ToSet, Callers
<1>4. Scheduled(groups) = {}
  BY <1>3 DEF Scheduled
<1>5. 1..Len(frames) = {} /\ 1..Len(frames) - 1 = {} /\ 1..Len(stack) = {} /\ 1..Len(visited) = {}
  BY <1>1
<1> QED
  BY <1>2, <1>3, <1>4, <1>5 DEF Structure, VisitedOnce, StackInOrder, CallersInOrder,
     StackOrGroups, LowLinksInRange, CallsFollowRequests

\* Every step keeps the structure.
LEMMA NextStructure == Structure /\ [Next]_vars => Structure'
<1> SUFFICES ASSUME Structure, [Next]_vars PROVE Structure'
  OBVIOUS
<1> USE DEF input, traversal
<1>1. position \in Nat \ {0} /\ position + 1 \in Nat \ {0}
  BY DEF Structure, TraversalTypes
<1>2. CASE VisitEntry
  <2>1. CASE Contains(visited, entries[position])
    BY <1>1, <1>2, <2>1, QuietKeepsStructure DEF VisitEntry
  <2>2. CASE ~Contains(visited, entries[position])
    <3>1. entries[position] \in Modules /\ entries[position] \notin ToSet(visited)
      BY <1>2, <2>2, EntryInRange, ElementsOf DEF VisitEntry, Structure, TraversalTypes
    <3> QED
      BY <1>1, <1>2, <2>2, <3>1, OpenKeepsStructure DEF VisitEntry
  <2> QED
    BY <2>1, <2>2
<1>3. CASE VisitDependency
  <2>1. Dependency \in Modules /\ Dependency \notin ToSet(visited)
    BY <1>3, NextDependency, ElementsOf DEF VisitDependency, Structure, TraversalTypes
  <2> QED
    BY <1>1, <1>3, <2>1, OpenKeepsStructure DEF VisitDependency
<1>4. CASE RevisitDependency
  BY <1>4, RevisitKeepsStructure
<1>5. CASE CloseGroup
  BY <1>5, CloseKeepsStructure
<1>6. CASE LeaveOnStack
  BY <1>6, LeaveKeepsStructure
<1>7. CASE AssertReachability
  BY <1>1, <1>7, QuietKeepsStructure DEF AssertReachability
<1>8. CASE PlanModules
  BY <1>1, <1>8, QuietKeepsStructure DEF PlanModules
<1>9. ASSUME NEW selection \in SUBSET Modules, Project(selection) PROVE Structure'
  BY <1>1, <1>9, QuietKeepsStructure DEF Project
<1>10. CASE UNCHANGED vars
  BY <1>1, <1>10, QuietKeepsStructure DEF vars
<1> QED
  BY <1>2, <1>3, <1>4, <1>5, <1>6, <1>7, <1>8, <1>9, <1>10 DEF Next

\* The component stack and the open calls are in the order of the visits, a
\* visited module waits on the stack or is in a group, low links stay in range,
\* and an open call stands at the request of the call above it.
THEOREM StructureHolds == Spec => []Structure
<1> QED
  BY InitStructure, NextStructure, PTL DEF Spec

-----------------------------------------------------------------------------
(* Groups are completed dependencies first *)

\* The targets that an open call has dealt with.
Followed(k) == FollowedBefore(Caller(k), frames[k].next)

FollowedAreVisited ==
  /\ \A k \in 1..Len(frames) : Followed(k) \subseteq ToSet(visited)
  /\ \A m \in ToSet(visited) \ Callers : RuntimeTargets(m) \subseteq ToSet(visited)

\* m waits for the open call k: it was visited under it, and under no later one.
WaitsFor(m, k) ==
  /\ m \in ToSet(stack) \ Callers
  /\ Order[Caller(k)] < Order[m]
  /\ \A j \in k + 1..Len(frames) : Order[m] < Order[Caller(j)]

\* No open call's low link is above the index of a module on the stack that the
\* call, or a module that waits for it, requests.
LowLinksCover ==
  \A k \in 1..Len(frames) :
    /\ \A t \in Followed(k) \cap ToSet(stack) : lowLinks[Caller(k)] <= Order[t]
    /\ \A m \in ToSet(stack) : WaitsFor(m, k) =>
         \A t \in RuntimeTargets(m) \cap ToSet(stack) : lowLinks[Caller(k)] <= Order[t]

OrderInvariant ==
  /\ FollowedAreVisited
  /\ LowLinksCover
  /\ GroupsDependencyFirst

\* A call that starts has dealt with none of its targets.
LEMMA FollowedFirst ==
  ASSUME Structure, NEW m \in Modules
  PROVE  FollowedBefore(m, PlaceFrom(m, 1)) = {}
<1>1. requests \in [Modules -> Seq(Request)] /\ Len(requests[m]) \in Nat
  BY DEF Structure, TraversalTypes
<1>2. \A p \in RuntimePlaces(m) : p \in Nat /\ p >= 1
  BY <1>1 DEF RuntimePlaces
<1>3. /\ PlaceFrom(m, 1) \in 1..Len(requests[m]) + 1
      /\ \A p \in RuntimePlaces(m) : p >= 1 => PlaceFrom(m, 1) <= p
  <2>1. 1 \in 1..Len(requests[m]) + 1
    BY <1>1
  <2> QED
    BY <1>1, <2>1, Places
<1>4. \A p \in RuntimePlaces(m) : ~(p < PlaceFrom(m, 1))
  BY <1>1, <1>2, <1>3
<1> QED
  BY <1>4 DEF FollowedBefore

\* Advancing to the next runtime place deals with one more target.
LEMMA FollowedNext ==
  ASSUME Structure, NEW m \in Modules, NEW k \in RuntimePlaces(m)
  PROVE  FollowedBefore(m, PlaceFrom(m, k + 1)) = FollowedBefore(m, k) \cup {requests[m][k].target}
<1>1. requests \in [Modules -> Seq(Request)] /\ Len(requests[m]) \in Nat
  BY DEF Structure, TraversalTypes
<1>2. \A p \in RuntimePlaces(m) : p \in Nat /\ p <= Len(requests[m])
  BY <1>1 DEF RuntimePlaces
<1>3. k + 1 \in 1..Len(requests[m]) + 1
  BY <1>1 DEF RuntimePlaces
<1>4. /\ PlaceFrom(m, k + 1) \in k + 1..Len(requests[m]) + 1
      /\ \A p \in RuntimePlaces(m) : p >= k + 1 => PlaceFrom(m, k + 1) <= p
  BY <1>1, <1>3, Places
<1>5. \A p \in RuntimePlaces(m) : p < PlaceFrom(m, k + 1) <=> p < k \/ p = k
  BY <1>1, <1>2, <1>4
<1> QED
  BY <1>5 DEF FollowedBefore

\* A call that is past its requests has followed them all.
LEMMA FollowedAll ==
  ASSUME Structure, NEW m \in Modules, NEW next \in Nat, next > Len(requests[m])
  PROVE  FollowedBefore(m, next) = RuntimeTargets(m)
<1>1. \A p \in RuntimePlaces(m) : p < next
  BY DEF Structure, TraversalTypes, RuntimePlaces
<1> QED
  BY <1>1 DEF FollowedBefore, RuntimeTargets

\* Entering a visit keeps what low links cover.
LEMMA OpenKeepsOrder ==
  ASSUME Structure, OrderInvariant, NEW x \in Modules, x \notin ToSet(visited), Open(x),
         UNCHANGED <<requests, groups>>
  PROVE  OrderInvariant'
<1> USE DEF OrderInvariant
<1>1. /\ ToSet(visited)' = ToSet(visited) \cup {x}
      /\ ToSet(stack)' = ToSet(stack) \cup {x}
      /\ \A m \in ToSet(visited) : Order'[m] = Order[m] /\ Order[m] < Len(visited) + 1
      /\ Order'[x] = Len(visited) + 1
      /\ \A m \in Modules \ {x} : lowLinks'[m] = lowLinks[m]
  BY OpenEffects
<1>2. Len(frames) \in Nat /\ Len(visited) \in Nat /\ ToSet(visited) \subseteq Modules
  BY ElementsOf DEF Structure, TraversalTypes
<1>3. /\ \A k \in 1..Len(frames) : frames'[k] = frames[k] /\ Caller(k)' = Caller(k)
      /\ \A k : k = Len(frames) + 1 => Caller(k)' = x /\ frames'[k].next = PlaceFrom(x, 1)
      /\ Len(frames') = Len(frames) + 1
  <2>1. /\ \A k \in 1..Len(frames) : frames'[k] = frames[k]
        /\ frames'[Len(frames) + 1] = [module |-> x, next |-> PlaceFrom(x, 1)]
        /\ Len(frames') = Len(frames) + 1
    BY OpenEffects
  <2> QED
    BY <2>1 DEF Caller
<1>4. \A k \in 1..Len(frames') : k \in 1..Len(frames) \/ k = Len(frames) + 1
  BY <1>2, <1>3
<1>5. \A k \in 1..Len(frames) : Caller(k) \in ToSet(visited) /\ k \in 1..Len(frames')
  BY <1>2, <1>3 DEF Structure, CallersInOrder, StackInOrder, Callers
<1>6. ToSet(stack) \subseteq ToSet(visited)
  BY DEF Structure, StackInOrder
<1>7. \A k : Followed(k)' = FollowedBefore(Caller(k)', frames'[k].next)
  BY DEF Followed, FollowedBefore, RuntimePlaces, Caller
<1>8. /\ \A k \in 1..Len(frames) : Followed(k)' = Followed(k)
      /\ \A k : k = Len(frames) + 1 => Followed(k)' = {}
  <2>1. FollowedBefore(x, PlaceFrom(x, 1)) = {}
    BY FollowedFirst
  <2>2. \A k : k = Len(frames) + 1 => Followed(k)' = FollowedBefore(x, PlaceFrom(x, 1))
    BY <1>3 DEF Followed, FollowedBefore, RuntimePlaces, Caller
  <2>3. \A k \in 1..Len(frames) : Followed(k)' = Followed(k)
    BY <1>3 DEF Followed, FollowedBefore, RuntimePlaces, Caller
  <2> QED
    BY <2>1, <2>2, <2>3
<1>9. \A m : RuntimeTargets(m)' = RuntimeTargets(m)
  BY DEF RuntimeTargets, RuntimePlaces
<1>10. x \in Callers' /\ Callers \subseteq Callers'
  <2>1. Len(frames) + 1 \in 1..Len(frames')
    BY <1>2, <1>3
  <2>2. \A k \in 1..Len(frames') : Caller(k)' \in Callers'
    BY DEF Callers
  <2> QED
    BY <1>3, <1>5, <2>1, <2>2 DEF Callers
<1>11. FollowedAreVisited'
  <2>1. \A k \in 1..Len(frames') : Followed(k)' \subseteq ToSet(visited)'
    BY <1>1, <1>4, <1>8 DEF FollowedAreVisited
  <2>2. \A m \in ToSet(visited)' \ Callers' : RuntimeTargets(m)' \subseteq ToSet(visited)'
    BY <1>1, <1>9, <1>10 DEF FollowedAreVisited
  <2> QED
    BY <2>1, <2>2 DEF FollowedAreVisited
<1>12. LowLinksCover'
  <2>1. ASSUME NEW k \in 1..Len(frames') PROVE
             /\ \A t \in Followed(k)' \cap ToSet(stack)' : lowLinks'[Caller(k)'] <= Order'[t]
             /\ \A m \in ToSet(stack)' : WaitsFor(m, k)' =>
                  \A t \in RuntimeTargets(m)' \cap ToSet(stack)' : lowLinks'[Caller(k)'] <= Order'[t]
    <3>1. CASE k \in 1..Len(frames)
      <4>1. lowLinks'[Caller(k)'] = lowLinks[Caller(k)]
        BY <1>1, <1>2, <1>3, <1>5, <3>1
      <4>2. \A t \in ToSet(visited) : t \in ToSet(stack)' => t \in ToSet(stack) /\ Order'[t] = Order[t]
        BY <1>1
      <4>3. \A t \in Followed(k)' \cap ToSet(stack)' : lowLinks'[Caller(k)'] <= Order'[t]
        <5> TAKE t \in Followed(k)' \cap ToSet(stack)'
        <5>1. t \in Followed(k) /\ t \in ToSet(visited)
          BY <1>8, <3>1 DEF FollowedAreVisited
        <5> QED
          BY <3>1, <4>1, <4>2, <5>1 DEF LowLinksCover
      <4>4. ASSUME NEW m \in ToSet(stack)', WaitsFor(m, k)', NEW t \in RuntimeTargets(m)' \cap ToSet(stack)'
            PROVE  lowLinks'[Caller(k)'] <= Order'[t]
        <5>1. m \notin Callers' /\ Order'[Caller(k)'] < Order'[m]
              /\ \A j \in k + 1..Len(frames') : Order'[m] < Order'[Caller(j)']
          BY <4>4 DEF WaitsFor
        <5>2. m \in ToSet(stack) /\ m \in ToSet(visited) /\ m \notin Callers
          BY <1>1, <1>6, <1>10, <5>1
        <5>3. Order'[m] = Order[m] /\ Order'[Caller(k)'] = Order[Caller(k)]
          BY <1>1, <1>3, <1>5, <3>1, <5>2
        <5>4. \A j \in k + 1..Len(frames) : Order[m] < Order[Caller(j)]
          <6> TAKE j \in k + 1..Len(frames)
          <6>1. j \in 1..Len(frames) /\ j \in k + 1..Len(frames')
            BY <1>2, <1>3, <3>1
          <6>2. Order'[Caller(j)'] = Order[Caller(j)]
            BY <1>1, <1>3, <1>5, <6>1
          <6> QED
            BY <5>1, <5>3, <6>1, <6>2
        <5>5. WaitsFor(m, k)
          BY <5>1, <5>2, <5>3, <5>4 DEF WaitsFor
        <5>6. t \in RuntimeTargets(m) /\ t \in ToSet(visited)
          BY <1>9, <4>4, <5>2 DEF FollowedAreVisited
        <5> QED
          BY <3>1, <4>1, <4>2, <4>4, <5>2, <5>5, <5>6 DEF LowLinksCover
      <4> QED
        BY <4>3, <4>4
    <3>2. CASE k = Len(frames) + 1
      <4>1. Followed(k)' = {} /\ Caller(k)' = x
        BY <1>3, <1>8, <3>2
      <4>2. ASSUME NEW m \in ToSet(stack)', WaitsFor(m, k)' PROVE FALSE
        <5>1. Order'[x] < Order'[m]
          BY <4>1, <4>2 DEF WaitsFor
        <5>2. m = x \/ m \in ToSet(visited)
          BY <1>1, <1>6
        <5>3. \A y \in ToSet(visited) : Order[y] \in Nat
          BY Positions DEF Structure, TraversalTypes
        <5> QED
          BY <1>1, <1>2, <5>1, <5>2, <5>3
      <4> QED
        BY <4>1, <4>2
    <3> QED
      BY <1>4, <3>1, <3>2
  <2> QED
    BY <2>1 DEF LowLinksCover
<1>13. GroupsDependencyFirst'
  BY <1>9 DEF GroupsDependencyFirst, DependencyFirst
<1> QED
  BY <1>11, <1>12, <1>13

\* What advancing a call adds to the targets it has dealt with.
LEMMA FollowedAdvanced ==
  ASSUME Structure, frames # <<>>, NEW n \in {Len(frames), Len(frames) - 1},
         n = Len(frames) => AtRequest,
         frames' = Advanced(SubSeq(frames, 1, n)), requests' = requests
  PROVE  /\ \A k \in 1..n - 1 : Followed(k)' = Followed(k)
         /\ n > 0 => Followed(n)' = Followed(n) \cup {requests[Caller(n)][frames[n].next].target}
<1>1. \A k \in 1..n - 1 : Followed(k)' = Followed(k)
  <2>1. \A k \in 1..n - 1 : frames'[k] = frames[k]
    BY AdvanceEffects
  <2> QED
    BY <2>1 DEF Followed, FollowedBefore, Caller, RuntimePlaces
<1>2. ASSUME n > 0 PROVE Followed(n)' = Followed(n) \cup {requests[Caller(n)][frames[n].next].target}
  <2>1. /\ frames[n].next \in RuntimePlaces(Caller(n)) /\ frames'[n].module = frames[n].module
        /\ frames'[n].next = PlaceFrom(Caller(n), frames[n].next + 1)
    <3>1. n \in Nat /\ n \in 1..n
      BY <1>2, AdvanceEffects
    <3> QED
      BY <1>2, <3>1, AdvanceEffects
  <2>2. Caller(n) \in Modules
    <3>1. n \in 1..Len(frames)
      BY <1>2, RunningCall
    <3>2. frames[n] \in [module : Modules, next : Nat]
      BY <3>1, ElementOfSeq DEF Structure, TraversalTypes
    <3> QED
      BY <3>2 DEF Caller
  <2>3. Followed(n)' = FollowedBefore(Caller(n), frames'[n].next)
    BY <2>1 DEF Followed, FollowedBefore, Caller, RuntimePlaces
  <2> QED
    BY <2>1, <2>2, <2>3, FollowedNext DEF Followed
<1> QED
  BY <1>1, <1>2

\* The call that runs has followed all its requests when it is past them.
LEMMA RunningCallFollowed ==
  ASSUME Structure, frames # <<>>, ~AtRequest
  PROVE  Followed(Len(frames)) = RuntimeTargets(Current)
<1>1. /\ Last(frames) = frames[Len(frames)] /\ Current = Caller(Len(frames)) /\ Current \in Modules
      /\ Len(frames) \in 1..Len(frames) /\ requests[Current] \in Seq(Request)
  BY RunningCall
<1>2. frames[Len(frames)] \in [module : Modules, next : Nat]
  BY <1>1, ElementOfSeq DEF Structure, TraversalTypes
<1>3. frames[Len(frames)].next > Len(requests[Current])
  BY <1>1, <1>2 DEF AtRequest
<1> QED
  BY <1>1, <1>2, <1>3, FollowedAll DEF Followed

\* A dependency on the stack lowers the low link to its index.
LEMMA RevisitKeepsOrder ==
  ASSUME Structure, OrderInvariant, RevisitDependency
  PROVE  OrderInvariant'
<1> USE DEF OrderInvariant
<1>1. /\ AtRequest /\ frames # <<>> /\ Dependency \in ToSet(visited) /\ Dependency \in Modules
      /\ UNCHANGED <<requests, visited, stack, groups>>
      /\ frames' = Advanced(frames)
  BY NextDependency, ElementsOf DEF RevisitDependency, Structure, TraversalTypes, input
<1>2. PICK n \in Nat \ {0} : n = Len(frames)
  BY <1>1, RunningCall
<1>3. frames' = Advanced(SubSeq(frames, 1, n))
  BY <1>1, <1>2, SubSeqFull DEF Structure, TraversalTypes
<1>4. Order' = Order
  BY <1>1 DEF Order, Index
<1>5. /\ Current = Caller(n) /\ Current \in ToSet(stack) /\ Current \in Modules
      /\ Dependency = requests[Caller(n)][frames[n].next].target
  BY <1>1, <1>2, RunningCall, NextDependency
<1>6. /\ Len(frames') = n /\ \A k \in 1..n : Caller(k)' = Caller(k)
  <2>1. Len(frames') = n /\ \A k \in 1..n : frames'[k].module = frames[k].module
    BY <1>1, <1>2, <1>3, AdvanceEffects
  <2> QED
    BY <2>1 DEF Caller
<1>7. /\ \A k \in 1..n - 1 : Followed(k)' = Followed(k)
      /\ Followed(n)' = Followed(n) \cup {Dependency}
  BY <1>1, <1>2, <1>3, <1>5, FollowedAdvanced
<1>8. \A k \in 1..n : k \in 1..n - 1 \/ k = n
  OBVIOUS
<1>9. Callers' = Callers
  BY <1>2, <1>6 DEF Callers
<1>10. \A m : RuntimeTargets(m)' = RuntimeTargets(m)
  BY <1>1 DEF RuntimeTargets, RuntimePlaces
<1>11. FollowedAreVisited'
  <2>1. \A k \in 1..n : Followed(k)' \subseteq ToSet(visited)
    BY <1>1, <1>2, <1>7, <1>8 DEF FollowedAreVisited
  <2> QED
    BY <1>1, <1>6, <1>9, <1>10, <2>1 DEF FollowedAreVisited
<1>12. /\ \A m \in Modules : lowLinks'[m] \in Nat /\ lowLinks[m] \in Nat /\ lowLinks'[m] <= lowLinks[m]
       /\ Dependency \in ToSet(stack) => lowLinks'[Current] <= Order[Dependency]
  <2>1. Order[Dependency] = Index(Dependency) /\ Order[Dependency] \in Nat
    <3>1. Order[Dependency] \in 1..Len(visited)
      BY <1>1, Positions DEF Structure, TraversalTypes
    <3> QED
      BY <1>1, <3>1 DEF Order
  <2>2. stack \in Seq(Modules) /\ lowLinks \in [Modules -> Nat]
    BY DEF Structure, TraversalTypes
  <2>3. CASE Contains(stack, Dependency)
    <3>1. lowLinks' = [lowLinks EXCEPT ![Current] = Lower(lowLinks[Current], Order[Dependency])]
      BY <1>5, <2>1, <2>2, <2>3 DEF RevisitDependency
    <3>2. /\ Lower(lowLinks[Current], Order[Dependency]) \in Nat
          /\ Lower(lowLinks[Current], Order[Dependency]) <= lowLinks[Current]
          /\ Lower(lowLinks[Current], Order[Dependency]) <= Order[Dependency]
      BY <1>5, <2>1, <2>2, SmallerLink
    <3>3. lowLinks'[Current] = Lower(lowLinks[Current], Order[Dependency])
      BY <1>5, <2>2, <3>1
    <3>4. \A m \in Modules : m # Current => lowLinks'[m] = lowLinks[m]
      BY <2>2, <3>1
    <3>5. \A m \in Modules : lowLinks[m] \in Nat /\ lowLinks[m] <= lowLinks[m]
      BY <2>2
    <3> QED
      BY <1>5, <3>2, <3>3, <3>4, <3>5
  <2>4. CASE ~Contains(stack, Dependency)
    <3>1. lowLinks' = lowLinks /\ Dependency \notin ToSet(stack)
      BY <2>2, <2>4, ElementsOf DEF RevisitDependency
    <3> QED
      BY <2>2, <3>1
  <2> QED
    BY <2>3, <2>4
<1>13. LowLinksCover'
  <2>1. \A m \in ToSet(visited) : Order[m] \in Nat
    BY Positions DEF Structure, TraversalTypes
  <2>2. ToSet(stack) \subseteq ToSet(visited)
    BY DEF Structure, StackInOrder
  <2>3. \A k \in 1..n : Caller(k) \in Modules
    <3>1. Callers \subseteq ToSet(visited) /\ ToSet(visited) \subseteq Modules
      BY ElementsOf DEF Structure, CallersInOrder, StackInOrder, TraversalTypes
    <3> QED
      BY <1>2, <3>1 DEF Callers
  <2>4. ASSUME NEW k \in 1..n, NEW t \in Followed(k)' \cap ToSet(stack)
        PROVE  lowLinks'[Caller(k)] <= Order[t]
    <3>1. CASE t \in Followed(k)
      <4>1. lowLinks[Caller(k)] <= Order[t]
        BY <1>2, <2>4, <3>1 DEF LowLinksCover
      <4> QED
        BY <1>12, <2>1, <2>2, <2>3, <2>4, <4>1
    <3>2. CASE t \notin Followed(k)
      <4>1. k = n /\ t = Dependency
        BY <1>7, <1>8, <2>4, <3>2
      <4> QED
        BY <1>5, <1>12, <2>4, <4>1
    <3> QED
      BY <3>1, <3>2
  <2>5. ASSUME NEW k \in 1..n, NEW m \in ToSet(stack), WaitsFor(m, k)',
               NEW t \in RuntimeTargets(m) \cap ToSet(stack)
        PROVE  lowLinks'[Caller(k)] <= Order[t]
    <3>1. WaitsFor(m, k)
      <4>1. \A j \in k + 1..n : j \in 1..n
        BY <1>2
      <4> QED
        BY <1>1, <1>2, <1>4, <1>6, <1>9, <2>5, <4>1 DEF WaitsFor
    <3>2. lowLinks[Caller(k)] <= Order[t]
      BY <1>2, <2>5, <3>1 DEF LowLinksCover
    <3> QED
      BY <1>12, <2>1, <2>2, <2>3, <2>5, <3>2
  <2> QED
    BY <1>1, <1>4, <1>6, <1>10, <2>4, <2>5 DEF LowLinksCover
<1>14. GroupsDependencyFirst'
  BY <1>1, <1>10 DEF GroupsDependencyFirst, DependencyFirst
<1> QED
  BY <1>11, <1>13, <1>14

\* What a return changes of the calls.
LEMMA CallsAfterReturn ==
  ASSUME Structure, frames # <<>>, Return(Current), requests' = requests, NEW n \in Nat, n = Len(frames) - 1
  PROVE  /\ n + 1 \in 1..Len(frames) /\ Current = Caller(n + 1) /\ Len(frames') = n
         /\ \A k \in 1..n : k \in 1..Len(frames) /\ Caller(k)' = Caller(k) /\ Caller(k) \in Modules
         /\ Callers' = Callers \ {Current}
         /\ \A k \in 1..n - 1 : Followed(k)' = Followed(k)
         /\ n > 0 => /\ Followed(n)' = Followed(n) \cup {Current}
                     /\ lowLinks'[Caller(n)] = Lower(lowLinks[Caller(n)], lowLinks[Current])
                     /\ \A m \in Modules : m # Caller(n) => lowLinks'[m] = lowLinks[m]
<1>1. Len(frames) = n + 1 /\ n + 1 \in 1..Len(frames)
  BY RunningCall
<1>2. n \in {Len(frames), Len(frames) - 1} /\ n # Len(frames)
  BY <1>1
<1>3. frames' = Advanced(SubSeq(frames, 1, n))
  BY ReturnEffects
<1>4. /\ Len(frames') = n /\ \A k \in 1..n : frames'[k].module = frames[k].module
  BY <1>2, <1>3, AdvanceEffects
<1>5. \A k \in 1..n : k \in 1..Len(frames) /\ Caller(k)' = Caller(k)
  BY <1>1, <1>4 DEF Caller
<1>6. Current = Caller(n + 1) /\ \A k \in 1..n : Caller(k) # Current
  <2>1. Current = Caller(n + 1)
    BY <1>1, RunningCall
  <2>2. \A k \in 1..n : Order[Caller(k)] < Order[Current]
    BY <1>1, RunningCall
  <2>3. Order[Current] \in Nat
    BY RunningCall, Positions DEF Structure, TraversalTypes
  <2> QED
    BY <2>1, <2>2, <2>3
<1>7. \A k \in 1..Len(frames) : Caller(k) \in Modules
  <2> TAKE k \in 1..Len(frames)
  <2>1. frames[k] \in [module : Modules, next : Nat]
    BY ElementOfSeq DEF Structure, TraversalTypes
  <2> QED
    BY <2>1 DEF Caller
<1>8. Callers' = Callers \ {Current}
  <2>1. \A m : m \in Callers' <=> \E k \in 1..n : Caller(k) = m
    BY <1>4, <1>5 DEF Callers
  <2>2. \A m : m \in Callers <=> \E k \in 1..n + 1 : Caller(k) = m
    BY <1>1 DEF Callers
  <2>3. \A k \in 1..n + 1 : k \in 1..n \/ k = n + 1
    OBVIOUS
  <2>4. \A k \in 1..n : k \in 1..n + 1
    OBVIOUS
  <2>5. ASSUME NEW m \in Callers' PROVE m \in Callers \ {Current}
    BY <1>6, <2>1, <2>2, <2>4
  <2>6. ASSUME NEW m \in Callers \ {Current} PROVE m \in Callers'
    BY <1>6, <2>1, <2>2, <2>3
  <2> QED
    BY <2>5, <2>6
<1>9. \A k \in 1..n - 1 : Followed(k)' = Followed(k)
  BY <1>2, <1>3, FollowedAdvanced
<1>10. ASSUME n > 0
       PROVE  /\ Followed(n)' = Followed(n) \cup {Current}
              /\ lowLinks'[Caller(n)] = Lower(lowLinks[Caller(n)], lowLinks[Current])
              /\ \A m \in Modules : m # Caller(n) => lowLinks'[m] = lowLinks[m]
  <2>1. n \in 1..Len(frames) - 1
    BY <1>1, <1>10
  <2>2. requests[Caller(n)][frames[n].next].target = Current
    BY <1>6, <2>1 DEF Structure, CallsFollowRequests
  <2> QED
    BY <1>2, <1>3, <1>10, <2>2, FollowedAdvanced, ReturnEffects
<1> QED
  BY <1>1, <1>4, <1>5, <1>6, <1>7, <1>8, <1>9, <1>10

\* The call that returns has followed its requests, and the module below it,
\* which requested it, counts it as followed.
LEMMA ReturnKeepsFollowed ==
  ASSUME Structure, OrderInvariant, frames # <<>>, ~AtRequest, Return(Current),
         UNCHANGED <<requests, visited>>
  PROVE  FollowedAreVisited'
<1>1. PICK n \in Nat : n = Len(frames) - 1
  BY RunningCall
<1>2. RuntimeTargets(Current) \subseteq ToSet(visited) /\ Current \in ToSet(visited)
  <2>1. Followed(Len(frames)) = RuntimeTargets(Current)
    BY RunningCallFollowed
  <2>2. Len(frames) \in 1..Len(frames)
    BY RunningCall
  <2> QED
    BY <2>1, <2>2, RunningCall DEF OrderInvariant, FollowedAreVisited
<1>3. \A m : RuntimeTargets(m)' = RuntimeTargets(m)
  BY DEF RuntimeTargets, RuntimePlaces
<1>4. \A k \in 1..n : Followed(k)' \subseteq ToSet(visited)
  <2> TAKE k \in 1..n
  <2>1. k \in 1..Len(frames) /\ (k \in 1..n - 1 \/ (k = n /\ n > 0))
    BY <1>1, RunningCall
  <2>2. Followed(k)' \subseteq Followed(k) \cup {Current}
    BY <1>1, <2>1, CallsAfterReturn
  <2> QED
    BY <1>2, <2>1, <2>2 DEF OrderInvariant, FollowedAreVisited
<1>5. Len(frames') = n /\ Callers' = Callers \ {Current}
  BY <1>1, CallsAfterReturn
<1>6. \A m \in ToSet(visited)' \ Callers' : RuntimeTargets(m)' \subseteq ToSet(visited)'
  BY <1>2, <1>3, <1>5 DEF OrderInvariant, FollowedAreVisited
<1> QED
  BY <1>4, <1>5, <1>6 DEF FollowedAreVisited

\* The caller takes over the low link of the call that returns, and with it
\* what that call's low link covers.
LEMMA ReturnKeepsCover ==
  ASSUME Structure, OrderInvariant, frames # <<>>, ~AtRequest, Return(Current),
         UNCHANGED <<requests, visited>>, ToSet(stack)' \subseteq ToSet(stack)
  PROVE  LowLinksCover'
<1> USE DEF OrderInvariant
<1>1. PICK n \in Nat : n = Len(frames) - 1
  BY RunningCall
<1>2. Order' = Order
  BY DEF Order, Index
<1>3. /\ n + 1 \in 1..Len(frames) /\ Current = Caller(n + 1) /\ Len(frames') = n
      /\ \A k \in 1..n : k \in 1..Len(frames) /\ Caller(k)' = Caller(k) /\ Caller(k) \in Modules
      /\ Callers' = Callers \ {Current}
      /\ \A k \in 1..n - 1 : Followed(k)' = Followed(k)
      /\ n > 0 => /\ Followed(n)' = Followed(n) \cup {Current}
                  /\ lowLinks'[Caller(n)] = Lower(lowLinks[Caller(n)], lowLinks[Current])
                  /\ \A m \in Modules : m # Caller(n) => lowLinks'[m] = lowLinks[m]
  BY <1>1, CallsAfterReturn
<1>4. /\ \A m \in ToSet(visited) : Order[m] \in Nat
      /\ \A m, l \in ToSet(visited) : Order[m] = Order[l] => m = l
      /\ ToSet(stack) \subseteq ToSet(visited) /\ ToSet(visited) \subseteq Modules
      /\ lowLinks \in [Modules -> Nat]
  <2>1. \A m \in ToSet(visited) : Order[m] \in 1..Len(visited) /\ visited[Order[m]] = m
    BY Positions DEF Structure, TraversalTypes
  <2>2. \A m, l \in ToSet(visited) : Order[m] = Order[l] => m = l
    BY <2>1
  <2>3. ToSet(stack) \subseteq ToSet(visited) /\ ToSet(visited) \subseteq Modules
    BY ElementsOf DEF Structure, StackInOrder, TraversalTypes
  <2> QED
    BY <2>1, <2>2, <2>3 DEF Structure, TraversalTypes
<1>5. Current \in ToSet(stack) /\ Current \in Modules /\ lowLinks[Current] \in Nat
      /\ lowLinks[Current] <= Order[Current] /\ Order[Current] \in Nat
  <2>1. Current \in ToSet(stack) /\ Current \in ToSet(visited)
    BY RunningCall
  <2>2. lowLinks[Current] \in 1..Order[Current]
    BY <2>1 DEF Structure, LowLinksInRange
  <2> QED
    BY <1>4, <2>1, <2>2
<1>6. \A k \in 1..n : /\ lowLinks'[Caller(k)] \in Nat /\ lowLinks'[Caller(k)] <= lowLinks[Caller(k)]
                      /\ lowLinks[Caller(k)] \in Nat
                      /\ k = n => lowLinks'[Caller(k)] <= lowLinks[Current]
  <2> TAKE k \in 1..n
  <2>1. lowLinks[Caller(k)] \in Nat /\ Caller(k) \in Modules /\ Caller(n) \in Modules /\ n > 0
    BY <1>3, <1>4
  <2>2. /\ Lower(lowLinks[Caller(n)], lowLinks[Current]) \in Nat
        /\ Lower(lowLinks[Caller(n)], lowLinks[Current]) <= lowLinks[Caller(n)]
        /\ Lower(lowLinks[Caller(n)], lowLinks[Current]) <= lowLinks[Current]
    BY <1>4, <1>5, <2>1, SmallerLink
  <2>3. CASE Caller(k) = Caller(n)
    BY <1>3, <2>1, <2>2, <2>3
  <2>4. CASE Caller(k) # Caller(n)
    BY <1>3, <2>1, <2>4
  <2> QED
    BY <2>3, <2>4
<1>7. RuntimeTargets(Current) = Followed(n + 1)
  <2>1. Len(frames) = n + 1
    BY <1>1, RunningCall
  <2> QED
    BY <2>1, RunningCallFollowed
<1>8. ASSUME NEW k \in 1..n, NEW t \in Followed(k)' \cap ToSet(stack)
      PROVE  lowLinks'[Caller(k)] <= Order[t]
  <2>1. CASE t \in Followed(k)
    <3>1. lowLinks[Caller(k)] <= Order[t]
      BY <1>3, <1>8, <2>1 DEF LowLinksCover
    <3> QED
      BY <1>4, <1>6, <1>8, <3>1
  <2>2. CASE t \notin Followed(k)
    <3>1. k = n /\ t = Current
      BY <1>3, <1>8, <2>2
    <3> QED
      BY <1>5, <1>6, <3>1
  <2> QED
    BY <2>1, <2>2
<1>9. ASSUME NEW k \in 1..n, NEW m \in ToSet(stack), WaitsFor(m, k)',
             NEW t \in RuntimeTargets(m) \cap ToSet(stack)
      PROVE  lowLinks'[Caller(k)] <= Order[t]
  <2>1. /\ m \notin Callers \ {Current} /\ Order[Caller(k)] < Order[m]
        /\ \A j \in k + 1..n : Order[m] < Order[Caller(j)]
    <3>1. \A j \in k + 1..n : j \in 1..n
      OBVIOUS
    <3> QED
      BY <1>2, <1>3, <1>9, <3>1 DEF WaitsFor
  <2>2. Order[m] \in Nat /\ Order[t] \in Nat
    BY <1>4, <1>9
  <2>3. CASE Order[m] < Order[Current]
    <3>1. m \notin Callers
      BY <1>5, <2>1, <2>3
    <3>2. \A j \in k + 1..Len(frames) : Order[m] < Order[Caller(j)]
      <4>1. \A j \in k + 1..Len(frames) : j \in k + 1..n \/ j = n + 1
        BY <1>1, RunningCall
      <4> QED
        BY <1>3, <2>1, <2>3, <4>1
    <3>3. WaitsFor(m, k)
      BY <1>9, <2>1, <3>1, <3>2 DEF WaitsFor
    <3>4. lowLinks[Caller(k)] <= Order[t]
      BY <1>3, <1>9, <3>3 DEF LowLinksCover
    <3> QED
      BY <1>6, <2>2, <3>4
  <2>4. CASE ~(Order[m] < Order[Current])
    <3>1. k = n
      <4>1. ASSUME k # n PROVE FALSE
        <5>1. n \in k + 1..n /\ n \in 1..Len(frames) - 1
          BY <1>1, <4>1, RunningCall
        <5>2. Order[m] < Order[Caller(n)] /\ Order[Caller(n)] < Order[Current]
          BY <2>1, <5>1, RunningCall
        <5>3. Order[Caller(n)] \in Nat
          BY <1>3, <1>4, <5>1 DEF Structure, CallersInOrder, Callers
        <5> QED
          BY <1>5, <2>2, <2>4, <5>2, <5>3
      <4> QED
        BY <4>1
    <3>2. lowLinks[Current] <= Order[t]
      <4>1. CASE m = Current
        BY <1>3, <1>7, <1>9, <4>1 DEF LowLinksCover
      <4>2. CASE m # Current
        <5>1. m \notin Callers /\ Order[Caller(n + 1)] < Order[m]
          BY <1>3, <1>4, <1>5, <1>9, <2>1, <2>2, <2>4, <4>2
        <5>2. \A j \in n + 1 + 1..Len(frames) : FALSE
          BY <1>1, RunningCall
        <5>3. WaitsFor(m, n + 1)
          BY <1>9, <5>1, <5>2 DEF WaitsFor
        <5> QED
          BY <1>3, <1>9, <5>3 DEF LowLinksCover
      <4> QED
        BY <4>1, <4>2
    <3> QED
      BY <1>5, <1>6, <2>2, <3>1, <3>2
  <2> QED
    BY <2>3, <2>4
<1>10. \A m : RuntimeTargets(m)' = RuntimeTargets(m)
  BY DEF RuntimeTargets, RuntimePlaces
<1> QED
  BY <1>2, <1>3, <1>8, <1>9, <1>10 DEF LowLinksCover

\* Returning with the module still on the stack keeps what low links cover.
LEMMA LeaveKeepsOrder ==
  ASSUME Structure, OrderInvariant, LeaveOnStack
  PROVE  OrderInvariant'
<1>1. /\ frames # <<>> /\ ~AtRequest /\ Return(Current)
      /\ UNCHANGED <<requests, visited, stack, groups>>
  BY DEF LeaveOnStack, input
<1>2. FollowedAreVisited'
  BY <1>1, ReturnKeepsFollowed
<1>3. ToSet(stack)' \subseteq ToSet(stack)
  BY <1>1
<1>4. LowLinksCover'
  BY <1>1, <1>3, ReturnKeepsCover
<1>5. \A m : RuntimeTargets(m)' = RuntimeTargets(m)
  BY <1>1 DEF RuntimeTargets, RuntimePlaces
<1>6. GroupsDependencyFirst'
  BY <1>1, <1>5 DEF OrderInvariant, GroupsDependencyFirst, DependencyFirst
<1> QED
  BY <1>2, <1>4, <1>6 DEF OrderInvariant

\* What is popped requests only what is popped with it or was grouped before:
\* a module further down the stack would have lowered the low link.
LEMMA PoppedIsClosed ==
  ASSUME Structure, OrderInvariant, CloseGroup, NEW m \in ToSet(Popped(Current))
  PROVE  RuntimeTargets(m) \subseteq Scheduled(groups) \cup ToSet(Popped(Current))
<1>1. /\ frames # <<>> /\ ~AtRequest
      /\ stack' = SubSeq(stack, 1, Len(stack) - Len(Popped(Current)))
  BY DEF CloseGroup
<1>2. lowLinks[Current] = Order[Current] /\ Order[Current] \in Nat
  <2>1. Current \in Modules /\ Current \in ToSet(visited)
    BY <1>1, RunningCall
  <2> QED
    BY <2>1, Positions DEF CloseGroup, Order, Structure, TraversalTypes
<1>3. PICK n \in Nat \ {0} : n = Len(frames)
  BY <1>1, RunningCall
<1>4. n \in 1..Len(frames) /\ Current = Caller(n) /\ Followed(n) = RuntimeTargets(Current)
  BY <1>1, <1>3, RunningCall, RunningCallFollowed
<1>5. /\ \A x : x \in ToSet(Popped(Current)) <=> x \in ToSet(stack) /\ Order[x] >= Order[Current]
      /\ m \in ToSet(stack) /\ m \in ToSet(visited) /\ Order[m] >= Order[Current]
  BY <1>1, ClosingEffects DEF Structure, StackInOrder
<1>6. RuntimeTargets(m) \subseteq ToSet(visited) /\ \A t \in RuntimeTargets(m) \cap ToSet(stack) : Order[Current] <= Order[t]
  <2>1. CASE m = Current
    BY <1>2, <1>4, <2>1 DEF OrderInvariant, FollowedAreVisited, LowLinksCover
  <2>2. CASE m # Current
    <3>1. Order[m] # Order[Current] /\ Order[m] \in Nat
      <4>1. \A x \in ToSet(visited) : Order[x] \in 1..Len(visited) /\ visited[Order[x]] = x
        BY Positions DEF Structure, TraversalTypes
      <4>2. Current \in ToSet(visited)
        BY <1>1, RunningCall
      <4> QED
        BY <1>5, <2>2, <4>1, <4>2
    <3>2. m \notin Callers
      BY <1>1, <1>2, <1>5, <3>1, RunningCall
    <3>3. \A j \in n + 1..Len(frames) : FALSE
      BY <1>3
    <3>4. WaitsFor(m, n)
      BY <1>2, <1>4, <1>5, <3>1, <3>2, <3>3 DEF WaitsFor
    <3> QED
      BY <1>2, <1>4, <1>5, <3>2, <3>4 DEF OrderInvariant, FollowedAreVisited, LowLinksCover
  <2> QED
    BY <2>1, <2>2
<1>7. ToSet(visited) = ToSet(stack) \cup Scheduled(groups)
  BY DEF Structure, StackOrGroups
<1>8. \A t \in ToSet(stack) : Order[t] \in Nat
  BY Positions DEF Structure, StackInOrder, TraversalTypes
<1> QED
  BY <1>2, <1>5, <1>6, <1>7, <1>8

\* Closing a group keeps the order of the groups.
LEMMA CloseKeepsOrder ==
  ASSUME Structure, OrderInvariant, CloseGroup
  PROVE  OrderInvariant'
<1>1. /\ frames # <<>> /\ ~AtRequest /\ Return(Current) /\ UNCHANGED <<requests, visited>>
      /\ stack' = SubSeq(stack, 1, Len(stack) - Len(Popped(Current)))
  BY DEF CloseGroup, input
<1>2. FollowedAreVisited'
  BY <1>1, ReturnKeepsFollowed
<1>3. ToSet(stack)' \subseteq ToSet(stack)
  BY <1>1, ClosingEffects
<1>4. LowLinksCover'
  BY <1>1, <1>3, ReturnKeepsCover
<1>5. \A m : RuntimeTargets(m)' = RuntimeTargets(m)
  BY <1>1 DEF RuntimeTargets, RuntimePlaces
<1>6. /\ groups' \in GroupList /\ Len(groups) \in Nat /\ Len(groups') = Len(groups) + 1
      /\ \A k \in 1..Len(groups) : groups'[k] = groups[k]
      /\ Members(groups'[Len(groups) + 1]) = ToSet(Popped(Current))
      /\ Scheduled(groups') = Scheduled(groups) \cup ToSet(Popped(Current))
  BY GroupEffects
<1>7. groups \in GroupList
  BY DEF Structure, TraversalTypes
<1>8. ASSUME NEW k \in 1..Len(groups'), NEW m \in Members(groups'[k])
      PROVE  RuntimeTargets(m) \subseteq Scheduled(SubSeq(groups', 1, k))
  <2>1. CASE k \in 1..Len(groups)
    <3>1. SubSeq(groups', 1, k) = SubSeq(groups, 1, k)
      <4>1. k \in 0..Len(groups) /\ k \in 0..Len(groups')
        BY <1>6, <2>1
      <4>2. /\ SubSeq(groups, 1, k) \in GroupList /\ Len(SubSeq(groups, 1, k)) = k
            /\ \A i \in 1..k : SubSeq(groups, 1, k)[i] = groups[i]
        BY <1>7, <4>1, Prefix DEF GroupList
      <4>3. /\ SubSeq(groups', 1, k) \in GroupList /\ Len(SubSeq(groups', 1, k)) = k
            /\ \A i \in 1..k : SubSeq(groups', 1, k)[i] = groups'[i]
        BY <1>6, <4>1, Prefix DEF GroupList
      <4>4. \A i \in 1..k : groups'[i] = groups[i]
        BY <1>6, <2>1
      <4> QED
        BY <4>2, <4>3, <4>4, SeqEqual DEF GroupList
    <3> QED
      BY <1>6, <1>8, <2>1, <3>1 DEF OrderInvariant, GroupsDependencyFirst, DependencyFirst
  <2>2. CASE k = Len(groups) + 1
    <3>1. SubSeq(groups', 1, k) = groups'
      BY <1>6, <2>2, SubSeqFull DEF GroupList
    <3> QED
      BY <1>6, <1>8, <2>2, <3>1, PoppedIsClosed
  <2> QED
    BY <1>6, <2>1, <2>2
<1>9. GroupsDependencyFirst'
  BY <1>5, <1>8 DEF GroupsDependencyFirst, DependencyFirst
<1> QED
  BY <1>2, <1>4, <1>9 DEF OrderInvariant

\* The order holds of nothing visited.
LEMMA InitOrder == Init => OrderInvariant
<1> SUFFICES ASSUME Init PROVE OrderInvariant
  OBVIOUS
<1>1. visited = <<>> /\ frames = <<>> /\ groups = <<>>
  BY DEF Init
<1>2. ToSet(visited) = {} /\ 1..Len(frames) = {} /\ 1..Len(groups) = {}
  BY <1>1 DEF ToSet
<1> QED
  BY <1>2 DEF OrderInvariant, FollowedAreVisited, LowLinksCover, GroupsDependencyFirst, DependencyFirst

\* A step that leaves the traversal alone keeps the order.
LEMMA QuietKeepsOrder ==
  ASSUME OrderInvariant, UNCHANGED <<requests, visited, lowLinks, stack, frames, groups>>
  PROVE  OrderInvariant'
<1> USE DEF OrderInvariant
<1>1. Order' = Order /\ Callers' = Callers
  BY DEF Order, Index, Callers, Caller
<1>2. \A m : RuntimeTargets(m)' = RuntimeTargets(m)
  BY DEF RuntimeTargets, RuntimePlaces
<1>3. \A k : Followed(k)' = Followed(k) /\ Caller(k)' = Caller(k)
  BY DEF Followed, FollowedBefore, Caller, RuntimePlaces
<1>4. \A m, k : WaitsFor(m, k)' = WaitsFor(m, k)
  BY <1>1 DEF WaitsFor, Caller
<1>5. FollowedAreVisited'
  BY <1>1, <1>2, <1>3 DEF FollowedAreVisited
<1>6. LowLinksCover'
  BY <1>1, <1>2, <1>3, <1>4 DEF LowLinksCover
<1>7. GroupsDependencyFirst'
  BY <1>2 DEF GroupsDependencyFirst, DependencyFirst
<1> QED
  BY <1>5, <1>6, <1>7

\* Every step keeps the order.
LEMMA NextOrder == Structure /\ OrderInvariant /\ [Next]_vars => OrderInvariant'
<1> SUFFICES ASSUME Structure, OrderInvariant, [Next]_vars PROVE OrderInvariant'
  OBVIOUS
<1> USE DEF input, traversal
<1>2. CASE VisitEntry
  <2>1. CASE Contains(visited, entries[position])
    BY <1>2, <2>1, QuietKeepsOrder DEF VisitEntry
  <2>2. CASE ~Contains(visited, entries[position])
    <3>1. entries[position] \in Modules /\ entries[position] \notin ToSet(visited)
      BY <1>2, <2>2, EntryInRange, ElementsOf DEF VisitEntry, Structure, TraversalTypes
    <3> QED
      BY <1>2, <2>2, <3>1, OpenKeepsOrder DEF VisitEntry
  <2> QED
    BY <2>1, <2>2
<1>3. CASE VisitDependency
  <2>1. Dependency \in Modules /\ Dependency \notin ToSet(visited)
    BY <1>3, NextDependency, ElementsOf DEF VisitDependency, Structure, TraversalTypes
  <2> QED
    BY <1>3, <2>1, OpenKeepsOrder DEF VisitDependency
<1>4. CASE RevisitDependency
  BY <1>4, RevisitKeepsOrder
<1>5. CASE CloseGroup
  BY <1>5, CloseKeepsOrder
<1>6. CASE LeaveOnStack
  BY <1>6, LeaveKeepsOrder
<1>7. CASE AssertReachability
  BY <1>7, QuietKeepsOrder DEF AssertReachability
<1>8. CASE PlanModules
  BY <1>8, QuietKeepsOrder DEF PlanModules
<1>9. ASSUME NEW selection \in SUBSET Modules, Project(selection) PROVE OrderInvariant'
  BY <1>9, QuietKeepsOrder DEF Project
<1>10. CASE UNCHANGED vars
  BY <1>10, QuietKeepsOrder DEF vars
<1> QED
  BY <1>2, <1>3, <1>4, <1>5, <1>6, <1>7, <1>8, <1>9, <1>10 DEF Next

\* What low links cover, and that modules behind a finished visit have had all
\* their requests followed.
THEOREM OrderHolds == Spec => []OrderInvariant
<1>1. Structure /\ OrderInvariant /\ [Next]_vars => OrderInvariant'
  BY NextOrder
<1> QED
  BY InitOrder, <1>1, StructureHolds, PTL DEF Spec

\* In every module graph a dependency is grouped with its importer or before it,
\* at every moment of the traversal.
THEOREM DependenciesFirst == Spec => []GroupsDependencyFirst
<1>1. OrderInvariant => GroupsDependencyFirst
  BY DEF OrderInvariant
<1> QED
  BY <1>1, OrderHolds, PTL

-----------------------------------------------------------------------------
(* Groups are the strongly connected components *)

\* The targets of runtime requests are modules.
LEMMA TargetsAreModules ==
  ASSUME requests \in [Modules -> Seq(Request)], NEW m \in Modules
  PROVE  RuntimeTargets(m) \subseteq Modules
<1> SUFFICES ASSUME NEW k \in RuntimePlaces(m) PROVE requests[m][k].target \in Modules
  BY DEF RuntimeTargets
<1>1. requests[m] \in Seq(Request) /\ k \in 1..Len(requests[m])
  BY DEF RuntimePlaces
<1>2. requests[m][k] \in Request
  BY <1>1, ElementOfSeq
<1> QED
  BY <1>2 DEF Request

\* What evaluates what: reflexive, closed under requests, transitive, least.
LEMMA EvaluatesItself ==
  ASSUME NEW S \in SUBSET Modules
  PROVE  S \subseteq Evaluates(S)
BY DEF Evaluates, Closure

\* What is evaluated has its requests evaluated.
LEMMA EvaluatesRequests ==
  ASSUME requests \in [Modules -> Seq(Request)],
         NEW S, NEW m \in Evaluates(S), NEW t \in RuntimeTargets(m)
  PROVE  t \in Evaluates(S)
<1>1. t \in Modules
  BY TargetsAreModules DEF Evaluates, Closure
<1> QED
  BY <1>1 DEF Evaluates, Closure

\* A set that is closed under requests holds all it evaluates.
LEMMA EvaluatesWithin ==
  ASSUME NEW S, NEW X \in SUBSET Modules, S \subseteq X, \A n \in X : RuntimeTargets(n) \subseteq X
  PROVE  Evaluates(S) \subseteq X
BY DEF Evaluates, Closure

\* What an evaluated module evaluates is evaluated.
LEMMA EvaluatesThrough ==
  ASSUME requests \in [Modules -> Seq(Request)],
         NEW S, NEW m \in Evaluates(S), NEW n \in Evaluates({m})
  PROVE  n \in Evaluates(S)
<1>1. Evaluates(S) \in SUBSET Modules
  BY DEF Evaluates, Closure
<1>2. \A x \in Evaluates(S) : RuntimeTargets(x) \subseteq Evaluates(S)
  BY EvaluatesRequests
<1> QED
  BY <1>1, <1>2, EvaluatesWithin

\* What evaluates what depends on the requests alone.
LEMMA SameEvaluates ==
  ASSUME requests' = requests
  PROVE  /\ \A m : RuntimeTargets(m)' = RuntimeTargets(m)
         /\ \A S : Evaluates(S)' = Evaluates(S)
<1>1. \A m : RuntimeTargets(m)' = RuntimeTargets(m)
  BY DEF RuntimeTargets, RuntimePlaces
<1> QED
  BY <1>1 DEF Evaluates, Closure

\* The low link of a module on the stack is the index of one it leads to.
LowLinksReached ==
  \A m \in ToSet(stack) : \E n \in ToSet(stack) : Order[n] = lowLinks[m] /\ n \in Evaluates({m})

\* Each module on the stack leads back to a call that was opened before it, or
\* for it, ...
LeadsBack ==
  \A m \in ToSet(stack) : \E k \in 1..Len(frames) :
    Caller(k) \in Evaluates({m}) /\ Order[Caller(k)] <= Order[m]

\* ... and each open call leads to all that is on the stack above it.
CallersReach ==
  \A k \in 1..Len(frames) : \A m \in ToSet(stack) :
    Order[Caller(k)] <= Order[m] => m \in Evaluates({Caller(k)})

GroupsConnected ==
  \A k \in 1..Len(groups) : \A m, n \in Members(groups[k]) : n \in Evaluates({m})

ReachInvariant ==
  /\ LowLinksReached
  /\ LeadsBack
  /\ CallersReach
  /\ GroupsConnected

\* What the four parts need of the structure.
LEMMA OnStack ==
  ASSUME Structure
  PROVE  /\ requests \in [Modules -> Seq(Request)] /\ lowLinks \in [Modules -> Nat]
         /\ ToSet(stack) \subseteq ToSet(visited) /\ ToSet(visited) \subseteq Modules
         /\ \A m \in ToSet(visited) : Order[m] \in Nat /\ lowLinks[m] <= Order[m]
         /\ \A m, n \in ToSet(visited) : Order[m] = Order[n] => m = n
         /\ \A k \in 1..Len(frames) : Caller(k) \in ToSet(stack) /\ Caller(k) \in ToSet(visited)
         /\ Len(frames) \in Nat
<1> USE DEF Structure
<1>1. /\ requests \in [Modules -> Seq(Request)] /\ lowLinks \in [Modules -> Nat]
      /\ Len(frames) \in Nat
  BY DEF TraversalTypes
<1>2. ToSet(stack) \subseteq ToSet(visited) /\ ToSet(visited) \subseteq Modules
  BY ElementsOf DEF StackInOrder, TraversalTypes
<1>3. \A m \in ToSet(visited) : Order[m] \in 1..Len(visited) /\ visited[Order[m]] = m
  BY Positions DEF TraversalTypes
<1>4. \A m \in ToSet(visited) : Order[m] \in Nat /\ lowLinks[m] <= Order[m]
  BY <1>3 DEF LowLinksInRange
<1>5. \A m, n \in ToSet(visited) : Order[m] = Order[n] => m = n
  BY <1>3
<1>6. \A k \in 1..Len(frames) : Caller(k) \in ToSet(stack)
  BY DEF CallersInOrder, Callers
<1> QED
  BY <1>1, <1>2, <1>4, <1>5, <1>6

\* Entering a visit keeps what leads where.
LEMMA OpenKeepsReach ==
  ASSUME Structure, ReachInvariant, NEW x \in Modules, x \notin ToSet(visited), Open(x),
         UNCHANGED <<requests, groups>>, frames = <<>> \/ (AtRequest /\ x = Dependency)
  PROVE  ReachInvariant'
<1> USE DEF ReachInvariant
<1>1. /\ ToSet(stack)' = ToSet(stack) \cup {x}
      /\ \A m \in ToSet(visited) : Order'[m] = Order[m] /\ Order[m] < Len(visited) + 1
      /\ Order'[x] = Len(visited) + 1
      /\ \A m \in Modules \ {x} : lowLinks'[m] = lowLinks[m]
      /\ lowLinks'[x] = Len(visited) + 1
  BY OpenEffects
<1>2. /\ \A k \in 1..Len(frames) : Caller(k)' = Caller(k)
      /\ \A k : k = Len(frames) + 1 => Caller(k)' = x
      /\ Len(frames') = Len(frames) + 1
  <2>1. /\ \A k \in 1..Len(frames) : frames'[k] = frames[k]
        /\ frames'[Len(frames) + 1] = [module |-> x, next |-> PlaceFrom(x, 1)]
        /\ Len(frames') = Len(frames) + 1
    BY OpenEffects
  <2> QED
    BY <2>1 DEF Caller
<1>3. PICK n \in Nat : n = Len(frames)
  BY OnStack
<1>4. /\ \A k \in 1..n : Caller(k)' = Caller(k) /\ Caller(k) \in ToSet(stack)
      /\ Caller(n + 1)' = x /\ Len(frames') = n + 1
      /\ \A k \in 1..n + 1 : k \in 1..n \/ k = n + 1
      /\ 1..n \subseteq 1..n + 1 /\ n + 1 \in 1..n + 1
  BY <1>2, <1>3, OnStack
<1>5. \A S : Evaluates(S)' = Evaluates(S)
  BY SameEvaluates
<1>6. x \in Evaluates({x})
  BY EvaluatesItself
<1>7. \A m \in ToSet(stack) : /\ m \in ToSet(visited) /\ m \in Modules \ {x} /\ Order'[m] = Order[m]
                              /\ lowLinks'[m] = lowLinks[m] /\ Order[m] \in Nat /\ Order[m] < Order'[x]
  BY <1>1, OnStack
<1>8. LowLinksReached'
  <2>1. ASSUME NEW m \in ToSet(stack)'
        PROVE  \E l \in ToSet(stack)' : Order'[l] = lowLinks'[m] /\ l \in Evaluates({m})
    <3>1. CASE m = x
      BY <1>1, <1>6, <3>1
    <3>2. CASE m \in ToSet(stack)
      BY <1>1, <1>7, <3>2 DEF LowLinksReached
    <3> QED
      BY <1>1, <3>1, <3>2
  <2> QED
    BY <1>5, <2>1 DEF LowLinksReached
<1>9. LeadsBack'
  <2>1. ASSUME NEW m \in ToSet(stack)'
        PROVE  \E k \in 1..n + 1 : Caller(k)' \in Evaluates({m}) /\ Order'[Caller(k)'] <= Order'[m]
    <3>1. CASE m = x
      <4>1. Order'[x] <= Order'[x]
        BY <1>1 DEF Structure, TraversalTypes
      <4> QED
        BY <1>4, <1>6, <3>1, <4>1
    <3>2. CASE m \in ToSet(stack)
      <4>1. PICK k \in 1..n : Caller(k) \in Evaluates({m}) /\ Order[Caller(k)] <= Order[m]
        BY <1>3, <3>2 DEF LeadsBack
      <4> QED
        BY <1>4, <1>7, <3>2, <4>1
    <3> QED
      BY <1>1, <3>1, <3>2
  <2> QED
    BY <1>4, <1>5, <2>1 DEF LeadsBack
<1>10. CallersReach'
  <2>1. ASSUME NEW k \in 1..n + 1, NEW m \in ToSet(stack)', Order'[Caller(k)'] <= Order'[m]
        PROVE  m \in Evaluates({Caller(k)'})
    <3>1. CASE k = n + 1
      <4>1. m = x
        <5>1. ASSUME m \in ToSet(stack) PROVE FALSE
          <6>1. Order'[m] < Order'[x] /\ Order'[m] \in Nat
            BY <1>7, <5>1
          <6>2. Order'[x] <= Order'[m]
            BY <1>4, <2>1, <3>1
          <6>3. Order'[x] \in Nat
            BY <1>1 DEF Structure, TraversalTypes
          <6> QED
            BY <6>1, <6>2, <6>3
        <5> QED
          BY <1>1, <5>1
      <4> QED
        BY <1>4, <1>6, <3>1, <4>1
    <3>2. CASE k \in 1..n /\ m \in ToSet(stack)
      BY <1>3, <1>4, <1>7, <2>1, <3>2 DEF CallersReach
    <3>3. CASE k \in 1..n /\ m = x
      <4>1. AtRequest /\ x = Dependency /\ frames # <<>>
        BY <1>3, <3>3, NextDependency
      <4>2. Current = Caller(n) /\ Current \in ToSet(stack) /\ x \in RuntimeTargets(Current)
        BY <1>3, <4>1, RunningCall, NextDependency
      <4>3. Order[Caller(k)] <= Order[Current]
        BY <1>3, <3>3, <4>1, RunningCall DEF Callers
      <4>4. Current \in Evaluates({Caller(k)})
        BY <1>3, <3>3, <4>2, <4>3 DEF CallersReach
      <4>5. x \in Evaluates({Caller(k)})
        BY <4>2, <4>4, OnStack, EvaluatesRequests
      <4> QED
        BY <1>4, <3>3, <4>5
    <3> QED
      BY <1>1, <1>4, <3>1, <3>2, <3>3
  <2>2. \A k : Evaluates({Caller(k)'}) = Evaluates({Caller(k)})'
    BY <1>5 DEF Evaluates, Closure, RuntimeTargets, RuntimePlaces, Caller
  <2> QED
    BY <1>4, <2>1, <2>2 DEF CallersReach
<1>11. GroupsConnected'
  BY <1>5 DEF GroupsConnected
<1> QED
  BY <1>8, <1>9, <1>10, <1>11

\* A request to a module on the stack lowers the low link to that module's index.
LEMMA RevisitKeepsReach ==
  ASSUME Structure, ReachInvariant, RevisitDependency
  PROVE  ReachInvariant'
<1> USE DEF ReachInvariant
<1>1. /\ AtRequest /\ frames # <<>> /\ Dependency \in ToSet(visited) /\ Dependency \in Modules
      /\ UNCHANGED <<requests, visited, stack, groups>>
      /\ frames' = Advanced(frames)
  BY NextDependency, ElementsOf DEF RevisitDependency, Structure, TraversalTypes, input
<1>2. Order' = Order
  BY <1>1 DEF Order, Index
<1>3. /\ Len(frames') = Len(frames)
      /\ \A k \in 1..Len(frames) : Caller(k)' = Caller(k)
  <2>1. frames' = Advanced(SubSeq(frames, 1, Len(frames)))
    BY <1>1, SubSeqFull DEF Structure, TraversalTypes
  <2>2. Len(frames') = Len(frames) /\ \A k \in 1..Len(frames) : frames'[k].module = frames[k].module
    BY <1>1, <2>1, AdvanceEffects
  <2> QED
    BY <2>2 DEF Caller
<1>4. /\ \A m : RuntimeTargets(m)' = RuntimeTargets(m)
      /\ \A S : Evaluates(S)' = Evaluates(S)
  BY <1>1, SameEvaluates
<1>5. \A k \in 1..Len(frames) : Evaluates({Caller(k)})' = Evaluates({Caller(k)})
  <2> TAKE k \in 1..Len(frames)
  <2>1. Evaluates({Caller(k)'}) = Evaluates({Caller(k)})'
    BY <1>1 DEF Evaluates, Closure, RuntimeTargets, RuntimePlaces, Caller
  <2> QED
    BY <1>3, <2>1
<1>6. Current \in Modules /\ Current \in ToSet(stack) /\ Dependency \in Evaluates({Current})
  <2>1. Current \in Modules /\ Current \in ToSet(stack)
    BY <1>1, RunningCall
  <2>2. Dependency \in RuntimeTargets(Current)
    BY <1>1, NextDependency
  <2>3. Current \in Evaluates({Current})
    BY <2>1, EvaluatesItself
  <2> QED
    BY <2>1, <2>2, <2>3, OnStack, EvaluatesRequests
<1>7. Index(Dependency) = Order[Dependency] /\ Order[Dependency] \in Nat
  BY <1>1, OnStack DEF Order
<1>8. \A m \in ToSet(stack) :
        \/ lowLinks'[m] = lowLinks[m]
        \/ m = Current /\ lowLinks'[m] = Order[Dependency] /\ Dependency \in ToSet(stack)
  <2>1. lowLinks' = lowLinks \/ ( /\ Dependency \in ToSet(stack)
                                  /\ lowLinks' = [lowLinks EXCEPT ![Current] = Lower(lowLinks[Current], Order[Dependency])])
    BY <1>6, <1>7, OnStack, ElementsOf DEF RevisitDependency, Structure, TraversalTypes
  <2>2. Lower(lowLinks[Current], Order[Dependency]) \in {lowLinks[Current], Order[Dependency]}
    BY DEF Lower
  <2> QED
    BY <1>6, <2>1, <2>2, OnStack
<1>9. LowLinksReached'
  <2>1. ASSUME NEW m \in ToSet(stack)
        PROVE  \E l \in ToSet(stack) : Order[l] = lowLinks'[m] /\ l \in Evaluates({m})
    BY <1>6, <1>8, <2>1 DEF LowLinksReached
  <2> QED
    BY <1>1, <1>2, <1>4, <2>1 DEF LowLinksReached
<1>10. LeadsBack'
  BY <1>1, <1>2, <1>3, <1>4 DEF LeadsBack
<1>11. CallersReach'
  BY <1>1, <1>2, <1>3, <1>5 DEF CallersReach
<1>12. GroupsConnected'
  BY <1>1, <1>4 DEF GroupsConnected, Members
<1> QED
  BY <1>9, <1>10, <1>11, <1>12

\* What a return leaves of the open calls, and what they evaluate.
LEMMA ReachAfterReturn ==
  ASSUME Structure, ReachInvariant, frames # <<>>, Return(Current), UNCHANGED <<requests, visited>>,
         NEW n \in Nat, n = Len(frames) - 1
  PROVE  /\ Order' = Order /\ Len(frames') = n
         /\ \A S : Evaluates(S)' = Evaluates(S)
         /\ Current \in ToSet(stack) /\ Current = Caller(n + 1)
         /\ 1..Len(frames) = 1..n + 1
         /\ \A k \in 1..n : /\ k \in 1..n + 1 /\ Caller(k)' = Caller(k) /\ Caller(k) \in ToSet(stack)
                            /\ Order[Caller(k)] < Order[Current]
                            /\ Current \in Evaluates({Caller(k)})
         /\ \A m \in ToSet(stack) :
              \/ lowLinks'[m] = lowLinks[m]
              \/ n > 0 /\ m = Caller(n) /\ lowLinks'[m] = Lower(lowLinks[m], lowLinks[Current])
<1>1. Order' = Order
  BY DEF Order, Index
<1>2. \A S : Evaluates(S)' = Evaluates(S)
  BY SameEvaluates
<1>3. Current \in ToSet(stack) /\ Len(frames) = n + 1
  BY RunningCall
<1>4. /\ Len(frames') = n /\ Current = Caller(n + 1)
      /\ \A k \in 1..n : k \in 1..Len(frames) /\ Caller(k)' = Caller(k)
      /\ n > 0 => /\ lowLinks'[Caller(n)] = Lower(lowLinks[Caller(n)], lowLinks[Current])
                  /\ \A m \in Modules : m # Caller(n) => lowLinks'[m] = lowLinks[m]
  BY CallsAfterReturn
<1>5. ASSUME NEW k \in 1..n
      PROVE  /\ k \in 1..n + 1 /\ Caller(k) \in ToSet(stack) /\ Order[Caller(k)] < Order[Current]
             /\ Current \in Evaluates({Caller(k)})
  <2>1. k \in 1..Len(frames) /\ k \in 1..n + 1 /\ k \in 1..Len(frames) - 1
    BY <1>3
  <2>2. Caller(k) \in ToSet(stack) /\ Order[Caller(k)] < Order[Current]
    BY <2>1, OnStack, RunningCall
  <2>3. Order[Caller(k)] \in Nat /\ Order[Current] \in Nat
    BY <1>3, <2>2, OnStack
  <2>4. Order[Caller(k)] <= Order[Current]
    BY <2>2, <2>3
  <2> QED
    BY <1>3, <2>1, <2>2, <2>4 DEF ReachInvariant, CallersReach
<1>6. ASSUME NEW m \in ToSet(stack)
      PROVE  \/ lowLinks'[m] = lowLinks[m]
             \/ n > 0 /\ m = Caller(n) /\ lowLinks'[m] = Lower(lowLinks[m], lowLinks[Current])
  <2>1. CASE n = 0
    BY <1>3, <2>1, ReturnEffects
  <2>2. CASE n > 0
    BY <1>4, <1>6, <2>2, OnStack
  <2>3. n = 0 \/ n > 0
    OBVIOUS
  <2> QED
    BY <2>1, <2>2, <2>3, Zenon
<1> QED
  BY <1>1, <1>2, <1>3, <1>4, <1>5, <1>6

\* The module that returns reaches one that was visited before it, and that one
\* leads back to a call that is still open.
LEMMA LeaveKeepsReach ==
  ASSUME Structure, ReachInvariant, LeaveOnStack
  PROVE  ReachInvariant'
<1> USE DEF ReachInvariant
<1>1. /\ frames # <<>> /\ Return(Current)
      /\ UNCHANGED <<requests, visited, stack, groups>>
      /\ lowLinks[Current] # Index(Current)
  BY DEF LeaveOnStack, input
<1>2. PICK n \in Nat : n = Len(frames) - 1
  BY <1>1, RunningCall
<1>3. /\ Order' = Order /\ Len(frames') = n
      /\ \A S : Evaluates(S)' = Evaluates(S)
      /\ Current \in ToSet(stack) /\ Current = Caller(n + 1) /\ 1..Len(frames) = 1..n + 1
      /\ \A k \in 1..n : /\ k \in 1..n + 1 /\ Caller(k)' = Caller(k) /\ Caller(k) \in ToSet(stack)
                         /\ Order[Caller(k)] < Order[Current]
                         /\ Current \in Evaluates({Caller(k)})
      /\ \A m \in ToSet(stack) :
           \/ lowLinks'[m] = lowLinks[m]
           \/ n > 0 /\ m = Caller(n) /\ lowLinks'[m] = Lower(lowLinks[m], lowLinks[Current])
  BY <1>1, <1>2, ReachAfterReturn
<1>4. PICK low \in ToSet(stack) : Order[low] = lowLinks[Current] /\ low \in Evaluates({Current})
  BY <1>3 DEF LowLinksReached
<1>5. Order[low] < Order[Current] /\ Order[low] \in Nat /\ Order[Current] \in Nat
  <2>1. Current \in Modules /\ Current \in ToSet(visited)
    BY <1>1, RunningCall
  <2>2. Order[Current] # lowLinks[Current]
    BY <1>1, <2>1 DEF Order
  <2>3. Order[low] \in Nat /\ Order[Current] \in Nat /\ lowLinks[Current] <= Order[Current]
    BY <1>4, <2>1, OnStack
  <2> QED
    BY <1>4, <2>2, <2>3
<1>6. LowLinksReached'
  <2>1. ASSUME NEW m \in ToSet(stack)
        PROVE  \E l \in ToSet(stack) : Order[l] = lowLinks'[m] /\ l \in Evaluates({m})
    <3>1. CASE lowLinks'[m] = lowLinks[m]
      BY <3>1 DEF LowLinksReached
    <3>2. CASE lowLinks'[m] # lowLinks[m]
      <4>1. n > 0 /\ m = Caller(n) /\ lowLinks'[m] = lowLinks[Current]
        BY <1>3, <3>2 DEF Lower
      <4>2. n \in 1..n
        BY <4>1
      <4>3. Current \in Evaluates({m})
        BY <1>3, <4>1, <4>2
      <4>4. low \in Evaluates({m})
        BY <1>4, <4>3, OnStack, EvaluatesThrough
      <4> QED
        BY <1>4, <4>1, <4>4
    <3> QED
      BY <3>1, <3>2
  <2> QED
    BY <1>1, <1>3, <2>1 DEF LowLinksReached
<1>7. LeadsBack'
  <2>1. \A k \in 1..n + 1 : k \in 1..n \/ k = n + 1
    OBVIOUS
  <2>2. PICK b \in 1..n + 1 : Caller(b) \in Evaluates({low}) /\ Order[Caller(b)] <= Order[low]
    BY <1>3 DEF LeadsBack
  <2>3. b \in 1..n
    <3>1. ASSUME b = n + 1 PROVE FALSE
      <4>1. Order[Current] <= Order[low]
        BY <1>3, <2>2, <3>1
      <4> QED
        BY <1>5, <4>1
    <3> QED
      BY <2>1, <3>1
  <2>4. Caller(b) \in Evaluates({Current})
    BY <1>4, <2>2, OnStack, EvaluatesThrough
  <2>5. ASSUME NEW m \in ToSet(stack)
        PROVE  \E k \in 1..n : Caller(k) \in Evaluates({m}) /\ Order[Caller(k)] <= Order[m]
    <3>1. PICK k \in 1..n + 1 : Caller(k) \in Evaluates({m}) /\ Order[Caller(k)] <= Order[m]
      BY <1>3 DEF LeadsBack
    <3>2. CASE k \in 1..n
      BY <3>1, <3>2
    <3>3. CASE k = n + 1
      <4>1. Current \in Evaluates({m}) /\ Order[Current] <= Order[m]
        BY <1>3, <3>1, <3>3
      <4>2. Caller(b) \in Evaluates({m})
        BY <2>4, <4>1, OnStack, EvaluatesThrough
      <4>3. Order[Caller(b)] <= Order[m]
        <5>1. Order[Caller(b)] \in Nat /\ Order[m] \in Nat
          BY <1>3, <2>3, OnStack
        <5>2. Order[Caller(b)] < Order[Current]
          BY <1>3, <2>3
        <5> QED
          BY <1>5, <4>1, <5>1, <5>2
      <4> QED
        BY <2>3, <4>2, <4>3
    <3> QED
      BY <2>1, <3>2, <3>3
  <2> QED
    BY <1>1, <1>3, <2>5 DEF LeadsBack
<1>8. CallersReach'
  <2>1. \A k \in 1..n : Evaluates({Caller(k)})' = Evaluates({Caller(k)})
    <3> TAKE k \in 1..n
    <3>1. Evaluates({Caller(k)'}) = Evaluates({Caller(k)})'
      BY <1>1 DEF Evaluates, Closure, RuntimeTargets, RuntimePlaces, Caller
    <3> QED
      BY <1>3, <3>1
  <2> QED
    BY <1>1, <1>3, <2>1 DEF CallersReach
<1>9. GroupsConnected'
  BY <1>1, <1>3 DEF GroupsConnected, Members
<1> QED
  BY <1>6, <1>7, <1>8, <1>9

\* What is popped leads to the module that returns and is reached from it.
LEMMA CloseKeepsReach ==
  ASSUME Structure, ReachInvariant, CloseGroup
  PROVE  ReachInvariant'
<1> USE DEF ReachInvariant
<1>1. /\ frames # <<>> /\ Return(Current)
      /\ UNCHANGED <<requests, visited>>
      /\ lowLinks[Current] = Index(Current)
      /\ stack' = SubSeq(stack, 1, Len(stack) - Len(Popped(Current)))
  BY DEF CloseGroup, input
<1>2. PICK n \in Nat : n = Len(frames) - 1
  <2>1. Len(frames) \in Nat \ {0}
    BY <1>1, RunningCall
  <2> QED
    BY <2>1
<1>3. /\ Order' = Order /\ Len(frames') = n
      /\ \A S : Evaluates(S)' = Evaluates(S)
      /\ Current \in ToSet(stack) /\ Current = Caller(n + 1) /\ 1..Len(frames) = 1..n + 1
      /\ \A k \in 1..n : /\ k \in 1..n + 1 /\ Caller(k)' = Caller(k) /\ Caller(k) \in ToSet(stack)
                         /\ Order[Caller(k)] < Order[Current]
                         /\ Current \in Evaluates({Caller(k)})
      /\ \A m \in ToSet(stack) :
           \/ lowLinks'[m] = lowLinks[m]
           \/ n > 0 /\ m = Caller(n) /\ lowLinks'[m] = Lower(lowLinks[m], lowLinks[Current])
  BY <1>1, <1>2, ReachAfterReturn
<1>4. /\ \A m : m \in ToSet(stack)' <=> m \in ToSet(stack) /\ Order[m] < Order[Current]
      /\ \A m : m \in ToSet(Popped(Current)) <=> m \in ToSet(stack) /\ Order[m] >= Order[Current]
  BY <1>1, ClosingEffects
<1>5. /\ \A m \in ToSet(stack) : Order[m] \in Nat /\ lowLinks[m] \in Nat /\ lowLinks[m] <= Order[m]
      /\ lowLinks[Current] = Order[Current]
  <2>1. Current \in Modules
    BY <1>1, RunningCall
  <2> QED
    BY <1>1, <2>1, OnStack DEF Order
<1>6. LowLinksReached'
  <2>1. ASSUME NEW m \in ToSet(stack)'
        PROVE  \E l \in ToSet(stack)' : Order[l] = lowLinks'[m] /\ l \in Evaluates({m})
    <3>1. lowLinks'[m] = lowLinks[m]
      <4>1. lowLinks[m] \in Nat /\ lowLinks[Current] \in Nat /\ lowLinks[m] < lowLinks[Current]
        BY <1>3, <1>4, <1>5
      <4>2. Lower(lowLinks[m], lowLinks[Current]) = lowLinks[m]
        BY <4>1 DEF Lower
      <4> QED
        BY <1>3, <1>4, <4>2
    <3>2. PICK l \in ToSet(stack) : Order[l] = lowLinks[m] /\ l \in Evaluates({m})
      BY <1>4 DEF LowLinksReached
    <3>3. Order[l] < Order[Current]
      BY <1>3, <1>4, <1>5, <3>2
    <3> QED
      BY <1>4, <3>1, <3>2, <3>3
  <2> QED
    BY <1>3, <2>1 DEF LowLinksReached
<1>7. \A k \in 1..n + 1 : k \in 1..n \/ k = n + 1
  OBVIOUS
<1>8. LeadsBack'
  <2>1. ASSUME NEW m \in ToSet(stack)'
        PROVE  \E k \in 1..n : Caller(k) \in Evaluates({m}) /\ Order[Caller(k)] <= Order[m]
    <3>1. PICK k \in 1..n + 1 : Caller(k) \in Evaluates({m}) /\ Order[Caller(k)] <= Order[m]
      BY <1>3, <1>4 DEF LeadsBack
    <3>2. k # n + 1
      <4>1. Order[m] < Order[Current] /\ Order[m] \in Nat /\ Order[Current] \in Nat
        BY <1>3, <1>4, <1>5
      <4> QED
        BY <1>3, <3>1, <4>1
    <3> QED
      BY <1>7, <3>1, <3>2
  <2> QED
    BY <1>3, <2>1 DEF LeadsBack
<1>9. CallersReach'
  <2>1. \A k \in 1..n : Evaluates({Caller(k)})' = Evaluates({Caller(k)})
    <3> TAKE k \in 1..n
    <3>1. Evaluates({Caller(k)'}) = Evaluates({Caller(k)})'
      BY <1>1 DEF Evaluates, Closure, RuntimeTargets, RuntimePlaces, Caller
    <3> QED
      BY <1>3, <3>1
  <2> QED
    BY <1>3, <1>4, <2>1 DEF CallersReach
<1>10. ASSUME NEW m \in ToSet(Popped(Current)), NEW l \in ToSet(Popped(Current))
       PROVE  l \in Evaluates({m})
  <2>1. l \in Evaluates({Current})
    BY <1>3, <1>4, <1>5 DEF CallersReach
  <2>2. PICK k \in 1..n + 1 : Caller(k) \in Evaluates({m})
    BY <1>3, <1>4 DEF LeadsBack
  <2>3. Current \in Evaluates({m})
    <3>1. CASE k = n + 1
      BY <1>3, <2>2, <3>1
    <3>2. CASE k \in 1..n
      <4>1. Current \in Evaluates({Caller(k)})
        BY <1>3, <3>2
      <4> QED
        BY <2>2, <4>1, OnStack, EvaluatesThrough
    <3> QED
      BY <1>7, <3>1, <3>2
  <2> QED
    BY <2>1, <2>3, OnStack, EvaluatesThrough
<1>11. GroupsConnected'
  <2>1. /\ Len(groups) \in Nat /\ Len(groups') = Len(groups) + 1
        /\ \A k \in 1..Len(groups) : groups'[k] = groups[k]
        /\ Members(groups'[Len(groups) + 1]) = ToSet(Popped(Current))
    BY GroupEffects
  <2>2. \A k \in 1..Len(groups') : k \in 1..Len(groups) \/ k = Len(groups) + 1
    BY <2>1
  <2>3. ASSUME NEW k \in 1..Len(groups'), NEW m \in Members(groups'[k]), NEW l \in Members(groups'[k])
        PROVE  l \in Evaluates({m})
    BY <1>10, <2>1, <2>2, <2>3 DEF GroupsConnected
  <2>4. \A k : Members(groups[k])' = Members(groups'[k])
    BY DEF Members
  <2> QED
    BY <1>3, <2>3, <2>4 DEF GroupsConnected
<1> QED
  BY <1>6, <1>8, <1>9, <1>11

\* A step that leaves the traversal alone keeps what leads where.
LEMMA QuietKeepsReach ==
  ASSUME ReachInvariant, UNCHANGED <<requests, visited, lowLinks, stack, frames, groups>>
  PROVE  ReachInvariant'
<1> USE DEF ReachInvariant
<1>1. Order' = Order /\ \A k : Caller(k)' = Caller(k)
  BY DEF Order, Index, Caller
<1>2. \A S : Evaluates(S)' = Evaluates(S)
  BY SameEvaluates
<1>3. LowLinksReached'
  BY <1>1, <1>2 DEF LowLinksReached
<1>4. LeadsBack'
  BY <1>1, <1>2 DEF LeadsBack
<1>5. CallersReach'
  <2>1. \A k : Evaluates({Caller(k)})' = Evaluates({Caller(k)})
    BY DEF Evaluates, Closure, RuntimeTargets, RuntimePlaces, Caller
  <2> QED
    BY <1>1, <2>1 DEF CallersReach
<1>6. GroupsConnected'
  BY <1>2 DEF GroupsConnected, Members
<1> QED
  BY <1>3, <1>4, <1>5, <1>6

\* Nothing on the stack leads anywhere.
LEMMA InitReach == Init => ReachInvariant
<1> SUFFICES ASSUME Init PROVE ReachInvariant
  OBVIOUS
<1>1. stack = <<>> /\ frames = <<>> /\ groups = <<>>
  BY DEF Init
<1>2. ToSet(stack) = {} /\ 1..Len(frames) = {} /\ 1..Len(groups) = {}
  BY <1>1 DEF ToSet
<1> QED
  BY <1>2 DEF ReachInvariant, LowLinksReached, LeadsBack, CallersReach, GroupsConnected

\* Every step keeps what leads where.
LEMMA NextReach == Structure /\ ReachInvariant /\ [Next]_vars => ReachInvariant'
<1> SUFFICES ASSUME Structure, ReachInvariant, [Next]_vars PROVE ReachInvariant'
  OBVIOUS
<1> USE DEF input, traversal
<1>2. CASE VisitEntry
  <2>1. CASE Contains(visited, entries[position])
    BY <1>2, <2>1, QuietKeepsReach DEF VisitEntry
  <2>2. CASE ~Contains(visited, entries[position])
    <3>1. entries[position] \in Modules /\ entries[position] \notin ToSet(visited)
      BY <1>2, <2>2, EntryInRange, ElementsOf DEF VisitEntry, Structure, TraversalTypes
    <3> QED
      BY <1>2, <2>2, <3>1, OpenKeepsReach DEF VisitEntry
  <2> QED
    BY <2>1, <2>2
<1>3. CASE VisitDependency
  <2>1. Dependency \in Modules /\ Dependency \notin ToSet(visited)
    BY <1>3, NextDependency, ElementsOf DEF VisitDependency, Structure, TraversalTypes
  <2> QED
    BY <1>3, <2>1, OpenKeepsReach DEF VisitDependency
<1>4. CASE RevisitDependency
  BY <1>4, RevisitKeepsReach
<1>5. CASE CloseGroup
  BY <1>5, CloseKeepsReach
<1>6. CASE LeaveOnStack
  BY <1>6, LeaveKeepsReach
<1>7. CASE AssertReachability
  BY <1>7, QuietKeepsReach DEF AssertReachability
<1>8. CASE PlanModules
  BY <1>8, QuietKeepsReach DEF PlanModules
<1>9. ASSUME NEW selection \in SUBSET Modules, Project(selection) PROVE ReachInvariant'
  BY <1>9, QuietKeepsReach DEF Project
<1>10. CASE UNCHANGED vars
  BY <1>10, QuietKeepsReach DEF vars
<1> QED
  BY <1>2, <1>3, <1>4, <1>5, <1>6, <1>7, <1>8, <1>9, <1>10 DEF Next

\* What waits on the stack leads back to an open call and is reached from it,
\* and the modules of a completed group reach each other.
THEOREM ReachHolds == Spec => []ReachInvariant
<1>1. Structure /\ ReachInvariant /\ [Next]_vars => ReachInvariant'
  BY NextReach
<1> QED
  BY InitReach, <1>1, StructureHolds, PTL DEF Spec

\* In every module graph, what waits on the component stack belongs to a
\* component that is still open.
THEOREM StackOpen == Spec => []StackIsOpen
<1>1. Structure /\ ReachInvariant => StackIsOpen
  <2> SUFFICES ASSUME Structure, ReachInvariant PROVE StackIsOpen
    OBVIOUS
  <2>1. \A m \in ToSet(stack) : Order[m] = Index(m)
    BY OnStack DEF Order
  <2>2. ASSUME NEW m \in ToSet(stack)
        PROVE  \E k \in 1..Len(frames) : Caller(k) \in Evaluates({m}) /\ Index(Caller(k)) <= Index(m)
    BY <2>1, OnStack DEF ReachInvariant, LeadsBack
  <2> QED
    BY <2>2 DEF Structure, StackOrGroups, StackIsOpen, Caller
<1> QED
  BY <1>1, StructureHolds, ReachHolds, PTL

-----------------------------------------------------------------------------
(* The groups cover what the entries evaluate *)

\* Groups have modules, each once, and no module in common.
GroupsDisjoint ==
  \A k \in 1..Len(groups) :
    /\ Members(groups[k]) # {}
    /\ IsInjective(groups[k].modules)
    /\ \A l \in 1..Len(groups) : Members(groups[k]) \cap Members(groups[l]) # {} => k = l

\* The loop over entries has visited those behind it, and only what they evaluate.
EntriesVisited ==
  /\ \A i \in 1..Len(entries) : i < position => entries[i] \in ToSet(visited)
  /\ ToSet(visited) \subseteq Evaluates(ToSet(entries))

TraversalEnded == phase # "grouping" => frames = <<>> /\ position > Len(entries)

CoverInvariant ==
  /\ GroupsDisjoint
  /\ EntriesVisited
  /\ TraversalEnded

\* One more visited module that the entries evaluate.
LEMMA VisitKeepsCover ==
  ASSUME Structure, CoverInvariant, NEW x \in Evaluates(ToSet(entries)), x \notin ToSet(visited), Open(x),
         UNCHANGED <<requests, entries, groups, phase>>, phase = "grouping",
         position' = position \/ (position' = position + 1 /\ entries[position] = x)
  PROVE  CoverInvariant'
<1> USE DEF CoverInvariant
<1>1. x \in Modules
  BY DEF Evaluates, Closure
<1>2. ToSet(visited)' = ToSet(visited) \cup {x}
  BY <1>1, OpenEffects
<1>3. Evaluates(ToSet(entries))' = Evaluates(ToSet(entries))
  BY DEF Evaluates, Closure, RuntimeTargets, RuntimePlaces, ToSet
<1>4. \A i \in 1..Len(entries) : i < position' => entries[i] \in ToSet(visited) \cup {x}
  <2> TAKE i \in 1..Len(entries)
  <2> HAVE i < position'
  <2>1. position \in Nat
    BY DEF Structure, TraversalTypes
  <2>2. i < position \/ (i = position /\ entries[position] = x)
    BY <2>1
  <2> QED
    BY <2>2 DEF EntriesVisited
<1>5. EntriesVisited'
  BY <1>2, <1>3, <1>4 DEF EntriesVisited
<1>6. GroupsDisjoint'
  BY DEF GroupsDisjoint, Members
<1> QED
  BY <1>5, <1>6 DEF TraversalEnded

\* A step that visits nothing keeps the cover.
LEMMA QuietKeepsCover ==
  ASSUME CoverInvariant, UNCHANGED <<requests, entries, position, visited, groups>>, TraversalEnded'
  PROVE  CoverInvariant'
<1>1. Evaluates(ToSet(entries))' = Evaluates(ToSet(entries))
  BY DEF Evaluates, Closure, RuntimeTargets, RuntimePlaces, ToSet
<1>2. EntriesVisited'
  BY <1>1 DEF CoverInvariant, EntriesVisited
<1>3. GroupsDisjoint'
  BY DEF CoverInvariant, GroupsDisjoint, Members
<1> QED
  BY <1>2, <1>3 DEF CoverInvariant

\* What is popped is in no earlier group.
LEMMA CloseKeepsCoverage ==
  ASSUME Structure, CoverInvariant, CloseGroup
  PROVE  CoverInvariant'
<1> USE DEF CoverInvariant
<1>1. /\ frames # <<>> /\ UNCHANGED <<requests, entries, position, visited>> /\ phase' = "grouping"
      /\ stack' = SubSeq(stack, 1, Len(stack) - Len(Popped(Current)))
  BY DEF CloseGroup, input
<1>2. /\ IsInjective(Popped(Current))
      /\ ToSet(Popped(Current)) = {m \in ToSet(stack) : Order[m] >= Order[Current]}
  BY <1>1, ClosingEffects
<1>3. Current \in ToSet(Popped(Current))
  <2>1. Current \in ToSet(stack) /\ Order[Current] \in Nat
    BY <1>1, RunningCall, OnStack
  <2> QED
    BY <1>2, <2>1
<1>4. /\ Len(groups) \in Nat /\ Len(groups') = Len(groups) + 1
      /\ \A k \in 1..Len(groups) : groups'[k] = groups[k]
      /\ groups'[Len(groups) + 1].modules = Popped(Current)
      /\ Members(groups'[Len(groups) + 1]) = ToSet(Popped(Current))
  BY GroupEffects
<1>5. \A k \in 1..Len(groups) : Members(groups[k]) \cap ToSet(Popped(Current)) = {}
  <2>1. ToSet(Popped(Current)) \cap Scheduled(groups) = {}
    BY <1>2 DEF Structure, StackOrGroups
  <2>2. \A k \in 1..Len(groups) : Members(groups[k]) \subseteq Scheduled(groups)
    BY InGroups DEF Structure, TraversalTypes
  <2> QED
    BY <2>1, <2>2
<1>6. \A k \in 1..Len(groups') : k \in 1..Len(groups) \/ k = Len(groups) + 1
  BY <1>4
<1>7. ASSUME NEW k \in 1..Len(groups')
      PROVE  /\ Members(groups'[k]) # {}
             /\ IsInjective(groups'[k].modules)
             /\ \A l \in 1..Len(groups') : Members(groups'[k]) \cap Members(groups'[l]) # {} => k = l
  <2>1. Members(groups'[k]) # {} /\ IsInjective(groups'[k].modules)
    <3>1. CASE k \in 1..Len(groups)
      BY <1>4, <3>1 DEF GroupsDisjoint
    <3>2. CASE k = Len(groups) + 1
      BY <1>2, <1>3, <1>4, <3>2
    <3> QED
      BY <1>6, <3>1, <3>2
  <2>2. ASSUME NEW l \in 1..Len(groups'), Members(groups'[k]) \cap Members(groups'[l]) # {}
        PROVE  k = l
    <3>1. CASE k \in 1..Len(groups) /\ l \in 1..Len(groups)
      BY <1>4, <2>2, <3>1 DEF GroupsDisjoint
    <3>2. CASE k = Len(groups) + 1 /\ l \in 1..Len(groups)
      BY <1>4, <1>5, <2>2, <3>2
    <3>3. CASE k \in 1..Len(groups) /\ l = Len(groups) + 1
      BY <1>4, <1>5, <2>2, <3>3
    <3> QED
      BY <1>6, <3>1, <3>2, <3>3
  <2> QED
    BY <2>1, <2>2
<1>8. \A k : Members(groups[k])' = Members(groups'[k])
  BY DEF Members
<1>9. GroupsDisjoint'
  BY <1>7, <1>8 DEF GroupsDisjoint
<1>10. Evaluates(ToSet(entries))' = Evaluates(ToSet(entries))
  BY <1>1 DEF Evaluates, Closure, RuntimeTargets, RuntimePlaces, ToSet
<1>11. EntriesVisited'
  BY <1>1, <1>10 DEF EntriesVisited
<1> QED
  BY <1>1, <1>9, <1>11 DEF TraversalEnded

\* The cover holds of nothing visited.
LEMMA InitCover == Init => CoverInvariant
<1> SUFFICES ASSUME Init PROVE CoverInvariant
  OBVIOUS
<1>1. visited = <<>> /\ groups = <<>> /\ position = 1 /\ phase = "grouping"
  BY DEF Init
<1>2. ToSet(visited) = {} /\ 1..Len(groups) = {}
  BY <1>1 DEF ToSet
<1>3. \A i \in 1..Len(entries) : ~(i < position)
  BY <1>1
<1> QED
  BY <1>1, <1>2, <1>3 DEF CoverInvariant, GroupsDisjoint, EntriesVisited, TraversalEnded

\* Every step keeps the cover.
LEMMA NextCover == Structure /\ CoverInvariant /\ [Next]_vars => CoverInvariant'
<1> SUFFICES ASSUME Structure, CoverInvariant, [Next]_vars PROVE CoverInvariant'
  OBVIOUS
<1> USE DEF input, traversal
<1>1. ToSet(entries) \subseteq Modules /\ visited \in Seq(Modules) /\ position \in Nat
  BY ElementsOf DEF Structure, TraversalTypes
<1>2. CASE VisitEntry
  <2>1. entries[position] \in Modules /\ entries[position] \in Evaluates(ToSet(entries))
    BY <1>1, <1>2, EntryInRange, EvaluatesItself DEF VisitEntry
  <2>2. CASE Contains(visited, entries[position])
    <3>1. /\ UNCHANGED <<requests, entries, visited, groups, phase>> /\ position' = position + 1
          /\ phase = "grouping"
      BY <1>2, <2>2 DEF VisitEntry
    <3>2. entries[position] \in ToSet(visited)
      BY <1>1, <2>2, ElementsOf
    <3>3. Evaluates(ToSet(entries))' = Evaluates(ToSet(entries))
      BY <3>1 DEF Evaluates, Closure, RuntimeTargets, RuntimePlaces, ToSet
    <3>4. \A i \in 1..Len(entries) : i < position' => entries[i] \in ToSet(visited)
      <4> TAKE i \in 1..Len(entries)
      <4> HAVE i < position'
      <4>1. i < position \/ i = position
        BY <1>1, <3>1
      <4> QED
        BY <3>2, <4>1 DEF CoverInvariant, EntriesVisited
    <3>5. EntriesVisited'
      BY <3>1, <3>3, <3>4 DEF CoverInvariant, EntriesVisited
    <3>6. GroupsDisjoint'
      BY <3>1 DEF CoverInvariant, GroupsDisjoint, Members
    <3> QED
      BY <3>1, <3>5, <3>6 DEF CoverInvariant, TraversalEnded
  <2>3. CASE ~Contains(visited, entries[position])
    <3>1. entries[position] \notin ToSet(visited)
      BY <1>1, <2>3, ElementsOf
    <3> QED
      BY <1>2, <2>1, <2>3, <3>1, VisitKeepsCover DEF VisitEntry
  <2> QED
    BY <2>2, <2>3
<1>3. CASE VisitDependency
  <2>1. AtRequest /\ ~Contains(visited, Dependency)
    BY <1>3 DEF VisitDependency
  <2>2. Dependency \notin ToSet(visited) /\ Dependency \in RuntimeTargets(Current) /\ frames # <<>>
    BY <1>1, <2>1, NextDependency, ElementsOf
  <2>3. Current \in Evaluates(ToSet(entries))
    BY <2>2, RunningCall DEF CoverInvariant, EntriesVisited
  <2>4. Dependency \in Evaluates(ToSet(entries))
    BY <2>2, <2>3, OnStack, EvaluatesRequests
  <2> QED
    BY <1>3, <2>2, <2>4, VisitKeepsCover DEF VisitDependency
<1>4. CASE RevisitDependency
  BY <1>4, QuietKeepsCover DEF RevisitDependency, TraversalEnded
<1>5. CASE CloseGroup
  BY <1>5, CloseKeepsCoverage
<1>6. CASE LeaveOnStack
  BY <1>6, QuietKeepsCover DEF LeaveOnStack, TraversalEnded
<1>7. CASE AssertReachability
  BY <1>7, QuietKeepsCover DEF AssertReachability, TraversalEnded
<1>8. CASE PlanModules
  BY <1>8, QuietKeepsCover DEF PlanModules, TraversalEnded, CoverInvariant
<1>9. ASSUME NEW selection \in SUBSET Modules, Project(selection) PROVE CoverInvariant'
  BY <1>9, QuietKeepsCover DEF Project, TraversalEnded, CoverInvariant
<1>10. CASE UNCHANGED vars
  BY <1>10, QuietKeepsCover DEF vars, TraversalEnded, CoverInvariant
<1> QED
  BY <1>2, <1>3, <1>4, <1>5, <1>6, <1>7, <1>8, <1>9, <1>10 DEF Next

\* The groups have no module in common or twice, the entries behind the loop
\* are visited, and nothing is visited that the entries do not evaluate.
THEOREM CoverHolds == Spec => []CoverInvariant
<1>1. Structure /\ CoverInvariant /\ [Next]_vars => CoverInvariant'
  BY NextCover
<1> QED
  BY InitCover, <1>1, StructureHolds, PTL DEF Spec

\* When the traversal has ended, what was visited is what the entries evaluate,
\* and all of it is in groups.
LEMMA AllGrouped ==
  ASSUME Structure, OrderInvariant, ReachInvariant, CoverInvariant, Grouped
  PROVE  Scheduled(groups) = Evaluates(ToSet(entries))
<1>1. frames = <<>> /\ position > Len(entries)
  BY DEF CoverInvariant, TraversalEnded, Grouped
<1>2. ToSet(stack) = {} /\ Callers = {}
  BY <1>1 DEF ReachInvariant, LeadsBack, Callers
<1>3. Scheduled(groups) = ToSet(visited)
  BY <1>2 DEF Structure, StackOrGroups
<1>4. ToSet(entries) \subseteq ToSet(visited)
  <2>1. entries \in Seq(Modules) /\ position \in Nat
    BY DEF Structure, TraversalTypes
  <2>2. \A i \in 1..Len(entries) : i < position
    BY <1>1, <2>1
  <2> QED
    BY <2>1, <2>2, ElementsOf DEF CoverInvariant, EntriesVisited
<1>5. \A m \in ToSet(visited) : RuntimeTargets(m) \subseteq ToSet(visited)
  BY <1>2 DEF OrderInvariant, FollowedAreVisited
<1>6. Evaluates(ToSet(entries)) \subseteq ToSet(visited)
  BY <1>4, <1>5, OnStack, EvaluatesWithin
<1> QED
  BY <1>3, <1>6 DEF CoverInvariant, EntriesVisited

\* What a group's modules evaluate is in that group or in an earlier one.
LEMMA EvaluatedEarlier ==
  ASSUME Structure, GroupsDependencyFirst, NEW k \in 1..Len(groups), NEW m \in Members(groups[k]),
         NEW n \in Evaluates({m})
  PROVE  \E j \in 1..k : n \in Members(groups[j])
<1> DEFINE X == {x \in Modules : \E j \in 1..k : x \in Members(groups[j])}
<1>1. groups \in GroupList /\ Len(groups) \in Nat /\ k \in Nat \ {0}
  BY DEF Structure, TraversalTypes, GroupList
<1>2. \A j \in 1..k : j \in 1..Len(groups) /\ Members(groups[j]) \subseteq Modules
  BY <1>1, InGroups
<1>3. ASSUME NEW j \in 1..k, NEW x \in Scheduled(SubSeq(groups, 1, j)) PROVE x \in X
  <2>1. j \in 0..Len(groups) /\ j \in Nat
    BY <1>1
  <2>2. /\ SubSeq(groups, 1, j) \in GroupList /\ Len(SubSeq(groups, 1, j)) = j
        /\ \A i \in 1..j : SubSeq(groups, 1, j)[i] = groups[i]
    BY <1>1, <2>1, Prefix DEF GroupList
  <2>3. PICK i \in 1..j : x \in Members(SubSeq(groups, 1, j)[i])
    BY <1>3, <2>2, InGroups
  <2>4. i \in 1..k /\ x \in Members(groups[i])
    BY <2>1, <2>2, <2>3
  <2> QED
    BY <1>2, <2>4
<1>4. \A x \in X : RuntimeTargets(x) \subseteq X
  <2> TAKE x \in X
  <2>1. PICK j \in 1..k : x \in Members(groups[j])
    OBVIOUS
  <2>2. RuntimeTargets(x) \subseteq Scheduled(SubSeq(groups, 1, j))
    BY <1>2, <2>1 DEF GroupsDependencyFirst, DependencyFirst
  <2> QED
    BY <1>3, <2>1, <2>2
<1>5. {m} \subseteq X
  <2>1. k \in 1..k
    BY <1>1
  <2> QED
    BY <1>2, <2>1
<1>6. Evaluates({m}) \subseteq X
  BY <1>4, <1>5, EvaluatesWithin
<1> QED
  BY <1>6

\* A group is the component of each of its modules: a module that reaches it
\* and is reached from it is in no other group.
LEMMA GroupIsComponent ==
  ASSUME Structure, OrderInvariant, ReachInvariant, CoverInvariant,
         NEW k \in 1..Len(groups), NEW m \in Members(groups[k])
  PROVE  Members(groups[k]) = Component(m)
<1>1. Members(groups[k]) \subseteq Component(m)
  BY DEF ReachInvariant, GroupsConnected, Component
<1>2. ASSUME NEW n \in Component(m) PROVE n \in Members(groups[k])
  <2>1. n \in Evaluates({m}) /\ m \in Evaluates({n})
    BY <1>2 DEF Component
  <2>2. PICK j \in 1..k : n \in Members(groups[j])
    BY <2>1, EvaluatedEarlier DEF OrderInvariant
  <2>3. Len(groups) \in Nat /\ k \in Nat /\ j \in Nat /\ j <= k
    BY DEF Structure, TraversalTypes, GroupList
  <2>4. j \in 1..Len(groups)
    BY <2>3
  <2>5. PICK i \in 1..j : m \in Members(groups[i])
    BY <2>1, <2>2, <2>4, EvaluatedEarlier DEF OrderInvariant
  <2>6. i \in 1..Len(groups)
    BY <2>3
  <2>7. i = k
    BY <2>5, <2>6 DEF CoverInvariant, GroupsDisjoint
  <2>8. j = k
    BY <2>3, <2>7
  <2> QED
    BY <2>2, <2>8
<1> QED
  BY <1>1, <1>2

\* For every module graph and every list of entries: the groups are the strongly
\* connected components of what the entries evaluate, each once.
THEOREM ComponentsGrouped == Spec => []GroupsAreComponents
<1>1. Structure /\ OrderInvariant /\ ReachInvariant /\ CoverInvariant => GroupsAreComponents
  <2> SUFFICES ASSUME Structure, OrderInvariant, ReachInvariant, CoverInvariant, Grouped
               PROVE  /\ {Members(g) : g \in ToSet(groups)} = {Component(m) : m \in Evaluates(ToSet(entries))}
                      /\ \A k \in 1..Len(groups) :
                           /\ IsInjective(groups[k].modules)
                           /\ \A l \in 1..Len(groups) :
                                Members(groups[k]) \cap Members(groups[l]) # {} => k = l
    BY DEF GroupsAreComponents
  <2>1. groups \in GroupList
    BY DEF Structure, TraversalTypes
  <2>2. \A m : m \in Evaluates(ToSet(entries)) <=> \E k \in 1..Len(groups) : m \in Members(groups[k])
    BY <2>1, AllGrouped, InGroups
  <2>3. \A g : g \in ToSet(groups) <=> \E k \in 1..Len(groups) : groups[k] = g
    BY <2>1, ElementsOf DEF GroupList
  <2>4. \A k \in 1..Len(groups) : \E m \in Evaluates(ToSet(entries)) : Members(groups[k]) = Component(m)
    <3> TAKE k \in 1..Len(groups)
    <3>1. PICK m : m \in Members(groups[k])
      BY DEF CoverInvariant, GroupsDisjoint
    <3>2. m \in Evaluates(ToSet(entries))
      BY <2>2, <3>1
    <3> QED
      BY <3>1, <3>2, GroupIsComponent
  <2>5. \A m \in Evaluates(ToSet(entries)) : \E k \in 1..Len(groups) : Members(groups[k]) = Component(m)
    BY <2>2, GroupIsComponent
  <2>6. {Members(g) : g \in ToSet(groups)} = {Component(m) : m \in Evaluates(ToSet(entries))}
    BY <2>3, <2>4, <2>5
  <2> QED
    BY <2>6 DEF CoverInvariant, GroupsDisjoint
<1> QED
  BY <1>1, StructureHolds, OrderHolds, ReachHolds, CoverHolds, PTL

-----------------------------------------------------------------------------
(* The projection *)

\* Modules that are closed under their dependencies split no group.
LEMMA ClosedSplitsNothing ==
  ASSUME ReachInvariant, NEW S \in SUBSET Modules, \A m \in S : Targets(m) \subseteq S
  PROVE  ~SplitsGroup(S)
<1>1. \A m \in S : RuntimeTargets(m) \subseteq S
  <2>1. \A m : RuntimeTargets(m) \subseteq Targets(m)
    BY DEF RuntimeTargets, Targets, RuntimePlaces
  <2> QED
    BY <2>1
<1>2. ASSUME NEW k \in 1..Len(groups), NEW m \in Members(groups[k]) \cap S
      PROVE  Members(groups[k]) \subseteq S
  <2>1. Evaluates({m}) \subseteq S
    BY <1>1, <1>2, EvaluatesWithin
  <2> QED
    BY <2>1 DEF ReachInvariant, GroupsConnected
<1> QED
  BY <1>2 DEF SplitsGroup

\* The projection's modules are closed under their dependencies.
LEMMA ProjectedModulesClosed ==
  ASSUME requests \in [Modules -> Seq(Request)], NEW selection
  PROVE  /\ ProjectedModules(selection) \in SUBSET Modules
         /\ \A m \in ProjectedModules(selection) : Targets(m) \subseteq ProjectedModules(selection)
<1> DEFINE start == ToSet(ProjectedEntries(selection))
<1> HIDE DEF start
<1>1. ProjectedModules(selection) = Closure(start, Targets)
  BY DEF ProjectedModules, start
<1>2. \A m \in Modules : Targets(m) \subseteq Modules
  <2> SUFFICES ASSUME NEW m \in Modules, NEW k \in 1..Len(requests[m]) PROVE requests[m][k].target \in Modules
    BY DEF Targets
  <2>1. requests[m] \in Seq(Request)
    OBVIOUS
  <2>2. requests[m][k] \in Request
    BY <2>1, ElementOfSeq
  <2> QED
    BY <2>2 DEF Request
<1>3. \A m : m \in Closure(start, Targets) <=>
        /\ m \in Modules
        /\ \A X \in SUBSET Modules : start \subseteq X /\ (\A n \in X : Targets(n) \subseteq X) => m \in X
  BY DEF Closure
<1> QED
  BY <1>1, <1>2, <1>3

\* The projection throws for every selection that splits a component, because
\* it is not closed, and the check of its result never fails.
THEOREM SplitsAreOpen == Spec => []SplitSelectionsAreOpen
<1>1. ReachInvariant => \A S \in SUBSET Modules : SplitsGroup(S) => OpenSelection(S)
  BY ClosedSplitsNothing DEF OpenSelection
<1>2. Init => failure # "split-projection"
  BY DEF Init
<1>3. Structure /\ ReachInvariant /\ failure # "split-projection" /\ [Next]_vars
        => (failure # "split-projection")'
  <2> SUFFICES ASSUME Structure, ReachInvariant, failure # "split-projection", [Next]_vars
               PROVE  failure' # "split-projection"
    OBVIOUS
  <2>1. \A selection \in SUBSET Modules : Project(selection) => failure' # "split-projection"
    <3> TAKE selection \in SUBSET Modules
    <3>1. ~SplitsGroup(ProjectedModules(selection))
      BY ProjectedModulesClosed, ClosedSplitsNothing DEF Structure, TraversalTypes
    <3> QED
      BY <3>1 DEF Project, Fail
  <2>2. AssertReachability \/ PlanModules => failure' # "split-projection"
    BY DEF AssertReachability, PlanModules, Fail
  <2>3. VisitEntry \/ VisitDependency \/ RevisitDependency \/ CloseGroup \/ LeaveOnStack => failure' = failure
    BY DEF VisitEntry, VisitDependency, RevisitDependency, CloseGroup, LeaveOnStack
  <2> QED
    BY <2>1, <2>2, <2>3 DEF Next, vars
<1>4. Spec => [](failure # "split-projection")
  BY <1>2, <1>3, StructureHolds, ReachHolds, PTL DEF Spec
<1>5. ReachInvariant /\ failure # "split-projection" => SplitSelectionsAreOpen
  BY <1>1 DEF SplitSelectionsAreOpen
<1> QED
  BY <1>4, <1>5, ReachHolds, PTL

-----------------------------------------------------------------------------
(* What is projected *)

\* Finitely many places can be listed in their order, each once.
LEMMA InOrderListsAll ==
  ASSUME NEW P \in SUBSET Nat, IsFiniteSet(P)
  PROVE  /\ Cardinality(P) \in Nat
         /\ InOrder(P) \in [1..Cardinality(P) -> P]
         /\ \A i, j \in 1..Cardinality(P) : i < j => InOrder(P)[i] < InOrder(P)[j]
         /\ \A k \in P : \E i \in 1..Cardinality(P) : InOrder(P)[i] = k
<1>1. PICK n \in Nat : n = Cardinality(P)
  BY FS_CardinalityType
<1>2. IsFiniteSet(1..n) /\ Cardinality(1..n) = n
  <2>1. n = 0 \/ n > 0
    BY <1>1
  <2> QED
    BY <1>1, <2>1, FS_Interval
<1> DEFINE upTo(k) == {l \in P : l <= k}
           rank == [k \in P |-> Cardinality(upTo(k))]
<1>3. \A k \in P : rank[k] \in 1..n
  <2> TAKE k \in P
  <2>1. upTo(k) \in SUBSET P /\ k \in upTo(k)
    OBVIOUS
  <2> HIDE DEF upTo
  <2>2. IsFiniteSet(upTo(k)) /\ Cardinality(upTo(k)) <= n
    BY <1>1, <2>1, FS_Subset
  <2>3. Cardinality(upTo(k)) \in Nat /\ Cardinality(upTo(k)) # 0
    BY <2>1, <2>2, FS_CardinalityType, FS_EmptySet
  <2> QED
    BY <2>2, <2>3
<1>4. \A k, l \in P : k < l => rank[k] < rank[l]
  <2> SUFFICES ASSUME NEW k \in P, NEW l \in P, k < l PROVE rank[k] < rank[l]
    OBVIOUS
  <2>1. upTo(l) \in SUBSET P /\ upTo(k) \in SUBSET upTo(l) /\ l \in upTo(l) /\ l \notin upTo(k)
    <3>1. k \in Nat /\ l \in Nat
      OBVIOUS
    <3>2. \A j \in P : j <= k => j <= l
      <4> TAKE j \in P
      <4>1. j \in Nat
        OBVIOUS
      <4> QED
        BY <3>1, <4>1
    <3>3. l <= l /\ ~(l <= k)
      BY <3>1
    <3>4. upTo(k) \in SUBSET upTo(l)
      BY <3>2
    <3>5. l \in upTo(l) /\ l \notin upTo(k)
      BY <3>3
    <3> QED
      BY <3>4, <3>5
  <2>2. rank[k] = Cardinality(upTo(k)) /\ rank[l] = Cardinality(upTo(l)) /\ rank[k] \in Nat /\ rank[l] \in Nat
    BY <1>3
  <2> HIDE DEF upTo, rank
  <2>3. IsFiniteSet(upTo(l))
    BY <2>1, FS_Subset
  <2>4. Cardinality(upTo(k)) <= Cardinality(upTo(l)) /\ Cardinality(upTo(k)) # Cardinality(upTo(l))
    BY <2>1, <2>3, FS_Subset
  <2> QED
    BY <2>2, <2>4
<1>5. rank \in [P -> 1..n]
  BY <1>3
<1> HIDE DEF rank
<1>6. \A k, l \in P : rank[k] = rank[l] => k = l
  <2> SUFFICES ASSUME NEW k \in P, NEW l \in P, rank[k] = rank[l], k # l PROVE FALSE
    OBVIOUS
  <2>1. k < l \/ l < k
    OBVIOUS
  <2>2. rank[k] \in Nat /\ rank[l] \in Nat
    BY <1>5
  <2> QED
    BY <1>4, <2>1, <2>2
<1>7. rank \in Surjection(P, 1..n)
  <2>1. rank \in Injection(P, 1..n)
    BY <1>5, <1>6 DEF Injection, IsInjective
  <2> QED
    BY <1>1, <1>2, <2>1, FS_Injection
<1> DEFINE e == [i \in 1..n |-> CHOOSE k \in P : rank[k] = i]
<1>8. \A i \in 1..n : e[i] \in P /\ rank[e[i]] = i
  <2> TAKE i \in 1..n
  <2>1. \E k \in P : rank[k] = i
    BY <1>7 DEF Surjection
  <2> QED
    BY <2>1
<1>9. e \in [1..n -> P]
  BY <1>8
<1> HIDE DEF e
<1>10. \A i, j \in 1..n : i < j => e[i] < e[j]
  <2> SUFFICES ASSUME NEW i \in 1..n, NEW j \in 1..n, i < j, ~(e[i] < e[j]) PROVE FALSE
    OBVIOUS
  <2>1. e[i] \in P /\ e[j] \in P /\ e[i] \in Nat /\ e[j] \in Nat /\ rank[e[i]] = i /\ rank[e[j]] = j
    BY <1>8
  <2>2. e[j] < e[i] \/ e[j] = e[i]
    BY <2>1
  <2>3. j < i \/ j = i
    BY <1>4, <2>1, <2>2
  <2> QED
    BY <2>3
<1>11. PICK f : f = InOrder(P)
  OBVIOUS
<1>12. f \in [1..n -> P] /\ \A i, j \in DOMAIN f : i < j => f[i] < f[j]
  <2>1. \E g \in [1..n -> P] : \A i, j \in DOMAIN g : i < j => g[i] < g[j]
    BY <1>9, <1>10
  <2>2. f = CHOOSE g \in [1..n -> P] : \A i, j \in DOMAIN g : i < j => g[i] < g[j]
    BY <1>1, <1>11 DEF InOrder
  <2> QED
    BY <2>1, <2>2
<1>13. \A i, j \in 1..n : f[i] = f[j] => i = j
  <2> SUFFICES ASSUME NEW i \in 1..n, NEW j \in 1..n, f[i] = f[j], i # j PROVE FALSE
    OBVIOUS
  <2>1. i < j \/ j < i
    OBVIOUS
  <2>2. f[i] \in Nat /\ f[j] \in Nat /\ DOMAIN f = 1..n
    BY <1>12
  <2> QED
    BY <1>12, <2>1, <2>2
<1>14. f \in Surjection(1..n, P)
  <2>1. f \in Injection(1..n, P)
    BY <1>12, <1>13 DEF Injection, IsInjective
  <2> QED
    BY <1>1, <1>2, <2>1, FS_Injection
<1> QED
  BY <1>1, <1>11, <1>12, <1>14 DEF Surjection

\* What is selected of a list are its kept elements, in their order.
LEMMA SelectedInOrder ==
  ASSUME NEW S, NEW list \in Seq(S), NEW kept, NEW s, s = Selected(list, kept)
  PROVE  /\ s \in Seq(S)
         /\ \E e \in [1..Len(s) -> 1..Len(list)] :
              /\ \A i \in 1..Len(s) : s[i] = list[e[i]] /\ list[e[i]] \in kept
              /\ \A i, j \in 1..Len(s) : e[i] <= e[j] => i <= j
              /\ \A k \in 1..Len(list) : list[k] \in kept => \E i \in 1..Len(s) : e[i] = k
<1>1. PICK P : P = {k \in 1..Len(list) : list[k] \in kept}
  OBVIOUS
<1>2. P \in SUBSET Nat /\ P \in SUBSET (1..Len(list)) /\ Len(list) \in Nat
  BY <1>1
<1>3. IsFiniteSet(P)
  <2>1. IsFiniteSet(1..Len(list))
    BY <1>2, FS_Interval
  <2> QED
    BY <1>2, <2>1, FS_Subset
<1>4. PICK n, e : n \in Nat /\ n = Cardinality(P) /\ e = InOrder(P)
  BY <1>2, <1>3, InOrderListsAll
<1>5. /\ e \in [1..n -> P]
      /\ \A i, j \in 1..n : i < j => e[i] < e[j]
      /\ \A k \in P : \E i \in 1..n : e[i] = k
  BY <1>2, <1>3, <1>4, InOrderListsAll
<1>6. s = [i \in 1..n |-> list[e[i]]]
  <2>1. s = LET d == InOrder(P) IN [i \in DOMAIN d |-> list[d[i]]]
    BY <1>1 DEF Selected
  <2> QED
    BY <1>4, <1>5, <2>1
<1>7. \A i \in 1..n : e[i] \in 1..Len(list) /\ list[e[i]] \in kept /\ list[e[i]] \in S
  BY <1>1, <1>5
<1>8. s \in Seq(S) /\ Len(s) = n
  <2>1. n \in Nat
    BY <1>4
  <2> QED
    BY <1>6, <1>7, <2>1
<1>9. \A i, j \in 1..n : e[i] <= e[j] => i <= j
  <2> SUFFICES ASSUME NEW i \in 1..n, NEW j \in 1..n, e[i] <= e[j], ~(i <= j) PROVE FALSE
    OBVIOUS
  <2>1. j < i
    OBVIOUS
  <2>2. e[j] < e[i]
    BY <1>5, <2>1
  <2>3. e[i] \in Nat /\ e[j] \in Nat
    BY <1>2, <1>5
  <2> QED
    BY <2>2, <2>3
<1>10. \A k \in 1..Len(list) : list[k] \in kept => \E i \in 1..n : e[i] = k
  BY <1>1, <1>5
<1>11. e \in [1..n -> 1..Len(list)]
  BY <1>5, <1>7
<1>12. \A i \in 1..n : s[i] = list[e[i]]
  BY <1>6
<1> QED
  BY <1>7, <1>8, <1>9, <1>10, <1>11, <1>12

\* A projection lists entries of the plan and groups of the plan.
LEMMA ProjectionType ==
  ASSUME Structure, NEW selection
  PROVE  /\ ProjectedEntries(selection) \in Seq(Modules)
         /\ ToSet(ProjectedEntries(selection)) \subseteq ToSet(entries)
         /\ ProjectedGroups(selection) \in GroupList
         /\ ProjectedModules(selection) \in SUBSET Modules
         /\ ToSet(ProjectedEntries(selection)) \subseteq ProjectedModules(selection)
<1>1. entries \in Seq(Modules) /\ groups \in GroupList /\ requests \in [Modules -> Seq(Request)]
  BY DEF Structure, TraversalTypes
<1>2. PICK s : s = ProjectedEntries(selection)
  OBVIOUS
<1>3. s \in Seq(Modules) /\ \A i \in 1..Len(s) : \E k \in 1..Len(entries) : s[i] = entries[k]
  <2>1. s = Selected(entries, selection)
    BY <1>2 DEF ProjectedEntries
  <2>2. entries \in Seq(Modules)
    BY <1>1
  <2>3. s \in Seq(Modules)
    BY <2>1, <2>2, SelectedInOrder
  <2>4. PICK e \in [1..Len(s) -> 1..Len(entries)] :
          \A i \in 1..Len(s) : s[i] = entries[e[i]] /\ entries[e[i]] \in selection
    BY <2>1, <2>2, SelectedInOrder
  <2>5. \A i \in 1..Len(s) : e[i] \in 1..Len(entries)
    OBVIOUS
  <2> QED
    BY <2>3, <2>4, <2>5
<1>4. \A m : m \in ToSet(s) => m \in ToSet(entries)
  <2>1. \A m : m \in ToSet(s) <=> \E i \in 1..Len(s) : s[i] = m
    BY <1>3, ElementsOf
  <2>2. \A m : m \in ToSet(entries) <=> \E k \in 1..Len(entries) : entries[k] = m
    BY <1>1, ElementsOf
  <2> QED
    BY <1>3, <2>1, <2>2
<1>5. ProjectedGroups(selection) \in GroupList
  <2>1. PICK T : ProjectedGroups(selection) = Selected(groups, T)
    BY DEF ProjectedGroups
  <2> QED
    BY <1>1, <2>1, SelectedInOrder DEF GroupList
<1>6. ProjectedModules(selection) \in SUBSET Modules
  BY <1>1, ProjectedModulesClosed
<1>7. ToSet(s) \subseteq Modules
  BY <1>3, ElementsOf
<1>8. ToSet(s) \subseteq ProjectedModules(selection)
  BY <1>2, <1>7 DEF ProjectedModules, Closure
<1> QED
  BY <1>2, <1>3, <1>4, <1>5, <1>6, <1>8

\* The groups of a projection are those of the plan that its modules touch, in the
\* order of the plan, and none of them reaches out of these modules.
LEMMA ProjectionGroups ==
  ASSUME Structure, ReachInvariant, NEW selection
  PROVE  \E e \in [1..Len(ProjectedGroups(selection)) -> 1..Len(groups)] :
           /\ \A i \in 1..Len(ProjectedGroups(selection)) :
                /\ ProjectedGroups(selection)[i] = groups[e[i]]
                /\ Members(groups[e[i]]) \subseteq ProjectedModules(selection)
           /\ \A i, j \in 1..Len(ProjectedGroups(selection)) : e[i] <= e[j] => i <= j
           /\ \A k \in 1..Len(groups) : Members(groups[k]) \cap ProjectedModules(selection) # {} =>
                \E i \in 1..Len(ProjectedGroups(selection)) : e[i] = k
<1>1. groups \in GroupList /\ requests \in [Modules -> Seq(Request)]
  BY DEF Structure, TraversalTypes
<1>2. PICK p, M : p = ProjectedGroups(selection) /\ M = ProjectedModules(selection)
  OBVIOUS
<1>3. PICK T : T = {g \in ToSet(groups) : Members(g) \cap M # {}}
  OBVIOUS
<1>4. p = Selected(groups, T)
  BY <1>2, <1>3 DEF ProjectedGroups
<1>5. \A k \in 1..Len(groups) : groups[k] \in T <=> Members(groups[k]) \cap M # {}
  BY <1>1, <1>3, ElementsOf DEF GroupList
<1>6. M \in SUBSET Modules /\ ~SplitsGroup(M)
  BY <1>1, <1>2, ProjectedModulesClosed, ClosedSplitsNothing
<1>7. \A k \in 1..Len(groups) : Members(groups[k]) \cap M # {} => Members(groups[k]) \subseteq M
  BY <1>6 DEF SplitsGroup
<1>8. PICK e \in [1..Len(p) -> 1..Len(groups)] :
        /\ \A i \in 1..Len(p) : p[i] = groups[e[i]] /\ groups[e[i]] \in T
        /\ \A i, j \in 1..Len(p) : e[i] <= e[j] => i <= j
        /\ \A k \in 1..Len(groups) : groups[k] \in T => \E i \in 1..Len(p) : e[i] = k
  <2>1. PICK G : GroupList = Seq(G)
    BY DEF GroupList
  <2>2. groups \in Seq(G)
    BY <1>1, <2>1
  <2> QED
    BY <1>4, <2>2, SelectedInOrder
<1>9. \A i \in 1..Len(p) : Members(groups[e[i]]) \subseteq M
  BY <1>5, <1>7, <1>8
<1> QED
  BY <1>2, <1>5, <1>8, <1>9

\* The projection of a plan can be evaluated like the plan.
LEMMA ProjectionEvaluates ==
  ASSUME Structure, OrderInvariant, ReachInvariant, CoverInvariant, Grouped, NEW selection
  PROVE  /\ DependencyFirst(ProjectedGroups(selection))
         /\ \A g \in ToSet(ProjectedGroups(selection)) : \A m \in Members(g) : Members(g) = Component(m)
         /\ Evaluates(ToSet(ProjectedEntries(selection))) \subseteq Scheduled(ProjectedGroups(selection))
         /\ Scheduled(ProjectedGroups(selection)) \subseteq ProjectedModules(selection)
<1>1. groups \in GroupList /\ requests \in [Modules -> Seq(Request)] /\ Len(groups) \in Nat /\ entries \in Seq(Modules)
  BY DEF Structure, TraversalTypes, GroupList
<1>2. PICK p, M, E : /\ p = ProjectedGroups(selection) /\ M = ProjectedModules(selection)
                     /\ E = ToSet(ProjectedEntries(selection))
  OBVIOUS
<1>3. p \in GroupList /\ Len(p) \in Nat /\ M \in SUBSET Modules /\ E \subseteq M /\ E \subseteq ToSet(entries)
  <2>1. p \in GroupList /\ M \in SUBSET Modules /\ E \subseteq M /\ E \subseteq ToSet(entries)
    BY <1>2, ProjectionType
  <2>2. Len(p) \in Nat
    BY <2>1 DEF GroupList
  <2> QED
    BY <2>1, <2>2
<1>4. \A m \in M : RuntimeTargets(m) \subseteq M
  <2>1. \A m \in M : Targets(m) \subseteq M
    BY <1>1, <1>2, ProjectedModulesClosed
  <2>2. \A m : RuntimeTargets(m) \subseteq Targets(m)
    BY DEF RuntimeTargets, Targets, RuntimePlaces
  <2> QED
    BY <2>1, <2>2
<1>5. PICK e \in [1..Len(p) -> 1..Len(groups)] :
        /\ \A i \in 1..Len(p) : p[i] = groups[e[i]] /\ Members(groups[e[i]]) \subseteq M
        /\ \A i, j \in 1..Len(p) : e[i] <= e[j] => i <= j
        /\ \A k \in 1..Len(groups) : Members(groups[k]) \cap M # {} => \E i \in 1..Len(p) : e[i] = k
  BY <1>2, ProjectionGroups
<1>6. \A m : m \in Scheduled(p) <=> \E i \in 1..Len(p) : m \in Members(p[i])
  BY <1>3, InGroups
<1>7. Scheduled(p) \subseteq M
  BY <1>5, <1>6
<1>8. \A g \in ToSet(p) : \A m \in Members(g) : Members(g) = Component(m)
  <2> SUFFICES ASSUME NEW i \in 1..Len(p), NEW m \in Members(p[i]) PROVE Members(p[i]) = Component(m)
    BY <1>3, ElementsOf DEF GroupList
  <2> QED
    BY <1>5, GroupIsComponent
<1>9. Evaluates(E) \subseteq Scheduled(p)
  <2> SUFFICES ASSUME NEW m \in Evaluates(E) PROVE m \in Scheduled(p)
    OBVIOUS
  <2>1. m \in M
    BY <1>3, <1>4, EvaluatesWithin
  <2>2. m \in Evaluates(ToSet(entries))
    <3>1. \A n \in Evaluates(ToSet(entries)) : RuntimeTargets(n) \subseteq Evaluates(ToSet(entries))
      BY <1>1, EvaluatesRequests
    <3>2. ToSet(entries) \subseteq Evaluates(ToSet(entries)) /\ Evaluates(ToSet(entries)) \in SUBSET Modules
      <4>1. ToSet(entries) \in SUBSET Modules
        BY <1>1, ElementsOf
      <4> QED
        BY <4>1, EvaluatesItself DEF Evaluates, Closure
    <3> QED
      BY <1>3, <3>1, <3>2, EvaluatesWithin
  <2>3. PICK k \in 1..Len(groups) : m \in Members(groups[k])
    BY <1>1, <2>2, AllGrouped, InGroups
  <2>4. PICK i \in 1..Len(p) : e[i] = k
    BY <1>5, <2>1, <2>3
  <2> QED
    BY <1>5, <1>6, <2>3, <2>4
<1>10. DependencyFirst(p)
  <2> SUFFICES ASSUME NEW i \in 1..Len(p), NEW m \in Members(p[i]), NEW t \in RuntimeTargets(m)
               PROVE  t \in Scheduled(SubSeq(p, 1, i))
    BY DEF DependencyFirst
  <2>1. PICK k \in 1..Len(groups) : k = e[i] /\ m \in Members(groups[k]) /\ Members(groups[k]) \subseteq M
    BY <1>5
  <2>2. t \in Scheduled(SubSeq(groups, 1, k))
    BY <2>1 DEF OrderInvariant, GroupsDependencyFirst, DependencyFirst
  <2>3. k \in 0..Len(groups) /\ i \in 0..Len(p)
    BY <1>1, <1>3
  <2>4. /\ SubSeq(groups, 1, k) \in GroupList /\ Len(SubSeq(groups, 1, k)) = k
        /\ \A j \in 1..k : SubSeq(groups, 1, k)[j] = groups[j]
    BY <1>1, <2>3, Prefix DEF GroupList
  <2>5. PICK j \in 1..k : t \in Members(groups[j])
    BY <2>2, <2>4, InGroups
  <2>6. t \in M /\ j \in 1..Len(groups) /\ j <= k
    BY <1>1, <1>4, <2>1, <2>3, <2>5
  <2>7. PICK h \in 1..Len(p) : e[h] = j
    BY <1>5, <2>5, <2>6
  <2>8. h <= i /\ t \in Members(p[h])
    BY <1>5, <2>1, <2>5, <2>6, <2>7
  <2>9. /\ SubSeq(p, 1, i) \in GroupList /\ Len(SubSeq(p, 1, i)) = i
        /\ \A j_1 \in 1..i : SubSeq(p, 1, i)[j_1] = p[j_1]
    BY <1>3, <2>3, Prefix DEF GroupList
  <2>10. h \in 1..i
    BY <1>3, <2>8
  <2> QED
    BY <2>8, <2>9, <2>10, InGroups
<1> QED
  BY <1>2, <1>7, <1>8, <1>9, <1>10

\* The plan is projected once, onto some selection, and nothing of it changes after.
ProjectionKept ==
  /\ faults \subseteq Modules
  /\ phase \in {"grouping", "planning", "planned", "projected", "failed"}
  /\ failure \in {"none", "unreachable-module", "module-plan",
                  "partial-scc-selection", "non-closed-selection", "split-projection"}
  /\ phase # "projected" => projected = NoPlan
  /\ phase = "projected" => \E selection \in SUBSET Modules :
       projected = [entries |-> ProjectedEntries(selection),
                    groups  |-> ProjectedGroups(selection),
                    modules |-> ProjectedModules(selection)]

\* Nothing is projected to begin with.
LEMMA InitProjection == Init => ProjectionKept
BY InputAssumption DEF Init, ProjectionKept

\* Only the projection sets what is projected, and no step follows it.
LEMMA NextProjection == ProjectionKept /\ [Next]_vars => ProjectionKept'
<1> SUFFICES ASSUME ProjectionKept, [Next]_vars PROVE ProjectionKept'
  OBVIOUS
<1> USE DEF input, traversal
<1>1. ASSUME UNCHANGED <<requests, entries, groups>>
      PROVE  \A S : /\ ProjectedEntries(S)' = ProjectedEntries(S)
                    /\ ProjectedModules(S)' = ProjectedModules(S)
                    /\ ProjectedGroups(S)' = ProjectedGroups(S)
  <2> TAKE S
  <2>1. ProjectedEntries(S)' = ProjectedEntries(S)
    BY <1>1 DEF ProjectedEntries
  <2>2. \A m : Targets(m)' = Targets(m)
    BY <1>1 DEF Targets
  <2>3. ProjectedModules(S)' = ProjectedModules(S)
    BY <2>1, <2>2 DEF ProjectedModules, Closure
  <2>4. ProjectedGroups(S)' = ProjectedGroups(S)
    BY <1>1, <2>3 DEF ProjectedGroups
  <2> QED
    BY <2>1, <2>3, <2>4
<1>2. CASE VisitEntry \/ VisitDependency \/ RevisitDependency \/ CloseGroup \/ LeaveOnStack
  <2>1. phase = "grouping" /\ UNCHANGED <<faults, phase, projected, failure>>
    BY <1>2 DEF VisitEntry, VisitDependency, RevisitDependency, CloseGroup, LeaveOnStack
  <2> QED
    BY <2>1 DEF ProjectionKept
<1>3. CASE AssertReachability \/ PlanModules
  <2>1. /\ phase # "projected" /\ phase' \in {"planning", "planned", "failed"}
        /\ UNCHANGED <<faults, projected>>
        /\ failure' \in {failure, "unreachable-module", "module-plan"}
    BY <1>3 DEF AssertReachability, PlanModules, Fail
  <2> QED
    BY <2>1 DEF ProjectionKept
<1>4. ASSUME NEW S \in SUBSET Modules, Project(S) PROVE ProjectionKept'
  <2>1. phase = "planned" /\ UNCHANGED <<requests, entries, faults, groups>>
    BY <1>4 DEF Project
  <2>2. CASE /\ projected' = projected /\ phase' = "failed"
             /\ failure' \in {"partial-scc-selection", "non-closed-selection", "split-projection"}
    BY <2>1, <2>2 DEF ProjectionKept
  <2>3. CASE /\ projected' = [entries |-> ProjectedEntries(S),
                              groups  |-> ProjectedGroups(S),
                              modules |-> ProjectedModules(S)]
             /\ phase' = "projected" /\ failure' = failure
    <3>1. projected' = [entries |-> ProjectedEntries(S)',
                        groups  |-> ProjectedGroups(S)',
                        modules |-> ProjectedModules(S)']
      BY <1>1, <2>1, <2>3
    <3> QED
      BY <2>1, <2>3, <3>1 DEF ProjectionKept
  <2> QED
    BY <1>4, <2>2, <2>3 DEF Project, Fail
<1>5. CASE UNCHANGED vars
  <2>1. UNCHANGED <<requests, entries, groups, faults, phase, projected, failure>>
    BY <1>5 DEF vars
  <2>2. CASE phase # "projected"
    BY <2>1, <2>2 DEF ProjectionKept
  <2>3. CASE phase = "projected"
    <3>1. PICK S \in SUBSET Modules :
            projected = [entries |-> ProjectedEntries(S),
                         groups  |-> ProjectedGroups(S),
                         modules |-> ProjectedModules(S)]
      BY <2>3 DEF ProjectionKept
    <3>2. projected' = [entries |-> ProjectedEntries(S)',
                        groups  |-> ProjectedGroups(S)',
                        modules |-> ProjectedModules(S)']
      BY <1>1, <2>1, <3>1
    <3> QED
      BY <2>1, <2>3, <3>2 DEF ProjectionKept
  <2> QED
    BY <2>2, <2>3
<1> QED
  BY <1>2, <1>3, <1>4, <1>5 DEF Next

\* What is projected is the projection of the plan onto one selection.
THEOREM ProjectionHolds == Spec => []ProjectionKept
BY InitProjection, NextProjection, PTL DEF Spec

\* For every graph and every selection the projection accepts: the projected plan
\* lists whole components, dependencies first, that cover what its entries
\* evaluate and reach out of its modules nowhere.
THEOREM ProjectionsEvaluable == Spec => []ProjectionEvaluable
<1>1. Structure /\ OrderInvariant /\ ReachInvariant /\ CoverInvariant /\ ProjectionKept
        => ProjectionEvaluable
  <2> SUFFICES ASSUME Structure, OrderInvariant, ReachInvariant, CoverInvariant, ProjectionKept,
                      phase = "projected"
               PROVE  /\ DependencyFirst(projected.groups)
                      /\ \A g \in ToSet(projected.groups) : \A m \in Members(g) : Members(g) = Component(m)
                      /\ Evaluates(ToSet(projected.entries)) \subseteq Scheduled(projected.groups)
                      /\ Scheduled(projected.groups) \subseteq projected.modules
    BY DEF ProjectionEvaluable
  <2>1. PICK S \in SUBSET Modules :
          projected = [entries |-> ProjectedEntries(S),
                       groups  |-> ProjectedGroups(S),
                       modules |-> ProjectedModules(S)]
    BY DEF ProjectionKept
  <2>2. /\ projected.entries = ProjectedEntries(S)
        /\ projected.groups = ProjectedGroups(S)
        /\ projected.modules = ProjectedModules(S)
    BY <2>1
  <2>3. Grouped
    BY DEF Grouped
  <2> QED
    BY <2>2, <2>3, ProjectionEvaluates
<1> QED
  BY <1>1, StructureHolds, OrderHolds, ReachHolds, CoverHolds, ProjectionHolds, PTL

\* The variables keep their types.
THEOREM TypesHold == Spec => []TypeOK
<1>1. Structure /\ ProjectionKept => TypeOK
  <2> SUFFICES ASSUME Structure, ProjectionKept PROVE TypeOK
    OBVIOUS
  <2>1. projected \in [entries : Seq(Modules), groups : GroupList, modules : SUBSET Modules]
    <3>1. NoPlan \in [entries : Seq(Modules), groups : GroupList, modules : SUBSET Modules]
      BY DEF NoPlan, GroupList
    <3>2. \A S \in SUBSET Modules :
            [entries |-> ProjectedEntries(S), groups |-> ProjectedGroups(S), modules |-> ProjectedModules(S)]
              \in [entries : Seq(Modules), groups : GroupList, modules : SUBSET Modules]
      BY ProjectionType
    <3> QED
      BY <3>1, <3>2 DEF ProjectionKept
  <2> QED
    BY <2>1 DEF TypeOK, Structure, TraversalTypes, ProjectionKept
<1> QED
  BY <1>1, StructureHolds, ProjectionHolds, PTL

-----------------------------------------------------------------------------
(* The order of the source language *)

\* What is newly seen from a start: what was not seen, closed under requests, least.
LEMMA NewlySeenClosed ==
  ASSUME requests \in [Modules -> Seq(Request)], NEW seen, NEW start \in SUBSET Modules,
         NEW new, new = NewlySeen(seen, start)
  PROVE  /\ new \in SUBSET Modules
         /\ start \ seen \subseteq new
         /\ \A n \in new : RuntimeTargets(n) \ seen \subseteq new
         /\ new \cap seen = {}
<1>1. \A n \in Modules : RuntimeTargets(n) \subseteq Modules
  BY TargetsAreModules
<1>2. new \in SUBSET Modules /\ start \ seen \subseteq new
  BY DEF NewlySeen
<1>3. \A n \in new : RuntimeTargets(n) \ seen \subseteq new
  <2> SUFFICES ASSUME NEW n \in new, NEW t \in RuntimeTargets(n) \ seen
               PROVE  t \in new
    OBVIOUS
  <2>1. t \in Modules
    BY <1>1, <1>2
  <2> QED
    BY <2>1 DEF NewlySeen
<1>4. new \cap seen = {}
  <2> DEFINE X == Modules \ seen
  <2>1. X \in SUBSET Modules /\ start \ seen \subseteq X /\ \A n \in X : RuntimeTargets(n) \ seen \subseteq X
    BY <1>1
  <2>2. X \cap seen = {}
    OBVIOUS
  <2> HIDE DEF X
  <2> QED
    BY <2>1, <2>2 DEF NewlySeen
<1> QED
  BY <1>2, <1>3, <1>4

\* Whatever holds the start and is closed under requests, past what was seen,
\* holds what is newly seen.
LEMMA NewlySeenLeast ==
  ASSUME NEW seen, NEW start, NEW new, new = NewlySeen(seen, start), NEW X \in SUBSET Modules,
         start \ seen \subseteq X, \A n \in X : RuntimeTargets(n) \ seen \subseteq X
  PROVE  new \subseteq X
BY DEF NewlySeen

\* Nothing is newly seen from what was seen.
LEMMA NothingNew ==
  ASSUME NEW seen, NEW start, start \subseteq seen
  PROVE  NewlySeen(seen, start) = {}
<1>1. PICK X : X = {}
  OBVIOUS
<1>2. X \in SUBSET Modules /\ start \ seen \subseteq X /\ \A n \in X : RuntimeTargets(n) \ seen \subseteq X
  BY <1>1
<1> QED
  BY <1>1, <1>2, NewlySeenLeast

\* A start can be followed in two parts, one after the other.
LEMMA SeenInTurn ==
  ASSUME requests \in [Modules -> Seq(Request)],
         NEW seen \in SUBSET Modules, NEW first \in SUBSET Modules, NEW then \in SUBSET Modules,
         NEW between
  PROVE  between = seen \cup NewlySeen(seen, first) =>
           seen \cup NewlySeen(seen, first \cup then) = between \cup NewlySeen(between, then)
<1>0. SUFFICES ASSUME between = seen \cup NewlySeen(seen, first)
               PROVE  seen \cup NewlySeen(seen, first \cup then) = between \cup NewlySeen(between, then)
  OBVIOUS
<1>10. PICK both \in SUBSET Modules : both = first \cup then
  OBVIOUS
<1>11. PICK one : one = NewlySeen(seen, first)
  OBVIOUS
<1>12. PICK two : two = NewlySeen(between, then)
  OBVIOUS
<1>13. PICK all : all = NewlySeen(seen, both)
  OBVIOUS
<1>1. /\ one \in SUBSET Modules /\ first \ seen \subseteq one
      /\ \A n \in one : RuntimeTargets(n) \ seen \subseteq one
  BY <1>11, NewlySeenClosed
<1>2. between \in SUBSET Modules
  BY <1>0, <1>1, <1>11
<1>3. /\ two \in SUBSET Modules /\ then \ between \subseteq two
      /\ \A n \in two : RuntimeTargets(n) \ between \subseteq two
  BY <1>2, <1>12, NewlySeenClosed
<1>4. /\ all \in SUBSET Modules /\ both \ seen \subseteq all
      /\ \A n \in all : RuntimeTargets(n) \ seen \subseteq all
  BY <1>13, NewlySeenClosed
<1>5. between = seen \cup one
  BY <1>0, <1>11
<1>6. one \subseteq all
  <2>1. first \ seen \subseteq all
    BY <1>4, <1>10
  <2> QED
    BY <1>4, <1>11, <2>1, NewlySeenLeast
<1>7. two \subseteq all
  <2>1. then \ between \subseteq all /\ \A n \in all : RuntimeTargets(n) \ between \subseteq all
    BY <1>4, <1>5, <1>10
  <2> QED
    BY <1>4, <1>12, <2>1, NewlySeenLeast
<1>8. all \subseteq one \cup two
  <2>1. PICK X : X = one \cup two
    OBVIOUS
  <2>2. X \in SUBSET Modules /\ both \ seen \subseteq X
    BY <1>1, <1>3, <1>5, <1>10, <2>1
  <2>3. \A n \in X : RuntimeTargets(n) \ seen \subseteq X
    BY <1>1, <1>3, <1>5, <2>1
  <2>4. all \subseteq X
    BY <1>13, <2>2, <2>3, NewlySeenLeast
  <2> QED
    BY <2>1, <2>4
<1>9. seen \cup all = between \cup two
  BY <1>5, <1>6, <1>7, <1>8
<1> QED
  BY <1>9, <1>10, <1>12, <1>13

\* A module that was not seen is seen with what its requests lead to.
LEMMA SeenThrough ==
  ASSUME requests \in [Modules -> Seq(Request)],
         NEW seen \in SUBSET Modules, NEW m \in Modules, m \notin seen,
         NEW begun
  PROVE  begun = seen \cup {m} =>
           seen \cup NewlySeen(seen, {m}) = begun \cup NewlySeen(begun, RuntimeTargets(m))
<1>0. SUFFICES ASSUME begun = seen \cup {m}
               PROVE  seen \cup NewlySeen(seen, {m}) = begun \cup NewlySeen(begun, RuntimeTargets(m))
  OBVIOUS
<1>1. PICK targets \in SUBSET Modules : targets = RuntimeTargets(m)
  BY TargetsAreModules
<1>8. PICK one \in SUBSET Modules : one = {m}
  OBVIOUS
<1>9. PICK all : all = NewlySeen(seen, one)
  OBVIOUS
<1>10. PICK below : below = NewlySeen(begun, targets)
  OBVIOUS
<1>11. begun \in SUBSET Modules
  BY <1>0
<1>2. /\ below \in SUBSET Modules /\ targets \ begun \subseteq below
      /\ \A n \in below : RuntimeTargets(n) \ begun \subseteq below
  BY <1>10, <1>11, NewlySeenClosed
<1>3. /\ all \in SUBSET Modules /\ one \ seen \subseteq all
      /\ \A n \in all : RuntimeTargets(n) \ seen \subseteq all
  BY <1>9, NewlySeenClosed
<1>4. m \in all
  BY <1>3, <1>8
<1>5. below \subseteq all
  <2>1. targets \ begun \subseteq all /\ \A n \in all : RuntimeTargets(n) \ begun \subseteq all
    BY <1>0, <1>1, <1>3, <1>4
  <2> QED
    BY <1>3, <1>10, <2>1, NewlySeenLeast
<1>6. all \subseteq {m} \cup below
  <2>1. PICK X : X = {m} \cup below
    OBVIOUS
  <2>2. X \in SUBSET Modules /\ one \ seen \subseteq X
    BY <1>2, <1>8, <2>1
  <2>3. \A n \in X : RuntimeTargets(n) \ seen \subseteq X
    BY <1>0, <1>1, <1>2, <2>1
  <2>4. all \subseteq X
    BY <1>9, <2>2, <2>3, NewlySeenLeast
  <2> QED
    BY <2>1, <2>4
<1>7. seen \cup all = begun \cup below
  BY <1>0, <1>4, <1>5, <1>6
<1> QED
  BY <1>1, <1>7, <1>8, <1>9, <1>10

\* What a visited module has seen before it and at its requests stays so.
LEMMA SeenKept ==
  ASSUME Structure, UNCHANGED <<requests, entries>>,
         \A m \in ToSet(visited) : Order'[m] = Order[m],
         \A k \in 1..Len(visited) : visited'[k] = visited[k]
  PROVE  /\ \A m \in ToSet(visited) : SeenBefore(m)' = SeenBefore(m)
         /\ \A m \in ToSet(visited) : \A p : SeenAt(m, p)' = SeenAt(m, p)
         /\ \A m \in ToSet(visited) : NewlySeen(SeenBefore(m), {m})' = NewlySeen(SeenBefore(m), {m})
         /\ \A i : NewlySeen({}, EarlierEntries(i))' = NewlySeen({}, EarlierEntries(i))
<1>1. ASSUME NEW m \in ToSet(visited) PROVE SeenBefore(m)' = SeenBefore(m)
  <2>1. m \in Modules /\ Order[m] \in 1..Len(visited) /\ Len(visited) \in Nat
    BY Positions, ElementsOf DEF Structure, TraversalTypes
  <2>2. PICK i : i = Order[m]
    OBVIOUS
  <2>3. Index(m) = i
    BY <2>1, <2>2 DEF Order
  <2>4. Index(m)' = i
    <3>1. Order'[m] = Index(m)'
      BY <2>1 DEF Order
    <3> QED
      BY <2>2, <3>1
  <2>5. \A k \in 1..(i - 1) : k \in 1..Len(visited)
    BY <2>1, <2>2
  <2>6. \A k \in 1..(i - 1) : visited'[k] = visited[k]
    BY <2>5
  <2> QED
    BY <2>3, <2>4, <2>6 DEF SeenBefore
<1>2. /\ \A m : RuntimeTargets(m)' = RuntimeTargets(m)
      /\ \A m, p : FollowedBefore(m, p)' = FollowedBefore(m, p)
  BY DEF RuntimeTargets, RuntimePlaces, FollowedBefore
<1>3. ASSUME NEW m \in ToSet(visited), NEW p PROVE SeenAt(m, p)' = SeenAt(m, p)
  <2>1. SeenBefore(m)' = SeenBefore(m) /\ FollowedBefore(m, p)' = FollowedBefore(m, p)
    BY <1>1, <1>2
  <2> QED
    BY <1>2, <2>1 DEF SeenAt, NewlySeen
<1>4. ASSUME NEW m \in ToSet(visited)
      PROVE  NewlySeen(SeenBefore(m), {m})' = NewlySeen(SeenBefore(m), {m})
  BY <1>1, <1>2 DEF NewlySeen
<1>5. ASSUME NEW i PROVE NewlySeen({}, EarlierEntries(i))' = NewlySeen({}, EarlierEntries(i))
  BY <1>2 DEF NewlySeen, EarlierEntries
<1> QED
  BY <1>1, <1>3, <1>4, <1>5

\* What an open call has seen.
SeenBy(k) == SeenAt(Caller(k), frames[k].next)

\* What is visited is what the call that runs has seen, and before a call was
\* opened, what its caller had; between two entries it is what the earlier
\* entries lead to.
CallsSee ==
  /\ \A k \in 1..Len(frames) - 1 : SeenBefore(Caller(k + 1)) = SeenBy(k)
  /\ frames # <<>> => SeenBy(Len(frames)) = ToSet(visited)
  /\ frames = <<>> => NewlySeen({}, EarlierEntries(position)) = ToSet(visited)
  /\ frames # <<>> => /\ position - 1 \in 1..Len(entries)
                      /\ Caller(1) = entries[position - 1]
                      /\ SeenBefore(Caller(1)) = NewlySeen({}, EarlierEntries(position - 1))

\* The entries behind the loop, and the requests that were made.
Made(m, p) == \A k \in 1..Len(frames) : Caller(k) = m => p < frames[k].next
BegunInOrder ==
  /\ \A i \in 1..Len(entries) : i < position => EntryBegins(i)
  /\ \A m \in ToSet(visited) : \A p \in RuntimePlaces(m) : Made(m, p) => RequestBegins(m, p)

\* A module whose visit has returned leads to no open call, past what it had seen.
FinishedSeen ==
  \A m \in ToSet(visited) \ Callers :
    NewlySeen(SeenBefore(m), {m}) \subseteq ToSet(visited) \ Callers

SinglesInOrder ==
  \A i, j \in 1..Len(groups) : \A m, n \in Modules :
    i < j /\ groups[i].modules = <<m>> /\ groups[j].modules = <<n>> => RunsBefore(m, n)

SourceInvariant ==
  /\ CallsSee
  /\ BegunInOrder
  /\ FinishedSeen
  /\ SinglesInOrder

\* The facts about what has begun and what runs before what stay as they are.
LEMMA OrderKept ==
  ASSUME Structure, UNCHANGED <<requests, entries>>,
         \A m \in ToSet(visited) : Order'[m] = Order[m],
         \A k \in 1..Len(visited) : visited'[k] = visited[k]
  PROVE  /\ \A i \in 1..Len(entries) : entries[i] \in ToSet(visited) => EntryBegins(i)' = EntryBegins(i)
         /\ \A m \in ToSet(visited) : \A p \in RuntimePlaces(m) :
              requests[m][p].target \in ToSet(visited) => RequestBegins(m, p)' = RequestBegins(m, p)
         /\ \A m, n \in ToSet(visited) : RunsBefore(m, n)' = RunsBefore(m, n)
<1>1. /\ \A m \in ToSet(visited) : SeenBefore(m)' = SeenBefore(m)
      /\ \A m \in ToSet(visited) : \A p : SeenAt(m, p)' = SeenAt(m, p)
      /\ \A m \in ToSet(visited) : NewlySeen(SeenBefore(m), {m})' = NewlySeen(SeenBefore(m), {m})
      /\ \A i : NewlySeen({}, EarlierEntries(i))' = NewlySeen({}, EarlierEntries(i))
  BY SeenKept
<1>2. ASSUME NEW i \in 1..Len(entries), entries[i] \in ToSet(visited)
      PROVE  EntryBegins(i)' = EntryBegins(i)
  <2>1. PICK e, S, B : e = entries[i] /\ S = NewlySeen({}, EarlierEntries(i)) /\ B = SeenBefore(e)
    OBVIOUS
  <2>2. EntryBegins(i) <=> (e \notin S => B = S)
    BY <2>1 DEF EntryBegins
  <2>3. entries' = entries /\ NewlySeen({}, EarlierEntries(i))' = S /\ SeenBefore(e)' = B
    BY <1>1, <1>2, <2>1
  <2>4. EntryBegins(i)' <=> (e \notin S => B = S)
    BY <2>1, <2>3 DEF EntryBegins
  <2> QED
    BY <2>2, <2>4 DEF EntryBegins
<1>3. ASSUME NEW m \in ToSet(visited), NEW p \in RuntimePlaces(m), requests[m][p].target \in ToSet(visited)
      PROVE  RequestBegins(m, p)' = RequestBegins(m, p)
  <2>1. PICK t, S, B : t = requests[m][p].target /\ S = SeenAt(m, p) /\ B = SeenBefore(t)
    OBVIOUS
  <2>2. RequestBegins(m, p) <=> (t \notin S => B = S)
    BY <2>1 DEF RequestBegins
  <2>3. requests' = requests /\ SeenAt(m, p)' = S /\ SeenBefore(t)' = B
    BY <1>1, <1>3, <2>1
  <2>4. RequestBegins(m, p)' <=> (t \notin S => B = S)
    BY <2>1, <2>3 DEF RequestBegins
  <2> QED
    BY <2>2, <2>4 DEF RequestBegins
<1>4. ASSUME NEW m \in ToSet(visited), NEW n \in ToSet(visited)
      PROVE  RunsBefore(m, n)' = RunsBefore(m, n)
  BY <1>1 DEF RunsBefore
<1> QED
  BY <1>2, <1>3, <1>4

\* The same where nothing was seen.
LEMMA SeenFromNothing ==
  ASSUME requests \in [Modules -> Seq(Request)],
         NEW first \in SUBSET Modules, NEW then \in SUBSET Modules, NEW between
  PROVE  between = NewlySeen({}, first) =>
           NewlySeen({}, first \cup then) = between \cup NewlySeen(between, then)
<1>0. SUFFICES ASSUME between = NewlySeen({}, first)
               PROVE  NewlySeen({}, first \cup then) = between \cup NewlySeen(between, then)
  OBVIOUS
<1>1. PICK none \in SUBSET Modules : none = {}
  OBVIOUS
<1>2. between = none \cup NewlySeen(none, first)
  BY <1>0, <1>1
<1>3. none \cup NewlySeen(none, first \cup then) = between \cup NewlySeen(between, then)
  BY <1>2, SeenInTurn
<1> QED
  BY <1>1, <1>3

\* One more entry adds what it leads to.
LEMMA EntriesInTurn ==
  ASSUME requests \in [Modules -> Seq(Request)], entries \in Seq(Modules),
         NEW i \in 1..Len(entries), NEW j, NEW seen
  PROVE  j = i + 1 /\ seen = NewlySeen({}, EarlierEntries(i))
           => NewlySeen({}, EarlierEntries(j)) = seen \cup NewlySeen(seen, {entries[i]})
<1>0. SUFFICES ASSUME j = i + 1, seen = NewlySeen({}, EarlierEntries(i))
               PROVE  NewlySeen({}, EarlierEntries(j)) = seen \cup NewlySeen(seen, {entries[i]})
  OBVIOUS
<1>1. \A k \in 1..Len(entries) : entries[k] \in Modules
  OBVIOUS
<1>2. 1..(i - 1) \subseteq 1..Len(entries) /\ 1..(j - 1) = 1..(i - 1) \cup {i}
  BY <1>0
<1>3. PICK earlier \in SUBSET Modules : earlier = EarlierEntries(i)
  BY <1>1, <1>2 DEF EarlierEntries
<1>4. PICK one \in SUBSET Modules : one = {entries[i]}
  BY <1>1
<1>5. EarlierEntries(j) = earlier \cup one
  BY <1>2, <1>3, <1>4 DEF EarlierEntries
<1>6. NewlySeen({}, earlier \cup one) = seen \cup NewlySeen(seen, one)
  BY <1>0, <1>3, SeenFromNothing
<1> QED
  BY <1>4, <1>5, <1>6

\* What was visited before a visited module: no more than was visited, and the
\* module not among it.
LEMMA BeforeIsVisited ==
  ASSUME Structure, NEW m \in ToSet(visited)
  PROVE  /\ m \in Modules /\ SeenBefore(m) \in SUBSET ToSet(visited) /\ m \notin SeenBefore(m)
         /\ ToSet(visited) \in SUBSET Modules
         /\ \A n \in ToSet(visited) : Order[n] < Order[m] => n \in SeenBefore(m)
<1>1. /\ visited \in Seq(Modules) /\ Len(visited) \in Nat /\ ToSet(visited) \in SUBSET Modules
      /\ \A n : n \in ToSet(visited) <=> \E k \in 1..Len(visited) : visited[k] = n
  BY ElementsOf DEF Structure, TraversalTypes
<1>2. \A n \in ToSet(visited) : Order[n] \in 1..Len(visited) /\ visited[Order[n]] = n
  BY <1>1, Positions DEF Structure
<1>3. PICK i \in 1..Len(visited) : i = Order[m]
  BY <1>2
<1>4. SeenBefore(m) = {visited[k] : k \in 1..(i - 1)}
  BY <1>1, <1>3 DEF SeenBefore, Order
<1>5. \A k \in 1..(i - 1) : k \in 1..Len(visited) /\ k < i
  BY <1>1
<1>6. m \notin SeenBefore(m)
  <2> SUFFICES ASSUME NEW k \in 1..(i - 1), visited[k] = m PROVE FALSE
    BY <1>4
  <2>1. k \in 1..Len(visited) /\ k < i
    BY <1>5
  <2>2. Order[visited[k]] = k
    BY <1>1, <2>1, Positions DEF Structure
  <2> QED
    BY <1>3, <2>1, <2>2
<1>7. \A n \in ToSet(visited) : Order[n] < Order[m] => n \in SeenBefore(m)
  <2> TAKE n \in ToSet(visited)
  <2> HAVE Order[n] < Order[m]
  <2>1. Order[n] \in 1..(i - 1)
    BY <1>1, <1>2, <1>3
  <2> QED
    BY <1>2, <1>4, <2>1
<1>8. SeenBefore(m) \in SUBSET ToSet(visited)
  BY <1>1, <1>4, <1>5
<1> QED
  BY <1>1, <1>6, <1>7, <1>8

\* The targets before a place are modules.
LEMMA FollowedAreModules ==
  ASSUME requests \in [Modules -> Seq(Request)], NEW m \in Modules, NEW p
  PROVE  FollowedBefore(m, p) \in SUBSET Modules
<1>1. RuntimeTargets(m) \subseteq Modules
  BY TargetsAreModules
<1>2. FollowedBefore(m, p) \subseteq RuntimeTargets(m)
  BY DEF FollowedBefore, RuntimeTargets
<1> QED
  BY <1>1, <1>2

\* A loop that goes on to its next request has seen what the last one leads to.
LEMMA SeenNext ==
  ASSUME Structure, NEW m \in ToSet(visited), NEW k \in RuntimePlaces(m), NEW seen, NEW t
  PROVE  seen = SeenAt(m, k) /\ t = requests[m][k].target
           => SeenAt(m, PlaceFrom(m, k + 1)) = seen \cup NewlySeen(seen, {t})
<1>0. SUFFICES ASSUME seen = SeenAt(m, k), t = requests[m][k].target
               PROVE  SeenAt(m, PlaceFrom(m, k + 1)) = seen \cup NewlySeen(seen, {t})
  OBVIOUS
<1>1. requests \in [Modules -> Seq(Request)]
  BY DEF Structure, TraversalTypes
<1>2. m \in Modules /\ SeenBefore(m) \in SUBSET Modules
  BY BeforeIsVisited
<1>3. PICK begun \in SUBSET Modules : begun = SeenBefore(m) \cup {m}
  BY <1>2
<1>4. PICK first \in SUBSET Modules : first = FollowedBefore(m, k)
  BY <1>1, <1>2, FollowedAreModules
<1>5. t \in Modules
  <2>1. t \in RuntimeTargets(m)
    BY <1>0 DEF RuntimeTargets
  <2> QED
    BY <1>1, <1>2, <2>1, TargetsAreModules
<1>6. PICK one \in SUBSET Modules : one = {t}
  BY <1>5
<1>7. FollowedBefore(m, PlaceFrom(m, k + 1)) = first \cup one
  BY <1>0, <1>2, <1>4, <1>6, FollowedNext
<1>8. seen = begun \cup NewlySeen(begun, first)
  BY <1>0, <1>3, <1>4 DEF SeenAt
<1>9. begun \cup NewlySeen(begun, first \cup one) = seen \cup NewlySeen(seen, one)
  BY <1>1, <1>8, SeenInTurn
<1>10. SeenAt(m, PlaceFrom(m, k + 1)) = begun \cup NewlySeen(begun, first \cup one)
  BY <1>3, <1>7 DEF SeenAt
<1> QED
  BY <1>6, <1>9, <1>10

\* The same of a request whose target is known.
LEMMA SeenPastRequest ==
  ASSUME Structure, NEW m \in ToSet(visited), NEW k \in RuntimePlaces(m), NEW t, NEW seen,
         requests[m][k].target = t, seen = SeenAt(m, k)
  PROVE  SeenAt(m, PlaceFrom(m, k + 1)) = seen \cup NewlySeen(seen, {t})
<1>1. PICK target : target = requests[m][k].target
  OBVIOUS
<1>2. SeenAt(m, PlaceFrom(m, k + 1)) = seen \cup NewlySeen(seen, {target})
  BY <1>1, SeenNext
<1> QED
  BY <1>1, <1>2

\* It has seen the target of that request, in particular.
LEMMA TargetSeen ==
  ASSUME Structure, NEW m \in ToSet(visited), NEW k \in RuntimePlaces(m)
  PROVE  requests[m][k].target \in SeenAt(m, PlaceFrom(m, k + 1))
<1>1. requests \in [Modules -> Seq(Request)] /\ m \in Modules
  BY BeforeIsVisited DEF Structure, TraversalTypes
<1>2. PICK t, seen : t = requests[m][k].target /\ seen = SeenAt(m, k)
  OBVIOUS
<1>3. SeenAt(m, PlaceFrom(m, k + 1)) = seen \cup NewlySeen(seen, {t})
  BY <1>2, SeenNext
<1>4. t \in Modules
  <2>1. t \in RuntimeTargets(m)
    BY <1>2 DEF RuntimeTargets
  <2> QED
    BY <1>1, <2>1, TargetsAreModules
<1>5. t \in seen \cup NewlySeen(seen, {t})
  BY <1>4 DEF NewlySeen
<1> QED
  BY <1>2, <1>3, <1>5

\* A loop that is past its requests has seen all that its module leads to.
LEMMA SeenAtEnd ==
  ASSUME Structure, NEW m \in ToSet(visited), NEW p, FollowedBefore(m, p) = RuntimeTargets(m)
  PROVE  SeenAt(m, p) = SeenBefore(m) \cup NewlySeen(SeenBefore(m), {m})
<1>1. requests \in [Modules -> Seq(Request)]
  BY DEF Structure, TraversalTypes
<1>2. m \in Modules /\ SeenBefore(m) \in SUBSET Modules /\ m \notin SeenBefore(m)
  BY BeforeIsVisited
<1>3. PICK before \in SUBSET Modules : before = SeenBefore(m)
  BY <1>2
<1>4. PICK begun : begun = before \cup {m}
  OBVIOUS
<1>5. before \cup NewlySeen(before, {m}) = begun \cup NewlySeen(begun, RuntimeTargets(m))
  BY <1>1, <1>2, <1>3, <1>4, SeenThrough
<1>6. SeenAt(m, p) = begun \cup NewlySeen(begun, RuntimeTargets(m))
  BY <1>3, <1>4 DEF SeenAt
<1> QED
  BY <1>3, <1>5, <1>6

\* The module of a group of one was visited, and its visit has returned.
LEMMA SinglesVisited ==
  ASSUME Structure, NEW i \in 1..Len(groups), NEW m \in Modules, groups[i].modules = <<m>>
  PROVE  m \in ToSet(visited) \ Callers
<1>1. groups \in GroupList
  BY DEF Structure, TraversalTypes
<1>2. m \in Members(groups[i])
  BY DEF Members, ToSet
<1>3. m \in Scheduled(groups)
  BY <1>1, <1>2, InGroups
<1> QED
  BY <1>3 DEF Structure, StackOrGroups, CallersInOrder

\* What was requested was visited.
LEMMA MadeAreVisited ==
  ASSUME Structure, OrderInvariant, NEW m \in ToSet(visited), NEW p \in RuntimePlaces(m), Made(m, p)
  PROVE  requests[m][p].target \in ToSet(visited)
<1>1. CASE m \in Callers
  <2>1. PICK k \in 1..Len(frames) : Caller(k) = m
    BY <1>1 DEF Callers
  <2>2. p < frames[k].next
    BY <2>1 DEF Made
  <2>3. requests[m][p].target \in Followed(k)
    BY <2>1, <2>2 DEF Followed, FollowedBefore
  <2> QED
    BY <2>3 DEF OrderInvariant, FollowedAreVisited
<1>2. CASE m \notin Callers
  BY <1>2 DEF OrderInvariant, FollowedAreVisited, RuntimeTargets
<1> QED
  BY <1>1, <1>2

\* Entering a visit keeps the order of the language: of the entry the loop is
\* at, or of the request that the call that runs is at.
LEMMA OpenKeepsSource ==
  ASSUME Structure, OrderInvariant, CoverInvariant, SourceInvariant,
         NEW x \in Modules, x \notin ToSet(visited), Open(x),
         UNCHANGED <<requests, entries, groups>>,
         \/ /\ frames = <<>> /\ position \in 1..Len(entries) /\ x = entries[position]
            /\ position' = position + 1
         \/ frames # <<>> /\ position' = position
  PROVE  SourceInvariant'
<1> USE DEF SourceInvariant
<1>1. /\ visited' \in Seq(Modules)
      /\ ToSet(visited)' = ToSet(visited) \cup {x}
      /\ \A m \in ToSet(visited) : Order'[m] = Order[m]
      /\ Order'[x] = Len(visited) + 1
      /\ Len(frames') = Len(frames) + 1
      /\ \A k \in 1..Len(frames) : frames'[k] = frames[k]
      /\ frames'[Len(frames) + 1] = [module |-> x, next |-> PlaceFrom(x, 1)]
  BY OpenEffects
<1>2. /\ Len(frames) \in Nat /\ Len(visited) \in Nat /\ position \in Nat \ {0}
      /\ ToSet(visited) \in SUBSET Modules /\ visited \in Seq(Modules)
      /\ \A k \in 1..Len(frames) : Caller(k) \in ToSet(visited)
  <2>1. \A k \in 1..Len(frames) : Caller(k) \in ToSet(visited)
    BY OnStack
  <2> QED
    BY <2>1, ElementsOf DEF Structure, TraversalTypes
<1>3. \A k \in 1..Len(visited) : visited'[k] = visited[k]
  <2>1. visited' = Append(visited, x)
    BY DEF Open
  <2> QED
    BY <1>2, <2>1
<1>4. PICK n \in Nat : n = Len(frames)
  BY <1>2
<1>5. /\ \A k \in 1..n : Caller(k)' = Caller(k)
      /\ Caller(n + 1)' = x
      /\ Len(frames') = n + 1
  BY <1>1, <1>2, <1>4 DEF Caller
<1>6. Callers' = Callers \cup {x}
  <2>1. \A k \in 1..n + 1 : k \in 1..n \/ k = n + 1
    OBVIOUS
  <2>2. 1..n \subseteq 1..n + 1 /\ n + 1 \in 1..n + 1
    OBVIOUS
  <2>3. Callers' = {Caller(k)' : k \in 1..n + 1} /\ Callers = {Caller(k) : k \in 1..n}
    BY <1>4, <1>5 DEF Callers
  <2> QED
    BY <1>5, <2>1, <2>2, <2>3
<1>7. /\ \A m \in ToSet(visited) : SeenBefore(m)' = SeenBefore(m)
      /\ \A m \in ToSet(visited) : \A p : SeenAt(m, p)' = SeenAt(m, p)
      /\ \A m \in ToSet(visited) : NewlySeen(SeenBefore(m), {m})' = NewlySeen(SeenBefore(m), {m})
      /\ \A i : NewlySeen({}, EarlierEntries(i))' = NewlySeen({}, EarlierEntries(i))
  BY <1>1, <1>3, SeenKept
<1>8. /\ \A i \in 1..Len(entries) : entries[i] \in ToSet(visited) => EntryBegins(i)' = EntryBegins(i)
      /\ \A m \in ToSet(visited) : \A p \in RuntimePlaces(m) :
           requests[m][p].target \in ToSet(visited) => RequestBegins(m, p)' = RequestBegins(m, p)
      /\ \A m, o \in ToSet(visited) : RunsBefore(m, o)' = RunsBefore(m, o)
  BY <1>1, <1>3, OrderKept
<1>9. SeenBefore(x)' = ToSet(visited)
  <2>1. Index(x)' = Len(visited) + 1
    BY <1>1 DEF Order
  <2>2. SeenBefore(x)' = {visited'[k] : k \in 1..(Len(visited) + 1 - 1)}
    BY <2>1 DEF SeenBefore
  <2>3. 1..(Len(visited) + 1 - 1) = 1..Len(visited)
    BY <1>2
  <2>4. \A m : m \in ToSet(visited) <=> \E k \in 1..Len(visited) : visited[k] = m
    BY <1>2, ElementsOf
  <2> QED
    BY <1>3, <2>2, <2>3, <2>4
<1>10. SeenBy(n + 1)' = ToSet(visited)'
  <2>1. PICK p : p = PlaceFrom(x, 1)
    OBVIOUS
  <2>2. FollowedBefore(x, p) = {}
    BY <2>1, FollowedFirst
  <2>3. FollowedBefore(x, p)' = {}
    BY <2>2 DEF FollowedBefore, RuntimePlaces
  <2>4. PICK begun : begun = ToSet(visited) \cup {x}
    OBVIOUS
  <2>5. NewlySeen(begun, {}) = {}
    BY NothingNew
  <2>6. NewlySeen(begun, {})' = {}
    BY <2>5 DEF NewlySeen, RuntimeTargets, RuntimePlaces
  <2>7. SeenAt(x, p)' = begun \cup NewlySeen(begun, {})'
    BY <1>9, <2>3, <2>4 DEF SeenAt, NewlySeen
  <2>8. frames'[n + 1].module = x /\ frames'[n + 1].next = p
    BY <1>1, <1>4, <2>1
  <2>9. SeenBy(n + 1)' = SeenAt(x, p)'
    BY <2>8 DEF SeenBy, Caller
  <2> QED
    BY <1>1, <2>4, <2>6, <2>7, <2>9
<1>11. \A k \in 1..n : SeenBy(k)' = SeenBy(k)
  <2> TAKE k \in 1..n
  <2>1. PICK m, p : m = Caller(k) /\ p = frames[k].next
    OBVIOUS
  <2>2. m \in ToSet(visited) /\ Caller(k)' = m /\ frames'[k].next = p
    BY <1>1, <1>2, <1>4, <1>5, <2>1
  <2>3. SeenBy(k) = SeenAt(m, p)
    BY <2>1 DEF SeenBy
  <2>4. SeenBy(k)' = SeenAt(m, p)'
    BY <2>2 DEF SeenBy
  <2> QED
    BY <1>7, <2>2, <2>3, <2>4
<1>12. CallsSee'
  <2>1. ASSUME NEW k \in 1..n PROVE SeenBefore(Caller(k + 1))' = SeenBy(k)'
    <3>1. CASE k = n
      <4>1. SeenBy(n) = ToSet(visited)
        <5>1. frames # <<>>
          BY <1>4, <3>1
        <5> QED
          BY <1>4, <5>1 DEF CallsSee
      <4>2. SeenBefore(Caller(n + 1))' = ToSet(visited)
        BY <1>5, <1>9 DEF SeenBefore, Index
      <4> QED
        BY <1>11, <3>1, <4>1, <4>2
    <3>2. CASE k # n
      <4>1. k \in 1..Len(frames) - 1 /\ k + 1 \in 1..n
        BY <1>4, <2>1, <3>2
      <4>2. SeenBefore(Caller(k + 1)) = SeenBy(k)
        BY <4>1 DEF CallsSee
      <4>3. PICK m : m = Caller(k + 1)
        OBVIOUS
      <4>4. m \in ToSet(visited) /\ Caller(k + 1)' = m
        BY <1>2, <1>4, <1>5, <4>1, <4>3
      <4>5. SeenBefore(Caller(k + 1))' = SeenBefore(m)'
        BY <4>4 DEF SeenBefore, Index
      <4>6. SeenBefore(m)' = SeenBefore(m)
        BY <1>7, <4>4
      <4> QED
        BY <1>11, <2>1, <4>2, <4>3, <4>5, <4>6
    <3> QED
      BY <3>1, <3>2
  <2>2. frames' # <<>> /\ Len(frames') = n + 1 /\ Len(frames') - 1 = n
    <3>1. Len(frames') = n + 1 /\ n + 1 # 0
      BY <1>5
    <3>2. Len(frames') # 0 => frames' # <<>>
      OBVIOUS
    <3> QED
      BY <3>1, <3>2
  <2>3. /\ position' - 1 \in 1..Len(entries')
        /\ Caller(1)' = entries'[position' - 1]
        /\ SeenBefore(Caller(1))' = NewlySeen({}, EarlierEntries(position - 1))'
    <3>1. CASE frames = <<>>
      <4>1. n = 0 /\ position' = position + 1 /\ position' - 1 = position
        BY <1>2, <1>4, <3>1
      <4>2. Caller(1)' = x /\ SeenBefore(Caller(1))' = ToSet(visited)
        BY <1>5, <1>9, <4>1 DEF SeenBefore, Index
      <4>3. NewlySeen({}, EarlierEntries(position)) = ToSet(visited)
        BY <3>1 DEF CallsSee
      <4>4. PICK i : i = position
        OBVIOUS
      <4>5. NewlySeen({}, EarlierEntries(position - 1))' = NewlySeen({}, EarlierEntries(i))'
        BY <4>1, <4>4 DEF NewlySeen, EarlierEntries
      <4> QED
        BY <1>7, <3>1, <4>1, <4>2, <4>3, <4>4, <4>5
    <3>2. CASE frames # <<>>
      <4>1. PICK i, m : i = position - 1 /\ m = Caller(1)
        OBVIOUS
      <4>2. /\ i \in 1..Len(entries) /\ m = entries[i]
            /\ SeenBefore(m) = NewlySeen({}, EarlierEntries(i))
        BY <3>2, <4>1 DEF CallsSee
      <4>3. 1 \in 1..n
        BY <1>2, <1>4, <3>2
      <4>4. m \in ToSet(visited) /\ Caller(1)' = m /\ position' - 1 = i
        BY <1>2, <1>4, <1>5, <3>2, <4>1, <4>3
      <4>5. SeenBefore(Caller(1))' = SeenBefore(m)'
        BY <4>4 DEF SeenBefore, Index
      <4>6. NewlySeen({}, EarlierEntries(position - 1))' = NewlySeen({}, EarlierEntries(i))'
        BY <4>4 DEF NewlySeen, EarlierEntries
      <4> QED
        BY <1>7, <4>2, <4>4, <4>5, <4>6
    <3> QED
      BY <3>1, <3>2
  <2> QED
    BY <1>10, <2>1, <2>2, <2>3 DEF CallsSee
<1>13. \A i \in 1..Len(entries) : i < position' => EntryBegins(i)'
  <2> TAKE i \in 1..Len(entries)
  <2> HAVE i < position'
  <2>1. CASE i < position
    <3>1. entries[i] \in ToSet(visited) /\ EntryBegins(i)
      BY <2>1 DEF CoverInvariant, EntriesVisited, BegunInOrder
    <3> QED
      BY <1>8, <3>1
  <2>2. CASE ~(i < position)
    <3>1. frames = <<>> /\ i = position /\ entries[i] = x
      BY <1>2, <2>2
    <3>2. NewlySeen({}, EarlierEntries(i)) = ToSet(visited)
      BY <3>1 DEF CallsSee
    <3>3. NewlySeen({}, EarlierEntries(i))' = ToSet(visited)
      BY <1>7, <3>2
    <3>4. SeenBefore(entries[i])' = ToSet(visited)
      BY <1>9, <3>1 DEF SeenBefore, Index
    <3> QED
      BY <3>3, <3>4 DEF EntryBegins
  <2> QED
    BY <2>1, <2>2
<1>14. \A m \in ToSet(visited)' : \A p \in RuntimePlaces(m)' : Made(m, p)' => RequestBegins(m, p)'
  <2> SUFFICES ASSUME NEW m \in ToSet(visited) \cup {x}, NEW p \in RuntimePlaces(m), Made(m, p)'
               PROVE  RequestBegins(m, p)'
    BY <1>1 DEF RuntimePlaces
  <2>1. \A k \in 1..n + 1 : Caller(k)' = m => p < frames'[k].next
    BY <1>5 DEF Made
  <2>2. 1..n \subseteq 1..n + 1 /\ n + 1 \in 1..n + 1
    OBVIOUS
  <2>3. m # x
    <3> SUFFICES ASSUME m = x PROVE FALSE
      OBVIOUS
    <3>1. p < PlaceFrom(x, 1)
      BY <1>1, <1>4, <1>5, <2>1, <2>2
    <3>2. requests[x][p].target \in FollowedBefore(x, PlaceFrom(x, 1))
      BY <3>1 DEF FollowedBefore
    <3> QED
      BY <3>2, FollowedFirst
  <2>4. m \in ToSet(visited)
    BY <2>3
  <2>5. Made(m, p)
    BY <1>1, <1>4, <1>5, <2>1, <2>2 DEF Made
  <2>6. requests[m][p].target \in ToSet(visited)
    BY <2>4, <2>5, MadeAreVisited
  <2>7. RequestBegins(m, p)
    BY <2>4, <2>5 DEF BegunInOrder
  <2> QED
    BY <1>8, <2>4, <2>6, <2>7
<1>15. FinishedSeen'
  <2> SUFFICES ASSUME NEW m \in ToSet(visited)' \ Callers'
               PROVE  NewlySeen(SeenBefore(m), {m})' \subseteq ToSet(visited)' \ Callers'
    BY DEF FinishedSeen
  <2>1. m \in ToSet(visited) \ Callers
    BY <1>1, <1>6
  <2>2. NewlySeen(SeenBefore(m), {m}) \subseteq ToSet(visited) \ Callers
    BY <2>1 DEF FinishedSeen
  <2> QED
    BY <1>1, <1>6, <1>7, <2>1, <2>2
<1>16. SinglesInOrder'
  <2> SUFFICES ASSUME NEW i \in 1..Len(groups), NEW j \in 1..Len(groups), NEW m \in Modules, NEW o \in Modules,
                      i < j, groups[i].modules = <<m>>, groups[j].modules = <<o>>
               PROVE  RunsBefore(m, o)'
    BY DEF SinglesInOrder
  <2>1. m \in ToSet(visited) /\ o \in ToSet(visited)
    BY SinglesVisited
  <2>2. RunsBefore(m, o)
    BY DEF SinglesInOrder
  <2> QED
    BY <1>8, <2>1, <2>2
<1> QED
  BY <1>12, <1>13, <1>14, <1>15, <1>16 DEF BegunInOrder

\* What does not depend on the calls and the groups stays while nothing is visited.
LEMMA SeenWhileQuiet ==
  ASSUME Structure, UNCHANGED <<requests, entries, visited>>
  PROVE  /\ \A m \in ToSet(visited) : SeenBefore(m)' = SeenBefore(m)
         /\ \A m \in ToSet(visited) : \A p : SeenAt(m, p)' = SeenAt(m, p)
         /\ \A m \in ToSet(visited) : NewlySeen(SeenBefore(m), {m})' = NewlySeen(SeenBefore(m), {m})
         /\ \A i : NewlySeen({}, EarlierEntries(i))' = NewlySeen({}, EarlierEntries(i))
         /\ \A i \in 1..Len(entries) : entries[i] \in ToSet(visited) => EntryBegins(i)' = EntryBegins(i)
         /\ \A m \in ToSet(visited) : \A p \in RuntimePlaces(m) :
              requests[m][p].target \in ToSet(visited) => RequestBegins(m, p)' = RequestBegins(m, p)
         /\ \A m, n \in ToSet(visited) : RunsBefore(m, n)' = RunsBefore(m, n)
         /\ ToSet(visited)' = ToSet(visited)
         /\ \A m : RuntimePlaces(m)' = RuntimePlaces(m)
<1>1. Order' = Order
  BY DEF Order, Index
<1>2. \A k \in 1..Len(visited) : visited'[k] = visited[k]
  OBVIOUS
<1> QED
  BY <1>1, <1>2, SeenKept, OrderKept DEF RuntimePlaces

\* A step that leaves the calls and the groups alone keeps the order; it may pass
\* over an entry that was visited.
LEMMA QuietKeepsSource ==
  ASSUME Structure, CoverInvariant, OrderInvariant, SourceInvariant,
         UNCHANGED <<requests, entries, visited, frames, groups>>,
         \/ position' = position
         \/ /\ frames = <<>> /\ position \in 1..Len(entries) /\ entries[position] \in ToSet(visited)
            /\ position' = position + 1
  PROVE  SourceInvariant'
<1> USE DEF SourceInvariant
<1>1. /\ \A m \in ToSet(visited) : SeenBefore(m)' = SeenBefore(m)
      /\ \A m \in ToSet(visited) : \A p : SeenAt(m, p)' = SeenAt(m, p)
      /\ \A m \in ToSet(visited) : NewlySeen(SeenBefore(m), {m})' = NewlySeen(SeenBefore(m), {m})
      /\ \A i : NewlySeen({}, EarlierEntries(i))' = NewlySeen({}, EarlierEntries(i))
  BY SeenWhileQuiet
<1>2. /\ \A i \in 1..Len(entries) : entries[i] \in ToSet(visited) => EntryBegins(i)' = EntryBegins(i)
      /\ \A m \in ToSet(visited) : \A p \in RuntimePlaces(m) :
           requests[m][p].target \in ToSet(visited) => RequestBegins(m, p)' = RequestBegins(m, p)
      /\ \A m, n \in ToSet(visited) : RunsBefore(m, n)' = RunsBefore(m, n)
      /\ ToSet(visited)' = ToSet(visited)
      /\ \A m : RuntimePlaces(m)' = RuntimePlaces(m)
  BY SeenWhileQuiet
<1>3. /\ position \in Nat \ {0} /\ Len(frames) \in Nat /\ entries \in Seq(Modules)
      /\ requests \in [Modules -> Seq(Request)]
      /\ \A k \in 1..Len(frames) : Caller(k) \in ToSet(visited)
  <2>1. \A k \in 1..Len(frames) : Caller(k) \in ToSet(visited)
    BY OnStack
  <2> QED
    BY <2>1 DEF Structure, TraversalTypes
<1>4. /\ \A k : Caller(k)' = Caller(k)
      /\ Callers' = Callers
      /\ \A m, p : Made(m, p)' = Made(m, p)
  BY DEF Caller, Callers, Made
<1>5. \A k \in 1..Len(frames) : SeenBy(k)' = SeenBy(k) /\ SeenBefore(Caller(k))' = SeenBefore(Caller(k))
  <2> TAKE k \in 1..Len(frames)
  <2>1. PICK m, p : m = Caller(k) /\ p = frames[k].next
    OBVIOUS
  <2>2. m \in ToSet(visited) /\ Caller(k)' = m /\ frames'[k].next = p
    BY <1>3, <1>4, <2>1
  <2>3. SeenBy(k) = SeenAt(m, p) /\ SeenBy(k)' = SeenAt(m, p)'
    BY <2>1, <2>2 DEF SeenBy
  <2>4. SeenBefore(Caller(k))' = SeenBefore(m)'
    BY <2>2 DEF SeenBefore, Index
  <2> QED
    BY <1>1, <2>1, <2>2, <2>3, <2>4
<1>6. ASSUME frames # <<>>
      PROVE  /\ position' = position
             /\ NewlySeen({}, EarlierEntries(position - 1))' = NewlySeen({}, EarlierEntries(position - 1))
  <2>1. position' = position
    BY <1>6
  <2>2. PICK i : i = position - 1
    OBVIOUS
  <2>3. position' - 1 = i
    BY <2>1, <2>2
  <2>4. NewlySeen({}, EarlierEntries(position - 1))' = NewlySeen({}, EarlierEntries(i))'
    BY <2>3 DEF NewlySeen, EarlierEntries
  <2> QED
    BY <1>1, <2>1, <2>2, <2>4
<1>7. ASSUME frames = <<>>
      PROVE  NewlySeen({}, EarlierEntries(position))' = ToSet(visited)
  <2>1. PICK i : i = position
    OBVIOUS
  <2>2. NewlySeen({}, EarlierEntries(i)) = ToSet(visited)
    BY <1>7, <2>1 DEF CallsSee
  <2>3. PICK j : j = position'
    OBVIOUS
  <2>4. NewlySeen({}, EarlierEntries(position))' = NewlySeen({}, EarlierEntries(j))'
    BY <2>3 DEF NewlySeen, EarlierEntries
  <2>5. NewlySeen({}, EarlierEntries(j)) = ToSet(visited)
    <3>1. CASE j = i
      BY <2>2, <3>1
    <3>2. CASE j # i
      <4>1. j = i + 1 /\ i \in 1..Len(entries) /\ entries[i] \in ToSet(visited)
        BY <2>1, <2>3, <3>2
      <4>2. PICK seen : seen = NewlySeen({}, EarlierEntries(i))
        OBVIOUS
      <4>3. NewlySeen({}, EarlierEntries(j)) = seen \cup NewlySeen(seen, {entries[i]})
        BY <1>3, <4>1, <4>2, EntriesInTurn
      <4>4. {entries[i]} \subseteq seen
        BY <2>2, <4>1, <4>2
      <4>5. NewlySeen(seen, {entries[i]}) = {}
        BY <4>4, NothingNew
      <4> QED
        BY <2>2, <4>2, <4>3, <4>5
    <3> QED
      BY <3>1, <3>2
  <2> QED
    BY <1>1, <2>4, <2>5
<1>8. CallsSee'
  <2>1. \A k \in 1..Len(frames) - 1 : SeenBefore(Caller(k + 1))' = SeenBy(k)'
    <3> TAKE k \in 1..Len(frames) - 1
    <3>1. k \in 1..Len(frames) /\ k + 1 \in 1..Len(frames)
      BY <1>3
    <3>2. SeenBefore(Caller(k + 1)) = SeenBy(k)
      BY DEF CallsSee
    <3> QED
      BY <1>5, <3>1, <3>2
  <2>2. frames # <<>> => Len(frames) \in 1..Len(frames) /\ 1 \in 1..Len(frames)
    BY <1>3, EmptySeq
  <2>3. frames # <<>> => SeenBy(Len(frames))' = ToSet(visited)
    BY <1>5, <2>2 DEF CallsSee, SeenBy, SeenAt, Caller
  <2>4. frames # <<>> => SeenBefore(Caller(1))' = NewlySeen({}, EarlierEntries(position - 1))'
    BY <1>5, <1>6, <2>2 DEF CallsSee
  <2>5. frames # <<>> => position' - 1 \in 1..Len(entries) /\ Caller(1)' = entries[position' - 1]
    BY <1>4, <1>6 DEF CallsSee
  <2> QED
    BY <1>2, <1>7, <2>1, <2>3, <2>4, <2>5 DEF CallsSee
<1>9. \A i \in 1..Len(entries) : i < position' => EntryBegins(i)'
  <2> TAKE i \in 1..Len(entries)
  <2> HAVE i < position'
  <2>1. CASE i < position
    <3>1. entries[i] \in ToSet(visited) /\ EntryBegins(i)
      BY <2>1 DEF CoverInvariant, EntriesVisited, BegunInOrder
    <3> QED
      BY <1>2, <3>1
  <2>2. CASE ~(i < position)
    <3>1. frames = <<>> /\ i = position /\ entries[i] \in ToSet(visited)
      BY <1>3, <2>2
    <3>2. NewlySeen({}, EarlierEntries(i)) = ToSet(visited)
      BY <3>1 DEF CallsSee
    <3>3. EntryBegins(i)
      BY <3>1, <3>2 DEF EntryBegins
    <3> QED
      BY <1>2, <3>1, <3>3
  <2> QED
    BY <2>1, <2>2
<1>10. \A m \in ToSet(visited) : \A p \in RuntimePlaces(m) : Made(m, p) => RequestBegins(m, p)'
  BY <1>2, MadeAreVisited DEF BegunInOrder
<1>11. FinishedSeen'
  BY <1>1, <1>2, <1>4 DEF FinishedSeen
<1>12. SinglesInOrder'
  BY <1>2, SinglesVisited DEF SinglesInOrder
<1> QED
  BY <1>2, <1>4, <1>8, <1>9, <1>10, <1>11, <1>12 DEF BegunInOrder

\* The call that runs next goes on behind its request once it has seen what that
\* led to; between two entries, what the earlier entries lead to was seen.
LEMMA AdvanceKeepsSeen ==
  ASSUME Structure, OrderInvariant, CoverInvariant, SourceInvariant, frames # <<>>,
         NEW n \in {Len(frames), Len(frames) - 1}, n = Len(frames) => AtRequest,
         n # Len(frames) => frames[Len(frames)].next > Len(requests[Caller(Len(frames))]),
         frames' = Advanced(SubSeq(frames, 1, n)),
         UNCHANGED <<requests, entries, visited, position>>,
         NEW m, NEW k, n > 0 => m = Caller(n) /\ k = frames[n].next,
         n > 0 => SeenAt(m, PlaceFrom(m, k + 1)) = ToSet(visited),
         n > 0 => RequestBegins(m, k),
         n = 0 => NewlySeen({}, EarlierEntries(position)) = ToSet(visited)
  PROVE  CallsSee' /\ BegunInOrder'
<1> USE DEF SourceInvariant
<1>1. /\ n \in Nat /\ Len(frames') = n
      /\ \A j \in 1..n : frames'[j].module = frames[j].module
      /\ \A j \in 1..n - 1 : frames'[j] = frames[j]
      /\ n > 0 => k \in RuntimePlaces(m) /\ frames'[n].next = PlaceFrom(m, k + 1)
  BY AdvanceEffects
<1>2. /\ Len(frames) \in Nat \ {0} /\ n <= Len(frames) /\ position \in Nat
      /\ requests \in [Modules -> Seq(Request)]
      /\ \A j \in 1..Len(frames) : Caller(j) \in ToSet(visited) /\ Caller(j) \in Modules
  <2>1. \A j \in 1..Len(frames) : Caller(j) \in ToSet(visited) /\ Caller(j) \in Modules
    BY OnStack
  <2>2. Len(frames) \in Nat \ {0}
    BY RunningCall
  <2>3. position \in Nat /\ requests \in [Modules -> Seq(Request)]
    BY DEF Structure, TraversalTypes
  <2> QED
    BY <2>1, <2>2, <2>3
<1>3. /\ \A x \in ToSet(visited) : SeenBefore(x)' = SeenBefore(x)
      /\ \A x \in ToSet(visited) : \A p : SeenAt(x, p)' = SeenAt(x, p)
      /\ \A i : NewlySeen({}, EarlierEntries(i))' = NewlySeen({}, EarlierEntries(i))
      /\ \A i \in 1..Len(entries) : entries[i] \in ToSet(visited) => EntryBegins(i)' = EntryBegins(i)
      /\ \A x \in ToSet(visited) : \A p \in RuntimePlaces(x) :
           requests[x][p].target \in ToSet(visited) => RequestBegins(x, p)' = RequestBegins(x, p)
      /\ ToSet(visited)' = ToSet(visited)
      /\ \A x : RuntimePlaces(x)' = RuntimePlaces(x)
  BY SeenWhileQuiet
<1>4. \A j \in 1..n : j \in 1..Len(frames) /\ Caller(j)' = Caller(j)
  BY <1>1, <1>2 DEF Caller
<1>5. ASSUME NEW j \in 1..n
      PROVE  SeenBefore(Caller(j))' = SeenBefore(Caller(j))
  <2>1. PICK x : x = Caller(j)
    OBVIOUS
  <2>2. x \in ToSet(visited) /\ Caller(j)' = x
    BY <1>2, <1>4, <2>1
  <2>3. SeenBefore(Caller(j))' = SeenBefore(x)'
    BY <2>2 DEF SeenBefore, Index
  <2> QED
    BY <1>3, <2>1, <2>2, <2>3
<1>6. ASSUME NEW j \in 1..n - 1
      PROVE  SeenBy(j)' = SeenBy(j)
  <2>1. PICK x, p : x = Caller(j) /\ p = frames[j].next
    OBVIOUS
  <2>2. j \in 1..n
    BY <1>1
  <2>3. x \in ToSet(visited) /\ Caller(j)' = x /\ frames'[j].next = p
    BY <1>1, <1>2, <1>4, <2>1, <2>2
  <2>4. SeenBy(j) = SeenAt(x, p) /\ SeenBy(j)' = SeenAt(x, p)'
    BY <2>1, <2>3 DEF SeenBy
  <2> QED
    BY <1>3, <2>3, <2>4
<1>7. ASSUME n > 0
      PROVE  SeenBy(n)' = ToSet(visited)
  <2>1. PICK p : p = PlaceFrom(m, k + 1)
    OBVIOUS
  <2>2. n \in 1..n
    BY <1>1, <1>7
  <2>3. m \in ToSet(visited) /\ Caller(n)' = m /\ frames'[n].next = p
    BY <1>1, <1>2, <1>4, <1>7, <2>1, <2>2
  <2>4. SeenBy(n)' = SeenAt(m, p)'
    BY <2>3 DEF SeenBy
  <2>5. SeenAt(m, p) = ToSet(visited)
    BY <1>7, <2>1
  <2> QED
    BY <1>3, <2>3, <2>4, <2>5
<1>8. frames' = <<>> <=> n = 0
  <2>1. frames' = <<>> => Len(frames') = 0
    OBVIOUS
  <2>2. frames' \in Seq([module : Modules, next : Nat])
    BY AdvanceEffects
  <2>3. Len(frames') = 0 => frames' = <<>>
    BY <2>2, EmptySeq
  <2> QED
    BY <1>1, <2>1, <2>3
<1>9. CallsSee'
  <2>1. \A j \in 1..n - 1 : SeenBefore(Caller(j + 1))' = SeenBy(j)'
    <3> TAKE j \in 1..n - 1
    <3>1. j \in 1..Len(frames) - 1 /\ j + 1 \in 1..n
      BY <1>1, <1>2
    <3>2. SeenBefore(Caller(j + 1)) = SeenBy(j)
      BY <3>1 DEF CallsSee
    <3> QED
      BY <1>5, <1>6, <3>1, <3>2
  <2>2. n > 0 => /\ position' - 1 \in 1..Len(entries)
                 /\ Caller(1)' = entries[position' - 1]
                 /\ SeenBefore(Caller(1))' = NewlySeen({}, EarlierEntries(position - 1))'
    <3> HAVE n > 0
    <3>1. PICK i : i = position - 1
      OBVIOUS
    <3>2. i \in 1..Len(entries) /\ Caller(1) = entries[i] /\ SeenBefore(Caller(1)) = NewlySeen({}, EarlierEntries(i))
      BY <3>1 DEF CallsSee
    <3>3. 1 \in 1..n /\ position' - 1 = i
      BY <1>1, <3>1
    <3>4. NewlySeen({}, EarlierEntries(position - 1))' = NewlySeen({}, EarlierEntries(i))'
      BY <3>3 DEF NewlySeen, EarlierEntries
    <3> QED
      BY <1>3, <1>4, <1>5, <3>2, <3>3, <3>4
  <2>3. n = 0 => NewlySeen({}, EarlierEntries(position))' = ToSet(visited)
    <3>1. PICK i : i = position
      OBVIOUS
    <3>2. NewlySeen({}, EarlierEntries(position))' = NewlySeen({}, EarlierEntries(i))'
      BY <3>1 DEF NewlySeen, EarlierEntries
    <3> QED
      BY <1>3, <3>1, <3>2
  <2>4. Len(frames') = n /\ (n # 0 => n > 0)
    BY <1>1
  <2>5. n > 0 => SeenBy(Len(frames))' = ToSet(visited)
    BY <1>7, <2>4 DEF SeenBy, SeenAt, NewlySeen, Caller
  <2> QED
    BY <1>3, <1>8, <2>1, <2>2, <2>3, <2>4, <2>5 DEF CallsSee
<1>10. \A i \in 1..Len(entries) : i < position' => EntryBegins(i)'
  BY <1>3 DEF CoverInvariant, EntriesVisited, BegunInOrder
<1>11. ASSUME NEW x \in ToSet(visited), NEW p \in RuntimePlaces(x), Made(x, p)'
       PROVE  RequestBegins(x, p)'
  <2>1. \A j \in 1..n : Caller(j) = x => p < frames'[j].next
    BY <1>1, <1>4, <1>11 DEF Made
  <2>2. p \in Nat /\ p <= Len(requests[x]) /\ x \in Modules /\ Len(requests[x]) \in Nat
    <3>1. x \in Modules
      BY ElementsOf DEF Structure, TraversalTypes
    <3> QED
      BY <1>2, <3>1 DEF RuntimePlaces
  <2>3. CASE n > 0 /\ x = m /\ p = k
    <3>1. RequestBegins(x, p)
      BY <2>3
    <3>2. requests[x][p].target \in ToSet(visited)
      <4>1. requests[x][p].target \in SeenAt(x, PlaceFrom(x, p + 1))
        BY TargetSeen
      <4> QED
        BY <2>3, <4>1
    <3> QED
      BY <1>3, <3>1, <3>2
  <2>4. CASE ~(n > 0 /\ x = m /\ p = k)
    <3>1. ASSUME NEW j \in 1..Len(frames), Caller(j) = x PROVE p < frames[j].next
      <4>1. j \in 1..n - 1 \/ (j = n /\ n > 0) \/ (n # Len(frames) /\ j = Len(frames))
        BY <1>1, <1>2
      <4>2. CASE j \in 1..n - 1
        <5>1. j \in 1..n
          BY <1>1, <4>2
        <5> QED
          BY <1>1, <2>1, <3>1, <4>2, <5>1
      <4>3. CASE j = n /\ n > 0
        <5>1. x = m /\ p # k /\ n \in 1..n
          BY <1>1, <2>4, <3>1, <4>3
        <5>2. p < PlaceFrom(m, k + 1)
          BY <1>1, <2>1, <3>1, <4>3, <5>1
        <5>3. k \in Nat /\ k + 1 \in 1..Len(requests[x]) + 1 /\ k = frames[j].next
          <6>1. k \in RuntimePlaces(x) /\ k = frames[j].next
            BY <1>1, <4>3, <5>1
          <6> QED
            BY <2>2, <6>1 DEF RuntimePlaces
        <5>4. PlaceFrom(m, k + 1) \in k + 1..Len(requests[x]) + 1 /\ (p >= k + 1 => PlaceFrom(m, k + 1) <= p)
          BY <1>2, <2>2, <5>1, <5>3, Places
        <5> QED
          BY <2>2, <5>1, <5>2, <5>3, <5>4
      <4>4. CASE n # Len(frames) /\ j = Len(frames)
        <5>1. frames[j].next > Len(requests[x])
          BY <3>1, <4>4
        <5>2. frames[j].next \in Nat
          <6>1. frames \in Seq([module : Modules, next : Nat])
            BY DEF Structure, TraversalTypes
          <6>2. frames[j] \in [module : Modules, next : Nat]
            BY <6>1, ElementOfSeq
          <6> QED
            BY <6>2
        <5> QED
          BY <2>2, <5>1, <5>2
      <4> QED
        BY <4>1, <4>2, <4>3, <4>4
    <3>2. Made(x, p)
      BY <3>1 DEF Made
    <3>3. requests[x][p].target \in ToSet(visited) /\ RequestBegins(x, p)
      BY <3>2, MadeAreVisited DEF BegunInOrder
    <3> QED
      BY <1>3, <3>3
  <2> QED
    BY <2>3, <2>4
<1> QED
  BY <1>3, <1>9, <1>10, <1>11 DEF BegunInOrder

\* A request of the call that runs was seen before: nothing more is seen by it.
LEMMA RevisitKeepsSource ==
  ASSUME Structure, OrderInvariant, CoverInvariant, SourceInvariant, RevisitDependency
  PROVE  SourceInvariant'
<1> USE DEF SourceInvariant
<1>1. /\ AtRequest /\ frames # <<>> /\ Dependency \in ToSet(visited)
      /\ UNCHANGED <<requests, entries, visited, groups, position>>
      /\ frames' = Advanced(frames)
  BY NextDependency, ElementsOf DEF RevisitDependency, Structure, TraversalTypes, input
<1>2. PICK n \in Nat \ {0} : n = Len(frames)
  BY <1>1, RunningCall
<1>3. frames' = Advanced(SubSeq(frames, 1, n))
  BY <1>1, <1>2, SubSeqFull DEF Structure, TraversalTypes
<1>4. PICK m, k, t : m = Caller(n) /\ k = frames[n].next /\ t = requests[m][k].target
  OBVIOUS
<1>5. m = Current /\ m \in ToSet(visited) /\ k \in RuntimePlaces(m) /\ t \in ToSet(visited)
  BY <1>1, <1>2, <1>4, RunningCall, NextDependency
<1>6. SeenAt(m, k) = ToSet(visited)
  BY <1>1, <1>2, <1>4 DEF CallsSee, SeenBy
<1>7. SeenAt(m, PlaceFrom(m, k + 1)) = ToSet(visited)
  <2>1. PICK seen : seen = ToSet(visited)
    OBVIOUS
  <2>2. SeenAt(m, PlaceFrom(m, k + 1)) = seen \cup NewlySeen(seen, {t})
    BY <1>4, <1>5, <1>6, <2>1, SeenNext
  <2>3. NewlySeen(seen, {t}) = {}
    <3>1. {t} \subseteq seen
      BY <1>5, <2>1
    <3> QED
      BY <3>1, NothingNew
  <2> QED
    BY <2>1, <2>2, <2>3
<1>8. RequestBegins(m, k)
  BY <1>4, <1>5, <1>6 DEF RequestBegins
<1>9. CallsSee' /\ BegunInOrder'
  BY <1>1, <1>2, <1>3, <1>4, <1>7, <1>8, AdvanceKeepsSeen
<1>10. Callers' = Callers
  <2>1. /\ Len(frames') = n
        /\ \A j \in 1..n : frames'[j].module = frames[j].module
    BY <1>1, <1>2, <1>3, AdvanceEffects
  <2> QED
    BY <1>2, <2>1 DEF Callers, Caller
<1>11. /\ \A x \in ToSet(visited) : NewlySeen(SeenBefore(x), {x})' = NewlySeen(SeenBefore(x), {x})
       /\ \A x, y \in ToSet(visited) : RunsBefore(x, y)' = RunsBefore(x, y)
       /\ ToSet(visited)' = ToSet(visited)
  BY <1>1, SeenWhileQuiet
<1>12. FinishedSeen'
  BY <1>10, <1>11 DEF FinishedSeen
<1>13. SinglesInOrder'
  BY <1>1, <1>11, SinglesVisited DEF SinglesInOrder
<1> QED
  BY <1>9, <1>12, <1>13

\* A call that made another one will have seen, behind that request, what the
\* other one has seen when it ends.
LEMMA CallerSees ==
  ASSUME Structure, CallsSee
  PROVE  \A n \in 1..Len(frames) - 1 : \A m, k, x : m = Caller(n) /\ k = frames[n].next /\ x = Caller(n + 1) =>
           /\ SeenAt(m, PlaceFrom(m, k + 1)) = SeenBefore(x) \cup NewlySeen(SeenBefore(x), {x})
           /\ RequestBegins(m, k)
<1>0. SUFFICES ASSUME NEW n, NEW m, NEW k, NEW x,
                      n \in 1..Len(frames) - 1 /\ m = Caller(n) /\ k = frames[n].next /\ x = Caller(n + 1)
               PROVE  /\ SeenAt(m, PlaceFrom(m, k + 1)) = SeenBefore(x) \cup NewlySeen(SeenBefore(x), {x})
                      /\ RequestBegins(m, k)
  OBVIOUS
<1>1. SeenBefore(x) = SeenAt(m, k)
  BY <1>0 DEF CallsSee, SeenBy
<1>2. m \in ToSet(visited)
  <2>1. n \in 1..Len(frames)
    BY <1>0, OnStack
  <2> QED
    BY <1>0, <2>1, OnStack
<1>3. k \in RuntimePlaces(m) /\ requests[m][k].target = x
  <2>1. n \in 1..Len(frames)
    BY <1>0, OnStack
  <2> QED
    BY <1>0, <2>1 DEF Structure, CallsFollowRequests
<1>4. PICK seen : seen = SeenAt(m, k)
  OBVIOUS
<1>5. SeenAt(m, PlaceFrom(m, k + 1)) = seen \cup NewlySeen(seen, {x})
  BY <1>2, <1>3, <1>4, SeenPastRequest
<1>6. RequestBegins(m, k)
  BY <1>1, <1>3 DEF RequestBegins
<1> QED
  BY <1>1, <1>4, <1>5, <1>6

\* A call that returns has seen all that its module leads to, and its caller goes on.
LEMMA ReturnKeepsSource ==
  ASSUME Structure, OrderInvariant, CoverInvariant, SourceInvariant,
         frames # <<>>, ~AtRequest, Return(Current),
         UNCHANGED <<requests, entries, visited, position>>
  PROVE  /\ CallsSee' /\ BegunInOrder' /\ FinishedSeen'
         /\ ToSet(visited) = SeenBefore(Current) \cup NewlySeen(SeenBefore(Current), {Current})
<1> USE DEF SourceInvariant
<1>1. PICK n \in Nat : n = Len(frames) - 1
  BY RunningCall
<1>2. /\ Len(frames) = n + 1 /\ n # Len(frames) /\ n + 1 \in 1..Len(frames) /\ Current = Caller(n + 1)
      /\ Last(frames) = frames[n + 1] /\ Current \in ToSet(visited) /\ Current \in Callers
      /\ frames' = Advanced(SubSeq(frames, 1, n))
      /\ Callers' = Callers \ {Current}
      /\ \A j \in 1..n : j \in 1..Len(frames) /\ Caller(j) \in Modules
  <2>1. Len(frames) = n + 1 /\ n # Len(frames) /\ n + 1 \in 1..Len(frames)
    BY <1>1, RunningCall
  <2>2. Current = Caller(n + 1) /\ Last(frames) = frames[n + 1] /\ Current \in ToSet(visited) /\ Current \in Callers
    BY <2>1, RunningCall
  <2>3. frames' = Advanced(SubSeq(frames, 1, n))
    BY <1>1, ReturnEffects
  <2> QED
    BY <1>1, <2>1, <2>2, <2>3, CallsAfterReturn
<1>3. PICK x \in ToSet(visited) : x = Current
  BY <1>2
<1>4. PICK end : end = frames[n + 1].next
  OBVIOUS
<1>5. FollowedBefore(x, end) = RuntimeTargets(x)
  BY <1>2, <1>3, <1>4, RunningCallFollowed DEF Followed
<1>6. SeenAt(x, end) = ToSet(visited)
  BY <1>2, <1>3, <1>4 DEF CallsSee, SeenBy
<1>7. SeenAt(x, end) = SeenBefore(x) \cup NewlySeen(SeenBefore(x), {x})
  BY <1>5, SeenAtEnd
<1>8. frames[n + 1].next > Len(requests[x])
  <2>1. ~(end <= Len(requests[x]))
    BY <1>2, <1>3, <1>4 DEF AtRequest
  <2>2. end \in Nat
    <3>1. frames[n + 1] \in [module : Modules, next : Nat]
      BY <1>2, ElementOfSeq DEF Structure, TraversalTypes
    <3> QED
      BY <1>4, <3>1
  <2>3. Len(requests[x]) \in Nat
    BY <1>3, RunningCall
  <2> QED
    BY <1>4, <2>1, <2>2, <2>3
<1>9. PICK m, k : m = Caller(n) /\ k = frames[n].next
  OBVIOUS
<1>10. ASSUME n > 0
      PROVE  SeenAt(m, PlaceFrom(m, k + 1)) = ToSet(visited) /\ RequestBegins(m, k)
  <2>1. n \in 1..Len(frames) - 1
    BY <1>1, <1>2, <1>10
  <2>2. /\ SeenAt(m, PlaceFrom(m, k + 1)) = SeenBefore(x) \cup NewlySeen(SeenBefore(x), {x})
        /\ RequestBegins(m, k)
    BY <1>2, <1>3, <1>9, <2>1, CallerSees
  <2> QED
    BY <1>6, <1>7, <2>2
<1>11. ASSUME n = 0
       PROVE  NewlySeen({}, EarlierEntries(position)) = ToSet(visited)
  <2>1. PICK i, seen : i = position - 1 /\ seen = NewlySeen({}, EarlierEntries(i))
    OBVIOUS
  <2>2. i \in 1..Len(entries) /\ x = entries[i] /\ SeenBefore(x) = seen
    BY <1>2, <1>3, <1>11, <2>1 DEF CallsSee
  <2>3. position = i + 1 /\ requests \in [Modules -> Seq(Request)] /\ entries \in Seq(Modules)
    BY <2>1 DEF Structure, TraversalTypes
  <2>4. NewlySeen({}, EarlierEntries(position)) = seen \cup NewlySeen(seen, {entries[i]})
    BY <2>1, <2>2, <2>3, EntriesInTurn
  <2> QED
    BY <1>6, <1>7, <2>2, <2>4
<1>12. CallsSee' /\ BegunInOrder'
  <2>1. n \in {Len(frames), Len(frames) - 1}
    BY <1>1
  <2>2. frames[Len(frames)].next > Len(requests[Caller(Len(frames))])
    BY <1>2, <1>3, <1>8
  <2> QED
    BY <1>2, <1>9, <1>10, <1>11, <2>1, <2>2, AdvanceKeepsSeen
<1>13. /\ \A y \in ToSet(visited) : NewlySeen(SeenBefore(y), {y})' = NewlySeen(SeenBefore(y), {y})
       /\ ToSet(visited)' = ToSet(visited)
  BY SeenWhileQuiet
<1>14. NewlySeen(SeenBefore(x), {x}) \subseteq ToSet(visited) \ Callers'
  <2>1. NewlySeen(SeenBefore(x), {x}) \subseteq ToSet(visited)
    BY <1>6, <1>7
  <2>2. PICK before : before = SeenBefore(x)
    OBVIOUS
  <2>3. PICK one \in SUBSET Modules : one = {x}
    BY BeforeIsVisited
  <2>4. NewlySeen(before, one) \cap before = {}
    <3>1. PICK new : new = NewlySeen(before, one)
      OBVIOUS
    <3>2. requests \in [Modules -> Seq(Request)]
      BY DEF Structure, TraversalTypes
    <3>3. new \cap before = {}
      BY <3>1, <3>2, NewlySeenClosed
    <3> QED
      BY <3>1, <3>3
  <2>5. \A c \in Callers \ {x} : c \in before
    <3> SUFFICES ASSUME NEW j \in 1..Len(frames), Caller(j) # x PROVE Caller(j) \in before
      BY DEF Callers
    <3>1. j \in 1..Len(frames) - 1
      BY <1>1, <1>2, <1>3
    <3>2. Order[Caller(j)] < Order[x]
      BY <1>3, <3>1, RunningCall
    <3>3. Caller(j) \in ToSet(visited)
      BY OnStack
    <3> QED
      BY <2>2, <3>2, <3>3, BeforeIsVisited
  <2> QED
    BY <1>2, <1>3, <2>1, <2>2, <2>3, <2>4, <2>5
<1>15. FinishedSeen'
  <2> SUFFICES ASSUME NEW y \in ToSet(visited) \ Callers'
               PROVE  NewlySeen(SeenBefore(y), {y}) \subseteq ToSet(visited) \ Callers'
    BY <1>13 DEF FinishedSeen
  <2>1. CASE y = x
    BY <1>14, <2>1
  <2>2. CASE y # x
    <3>1. y \in ToSet(visited) \ Callers
      BY <1>2, <1>3, <2>2
    <3>2. NewlySeen(SeenBefore(y), {y}) \subseteq ToSet(visited) \ Callers
      BY <3>1 DEF FinishedSeen
    <3> QED
      BY <1>2, <3>2
  <2> QED
    BY <2>1, <2>2
<1> QED
  BY <1>3, <1>6, <1>7, <1>12, <1>15

\* Closing a group keeps the order: a group of one that was there before runs
\* first, for the call that returns has seen it and it never led to that call.
LEMMA CloseKeepsSource ==
  ASSUME Structure, OrderInvariant, CoverInvariant, SourceInvariant, CloseGroup
  PROVE  SourceInvariant'
<1> USE DEF SourceInvariant
<1>1. /\ frames # <<>> /\ ~AtRequest /\ Return(Current)
      /\ UNCHANGED <<requests, entries, visited, position>>
      /\ stack' = SubSeq(stack, 1, Len(stack) - Len(Popped(Current)))
  BY DEF CloseGroup, input
<1>2. /\ CallsSee' /\ BegunInOrder' /\ FinishedSeen'
      /\ ToSet(visited) = SeenBefore(Current) \cup NewlySeen(SeenBefore(Current), {Current})
  BY <1>1, ReturnKeepsSource
<1>3. PICK c \in ToSet(visited) : c = Current
  BY <1>1, RunningCall
<1>4. /\ Len(groups) \in Nat /\ Len(groups') = Len(groups) + 1
      /\ \A k \in 1..Len(groups) : groups'[k] = groups[k]
      /\ groups'[Len(groups) + 1].modules = Popped(c)
  BY <1>3, GroupEffects
<1>5. c \in ToSet(Popped(c)) /\ c \in Callers
  <2>1. c \in ToSet(stack) /\ c \in Callers
    BY <1>1, <1>3, RunningCall
  <2>2. Order[c] \in Nat
    BY OnStack
  <2>3. ToSet(Popped(c)) = {m \in ToSet(stack) : Order[m] >= Order[c]}
    BY <1>1, <1>3, ClosingEffects
  <2> QED
    BY <2>1, <2>2, <2>3
<1>6. \A x, y \in ToSet(visited) : RunsBefore(x, y)' = RunsBefore(x, y)
  BY <1>1, SeenWhileQuiet
<1>7. ASSUME NEW i \in 1..Len(groups'), NEW j \in 1..Len(groups'), NEW m \in Modules, NEW o \in Modules,
             i < j, groups'[i].modules = <<m>>, groups'[j].modules = <<o>>
      PROVE  RunsBefore(m, o)'
  <2>1. i \in 1..Len(groups) /\ groups[i].modules = <<m>>
    BY <1>4, <1>7
  <2>2. m \in ToSet(visited) \ Callers
    BY <2>1, SinglesVisited
  <2>3. CASE j \in 1..Len(groups)
    <3>1. groups[j].modules = <<o>>
      BY <1>4, <1>7, <2>3
    <3>2. o \in ToSet(visited)
      BY <2>3, <3>1, SinglesVisited
    <3>3. RunsBefore(m, o)
      BY <1>7, <2>1, <2>3, <3>1 DEF SinglesInOrder
    <3> QED
      BY <1>6, <2>2, <3>2, <3>3
  <2>4. CASE j \notin 1..Len(groups)
    <3>1. j = Len(groups) + 1
      BY <1>4, <2>4
    <3>2. Popped(c) = <<o>>
      BY <1>4, <1>7, <3>1
    <3>3. o = c
      <4>1. ToSet(<<o>>) = {o}
        BY DEF ToSet
      <4> QED
        BY <1>5, <3>2, <4>1
    <3>4. c \notin NewlySeen(SeenBefore(m), {m})
      BY <1>5, <2>2 DEF FinishedSeen
    <3>5. RunsBefore(m, c)
      BY <1>2, <1>3, <2>2, <3>4 DEF RunsBefore
    <3> QED
      BY <1>6, <2>2, <3>3, <3>5
  <2> QED
    BY <2>3, <2>4
<1>8. SinglesInOrder'
  BY <1>7 DEF SinglesInOrder
<1> QED
  BY <1>2, <1>8

\* So does a return that leaves its module on the stack.
LEMMA LeaveKeepsSource ==
  ASSUME Structure, OrderInvariant, CoverInvariant, SourceInvariant, LeaveOnStack
  PROVE  SourceInvariant'
<1>1. /\ frames # <<>> /\ ~AtRequest /\ Return(Current)
      /\ UNCHANGED <<requests, entries, visited, position, groups>>
  BY DEF LeaveOnStack, input
<1>2. CallsSee' /\ BegunInOrder' /\ FinishedSeen'
  BY <1>1, ReturnKeepsSource
<1>3. \A x, y \in ToSet(visited) : RunsBefore(x, y)' = RunsBefore(x, y)
  BY <1>1, SeenWhileQuiet
<1>4. SinglesInOrder'
  BY <1>1, <1>3, SinglesVisited DEF SourceInvariant, SinglesInOrder
<1> QED
  BY <1>2, <1>4 DEF SourceInvariant

\* Before the first entry nothing was seen and nothing was visited.
LEMMA InitSource == Init => SourceInvariant
<1> SUFFICES ASSUME Init PROVE SourceInvariant
  OBVIOUS
<1>1. visited = <<>> /\ frames = <<>> /\ groups = <<>> /\ position = 1
  BY DEF Init
<1>2. ToSet(visited) = {} /\ 1..Len(groups) = {}
  BY <1>1 DEF ToSet
<1>3. NewlySeen({}, EarlierEntries(position)) = {}
  <2>1. 1..(position - 1) = {}
    BY <1>1
  <2>2. EarlierEntries(position) = {}
    BY <2>1 DEF EarlierEntries
  <2> QED
    BY <2>2, NothingNew
<1>4. 1..Len(frames) - 1 = {}
  BY <1>1
<1>5. CallsSee
  BY <1>1, <1>2, <1>3, <1>4 DEF CallsSee
<1>6. \A i \in 1..Len(entries) : ~(i < position)
  BY <1>1
<1> QED
  BY <1>2, <1>5, <1>6 DEF SourceInvariant, BegunInOrder, FinishedSeen, SinglesInOrder

\* Every step keeps the order.
LEMMA NextSource ==
  Structure /\ OrderInvariant /\ CoverInvariant /\ SourceInvariant /\ [Next]_vars => SourceInvariant'
<1> SUFFICES ASSUME Structure, OrderInvariant, CoverInvariant, SourceInvariant, [Next]_vars
             PROVE  SourceInvariant'
  OBVIOUS
<1> USE DEF input, traversal
<1>1. visited \in Seq(Modules)
  BY DEF Structure, TraversalTypes
<1>2. CASE VisitEntry
  <2>1. /\ frames = <<>> /\ position' = position + 1 /\ UNCHANGED <<requests, entries, groups>>
        /\ position \in 1..Len(entries) /\ entries[position] \in Modules
    BY <1>2, EntryInRange DEF VisitEntry
  <2>2. CASE Contains(visited, entries[position])
    <3>1. UNCHANGED <<visited, frames>>
      BY <1>2, <2>2 DEF VisitEntry
    <3>2. entries[position] \in ToSet(visited)
      BY <1>1, <2>2, ElementsOf
    <3> QED
      BY <2>1, <3>1, <3>2, QuietKeepsSource
  <2>3. CASE ~Contains(visited, entries[position])
    <3>1. entries[position] \notin ToSet(visited)
      BY <1>1, <2>3, ElementsOf
    <3>2. Open(entries[position])
      BY <1>2, <2>3 DEF VisitEntry
    <3>3. PICK x \in Modules : x = entries[position]
      BY <2>1
    <3>4. x \notin ToSet(visited) /\ Open(x)
      BY <3>1, <3>2, <3>3
    <3> QED
      BY <2>1, <3>3, <3>4, OpenKeepsSource
  <2> QED
    BY <2>2, <2>3
<1>3. CASE VisitDependency
  <2>1. AtRequest /\ ~Contains(visited, Dependency) /\ Open(Dependency)
    BY <1>3 DEF VisitDependency
  <2>2. Dependency \notin ToSet(visited) /\ Dependency \in Modules /\ frames # <<>>
    BY <1>1, <2>1, NextDependency, ElementsOf
  <2>3. position' = position /\ UNCHANGED <<requests, entries, groups>>
    BY <1>3 DEF VisitDependency
  <2> QED
    BY <2>1, <2>2, <2>3, OpenKeepsSource
<1>4. CASE RevisitDependency
  BY <1>4, RevisitKeepsSource
<1>5. CASE CloseGroup
  BY <1>5, CloseKeepsSource
<1>6. CASE LeaveOnStack
  BY <1>6, LeaveKeepsSource
<1>7. CASE AssertReachability
  BY <1>7, QuietKeepsSource DEF AssertReachability
<1>8. CASE PlanModules
  BY <1>8, QuietKeepsSource DEF PlanModules
<1>9. ASSUME NEW selection \in SUBSET Modules, Project(selection) PROVE SourceInvariant'
  BY <1>9, QuietKeepsSource DEF Project
<1>10. CASE UNCHANGED vars
  BY <1>10, QuietKeepsSource DEF vars
<1> QED
  BY <1>2, <1>3, <1>4, <1>5, <1>6, <1>7, <1>8, <1>9, <1>10 DEF Next

\* At every moment the modules visited so far are what the source language has
\* seen, in the order in which it comes to them.
THEOREM SourceHolds == Spec => []SourceInvariant
<1>1. /\ Structure /\ OrderInvariant /\ CoverInvariant /\ SourceInvariant /\ [Next]_vars
      => SourceInvariant'
  BY NextSource
<1> QED
  BY InitSource, <1>1, StructureHolds, OrderHolds, CoverHolds, PTL DEF Spec

\* Modules are visited as the source language begins them, and the groups of one
\* module come in the order in which it runs them (AcyclicOrderIsSourceOrder),
\* for every module graph and every list of entries.
THEOREM SourceOrdered == Spec => []AcyclicOrderIsSourceOrder
<1>1. Structure /\ CoverInvariant /\ SourceInvariant => AcyclicOrderIsSourceOrder
  <2> SUFFICES ASSUME Structure, CoverInvariant, SourceInvariant, phase = "planned"
               PROVE  /\ \A i \in 1..Len(entries) : EntryBegins(i)
                      /\ \A m \in ToSet(visited) : \A p \in RuntimePlaces(m) : RequestBegins(m, p)
                      /\ \A i, j \in 1..Len(groups) : \A m, n \in Modules :
                           i < j /\ groups[i].modules = <<m>> /\ groups[j].modules = <<n>> => RunsBefore(m, n)
    BY DEF AcyclicOrderIsSourceOrder
  <2>1. frames = <<>> /\ position > Len(entries)
    BY DEF CoverInvariant, TraversalEnded
  <2>2. position \in Nat /\ entries \in Seq(Modules)
    BY DEF Structure, TraversalTypes
  <2>3. \A i \in 1..Len(entries) : i < position
    BY <2>1, <2>2
  <2>4. \A m, p : Made(m, p)
    BY <2>1 DEF Made
  <2> QED
    BY <2>3, <2>4 DEF SourceInvariant, BegunInOrder, SinglesInOrder
<1> QED
  BY <1>1, StructureHolds, CoverHolds, SourceHolds, PTL

=============================================================================
