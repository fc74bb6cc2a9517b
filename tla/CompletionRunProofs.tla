------------------------ MODULE CompletionRunProofs ------------------------
(***************************************************************************)
(* Theorems about CompletionRun: the completion set the compiler computes  *)
(* is sound for every body, however large, and every way it may run.       *)
(***************************************************************************)
EXTENDS CompletionRun, SequenceTheorems, NaturalsInduction, WellFoundedInduction, TLAPS

-----------------------------------------------------------------------------
(* Statements at paths.                                                    *)

\* A set of naturals has a least element.
LEMMA Least ==
  ASSUME NEW S \in SUBSET Nat, S # {}
  PROVE  \E n \in S : \A m \in S : n <= m
<1> DEFINE Less == OpToRel(<, Nat)
<1>1. \A x, y \in Nat : y < x => <<y, x>> \in Less
  <2> TAKE x, y \in Nat
  <2> HAVE y < x
  <2>1. <<y, x>> \in Nat \X Nat /\ <<y, x>>[1] < <<y, x>>[2]
    OBVIOUS
  <2> QED
    BY <2>1, Zenon DEF OpToRel
<1>2. \E n \in S : \A m \in S : <<m, n>> \notin Less
  <2> HIDE DEF Less
  <2> QED
    BY NatLessThanWellFounded, WFMin DEF Less
<1> HIDE DEF Less
<1>3. PICK n \in S : \A m \in S : <<m, n>> \notin Less
  BY <1>2
<1>4. \A m \in S : n <= m
  <2> TAKE m \in S
  <2>1. m \in Nat /\ n \in Nat /\ ~(m < n)
    BY <1>1, <1>3
  <2> QED
    BY <2>1
<1> QED
  BY <1>4

\* What stands at the first places of a path.
Walks(f, statement, path, length) ==
  f = [n \in 0 .. length |-> IF n = 0 THEN statement ELSE f[n - 1].parts[path[n]]]

LEMMA WalkExists ==
  ASSUME NEW statement, NEW path
  PROVE  \A length \in Nat : \E f : Walks(f, statement, path, length)
<1> DEFINE Bad == {n \in Nat : ~ \E f : Walks(f, statement, path, n)}
<1> SUFFICES ASSUME Bad # {} PROVE FALSE
  OBVIOUS
<1>1. PICK n \in Bad : \A m \in Bad : n <= m
  <2> HIDE DEF Bad
  <2>1. Bad \in SUBSET Nat
    BY DEF Bad
  <2> QED
    BY <2>1, Least
<1>2. n # 0
  <2>1. Walks([k \in 0 .. 0 |-> statement], statement, path, 0)
    BY DEF Walks
  <2> QED
    BY <2>1
<1>3. n - 1 \in Nat /\ n - 1 \notin Bad
  BY <1>1, <1>2
<1>4. PICK f : Walks(f, statement, path, n - 1)
  BY <1>3
<1> DEFINE g == [k \in 0 .. n |-> IF k = n THEN f[n - 1].parts[path[n]] ELSE f[k]]
<1>5. \A k \in 0 .. n : g[k] = IF k = 0 THEN statement ELSE g[k - 1].parts[path[k]]
  <2> TAKE k \in 0 .. n
  <2>1. n \in Nat /\ n > 0
    BY <1>1, <1>2
  <2>2. \A j \in 0 .. n - 1 : f[j] = IF j = 0 THEN statement ELSE f[j - 1].parts[path[j]]
    BY <1>4 DEF Walks
  <2> QED
    BY <2>1, <2>2
<1>6. Walks(g, statement, path, n)
  BY <1>5 DEF Walks
<1> QED
  BY <1>1, <1>6

LEMMA WalksAlong ==
  ASSUME NEW statement, NEW path, Len(path) \in Nat
  PROVE  \E f : Walks(f, statement, path, Len(path)) /\ StatementAt(statement, path) = f[Len(path)]
<1> DEFINE f == CHOOSE f : Walks(f, statement, path, Len(path))
<1>1. Walks(f, statement, path, Len(path))
  BY WalkExists, Zenon
<1>2. StatementAt(statement, path) = f[Len(path)]
  BY DEF StatementAt, Walks
<1> QED
  BY <1>1, <1>2

LEMMA StatementAtRoot ==
  ASSUME NEW statement
  PROVE  StatementAt(statement, <<>>) = statement
<1>1. PICK f : Walks(f, statement, <<>>, Len(<<>>)) /\ StatementAt(statement, <<>>) = f[Len(<<>>)]
  BY WalksAlong
<1> QED
  BY <1>1 DEF Walks

LEMMA StatementAtPart ==
  ASSUME NEW statement, NEW path \in Seq(Nat), NEW part \in Nat
  PROVE  StatementAt(statement, Append(path, part)) = StatementAt(statement, path).parts[part]
<1> DEFINE longer == Append(path, part)
           N == Len(path)
<1>1. /\ N \in Nat /\ Len(longer) = N + 1 /\ longer[N + 1] = part
      /\ \A n \in 1 .. N : longer[n] = path[n]
  OBVIOUS
<1>2. PICK f : Walks(f, statement, path, N) /\ StatementAt(statement, path) = f[N]
  BY <1>1, WalksAlong
<1>3. PICK g : Walks(g, statement, longer, N + 1) /\ StatementAt(statement, longer) = g[N + 1]
  <2>1. Len(longer) \in Nat
    BY <1>1
  <2> QED
    BY <1>1, <2>1, WalksAlong
<1> HIDE DEF longer, N
<1>4. \A n \in 0 .. N : f[n] = IF n = 0 THEN statement ELSE f[n - 1].parts[path[n]]
  BY <1>2 DEF Walks
<1>5. \A n \in 0 .. N + 1 : g[n] = IF n = 0 THEN statement ELSE g[n - 1].parts[longer[n]]
  BY <1>3 DEF Walks
<1> DEFINE Bad == {n \in 0 .. N : f[n] # g[n]}
<1>6. Bad = {}
  <2> SUFFICES ASSUME Bad # {} PROVE FALSE
    OBVIOUS
  <2>1. PICK n \in Bad : \A m \in Bad : n <= m
    <3>1. Bad \in SUBSET Nat
      BY <1>1
    <3> HIDE DEF Bad
    <3> QED
      BY <3>1, Least
  <2>2. n \in 0 .. N /\ f[n] # g[n]
    BY <2>1
  <2>3. n # 0
    <3>1. 0 \in 0 .. N /\ 0 \in 0 .. N + 1
      BY <1>1
    <3>2. f[0] = statement
      BY <1>4, <3>1
    <3>3. g[0] = statement
      BY <1>5, <3>1
    <3> QED
      BY <2>2, <3>2, <3>3
  <2>4. n - 1 \in 0 .. N /\ n - 1 \notin Bad
    BY <1>1, <2>1, <2>2, <2>3
  <2>5. f[n - 1] = g[n - 1] /\ longer[n] = path[n]
    BY <1>1, <2>2, <2>3, <2>4
  <2>6. n \in 0 .. N + 1 /\ n # 0
    BY <1>1, <2>2, <2>3
  <2>7. f[n] = f[n - 1].parts[path[n]]
    BY <1>4, <2>2, <2>3
  <2>8. g[n] = g[n - 1].parts[longer[n]]
    BY <1>5, <2>6
  <2> QED
    BY <2>2, <2>5, <2>7, <2>8
<1>7. f[N] = g[N]
  BY <1>1, <1>6
<1>8. g[N + 1] = g[N].parts[part]
  BY <1>1, <1>5
<1> QED
  BY <1>2, <1>3, <1>7, <1>8 DEF longer

-----------------------------------------------------------------------------
(* Paths.                                                                  *)

\* The places on the way to a path, and the path itself.
Places(path) == {SubSeq(path, 1, n) : n \in 1 .. Len(path)}

LEMMA Lengthened ==
  ASSUME NEW path \in Seq(Nat), NEW part \in Nat
  PROVE  /\ Append(path, part) \in Seq(Nat) /\ Append(path, part) # <<>>
         /\ Front(Append(path, part)) = path /\ Last(Append(path, part)) = part
         /\ Places(Append(path, part)) = Places(path) \cup {Append(path, part)}
<1> DEFINE longer == Append(path, part)
           N == Len(path)
<1>1. /\ longer \in Seq(Nat) /\ N \in Nat /\ Len(longer) = N + 1 /\ longer[N + 1] = part
      /\ \A n \in 1 .. N : longer[n] = path[n]
  OBVIOUS
<1>2. \A n \in 1 .. N : SubSeq(longer, 1, n) = SubSeq(path, 1, n)
  BY <1>1
<1>3. SubSeq(longer, 1, N + 1) = longer
  BY <1>1
<1>4. SubSeq(longer, 1, N) = path
  BY <1>1
<1>5. Front(longer) = path /\ Last(longer) = part
  BY <1>1, <1>4 DEF Front, Last
<1>6. Places(longer) = Places(path) \cup {longer}
  <2> HIDE DEF longer
  <2>1. 1 .. N + 1 = (1 .. N) \cup {N + 1}
    BY <1>1
  <2> QED
    BY <1>1, <1>2, <1>3, <2>1 DEF Places
<1> QED
  BY <1>1, <1>5, <1>6

LEMMA Shortened ==
  ASSUME NEW path \in Seq(Nat), path # <<>>
  PROVE  /\ Front(path) \in Seq(Nat) /\ Last(path) \in Nat
         /\ path = Append(Front(path), Last(path))
         /\ Places(path) = Places(Front(path)) \cup {path}
<1> DEFINE N == Len(path)
           front == SubSeq(path, 1, N - 1)
           last == path[N]
<1>1. N \in Nat /\ N > 0 /\ \A n \in 1 .. N : path[n] \in Nat
  BY EmptySeq, ElementOfSeq
<1>2. /\ front \in Seq(Nat) /\ Len(front) = N - 1 /\ last \in Nat
      /\ \A n \in 1 .. N - 1 : front[n] = path[n]
  <2>1. 1 \in Int /\ N - 1 \in Int /\ \A n \in 1 .. N - 1 : path[n] \in Nat
    BY <1>1
  <2> HIDE DEF N
  <2>2. /\ front \in Seq(Nat) /\ Len(front) = IF 1 <= N - 1 THEN N - 1 - 1 + 1 ELSE 0
        /\ \A n \in 1 .. N - 1 - 1 + 1 : front[n] = path[1 + n - 1]
    BY <2>1, SubSeqProperties
  <2> QED
    BY <1>1, <2>2
<1>3. path = Append(front, last)
  <2> HIDE DEF front, last
  <2>1. /\ Append(front, last) \in Seq(Nat) /\ Len(Append(front, last)) = Len(front) + 1
        /\ \A n \in 1 .. Len(front) : Append(front, last)[n] = front[n]
        /\ Append(front, last)[Len(front) + 1] = last
    BY <1>2, AppendProperties
  <2>2. \A n \in 1 .. Len(path) : path[n] = Append(front, last)[n]
    BY <1>1, <1>2, <2>1 DEF last
  <2>3. Len(path) = Len(Append(front, last))
    BY <1>1, <1>2, <2>1
  <2> QED
    BY <2>1, <2>2, <2>3, SeqEqual
<1>4. Front(path) = front /\ Last(path) = last
  BY DEF Front, Last
<1> HIDE DEF front, last
<1> QED
  BY <1>2, <1>3, <1>4, Lengthened

LEMMA Within ==
  ASSUME NEW path \in Seq(Nat), NEW p \in Places(path)
  PROVE  p \in Seq(Nat) /\ p # <<>> /\ Front(p) # path
<1>1. PICK n \in 1 .. Len(path) : p = SubSeq(path, 1, n)
  BY DEF Places
<1>2. Len(path) \in Nat /\ n \in Nat /\ 1 <= n /\ n <= Len(path)
      /\ \A i \in 1 .. n : path[i] \in Nat
  BY LenProperties, ElementOfSeq
<1>3. p \in Seq(Nat) /\ Len(p) = n
  <2>1. 1 \in Int /\ n \in Int
    BY <1>2
  <2>2. p \in Seq(Nat) /\ Len(p) = IF 1 <= n THEN n - 1 + 1 ELSE 0
    BY <1>1, <1>2, <2>1, SubSeqProperties
  <2> QED
    BY <1>2, <2>2
<1>4. p # <<>>
  BY <1>2, <1>3, EmptySeq
<1>5. Front(p) \in Seq(Nat) /\ p = Append(Front(p), Last(p)) /\ Last(p) \in Nat
  BY <1>3, <1>4, Shortened
<1>6. Len(p) = Len(Front(p)) + 1
  BY <1>5, AppendProperties
<1>7. Len(Front(p)) \in Nat
  BY <1>5, LenProperties
<1>8. Len(Front(p)) # Len(path)
  BY <1>2, <1>3, <1>6, <1>7
<1> QED
  BY <1>3, <1>4, <1>8

-----------------------------------------------------------------------------
(* Statements and their completion sets.                                   *)

Sets(statement) == [i \in DOMAIN statement.parts |-> DeclaredSet(statement.parts[i])]

LEMMA Parts ==
  ASSUME NEW statement \in Statements
  PROVE  /\ statement.parts \in Seq(Statements)
         /\ Len(statement.parts) \in Nat /\ DOMAIN statement.parts = 1 .. Len(statement.parts)
         /\ \A i \in 1 .. Len(statement.parts) : statement.parts[i] \in Statements
         /\ WellFormed(statement)
         /\ DeclaredSet(statement) = Completions(statement, Sets(statement))
         /\ Len(Sets(statement)) = Len(statement.parts)
         /\ \A i \in 1 .. Len(statement.parts) :
              Sets(statement)[i] = DeclaredSet(statement.parts[i])
<1>1. statement.parts \in Seq(Statements) /\ WellFormed(statement) /\ Computed(statement)
  BY StatementsAssumption DEF AreTrees
<1>2. /\ Len(statement.parts) \in Nat /\ DOMAIN statement.parts = 1 .. Len(statement.parts)
      /\ \A i \in 1 .. Len(statement.parts) : statement.parts[i] \in Statements
  BY <1>1, LenProperties, ElementOfSeq
<1>3. DeclaredSet(statement) = Completions(statement, Sets(statement))
  BY <1>1 DEF Computed, Sets
<1>4. \A i \in 1 .. Len(statement.parts) : Sets(statement)[i] = DeclaredSet(statement.parts[i])
  BY <1>2 DEF Sets
<1>5. Len(Sets(statement)) = Len(statement.parts)
  <2> DEFINE All == {DeclaredSet(statement.parts[i]) : i \in 1 .. Len(statement.parts)}
  <2>1. Sets(statement) \in [1 .. Len(statement.parts) -> All]
    BY <1>2 DEF Sets
  <2>2. Sets(statement) \in Seq(All)
    <3> HIDE DEF All
    <3> QED
      BY <1>2, <2>1, SeqDef
  <2>3. Len(Sets(statement)) \in Nat /\ DOMAIN Sets(statement) = 1 .. Len(Sets(statement))
    <3> HIDE DEF All
    <3> QED
      BY <2>2, LenProperties
  <2>4. 1 .. Len(Sets(statement)) = 1 .. Len(statement.parts)
    BY <1>2, <2>3 DEF Sets
  <2> QED
    BY <1>2, <2>3, <2>4
<1> QED
  BY <1>1, <1>2, <1>3, <1>4, <1>5

\* The statements that run parts of theirs.
Compound == {"block", "if", "for", "case", "default", "switch", "try"} \cup Loops

BodySet(statement) ==
  DeclaredSet(statement.parts[IF statement.kind = "for" THEN ForBody ELSE 1])

\* Behind the body of the loop it goes on.
ComesBack(statement) ==
  Normal \in BodySet(statement) \/ OwnedContinues(statement.label, BodySet(statement)) # {}

\* What a finalizer interrupts: ways out of the body or of the handler.
Interrupted(statement) ==
  IF HasHandler(statement)
    THEN CatchReplacement(DeclaredSet(statement.parts[TryBody]),
                          DeclaredSet(statement.parts[Handler]))
    ELSE DeclaredSet(statement.parts[TryBody])

\* Control gets to a part of a statement.
Admits(statement, part) ==
  /\ statement.kind \in Compound
  /\ part \in 1 .. Len(statement.parts) /\ Has(statement, part)
  /\ statement.kind = "block" =>
       \A i \in 1 .. part - 1 : Normal \in DeclaredSet(statement.parts[i])
  /\ statement.kind = "for" /\ part = Update => ComesBack(statement)
  /\ statement.kind = "try" /\ part = Handler =>
       Thrown \in DeclaredSet(statement.parts[TryBody])

\* Only a jump has a target.
Targeted(completion) ==
  completion.kind \in {"normal", "return", "throw"} => completion.target = NoLabel

\* A statement may complete so.  The test of a clause belongs to the switch.
Ends(statement, completion) ==
  /\ Targeted(completion)
  /\ \/ Way(completion) \in DeclaredSet(statement)
     \/ statement.kind = "case" /\ Way(completion) = Thrown

LEMMA Ways ==
  /\ \A path : Way(Throws(path)) = Thrown /\ Targeted(Throws(path))
  /\ \A path : Way(Returns(path)) = Returned /\ Targeted(Returns(path))
  /\ Way(Falls) = Normal /\ Targeted(Falls) /\ Falls.kind = "normal"
  /\ \A c : Targeted(c) => /\ c.kind = "normal" <=> Way(c) = Normal
                           /\ c.kind = "throw" <=> Way(c) = Thrown
  /\ \A c : Way(c).kind = c.kind /\ Way(c).target = c.target
BY DEF Way, Throws, Returns, Falls, InFlight, Completion, Targeted, Normal, Thrown, Returned

LEMMA SetsByKind ==
  ASSUME NEW s \in Statements
  PROVE  /\ s.kind \in {"step", "let", "await", "test"} => DeclaredSet(s) = {Normal, Thrown}
         /\ s.kind \in {"return", "returnAwait"} => DeclaredSet(s) = {Returned, Thrown}
         /\ s.kind = "throw" => DeclaredSet(s) = {Thrown}
         /\ s.kind \in {"break", "continue"} => DeclaredSet(s) = {Completion(s.kind, s.label)}
         /\ s.kind = "block" =>
              DeclaredSet(s) = LabelledBlockCompletions(s.label, Sequentially(Sets(s)))
         /\ s.kind = "if" =>
              DeclaredSet(s) = Sets(s)[1]
                \cup (IF Len(s.parts) = 2 THEN Sets(s)[2] ELSE {Normal}) \cup {Thrown}
         /\ s.kind \in Loops =>
              DeclaredSet(s) = LoopCompletions(Evaluation(s), FALSE, s.label, Sets(s)[1])
         /\ s.kind = "for" =>
              DeclaredSet(s) =
                LoopCompletions(Evaluation(s), Has(s, Update), s.label, Sets(s)[ForBody])
                  \cup (IF Has(s, Initializer) THEN {Thrown} ELSE {})
         /\ s.kind \in {"case", "default"} => DeclaredSet(s) = Sets(s)[1]
         /\ s.kind = "switch" => DeclaredSet(s) = SwitchCompletions(s, Sets(s))
<1>1. DeclaredSet(s) = Completions(s, Sets(s))
  BY Parts
<1>2. s.kind \in {"step", "let", "await", "test"} => DeclaredSet(s) = {Normal, Thrown}
  BY <1>1 DEF Completions, Loops
<1>3. s.kind \in {"return", "returnAwait"} => DeclaredSet(s) = {Returned, Thrown}
  BY <1>1 DEF Completions, Loops
<1>4. s.kind = "throw" => DeclaredSet(s) = {Thrown}
  BY <1>1 DEF Completions, Loops
<1>5. s.kind \in {"break", "continue"} => DeclaredSet(s) = {Completion(s.kind, s.label)}
  BY <1>1 DEF Completions, Loops
<1>6. s.kind = "block" =>
        DeclaredSet(s) = LabelledBlockCompletions(s.label, Sequentially(Sets(s)))
  BY <1>1 DEF Completions, Loops
<1>7. s.kind = "if" =>
        DeclaredSet(s) = Sets(s)[1]
          \cup (IF Len(s.parts) = 2 THEN Sets(s)[2] ELSE {Normal}) \cup {Thrown}
  BY <1>1 DEF Completions, Loops
<1>8. s.kind \in Loops =>
        DeclaredSet(s) = LoopCompletions(Evaluation(s), FALSE, s.label, Sets(s)[1])
  BY <1>1 DEF Completions, Loops
<1>9. s.kind = "for" =>
        DeclaredSet(s) =
          LoopCompletions(Evaluation(s), Has(s, Update), s.label, Sets(s)[ForBody])
            \cup (IF Has(s, Initializer) THEN {Thrown} ELSE {})
  BY <1>1 DEF Completions, Loops
<1>10. s.kind \in {"case", "default"} => DeclaredSet(s) = Sets(s)[1]
  BY <1>1 DEF Completions, Loops
<1>11. s.kind = "switch" => DeclaredSet(s) = SwitchCompletions(s, Sets(s))
  BY <1>1 DEF Completions, Loops
<1> QED
  BY <1>2, <1>3, <1>4, <1>5, <1>6, <1>7, <1>8, <1>9, <1>10, <1>11

-----------------------------------------------------------------------------
(* What the algebra says of each kind of statement: where control leaves a *)
(* part, it gets to another part or leaves the statement in a declared way. *)

LEMMA InSequence ==
  ASSUME NEW s \in Statements, s.kind = "block",
         NEW part \in 1 .. Len(s.parts),
         \A i \in 1 .. part - 1 : Normal \in DeclaredSet(s.parts[i])
  PROVE  /\ DeclaredSet(s.parts[part]) \ {Normal} \subseteq Sequentially(Sets(s))
         /\ part = Len(s.parts) /\ Normal \in DeclaredSet(s.parts[part]) =>
              Normal \in Sequentially(Sets(s))
<1> DEFINE sets == Sets(s)
<1>1. /\ Len(s.parts) \in Nat /\ Len(sets) = Len(s.parts)
      /\ \A i \in 1 .. Len(s.parts) : sets[i] = DeclaredSet(s.parts[i])
  BY Parts
<1> HIDE DEF sets
<1>2. \A i \in 1 .. part - 1 : Normal \in sets[i]
  BY <1>1
<1>3. part \in {i \in 1 .. Len(sets) : \A j \in 1 .. i - 1 : Normal \in sets[j]}
  BY <1>1, <1>2
<1>4. sets[part] \ {Normal} \subseteq Sequentially(sets)
  BY <1>3 DEF Sequentially, SequentiallyFrom
<1>5. part = Len(s.parts) /\ Normal \in sets[part] => Normal \in Sequentially(sets)
  <2> HAVE part = Len(s.parts) /\ Normal \in sets[part]
  <2>1. \A i \in 1 .. Len(sets) : Normal \in sets[i]
    BY <1>1, <1>2
  <2> QED
    BY <2>1 DEF Sequentially, SequentiallyFrom
<1> QED
  BY <1>1, <1>4, <1>5 DEF sets

LEMMA BlockEnds ==
  ASSUME NEW s \in Statements, s.kind = "block", NEW part, Admits(s, part),
         NEW c, Ends(s.parts[part], c)
  PROVE  /\ c.kind = "normal" /\ part < Len(s.parts) => Admits(s, part + 1)
         /\ ~(c.kind = "normal" /\ part < Len(s.parts)) =>
              IF c.kind = "break" /\ s.label # NoLabel /\ c.target = s.label
                THEN Normal \in DeclaredSet(s)
                ELSE Way(c) \in DeclaredSet(s)
<1>1. /\ part \in 1 .. Len(s.parts) /\ Len(s.parts) \in Nat
      /\ \A i \in 1 .. part - 1 : Normal \in DeclaredSet(s.parts[i])
  BY Parts DEF Admits
<1>2. \A i \in 1 .. Len(s.parts) : s.parts[i].kind \in Proper
  BY Parts DEF WellFormed, PartsAre, Simple, Loops
<1>3. Targeted(c) /\ Way(c) \in DeclaredSet(s.parts[part])
  BY <1>1, <1>2 DEF Ends, Proper, Simple, Loops
<1>4. c.kind = "normal" <=> Way(c) = Normal
  BY <1>3, Ways
<1>5. c.kind = "normal" /\ part < Len(s.parts) => Admits(s, part + 1)
  <2> HAVE c.kind = "normal" /\ part < Len(s.parts)
  <2>1. \A i \in 1 .. part + 1 - 1 : Normal \in DeclaredSet(s.parts[i])
    BY <1>1, <1>3, <1>4
  <2>2. part + 1 \in 1 .. Len(s.parts)
    BY <1>1
  <2>3. Has(s, part + 1)
    BY <1>2, <2>2 DEF Has, Proper, Simple, Loops
  <2> QED
    BY <2>1, <2>2, <2>3 DEF Admits, Compound
<1>6. ASSUME ~(c.kind = "normal" /\ part < Len(s.parts))
      PROVE  Way(c) \in Sequentially(Sets(s))
  <2>1. /\ DeclaredSet(s.parts[part]) \ {Normal} \subseteq Sequentially(Sets(s))
        /\ part = Len(s.parts) /\ Normal \in DeclaredSet(s.parts[part]) =>
             Normal \in Sequentially(Sets(s))
    BY <1>1, InSequence
  <2>2. c.kind = "normal" => part = Len(s.parts)
    BY <1>1, <1>6
  <2> QED
    BY <1>3, <1>4, <2>1, <2>2
<1>7. DeclaredSet(s) = LabelledBlockCompletions(s.label, Sequentially(Sets(s)))
  BY SetsByKind
<1>8. Way(c).kind = c.kind /\ Way(c).target = c.target
  BY Ways
<1> QED
  BY <1>5, <1>6, <1>7, <1>8 DEF LabelledBlockCompletions, ConsumeBreaks

\* A loop with a body: what becomes of the body's completions.
LEMMA Looping ==
  ASSUME NEW evaluation, NEW throws, NEW label, NEW set, NEW c
  PROVE  LET result == LoopCompletions(evaluation, throws, label, set)
             back == Normal \in set \/ OwnedContinues(label, set) # {}
             owned == LoopOwns(label, c)
         IN  /\ c \in set /\ c.kind = "break" /\ owned => Normal \in result
             /\ c \in set /\ c # Normal /\ ~(c.kind \in {"break", "continue"} /\ owned) =>
                  c \in result
             /\ c \in set /\ (c = Normal \/ (c.kind = "continue" /\ owned)) => back
             /\ evaluation = "pretest" => Normal \in result /\ Thrown \in result
             /\ evaluation = "posttest" /\ back => Normal \in result /\ Thrown \in result
             /\ throws /\ back => Thrown \in result
BY DEF LoopCompletions, OwnedBreaks, OwnedContinues

LEMMA LoopEnds ==
  ASSUME NEW s \in Statements, s.kind \in Loops, NEW part, Admits(s, part),
         NEW c, Ends(s.parts[part], c)
  PROVE  /\ GoesOn(s, c) => ComesBack(s)
         /\ ~GoesOn(s, c) /\ Breaks(s, c) => Normal \in DeclaredSet(s)
         /\ ~GoesOn(s, c) /\ ~Breaks(s, c) => Way(c) \in DeclaredSet(s)
<1>1. Len(s.parts) = 1 /\ PartsAre(s, Proper)
  BY Parts DEF WellFormed, Simple, Loops
<1>2. part = 1
  BY <1>1 DEF Admits
<1>3. s.parts[1].kind \in Proper /\ Sets(s)[1] = DeclaredSet(s.parts[1])
  BY <1>1, Parts DEF PartsAre
<1>4. Targeted(c) /\ Way(c) \in Sets(s)[1]
  BY <1>2, <1>3 DEF Ends, Proper, Simple, Loops
<1>5. DeclaredSet(s) = LoopCompletions(Evaluation(s), FALSE, s.label, Sets(s)[1])
  BY SetsByKind
<1>6. BodySet(s) = Sets(s)[1]
  BY <1>3 DEF BodySet, Loops
<1>7. /\ c.kind = "normal" <=> Way(c) = Normal
      /\ Way(c).kind = c.kind /\ Way(c).target = c.target
  BY <1>4, Ways
<1>8. LoopOwns(s.label, c) <=> LoopOwns(s.label, Way(c))
  BY <1>7 DEF LoopOwns
<1>9. /\ Way(c).kind = "break" /\ LoopOwns(s.label, Way(c)) => Normal \in DeclaredSet(s)
      /\ Way(c) # Normal /\ ~(Way(c).kind \in {"break", "continue"} /\ LoopOwns(s.label, Way(c)))
           => Way(c) \in DeclaredSet(s)
      /\ Way(c) = Normal \/ (Way(c).kind = "continue" /\ LoopOwns(s.label, Way(c)))
           => ComesBack(s)
  BY <1>4, <1>5, <1>6, Looping DEF ComesBack
<1> QED
  BY <1>7, <1>8, <1>9 DEF GoesOn, Breaks

\* A while loop tests ahead of its body, a do loop behind it.
LEMMA LoopTests ==
  ASSUME NEW s \in Statements, s.kind \in Loops, s.kind = "do" => ComesBack(s)
  PROVE  /\ Normal \in DeclaredSet(s) /\ Thrown \in DeclaredSet(s)
         /\ Admits(s, 1)
<1>1. Len(s.parts) = 1 /\ PartsAre(s, Proper)
  BY Parts DEF WellFormed, Simple, Loops
<1>2. s.parts[1].kind \in Proper /\ Sets(s)[1] = DeclaredSet(s.parts[1])
  BY <1>1, Parts DEF PartsAre
<1>3. DeclaredSet(s) = LoopCompletions(Evaluation(s), FALSE, s.label, Sets(s)[1])
  BY SetsByKind
<1>4. BodySet(s) = Sets(s)[1]
  BY <1>2 DEF BodySet, Loops
<1>5. Evaluation(s) = IF s.kind = "do" THEN "posttest" ELSE "pretest"
  BY DEF Evaluation, Loops
<1>6. Normal \in DeclaredSet(s) /\ Thrown \in DeclaredSet(s)
  BY <1>3, <1>4, <1>5, Looping DEF ComesBack
<1>7. Admits(s, 1)
  BY <1>1, <1>2 DEF Admits, Has, Compound, Proper, Simple, Loops
<1> QED
  BY <1>6, <1>7

\* The head of a for statement.
LEMMA ForParts ==
  ASSUME NEW s \in Statements, s.kind = "for"
  PROVE  /\ Len(s.parts) = 4 /\ \A i \in 1 .. 4 : s.parts[i] \in Statements
         /\ \A i \in 1 .. 4 : Sets(s)[i] = DeclaredSet(s.parts[i])
         /\ \A i \in {Initializer, Update} :
              Has(s, i) => /\ s.parts[i].kind \in Simple
                           /\ DeclaredSet(s.parts[i]) = {Normal, Thrown}
         /\ Has(s, ForTest) => /\ s.parts[ForTest].kind = "test"
                               /\ DeclaredSet(s.parts[ForTest]) = {Normal, Thrown}
         /\ s.parts[ForBody].kind \in Proper /\ Has(s, ForBody)
<1>1. /\ Len(s.parts) = 4
      /\ PartIs(s, Initializer, {"absent"} \cup Simple)
      /\ PartIs(s, ForTest, {"absent", "test"})
      /\ PartIs(s, Update, {"absent"} \cup Simple)
      /\ PartIs(s, ForBody, Proper)
  BY Parts DEF WellFormed, Simple, Loops
<1>2. /\ \A i \in 1 .. 4 : s.parts[i] \in Statements
      /\ \A i \in 1 .. 4 : Sets(s)[i] = DeclaredSet(s.parts[i])
  BY <1>1, Parts
<1>3. /\ s.parts[Initializer] \in Statements /\ s.parts[ForTest] \in Statements
      /\ s.parts[Update] \in Statements
  BY <1>2 DEF Initializer, ForTest, Update
<1>4. \A i \in {Initializer, Update} : Has(s, i) => s.parts[i].kind \in Simple
  BY <1>1 DEF PartIs, Has
<1>5. \A i \in {Initializer, Update} : Has(s, i) => DeclaredSet(s.parts[i]) = {Normal, Thrown}
  BY <1>3, <1>4, SetsByKind DEF Simple
<1>6. Has(s, ForTest) => s.parts[ForTest].kind = "test"
  BY <1>1 DEF PartIs, Has
<1>7. Has(s, ForTest) => DeclaredSet(s.parts[ForTest]) = {Normal, Thrown}
  BY <1>3, <1>6, SetsByKind
<1>8. s.parts[ForBody].kind \in Proper /\ Has(s, ForBody)
  BY <1>1 DEF PartIs, Has, Proper, Simple, Loops
<1> QED
  BY <1>1, <1>2, <1>4, <1>5, <1>6, <1>7, <1>8

LEMMA ForTests ==
  ASSUME NEW s \in Statements, s.kind = "for"
  PROVE  /\ Has(s, Initializer) => Admits(s, Initializer)
         /\ Has(s, ForTest) =>
              Admits(s, ForTest) /\ Normal \in DeclaredSet(s) /\ Thrown \in DeclaredSet(s)
         /\ Admits(s, ForBody)
         /\ Has(s, Update) /\ ComesBack(s) => Admits(s, Update)
<1>1. Len(s.parts) = 4 /\ Has(s, ForBody)
  BY ForParts
<1>2. DeclaredSet(s) =
        LoopCompletions(Evaluation(s), Has(s, Update), s.label, Sets(s)[ForBody])
          \cup (IF Has(s, Initializer) THEN {Thrown} ELSE {})
  BY SetsByKind
<1>3. Has(s, ForTest) => Evaluation(s) = "pretest"
  BY DEF Evaluation
<1>4. Has(s, ForTest) => Normal \in DeclaredSet(s) /\ Thrown \in DeclaredSet(s)
  BY <1>2, <1>3, Looping
<1> QED
  BY <1>1, <1>4 DEF Admits, Compound, Initializer, ForTest, Update, ForBody

LEMMA ForEnds ==
  ASSUME NEW s \in Statements, s.kind = "for", NEW part, Admits(s, part),
         NEW c, Ends(s.parts[part], c)
  PROVE  /\ part # ForBody =>
              /\ c.kind = "normal" \/ Way(c) = Thrown
              /\ part = ForTest \/ c.kind # "normal" => Way(c) \in DeclaredSet(s)
         /\ part = ForBody =>
              /\ GoesOn(s, c) => ComesBack(s)
              /\ ~GoesOn(s, c) /\ Breaks(s, c) => Normal \in DeclaredSet(s)
              /\ ~GoesOn(s, c) /\ ~Breaks(s, c) => Way(c) \in DeclaredSet(s)
<1>1. part \in {Initializer, ForTest, Update, ForBody} /\ Has(s, part)
  BY ForParts DEF Admits, Initializer, ForTest, Update, ForBody
<1>2. s.parts[part].kind # "case"
  BY <1>1, ForParts DEF Simple, Proper, Loops
<1>3. Targeted(c) /\ Way(c) \in DeclaredSet(s.parts[part])
  BY <1>2 DEF Ends
<1>4. /\ c.kind = "normal" <=> Way(c) = Normal
      /\ Way(c).kind = c.kind /\ Way(c).target = c.target
  BY <1>3, Ways
<1>5. DeclaredSet(s) =
        LoopCompletions(Evaluation(s), Has(s, Update), s.label, Sets(s)[ForBody])
          \cup (IF Has(s, Initializer) THEN {Thrown} ELSE {})
  BY SetsByKind
<1>6. BodySet(s) = Sets(s)[ForBody]
  BY ForParts DEF BodySet, ForBody
<1>7. ASSUME part # ForBody
      PROVE  /\ c.kind = "normal" \/ Way(c) = Thrown
             /\ part = ForTest \/ c.kind # "normal" => Way(c) \in DeclaredSet(s)
  <2>1. Way(c) \in {Normal, Thrown}
    BY <1>1, <1>3, <1>7, ForParts
  <2>2. Has(s, part)
    BY <1>1
  <2>3. CASE part = Initializer
    <3>1. Thrown \in DeclaredSet(s) /\ part # ForTest
      BY <1>5, <2>2, <2>3 DEF Initializer, ForTest
    <3> QED
      BY <1>4, <2>1, <3>1
  <2>4. CASE part = ForTest
    BY <1>4, <2>1, <2>2, <2>4, ForTests
  <2>5. CASE part = Update
    <3>1. ComesBack(s) /\ part # ForTest
      BY <2>5 DEF Admits, ForTest, Update
    <3>2. Thrown \in DeclaredSet(s)
      BY <1>5, <1>6, <2>2, <2>5, <3>1, Looping DEF ComesBack
    <3> QED
      BY <1>4, <2>1, <3>1, <3>2
  <2> QED
    BY <1>1, <1>7, <2>3, <2>4, <2>5
<1>8. ASSUME part = ForBody
      PROVE  /\ GoesOn(s, c) => ComesBack(s)
             /\ ~GoesOn(s, c) /\ Breaks(s, c) => Normal \in DeclaredSet(s)
             /\ ~GoesOn(s, c) /\ ~Breaks(s, c) => Way(c) \in DeclaredSet(s)
  <2>1. Way(c) \in Sets(s)[ForBody]
    BY <1>3, <1>8, ForParts DEF ForBody
  <2>2. LoopOwns(s.label, c) <=> LoopOwns(s.label, Way(c))
    BY <1>4 DEF LoopOwns
  <2>3. /\ Way(c).kind = "break" /\ LoopOwns(s.label, Way(c)) => Normal \in DeclaredSet(s)
        /\ Way(c) # Normal /\ ~(Way(c).kind \in {"break", "continue"} /\ LoopOwns(s.label, Way(c)))
             => Way(c) \in DeclaredSet(s)
        /\ Way(c) = Normal \/ (Way(c).kind = "continue" /\ LoopOwns(s.label, Way(c)))
             => ComesBack(s)
    BY <1>5, <1>6, <2>1, Looping DEF ComesBack
  <2> QED
    BY <1>4, <2>2, <2>3 DEF GoesOn, Breaks
<1> QED
  BY <1>7, <1>8

LEMMA BranchEnds ==
  ASSUME NEW s \in Statements, s.kind \in {"if", "case", "default"}, NEW part, Admits(s, part),
         NEW c, Ends(s.parts[part], c)
  PROVE  Way(c) \in DeclaredSet(s)
<1>1. /\ part \in 1 .. Len(s.parts) /\ Len(s.parts) \in {1, 2}
      /\ s.kind # "if" => Len(s.parts) = 1
      /\ PartsAre(s, Proper)
  BY Parts DEF Admits, WellFormed, PartsAre, Proper, Simple, Loops
<1>2. s.parts[part].kind \in Proper
  BY <1>1, Parts DEF PartsAre
<1>3. Way(c) \in DeclaredSet(s.parts[part])
  BY <1>2 DEF Ends, Proper, Simple, Loops
<1>4. Way(c) \in Sets(s)[part]
  BY <1>1, <1>3, Parts
<1>5. CASE s.kind = "if"
  <2>1. DeclaredSet(s) = Sets(s)[1]
          \cup (IF Len(s.parts) = 2 THEN Sets(s)[2] ELSE {Normal}) \cup {Thrown}
    BY <1>5, SetsByKind
  <2>2. part = 1 \/ (part = 2 /\ Len(s.parts) = 2)
    BY <1>1
  <2> QED
    BY <1>4, <2>1, <2>2
<1>6. CASE s.kind \in {"case", "default"}
  <2>1. DeclaredSet(s) = Sets(s)[1]
    BY <1>6, SetsByKind
  <2>2. Len(s.parts) = 1
    BY <1>1, <1>6
  <2>3. part = 1
    BY <1>1, <2>2
  <2> QED
    BY <1>4, <2>1, <2>3
<1> QED
  BY <1>5, <1>6

\* An if enters either of its parts, and may complete without the second.
LEMMA IfTests ==
  ASSUME NEW s \in Statements, s.kind = "if"
  PROVE  /\ Admits(s, 1) /\ Thrown \in DeclaredSet(s)
         /\ IF Len(s.parts) = 2 THEN Admits(s, 2) ELSE Normal \in DeclaredSet(s)
<1>1. Len(s.parts) \in {1, 2} /\ PartsAre(s, Proper)
  BY Parts DEF WellFormed, Simple, Loops
<1>2. \A i \in 1 .. Len(s.parts) : Has(s, i)
  BY <1>1, Parts DEF PartsAre, Has, Proper, Simple, Loops
<1>3. DeclaredSet(s) = Sets(s)[1]
        \cup (IF Len(s.parts) = 2 THEN Sets(s)[2] ELSE {Normal}) \cup {Thrown}
  BY SetsByKind
<1>4. \A i \in 1 .. Len(s.parts) : Admits(s, i)
  BY <1>2 DEF Admits, Compound
<1>5. 1 \in 1 .. Len(s.parts) /\ (Len(s.parts) = 2 => 2 \in 1 .. Len(s.parts))
  <2>1. Len(s.parts) = 1 \/ Len(s.parts) = 2
    BY <1>1
  <2> HIDE <1>1
  <2>2. CASE Len(s.parts) = 1
    BY <2>2
  <2>3. CASE Len(s.parts) = 2
    BY <2>3
  <2> QED
    BY <2>1, <2>2, <2>3
<1> QED
  BY <1>3, <1>4, <1>5

-----------------------------------------------------------------------------
(* Switches.                                                               *)

LEMMA MinOf ==
  ASSUME NEW S \in SUBSET Nat, S # {}
  PROVE  Min(S) \in S
<1>1. \E n \in S : \A m \in S : n <= m
  BY Least
<1> QED
  BY <1>1 DEF Min

LEMMA Clauses ==
  ASSUME NEW s \in Statements, s.kind = "switch", NEW i \in 1 .. Len(s.parts)
  PROVE  /\ s.parts[i] \in Statements /\ s.parts[i].kind \in {"case", "default"}
         /\ Admits(s, i) /\ Admits(s.parts[i], 1)
         /\ s.parts[i].parts[1] \in Statements /\ s.parts[i].parts[1].kind = "block"
<1>1. /\ Len(s.parts) \in Nat /\ s.parts[i] \in Statements
      /\ s.parts[i].kind \in {"case", "default"}
  BY Parts DEF WellFormed, PartsAre, Simple, Loops
<1>2. Admits(s, i)
  BY <1>1 DEF Admits, Compound, Has
<1>3. /\ Len(s.parts[i].parts) = 1
      /\ s.parts[i].parts[1] \in Statements /\ s.parts[i].parts[1].kind = "block"
  <2>1. WellFormed(s.parts[i])
    BY <1>1, Parts
  <2>2. Len(s.parts[i].parts) = 1 /\ PartsAre(s.parts[i], {"block"})
    BY <1>1, <2>1 DEF WellFormed, Simple, Loops
  <2> QED
    BY <1>1, <2>2, Parts DEF PartsAre
<1>4. Admits(s.parts[i], 1)
  BY <1>1, <1>3 DEF Admits, Compound, Has
<1> QED
  BY <1>1, <1>2, <1>3, <1>4

LEMMA SwitchSets ==
  ASSUME NEW s \in Statements, s.kind = "switch"
  PROVE  /\ Thrown \in DeclaredSet(s)
         /\ {i \in DOMAIN s.parts : s.parts[i].kind = "default"} = {} =>
              Normal \in DeclaredSet(s)
         /\ \A i \in 1 .. Len(s.parts) : \A w :
              /\ w \in DeclaredSet(s.parts[i])
              /\ w = Normal => i = Len(s.parts)
              => /\ w.kind = "break" /\ LoopOwns(s.label, w) => Normal \in DeclaredSet(s)
                 /\ ~(w.kind = "break" /\ LoopOwns(s.label, w)) => w \in DeclaredSet(s)
<1> DEFINE sets == Sets(s)
           entries == UNION {SequentiallyFrom(sets, i) : i \in DOMAIN sets}
           passed == IF \E i \in DOMAIN sets : s.parts[i].kind = "default" THEN {} ELSE {Normal}
           selected == entries \cup passed
<1>1. /\ Len(s.parts) \in Nat /\ Len(sets) = Len(s.parts)
      /\ DOMAIN s.parts = 1 .. Len(s.parts)
      /\ \A i \in 1 .. Len(s.parts) : sets[i] = DeclaredSet(s.parts[i])
  BY Parts
<1>2. DOMAIN sets = DOMAIN s.parts
  BY DEF Sets
<1> HIDE DEF sets
<1>3. DeclaredSet(s) = ConsumeBreaks(OwnedBreaks(s.label, selected), selected) \cup {Thrown}
  BY SetsByKind DEF SwitchCompletions, sets
<1>4. ASSUME NEW w \in selected
      PROVE  /\ w.kind = "break" /\ LoopOwns(s.label, w) => Normal \in DeclaredSet(s)
             /\ ~(w.kind = "break" /\ LoopOwns(s.label, w)) => w \in DeclaredSet(s)
  <2> HIDE DEF selected
  <2> QED
    BY <1>3 DEF ConsumeBreaks, OwnedBreaks
<1>5. ~(Normal.kind = "break")
  BY DEF Normal, Completion
<1>6. {i \in DOMAIN s.parts : s.parts[i].kind = "default"} = {} => Normal \in DeclaredSet(s)
  <2> HAVE {i \in DOMAIN s.parts : s.parts[i].kind = "default"} = {}
  <2>1. Normal \in selected
    BY <1>2
  <2> HIDE DEF selected
  <2> QED
    BY <1>4, <1>5, <2>1
<1>7. ASSUME NEW i \in 1 .. Len(s.parts), NEW w,
             w \in DeclaredSet(s.parts[i]), w = Normal => i = Len(s.parts)
      PROVE  w \in selected
  <2>1. i \in DOMAIN sets /\ w \in sets[i] /\ i \in Nat
    BY <1>1, <1>2, <1>7
  <2>2. i \in {k \in i .. Len(sets) : \A j \in i .. k - 1 : Normal \in sets[j]}
    BY <1>1, <2>1
  <2>3. w \in SequentiallyFrom(sets, i)
    <3>1. CASE w # Normal
      BY <2>1, <2>2, <3>1 DEF SequentiallyFrom
    <3>2. CASE w = Normal
      <4>1. \A k \in i .. Len(sets) : Normal \in sets[k]
        BY <1>1, <1>7, <2>1, <3>2
      <4> QED
        BY <3>2, <4>1 DEF SequentiallyFrom
    <3> QED
      BY <3>1, <3>2
  <2> QED
    BY <2>1, <2>3
<1> HIDE DEF selected
<1> QED
  BY <1>3, <1>4, <1>6, <1>7

LEMMA SwitchEnds ==
  ASSUME NEW s \in Statements, s.kind = "switch", NEW part, Admits(s, part),
         NEW c, Ends(s.parts[part], c), ~(c.kind = "normal" /\ part < Len(s.parts))
  PROVE  /\ Breaks(s, c) => Normal \in DeclaredSet(s)
         /\ ~Breaks(s, c) => Way(c) \in DeclaredSet(s)
<1>1. part \in 1 .. Len(s.parts) /\ Len(s.parts) \in Nat
  BY Parts DEF Admits
<1>2. /\ c.kind = "normal" <=> Way(c) = Normal
      /\ Way(c).kind = c.kind /\ Way(c).target = c.target
  BY Ways DEF Ends
<1>3. LoopOwns(s.label, c) <=> LoopOwns(s.label, Way(c))
  BY <1>2 DEF LoopOwns
<1>4. CASE Way(c) \in DeclaredSet(s.parts[part])
  <2>1. Way(c) = Normal => part = Len(s.parts)
    BY <1>1, <1>2
  <2>2. /\ Way(c).kind = "break" /\ LoopOwns(s.label, Way(c)) => Normal \in DeclaredSet(s)
        /\ ~(Way(c).kind = "break" /\ LoopOwns(s.label, Way(c))) => Way(c) \in DeclaredSet(s)
    BY <1>1, <1>4, <2>1, SwitchSets
  <2> QED
    BY <1>2, <1>3, <2>2 DEF Breaks
<1>5. CASE Way(c) = Thrown
  <2>1. c.kind # "break"
    BY <1>2, <1>5 DEF Thrown, Completion
  <2> QED
    BY <1>5, <2>1, SwitchSets DEF Breaks
<1> QED
  BY <1>4, <1>5 DEF Ends

-----------------------------------------------------------------------------
(* Try statements.                                                         *)

LEMMA TryParts ==
  ASSUME NEW s \in Statements, s.kind = "try"
  PROVE  /\ Len(s.parts) = 3 /\ s.parts[TryBody].kind \in Proper
         /\ \A i \in 1 .. 3 : Sets(s)[i] = DeclaredSet(s.parts[i])
         /\ \A i \in 1 .. 3 : Has(s, i) => s.parts[i].kind \in Proper
         /\ DeclaredSet(s) = IF HasFinalizer(s)
                               THEN FinallyReplacement(Interrupted(s), DeclaredSet(s.parts[Finalizer]))
                               ELSE Interrupted(s)
         /\ Admits(s, TryBody)
<1>1. /\ Len(s.parts) = 3 /\ PartIs(s, TryBody, Proper)
      /\ PartIs(s, Handler, {"absent"} \cup Proper)
      /\ PartIs(s, Finalizer, {"absent"} \cup Proper)
  BY Parts DEF WellFormed, Simple, Loops
<1>2. \A i \in 1 .. 3 : Sets(s)[i] = DeclaredSet(s.parts[i])
  BY <1>1, Parts
<1>3. \A i \in 1 .. 3 : Has(s, i) => s.parts[i].kind \in Proper
  BY <1>1 DEF PartIs, Has, TryBody, Handler, Finalizer
<1>4. DeclaredSet(s) = IF HasFinalizer(s)
                         THEN FinallyReplacement(Interrupted(s), DeclaredSet(s.parts[Finalizer]))
                         ELSE Interrupted(s)
  <2>1. DeclaredSet(s) = Completions(s, Sets(s))
    BY Parts
  <2>2. /\ Sets(s)[TryBody] = DeclaredSet(s.parts[TryBody])
        /\ Sets(s)[Handler] = DeclaredSet(s.parts[Handler])
        /\ Sets(s)[Finalizer] = DeclaredSet(s.parts[Finalizer])
    BY <1>2 DEF TryBody, Handler, Finalizer
  <2> QED
    BY <2>1, <2>2 DEF Completions, Loops, Interrupted
<1>5. Admits(s, TryBody)
  BY <1>1 DEF Admits, Compound, Has, PartIs, Proper, Simple, Loops, TryBody, Handler
<1> QED
  BY <1>1, <1>2, <1>3, <1>4, <1>5 DEF PartIs

LEMMA TryEnds ==
  ASSUME NEW s \in Statements, s.kind = "try", NEW part, Admits(s, part),
         NEW c, Ends(s.parts[part], c)
  PROVE  /\ part = TryBody /\ c.kind = "throw" /\ HasHandler(s) => Admits(s, Handler)
         /\ part # Finalizer /\ ~(part = TryBody /\ c.kind = "throw" /\ HasHandler(s)) =>
              /\ Way(c) \in Interrupted(s)
              /\ HasFinalizer(s) => Admits(s, Finalizer)
              /\ ~HasFinalizer(s) => Way(c) \in DeclaredSet(s)
<1>1. part \in {TryBody, Handler, Finalizer} /\ Has(s, part) /\ Len(s.parts) = 3
  BY TryParts DEF Admits, TryBody, Handler, Finalizer
<1>2. s.parts[part].kind \in Proper
  BY <1>1, TryParts DEF TryBody, Handler, Finalizer
<1>3. Targeted(c) /\ Way(c) \in DeclaredSet(s.parts[part])
  BY <1>2 DEF Ends, Proper, Simple, Loops
<1>4. c.kind = "throw" <=> Way(c) = Thrown
  BY <1>3, Ways
<1>5. part = TryBody /\ c.kind = "throw" /\ HasHandler(s) => Admits(s, Handler)
  BY <1>1, <1>3, <1>4 DEF Admits, HasHandler, Compound, TryBody, Handler
<1>6. ASSUME part # Finalizer, ~(part = TryBody /\ c.kind = "throw" /\ HasHandler(s))
      PROVE  Way(c) \in Interrupted(s)
  <2>1. CASE part = TryBody
    BY <1>3, <1>4, <1>6, <2>1 DEF Interrupted, CatchReplacement
  <2>2. CASE part = Handler
    <3>1. HasHandler(s) /\ Thrown \in DeclaredSet(s.parts[TryBody])
      BY <1>1, <2>2 DEF HasHandler, Admits
    <3> QED
      BY <1>3, <2>2, <3>1 DEF Interrupted, CatchReplacement
  <2> QED
    BY <1>1, <1>6, <2>1, <2>2
<1>7. HasFinalizer(s) => Admits(s, Finalizer)
  BY <1>1 DEF Admits, HasFinalizer, Compound, Handler, Finalizer
<1> QED
  BY <1>5, <1>6, <1>7, TryParts

\* Behind its finalizer a statement leaves as the finalizer, or as what it
\* interrupted where the finalizer falls through.
LEMMA FinalizerEnds ==
  ASSUME NEW s \in Statements, s.kind = "try", Admits(s, Finalizer),
         NEW c, Ends(s.parts[Finalizer], c),
         NEW waiting, Way(waiting) \in Interrupted(s)
  PROVE  /\ c.kind = "normal" => Way(waiting) \in DeclaredSet(s)
         /\ c.kind # "normal" => Way(c) \in DeclaredSet(s)
<1>1. HasFinalizer(s) /\ s.parts[Finalizer].kind \in Proper
  BY TryParts DEF Admits, HasFinalizer, Finalizer
<1>2. Targeted(c) /\ Way(c) \in DeclaredSet(s.parts[Finalizer])
  BY <1>1 DEF Ends, Proper, Simple, Loops
<1>3. c.kind = "normal" <=> Way(c) = Normal
  BY <1>2, Ways
<1>4. DeclaredSet(s) = FinallyReplacement(Interrupted(s), DeclaredSet(s.parts[Finalizer]))
  BY <1>1, TryParts
<1> HIDE DEF Interrupted
<1> QED
  BY <1>2, <1>3, <1>4 DEF FinallyReplacement

-----------------------------------------------------------------------------
(* The invariant.                                                          *)

\* What waits for the finalizer of a try statement is a way out of its body
\* or its handler.
Interrupts(statement, path, pending) ==
  /\ path \in DOMAIN pending
  /\ Targeted(pending[path]) /\ Way(pending[path]) \in Interrupted(statement)

\* The place is that of a part control gets to.
Reached(tree, place, pending) ==
  LET statement == StatementAt(tree, Front(place))
  IN  /\ statement \in Statements /\ Admits(statement, Last(place))
      /\ statement.kind = "try" /\ Last(place) = Finalizer =>
           Interrupts(statement, Front(place), pending)

Along(tree, path, pending) ==
  /\ path \in Seq(Nat)
  /\ \A place \in Places(path) : Reached(tree, place, pending)

Evaluated == Simple \cup {"return", "returnAwait", "throw", "if", "while", "do", "test", "switch",
                          "case"}

\* What the control says of the statement it is at.
Fits(statement, at) ==
  /\ at.kind = "enter" => statement.kind \in Proper \cup {"test"}
  /\ at.kind = "evaluate" =>
       statement.kind \in Evaluated /\ (statement.kind = "do" => ComesBack(statement))
  /\ at.kind = "await" => statement.kind \in {"await", "returnAwait"}
  /\ at.kind = "complete" => Ends(statement, at.completion)
  /\ at.kind = "settle" => at.path = <<>> /\ Ends(statement, at.completion)

Sound(tree, at) ==
  /\ tree \in Statements /\ tree.kind \in Proper
  /\ Along(tree, at.path, at.pending)
  /\ Fits(StatementAt(tree, at.path), at)

LEMMA Up ==
  ASSUME NEW tree, NEW path, NEW pending, Along(tree, path, pending), path # <<>>
  PROVE  /\ Front(path) \in Seq(Nat) /\ Last(path) \in Nat
         /\ path = Append(Front(path), Last(path))
         /\ Along(tree, Front(path), pending)
         /\ StatementAt(tree, Front(path)) \in Statements
         /\ Admits(StatementAt(tree, Front(path)), Last(path))
         /\ StatementAt(tree, path) = StatementAt(tree, Front(path)).parts[Last(path)]
         /\ StatementAt(tree, Front(path)).kind = "try" /\ Last(path) = Finalizer =>
              Interrupts(StatementAt(tree, Front(path)), Front(path), pending)
<1>1. /\ path \in Seq(Nat) /\ Front(path) \in Seq(Nat) /\ Last(path) \in Nat
      /\ path = Append(Front(path), Last(path))
      /\ Places(path) = Places(Front(path)) \cup {path}
  BY Shortened DEF Along
<1>2. Along(tree, Front(path), pending) /\ Reached(tree, path, pending)
  BY <1>1 DEF Along
<1>3. StatementAt(tree, Append(Front(path), Last(path))) =
        StatementAt(tree, Front(path)).parts[Last(path)]
  BY <1>1, StatementAtPart
<1> QED
  BY <1>1, <1>2, <1>3 DEF Reached

LEMMA Here ==
  ASSUME NEW tree \in Statements, NEW path, NEW pending, Along(tree, path, pending)
  PROVE  StatementAt(tree, path) \in Statements
<1>1. CASE path = <<>>
  BY <1>1, StatementAtRoot
<1>2. CASE path # <<>>
  <2>1. /\ StatementAt(tree, Front(path)) \in Statements
        /\ Last(path) \in 1 .. Len(StatementAt(tree, Front(path)).parts)
        /\ StatementAt(tree, path) = StatementAt(tree, Front(path)).parts[Last(path)]
    BY <1>2, Up DEF Admits
  <2> QED
    BY <2>1, Parts
<1> QED
  BY <1>1, <1>2

LEMMA Down ==
  ASSUME NEW tree \in Statements, NEW path, NEW pending, Along(tree, path, pending),
         NEW part, Admits(StatementAt(tree, path), part),
         StatementAt(tree, path).kind = "try" /\ part = Finalizer =>
           Interrupts(StatementAt(tree, path), path, pending)
  PROVE  /\ Along(tree, Append(path, part), pending)
         /\ StatementAt(tree, Append(path, part)) = StatementAt(tree, path).parts[part]
<1>1. StatementAt(tree, path) \in Statements /\ path \in Seq(Nat)
  BY Here DEF Along
<1>2. part \in Nat
  BY <1>1, Parts DEF Admits
<1>3. /\ Append(path, part) \in Seq(Nat)
      /\ Front(Append(path, part)) = path /\ Last(Append(path, part)) = part
      /\ Places(Append(path, part)) = Places(path) \cup {Append(path, part)}
  BY <1>1, <1>2, Lengthened
<1>4. Reached(tree, Append(path, part), pending)
  BY <1>1, <1>3 DEF Reached
<1>5. Along(tree, Append(path, part), pending)
  BY <1>3, <1>4 DEF Along
<1>6. StatementAt(tree, Append(path, part)) = StatementAt(tree, path).parts[part]
  BY <1>1, <1>2, StatementAtPart
<1> QED
  BY <1>5, <1>6

\* What waits at a place says nothing of the way to it.
LEMMA Aside ==
  ASSUME NEW tree, NEW path, NEW pending, Along(tree, path, pending),
         NEW other,
         \A p \in DOMAIN pending \ {path} : p \in DOMAIN other /\ other[p] = pending[p]
  PROVE  Along(tree, path, other)
<1>1. path \in Seq(Nat)
  BY DEF Along
<1>2. ASSUME NEW place \in Places(path) PROVE Reached(tree, place, other)
  <2>1. Front(place) # path
    BY <1>1, Within
  <2>2. Reached(tree, place, pending)
    BY DEF Along
  <2>3. Interrupts(StatementAt(tree, Front(place)), Front(place), pending) =>
          Interrupts(StatementAt(tree, Front(place)), Front(place), other)
    BY <2>1 DEF Interrupts
  <2> QED
    BY <2>2, <2>3 DEF Reached
<1> QED
  BY <1>1, <1>2 DEF Along

LEMMA MovedFields ==
  ASSUME NEW at, NEW kind, NEW path, NEW completion
  PROVE  /\ Moved(at, kind, path, completion).kind = kind
         /\ Moved(at, kind, path, completion).path = path
         /\ Moved(at, kind, path, completion).completion = completion
         /\ Moved(at, kind, path, completion).pending = at.pending
BY DEF Moved

LEMMA Enters ==
  ASSUME NEW tree \in Statements, tree.kind \in Proper, NEW at, NEW path,
         Along(tree, path, at.pending), StatementAt(tree, path).kind \in Proper \cup {"test"}
  PROVE  Sound(tree, Entering(at, path))
<1>1. /\ Entering(at, path).kind = "enter" /\ Entering(at, path).path = path
      /\ Entering(at, path).pending = at.pending
  BY MovedFields DEF Entering
<1> QED
  BY <1>1 DEF Sound, Fits

LEMMA Evaluates ==
  ASSUME NEW tree \in Statements, tree.kind \in Proper, NEW at, NEW path,
         Along(tree, path, at.pending), StatementAt(tree, path).kind \in Evaluated,
         StatementAt(tree, path).kind = "do" => ComesBack(StatementAt(tree, path))
  PROVE  Sound(tree, Evaluating(at, path))
<1>1. /\ Evaluating(at, path).kind = "evaluate" /\ Evaluating(at, path).path = path
      /\ Evaluating(at, path).pending = at.pending
  BY MovedFields DEF Evaluating
<1> QED
  BY <1>1 DEF Sound, Fits

LEMMA Completes ==
  ASSUME NEW tree \in Statements, tree.kind \in Proper, NEW at, NEW path,
         Along(tree, path, at.pending), NEW c, Ends(StatementAt(tree, path), c)
  PROVE  Sound(tree, Completing(at, path, c))
<1>1. /\ Completing(at, path, c).kind = "complete" /\ Completing(at, path, c).path = path
      /\ Completing(at, path, c).pending = at.pending /\ Completing(at, path, c).completion = c
  BY MovedFields DEF Completing
<1> QED
  BY <1>1 DEF Sound, Fits

\* Into a part of a statement control gets to.
LEMMA EntersPart ==
  ASSUME NEW tree \in Statements, tree.kind \in Proper, NEW at, NEW path,
         Along(tree, path, at.pending),
         NEW part, Admits(StatementAt(tree, path), part),
         StatementAt(tree, path).kind = "try" => part # Finalizer,
         StatementAt(tree, path).parts[part].kind \in Proper \cup {"test"}
  PROVE  Sound(tree, Entering(at, Append(path, part)))
<1>1. /\ Along(tree, Append(path, part), at.pending)
      /\ StatementAt(tree, Append(path, part)) = StatementAt(tree, path).parts[part]
  BY Down
<1> QED
  BY <1>1, Enters

-----------------------------------------------------------------------------
(* Entering a statement keeps the invariant.                               *)

LEMMA RoundKeeps ==
  ASSUME NEW tree \in Statements, tree.kind \in Proper, NEW at, NEW path,
         Along(tree, path, at.pending), StatementAt(tree, path).kind = "for"
  PROVE  Sound(tree, Round(StatementAt(tree, path), at, path))
<1>1. PICK s : s = StatementAt(tree, path)
  OBVIOUS
<1>2. s \in Statements /\ s.kind = "for"
  BY <1>1, Here
<1>3. CASE Has(s, ForTest)
  <2>1. Admits(s, ForTest) /\ s.parts[ForTest].kind = "test"
    BY <1>2, <1>3, ForTests, ForParts
  <2>2. Sound(tree, Entering(at, Append(path, ForTest)))
    BY <1>1, <1>2, <2>1, EntersPart
  <2> QED
    BY <1>1, <1>3, <2>2 DEF Round
<1>4. CASE ~Has(s, ForTest)
  <2>1. Admits(s, ForBody) /\ s.parts[ForBody].kind \in Proper
    BY <1>2, ForTests, ForParts
  <2>2. Sound(tree, Entering(at, Append(path, ForBody)))
    BY <1>1, <1>2, <2>1, EntersPart
  <2> QED
    BY <1>1, <1>4, <2>2 DEF Round
<1> QED
  BY <1>3, <1>4

\* Into the block of a clause.
LEMMA EntersClause ==
  ASSUME NEW tree \in Statements, tree.kind \in Proper, NEW at, NEW path,
         Along(tree, path, at.pending), StatementAt(tree, path).kind = "switch",
         NEW i \in 1 .. Len(StatementAt(tree, path).parts)
  PROVE  Sound(tree, Entering(at, Append(Append(path, i), 1)))
<1>1. PICK s : s = StatementAt(tree, path)
  OBVIOUS
<1>2. s \in Statements /\ s.kind = "switch" /\ i \in 1 .. Len(s.parts)
  BY <1>1, Here
<1>3. /\ s.parts[i].kind \in {"case", "default"} /\ Admits(s, i) /\ Admits(s.parts[i], 1)
      /\ s.parts[i].parts[1].kind = "block"
  BY <1>2, Clauses
<1>4. Along(tree, Append(path, i), at.pending) /\ StatementAt(tree, Append(path, i)) = s.parts[i]
  BY <1>1, <1>2, <1>3, Down
<1>5. "block" \in Proper
  BY DEF Proper
<1>6. PICK deeper : deeper = Append(path, i)
  OBVIOUS
<1>7. Sound(tree, Entering(at, Append(deeper, 1)))
  BY <1>3, <1>4, <1>5, <1>6, EntersPart
<1> QED
  BY <1>6, <1>7

LEMMA SwitchKeeps ==
  ASSUME NEW tree \in Statements, tree.kind \in Proper, NEW at, NEW path,
         Along(tree, path, at.pending), StatementAt(tree, path).kind = "switch",
         NEW first \in Nat, first > 0
  PROVE  Sound(tree, SwitchFrom(StatementAt(tree, path), at, path, first))
<1>1. PICK s : s = StatementAt(tree, path)
  OBVIOUS
<1>2. s \in Statements /\ s.kind = "switch"
  BY <1>1, Here
<1>3. Len(s.parts) \in Nat /\ DOMAIN s.parts = 1 .. Len(s.parts)
  BY <1>2, Parts
<1> DEFINE tests == {i \in first .. Len(s.parts) : s.parts[i].kind = "case"}
           defaults == {i \in DOMAIN s.parts : s.parts[i].kind = "default"}
<1>4. SwitchFrom(s, at, path, first) =
        IF tests # {} THEN Evaluating(at, Append(path, Min(tests)))
        ELSE IF defaults # {} THEN Entering(at, Append(Append(path, Min(defaults)), 1))
        ELSE Completing(at, path, Falls)
  BY DEF SwitchFrom
<1>5. tests \in SUBSET Nat /\ defaults \in SUBSET Nat
  BY <1>3
<1>6. CASE tests # {}
  <2>1. Min(tests) \in tests
    <3> HIDE DEF tests
    <3> QED
      BY <1>5, <1>6, MinOf
  <2>2. PICK i : i = Min(tests)
    OBVIOUS
  <2>3. i \in 1 .. Len(s.parts) /\ s.parts[i].kind = "case"
    <3>1. i \in tests
      BY <2>1, <2>2
    <3> QED
      BY <1>3, <3>1
  <2>4. Admits(s, i)
    BY <1>2, <2>3, Clauses
  <2>5. Along(tree, Append(path, i), at.pending) /\ StatementAt(tree, Append(path, i)) = s.parts[i]
    BY <1>1, <1>2, <2>4, Down
  <2>6. "case" \in Evaluated
    BY DEF Evaluated
  <2>7. Sound(tree, Evaluating(at, Append(path, i)))
    BY <2>3, <2>5, <2>6, Evaluates
  <2> QED
    BY <1>1, <1>4, <1>6, <2>2, <2>7
<1>7. CASE tests = {} /\ defaults # {}
  <2>1. Min(defaults) \in defaults
    <3> HIDE DEF defaults
    <3> QED
      BY <1>5, <1>7, MinOf
  <2>2. Min(defaults) \in 1 .. Len(s.parts)
    BY <1>3, <2>1
  <2>3. Sound(tree, Entering(at, Append(Append(path, Min(defaults)), 1)))
    BY <1>1, <2>2, EntersClause
  <2> QED
    BY <1>1, <1>4, <1>7, <2>3
<1>8. CASE tests = {} /\ defaults = {}
  <2>1. Normal \in DeclaredSet(s)
    BY <1>2, <1>8, SwitchSets
  <2>2. Ends(s, Falls)
    BY <2>1, Ways DEF Ends
  <2>3. Sound(tree, Completing(at, path, Falls))
    BY <1>1, <2>2, Completes
  <2> QED
    BY <1>1, <1>4, <1>8, <2>3
<1> QED
  BY <1>6, <1>7, <1>8

LEMMA EnterKeeps ==
  ASSUME NEW tree, NEW at, Sound(tree, at), at.kind = "enter"
  PROVE  Sound(tree, EnterStep(tree, at))
<1>1. PICK path : path = at.path
  OBVIOUS
<1>2. PICK s : s = StatementAt(tree, path)
  OBVIOUS
<1>3. /\ tree \in Statements /\ tree.kind \in Proper /\ Along(tree, path, at.pending)
      /\ s.kind \in Proper \cup {"test"}
  BY <1>1, <1>2 DEF Sound, Fits
<1>4. s \in Statements
  BY <1>2, <1>3, Here
<1>5. EnterStep(tree, at) =
        CASE s.kind \in {"break", "continue"} ->
               Completing(at, path, InFlight(Completion(s.kind, s.label), path))
          [] s.kind = "block" ->
               IF s.parts = <<>> THEN Completing(at, path, Falls)
               ELSE Entering(at, Append(path, 1))
          [] s.kind \in {"do", "try"} -> Entering(at, Append(path, 1))
          [] s.kind = "for" ->
               IF Has(s, Initializer) THEN Entering(at, Append(path, Initializer))
               ELSE Round(s, at, path)
          [] OTHER -> Evaluating(at, path)
  BY <1>1, <1>2 DEF EnterStep
<1>6. CASE s.kind \in {"break", "continue"}
  <2>1. PICK c : c = InFlight(Completion(s.kind, s.label), path)
    OBVIOUS
  <2>2. Targeted(c) /\ Way(c) = Completion(s.kind, s.label)
    BY <1>6, <2>1 DEF Targeted, Way, InFlight, Completion
  <2>3. DeclaredSet(s) = {Completion(s.kind, s.label)}
    BY <1>4, <1>6, SetsByKind
  <2>4. Ends(s, c)
    BY <2>2, <2>3 DEF Ends
  <2>5. Sound(tree, Completing(at, path, c))
    BY <1>2, <1>3, <2>4, Completes
  <2>6. EnterStep(tree, at) = Completing(at, path, InFlight(Completion(s.kind, s.label), path))
    BY <1>5, <1>6
  <2> QED
    BY <2>1, <2>5, <2>6
<1>7. CASE s.kind = "block" /\ s.parts = <<>>
  <2>1. Len(s.parts) = 0
    BY <1>7
  <2>2. Len(Sets(s)) = 0
    BY <1>4, <2>1, Parts
  <2>3. Normal \in Sequentially(Sets(s))
    BY <2>2 DEF Sequentially, SequentiallyFrom
  <2>4. Normal \in DeclaredSet(s)
    BY <1>4, <1>7, <2>3, SetsByKind
         DEF LabelledBlockCompletions, ConsumeBreaks, Normal, Completion
  <2>5. Ends(s, Falls)
    BY <2>4, Ways DEF Ends
  <2>6. Sound(tree, Completing(at, path, Falls))
    BY <1>2, <1>3, <2>5, Completes
  <2>7. EnterStep(tree, at) = Completing(at, path, Falls)
    BY <1>5, <1>7
  <2> QED
    BY <2>6, <2>7
<1>8. CASE s.kind = "block" /\ s.parts # <<>>
  <2>1. 1 \in 1 .. Len(s.parts)
    BY <1>4, <1>8, Parts, EmptySeq
  <2>2. s.parts[1].kind \in Proper
    BY <1>4, <1>8, <2>1, Parts DEF WellFormed, PartsAre, Simple, Loops
  <2>3. Admits(s, 1)
    BY <1>8, <2>1, <2>2 DEF Admits, Compound, Has, Proper, Simple, Loops
  <2>4. Sound(tree, Entering(at, Append(path, 1)))
    BY <1>2, <1>3, <1>8, <2>2, <2>3, EntersPart
  <2>5. EnterStep(tree, at) = Entering(at, Append(path, 1))
    BY <1>5, <1>8
  <2> QED
    BY <2>4, <2>5
<1>9. CASE s.kind = "do"
  <2>1. Len(s.parts) = 1 /\ PartsAre(s, Proper)
    BY <1>4, <1>9, Parts DEF WellFormed, Simple, Loops
  <2>2. s.parts[1].kind \in Proper
    BY <1>4, <2>1, Parts DEF PartsAre
  <2>3. Admits(s, 1)
    BY <1>9, <2>1, <2>2 DEF Admits, Compound, Has, Proper, Simple, Loops
  <2>4. Sound(tree, Entering(at, Append(path, 1)))
    BY <1>2, <1>3, <1>9, <2>2, <2>3, EntersPart
  <2>5. EnterStep(tree, at) = Entering(at, Append(path, 1))
    BY <1>5, <1>9
  <2> QED
    BY <2>4, <2>5
<1>10. CASE s.kind = "try"
  <2>1. Admits(s, 1) /\ s.parts[1].kind \in Proper /\ 1 # Finalizer
    BY <1>4, <1>10, TryParts DEF TryBody, Finalizer
  <2>2. Sound(tree, Entering(at, Append(path, 1)))
    BY <1>2, <1>3, <2>1, EntersPart
  <2>3. EnterStep(tree, at) = Entering(at, Append(path, 1))
    BY <1>5, <1>10
  <2> QED
    BY <2>2, <2>3
<1>11. CASE s.kind = "for" /\ Has(s, Initializer)
  <2>1. Admits(s, Initializer) /\ s.parts[Initializer].kind \in Proper
    BY <1>4, <1>11, ForTests, ForParts DEF Proper
  <2>2. Sound(tree, Entering(at, Append(path, Initializer)))
    BY <1>2, <1>3, <1>11, <2>1, EntersPart
  <2>3. EnterStep(tree, at) = Entering(at, Append(path, Initializer))
    BY <1>5, <1>11
  <2> QED
    BY <2>2, <2>3
<1>12. CASE s.kind = "for" /\ ~Has(s, Initializer)
  <2>1. Sound(tree, Round(s, at, path))
    BY <1>2, <1>3, <1>12, RoundKeeps
  <2>2. EnterStep(tree, at) = Round(s, at, path)
    BY <1>5, <1>12
  <2> QED
    BY <2>1, <2>2
<1>13. CASE s.kind \notin {"break", "continue", "block", "do", "try", "for"}
  <2>1. s.kind \in Evaluated /\ s.kind # "do"
    BY <1>3, <1>13 DEF Proper, Evaluated, Loops
  <2>2. Sound(tree, Evaluating(at, path))
    BY <1>2, <1>3, <2>1, Evaluates
  <2>3. EnterStep(tree, at) = Evaluating(at, path)
    BY <1>5, <1>13
  <2> QED
    BY <2>2, <2>3
<1> QED
  BY <1>6, <1>7, <1>8, <1>9, <1>10, <1>11, <1>12, <1>13

-----------------------------------------------------------------------------
(* Completing a part of a statement keeps the invariant.                   *)

\* A control has completed a part of the statement at a path.
Behind(tree, at, path, part) ==
  /\ tree \in Statements /\ tree.kind \in Proper
  /\ Along(tree, path, at.pending)
  /\ Admits(StatementAt(tree, path), part)
  /\ Ends(StatementAt(tree, path).parts[part], at.completion)

LEMMA BlockKeeps ==
  ASSUME NEW tree, NEW at, NEW path, NEW part, Behind(tree, at, path, part),
         StatementAt(tree, path).kind = "block"
  PROVE  Sound(tree, BlockStep(StatementAt(tree, path), at, path, part))
<1>1. PICK s : s = StatementAt(tree, path)
  OBVIOUS
<1>2. PICK c : c = at.completion
  OBVIOUS
<1>3. /\ tree \in Statements /\ tree.kind \in Proper /\ Along(tree, path, at.pending)
      /\ s \in Statements /\ s.kind = "block" /\ Admits(s, part) /\ Ends(s.parts[part], c)
  BY <1>1, <1>2, Here DEF Behind
<1>4. /\ c.kind = "normal" /\ part < Len(s.parts) => Admits(s, part + 1)
      /\ ~(c.kind = "normal" /\ part < Len(s.parts)) =>
           IF c.kind = "break" /\ s.label # NoLabel /\ c.target = s.label
             THEN Normal \in DeclaredSet(s)
             ELSE Way(c) \in DeclaredSet(s)
  BY <1>3, BlockEnds
<1>5. BlockStep(s, at, path, part) =
        CASE c.kind = "normal" /\ part < Len(s.parts) -> Entering(at, Append(path, part + 1))
          [] c.kind = "break" /\ s.label # NoLabel /\ c.target = s.label ->
               Completing(at, path, Falls)
          [] OTHER -> Completing(at, path, c)
  BY <1>2 DEF BlockStep
<1>6. Targeted(c)
  BY <1>3 DEF Ends
<1>7. CASE c.kind = "normal" /\ part < Len(s.parts)
  <2>1. Admits(s, part + 1)
    BY <1>4, <1>7
  <2>2. part + 1 \in 1 .. Len(s.parts)
    BY <2>1 DEF Admits
  <2>3. s.parts[part + 1].kind \in Proper
    BY <1>3, <2>2, Parts DEF WellFormed, PartsAre, Simple, Loops
  <2>4. Sound(tree, Entering(at, Append(path, part + 1)))
    BY <1>1, <1>3, <2>1, <2>3, EntersPart
  <2>5. BlockStep(s, at, path, part) = Entering(at, Append(path, part + 1))
    BY <1>5, <1>7
  <2> QED
    BY <1>1, <2>4, <2>5
<1>8. CASE c.kind = "break" /\ s.label # NoLabel /\ c.target = s.label
  <2>1. Ends(s, Falls)
    BY <1>4, <1>8, Ways DEF Ends
  <2>2. Sound(tree, Completing(at, path, Falls))
    BY <1>1, <1>3, <2>1, Completes
  <2>3. BlockStep(s, at, path, part) = Completing(at, path, Falls)
    BY <1>5, <1>8
  <2> QED
    BY <1>1, <2>2, <2>3
<1>9. CASE /\ ~(c.kind = "normal" /\ part < Len(s.parts))
           /\ ~(c.kind = "break" /\ s.label # NoLabel /\ c.target = s.label)
  <2>1. Ends(s, c)
    BY <1>4, <1>6, <1>9 DEF Ends
  <2>2. Sound(tree, Completing(at, path, c))
    BY <1>1, <1>3, <2>1, Completes
  <2>3. BlockStep(s, at, path, part) = Completing(at, path, c)
    BY <1>5, <1>9
  <2> QED
    BY <1>1, <2>2, <2>3
<1> QED
  BY <1>7, <1>8, <1>9

LEMMA LoopKeeps ==
  ASSUME NEW tree, NEW at, NEW path, NEW part, Behind(tree, at, path, part),
         StatementAt(tree, path).kind \in Loops
  PROVE  Sound(tree, LoopStep(StatementAt(tree, path), at, path))
<1>1. PICK s : s = StatementAt(tree, path)
  OBVIOUS
<1>2. PICK c : c = at.completion
  OBVIOUS
<1>3. /\ tree \in Statements /\ tree.kind \in Proper /\ Along(tree, path, at.pending)
      /\ s \in Statements /\ s.kind \in Loops /\ Admits(s, part) /\ Ends(s.parts[part], c)
  BY <1>1, <1>2, Here DEF Behind
<1>4. /\ GoesOn(s, c) => ComesBack(s)
      /\ ~GoesOn(s, c) /\ Breaks(s, c) => Normal \in DeclaredSet(s)
      /\ ~GoesOn(s, c) /\ ~Breaks(s, c) => Way(c) \in DeclaredSet(s)
  BY <1>3, LoopEnds
<1>5. LoopStep(s, at, path) =
        CASE GoesOn(s, c) -> Evaluating(at, path)
          [] Breaks(s, c) -> Completing(at, path, Falls)
          [] OTHER -> Completing(at, path, c)
  BY <1>2 DEF LoopStep
<1>6. Targeted(c)
  BY <1>3 DEF Ends
<1>7. CASE GoesOn(s, c)
  <2>1. s.kind \in Evaluated
    BY <1>3 DEF Evaluated, Loops
  <2>2. Sound(tree, Evaluating(at, path))
    BY <1>1, <1>3, <1>4, <1>7, <2>1, Evaluates
  <2>3. ~Breaks(s, c)
    BY <1>7 DEF GoesOn, Breaks
  <2>4. LoopStep(s, at, path) = Evaluating(at, path)
    BY <1>5, <1>7, <2>3
  <2> QED
    BY <1>1, <2>2, <2>4
<1>8. CASE ~GoesOn(s, c) /\ Breaks(s, c)
  <2>1. Ends(s, Falls)
    BY <1>4, <1>8, Ways DEF Ends
  <2>2. Sound(tree, Completing(at, path, Falls))
    BY <1>1, <1>3, <2>1, Completes
  <2>3. LoopStep(s, at, path) = Completing(at, path, Falls)
    BY <1>5, <1>8
  <2> QED
    BY <1>1, <2>2, <2>3
<1>9. CASE ~GoesOn(s, c) /\ ~Breaks(s, c)
  <2>1. Ends(s, c)
    BY <1>4, <1>6, <1>9 DEF Ends
  <2>2. Sound(tree, Completing(at, path, c))
    BY <1>1, <1>3, <2>1, Completes
  <2>3. LoopStep(s, at, path) = Completing(at, path, c)
    BY <1>5, <1>9
  <2> QED
    BY <1>1, <2>2, <2>3
<1> QED
  BY <1>7, <1>8, <1>9

LEMMA ForKeeps ==
  ASSUME NEW tree, NEW at, NEW path, NEW part, Behind(tree, at, path, part),
         StatementAt(tree, path).kind = "for"
  PROVE  Sound(tree, ForStep(StatementAt(tree, path), at, path, part))
<1>1. PICK s : s = StatementAt(tree, path)
  OBVIOUS
<1>2. PICK c : c = at.completion
  OBVIOUS
<1>3. /\ tree \in Statements /\ tree.kind \in Proper /\ Along(tree, path, at.pending)
      /\ s \in Statements /\ s.kind = "for" /\ Admits(s, part) /\ Ends(s.parts[part], c)
  BY <1>1, <1>2, Here DEF Behind
<1>4. /\ part # ForBody =>
           /\ c.kind = "normal" \/ Way(c) = Thrown
           /\ part = ForTest \/ c.kind # "normal" => Way(c) \in DeclaredSet(s)
      /\ part = ForBody =>
           /\ GoesOn(s, c) => ComesBack(s)
           /\ ~GoesOn(s, c) /\ Breaks(s, c) => Normal \in DeclaredSet(s)
           /\ ~GoesOn(s, c) /\ ~Breaks(s, c) => Way(c) \in DeclaredSet(s)
  BY <1>3, ForEnds
<1>5. ForStep(s, at, path, part) =
        CASE part \in {Initializer, Update} /\ c.kind = "normal" -> Round(s, at, path)
          [] part = ForBody /\ GoesOn(s, c) ->
               IF Has(s, Update) THEN Entering(at, Append(path, Update)) ELSE Round(s, at, path)
          [] Breaks(s, c) -> Completing(at, path, Falls)
          [] OTHER -> Completing(at, path, c)
  BY <1>2 DEF ForStep
<1>6. Targeted(c)
  BY <1>3 DEF Ends
<1>7. Sound(tree, Round(s, at, path))
  BY <1>1, <1>3, RoundKeeps
<1>8. part \in {Initializer, ForTest, Update, ForBody}
  BY <1>3, ForParts DEF Admits, Initializer, ForTest, Update, ForBody
<1>9. ForBody \notin {Initializer, Update} /\ ForTest \notin {Initializer, Update}
  BY DEF Initializer, ForTest, Update, ForBody
<1>10. CASE part # ForBody
  <2>1. CASE part \in {Initializer, Update} /\ c.kind = "normal"
    <3>1. ~Breaks(s, c)
      BY <2>1 DEF Breaks
    <3> QED
      BY <1>1, <1>5, <1>7, <1>10, <2>1, <3>1
  <2>2. CASE ~(part \in {Initializer, Update} /\ c.kind = "normal")
    <3>1. Way(c) \in DeclaredSet(s)
      BY <1>4, <1>8, <1>10, <2>2
    <3>2. ~Breaks(s, c)
      <4>1. c.kind \in {"normal", "throw"}
        BY <1>4, <1>10, Ways DEF Thrown, Completion
      <4> QED
        BY <4>1 DEF Breaks
    <3>3. Sound(tree, Completing(at, path, c))
      BY <1>1, <1>3, <1>6, <3>1, Completes DEF Ends
    <3>4. ForStep(s, at, path, part) = Completing(at, path, c)
      BY <1>5, <1>10, <2>2, <3>2
    <3> QED
      BY <1>1, <3>3, <3>4
  <2> QED
    BY <2>1, <2>2
<1>11. CASE part = ForBody /\ GoesOn(s, c)
  <2>1. ~Breaks(s, c)
    BY <1>11 DEF GoesOn, Breaks
  <2>2. CASE Has(s, Update)
    <3>1. Admits(s, Update) /\ s.parts[Update].kind \in Proper
      BY <1>3, <1>4, <1>11, <2>2, ForTests, ForParts DEF Proper
    <3>2. Sound(tree, Entering(at, Append(path, Update)))
      BY <1>1, <1>3, <3>1, EntersPart
    <3>3. ForStep(s, at, path, part) = Entering(at, Append(path, Update))
      BY <1>5, <1>9, <1>11, <2>2, <2>1
    <3> QED
      BY <1>1, <3>2, <3>3
  <2>3. CASE ~Has(s, Update)
    BY <1>1, <1>5, <1>7, <1>9, <1>11, <2>3, <2>1
  <2> QED
    BY <2>2, <2>3
<1>12. CASE part = ForBody /\ ~GoesOn(s, c) /\ Breaks(s, c)
  <2>1. Ends(s, Falls)
    BY <1>4, <1>12, Ways DEF Ends
  <2>2. Sound(tree, Completing(at, path, Falls))
    BY <1>1, <1>3, <2>1, Completes
  <2>3. ForStep(s, at, path, part) = Completing(at, path, Falls)
    BY <1>5, <1>9, <1>12
  <2> QED
    BY <1>1, <2>2, <2>3
<1>13. CASE part = ForBody /\ ~GoesOn(s, c) /\ ~Breaks(s, c)
  <2>1. Ends(s, c)
    BY <1>4, <1>6, <1>13 DEF Ends
  <2>2. Sound(tree, Completing(at, path, c))
    BY <1>1, <1>3, <2>1, Completes
  <2>3. ForStep(s, at, path, part) = Completing(at, path, c)
    BY <1>5, <1>9, <1>13
  <2> QED
    BY <1>1, <2>2, <2>3
<1> QED
  BY <1>10, <1>11, <1>12, <1>13

LEMMA ClauseKeeps ==
  ASSUME NEW tree, NEW at, NEW path, NEW part, Behind(tree, at, path, part),
         StatementAt(tree, path).kind = "switch"
  PROVE  Sound(tree, SwitchStep(StatementAt(tree, path), at, path, part))
<1>1. PICK s : s = StatementAt(tree, path)
  OBVIOUS
<1>2. PICK c : c = at.completion
  OBVIOUS
<1>3. /\ tree \in Statements /\ tree.kind \in Proper /\ Along(tree, path, at.pending)
      /\ s \in Statements /\ s.kind = "switch" /\ Admits(s, part) /\ Ends(s.parts[part], c)
  BY <1>1, <1>2, Here DEF Behind
<1>4. SwitchStep(s, at, path, part) =
        CASE c.kind = "normal" /\ part < Len(s.parts) ->
               Entering(at, Append(Append(path, part + 1), 1))
          [] Breaks(s, c) -> Completing(at, path, Falls)
          [] OTHER -> Completing(at, path, c)
  BY <1>2 DEF SwitchStep
<1>5. Targeted(c)
  BY <1>3 DEF Ends
<1>6. CASE c.kind = "normal" /\ part < Len(s.parts)
  <2>1. part + 1 \in 1 .. Len(s.parts)
    BY <1>3, <1>6, Parts DEF Admits
  <2>2. Sound(tree, Entering(at, Append(Append(path, part + 1), 1)))
    BY <1>1, <1>3, <2>1, EntersClause
  <2>3. ~Breaks(s, c)
    BY <1>6 DEF Breaks
  <2>4. SwitchStep(s, at, path, part) = Entering(at, Append(Append(path, part + 1), 1))
    BY <1>4, <1>6, <2>3
  <2> QED
    BY <1>1, <2>2, <2>4
<1>7. CASE ~(c.kind = "normal" /\ part < Len(s.parts)) /\ Breaks(s, c)
  <2>1. Normal \in DeclaredSet(s)
    BY <1>3, <1>7, SwitchEnds
  <2>2. Ends(s, Falls)
    BY <2>1, Ways DEF Ends
  <2>3. Sound(tree, Completing(at, path, Falls))
    BY <1>1, <1>3, <2>2, Completes
  <2>4. SwitchStep(s, at, path, part) = Completing(at, path, Falls)
    BY <1>4, <1>7
  <2> QED
    BY <1>1, <2>3, <2>4
<1>8. CASE ~(c.kind = "normal" /\ part < Len(s.parts)) /\ ~Breaks(s, c)
  <2>1. Way(c) \in DeclaredSet(s)
    BY <1>3, <1>8, SwitchEnds
  <2>2. Ends(s, c)
    BY <1>5, <2>1 DEF Ends
  <2>3. Sound(tree, Completing(at, path, c))
    BY <1>1, <1>3, <2>2, Completes
  <2>4. SwitchStep(s, at, path, part) = Completing(at, path, c)
    BY <1>4, <1>8
  <2> QED
    BY <1>1, <2>3, <2>4
<1> QED
  BY <1>6, <1>7, <1>8

\* What a finalizer interrupts waits at the path of its try statement.
LEMMA InterruptKeeps ==
  ASSUME NEW tree \in Statements, tree.kind \in Proper, NEW at, NEW path,
         Along(tree, path, at.pending),
         NEW s, s = StatementAt(tree, path), s.kind = "try", Admits(s, Finalizer),
         Targeted(at.completion), Way(at.completion) \in Interrupted(s)
  PROVE  Sound(tree, Interrupting(at, path))
<1> DEFINE next == Interrupting(at, path)
           waits == [p \in DOMAIN at.pending \cup {path} |->
                       IF p = path THEN at.completion ELSE at.pending[p]]
<1>1. s \in Statements
  BY Here
<1>2. /\ next.kind = "enter" /\ next.path = Append(path, Finalizer)
      /\ next.pending = waits
  BY DEF Interrupting, Entering, Moved
<1>3. Along(tree, path, waits)
  <2>1. \A p \in DOMAIN at.pending \ {path} : p \in DOMAIN waits /\ waits[p] = at.pending[p]
    OBVIOUS
  <2> HIDE DEF waits
  <2> QED
    BY <2>1, Aside
<1>4. Interrupts(s, path, waits)
  BY DEF Interrupts
<1> HIDE DEF next, waits
<1>5. /\ Along(tree, Append(path, Finalizer), waits)
      /\ StatementAt(tree, Append(path, Finalizer)) = s.parts[Finalizer]
  BY <1>3, <1>4, Down
<1>6. s.parts[Finalizer].kind \in Proper
  BY <1>1, TryParts DEF Admits, Finalizer
<1> QED
  BY <1>2, <1>5, <1>6 DEF Sound, Fits, next

LEMMA ResumeKeeps ==
  ASSUME NEW tree \in Statements, tree.kind \in Proper, NEW at, NEW path,
         Along(tree, path, at.pending),
         NEW s, s = StatementAt(tree, path), s.kind = "try", Admits(s, Finalizer),
         Ends(s.parts[Finalizer], at.completion), Interrupts(s, path, at.pending)
  PROVE  Sound(tree, Resuming(at, path))
<1> DEFINE next == Resuming(at, path)
           rest == [p \in DOMAIN at.pending \ {path} |-> at.pending[p]]
<1>1. s \in Statements
  BY Here
<1>2. PICK c : c = at.completion
  OBVIOUS
<1>3. PICK waiting : waiting = at.pending[path]
  OBVIOUS
<1>4. /\ next.kind = "complete" /\ next.path = path /\ next.pending = rest
      /\ next.completion = IF c.kind = "normal" THEN waiting ELSE c
  BY <1>2, <1>3 DEF Resuming, Completing, Moved
<1>5. Along(tree, path, rest)
  <2>1. \A p \in DOMAIN at.pending \ {path} : p \in DOMAIN rest /\ rest[p] = at.pending[p]
    OBVIOUS
  <2> HIDE DEF rest
  <2> QED
    BY <2>1, Aside
<1> HIDE DEF next, rest
<1>6. /\ c.kind = "normal" => Way(waiting) \in DeclaredSet(s) /\ Targeted(waiting)
      /\ c.kind # "normal" => Way(c) \in DeclaredSet(s) /\ Targeted(c)
  BY <1>1, <1>2, <1>3, FinalizerEnds DEF Interrupts, Ends
<1>7. Ends(s, next.completion)
  BY <1>4, <1>6 DEF Ends
<1> QED
  BY <1>4, <1>5, <1>7 DEF Sound, Fits, next

LEMMA TryKeeps ==
  ASSUME NEW tree, NEW at, NEW path, NEW part, Behind(tree, at, path, part),
         StatementAt(tree, path).kind = "try",
         part = Finalizer => Interrupts(StatementAt(tree, path), path, at.pending)
  PROVE  Sound(tree, TryStep(StatementAt(tree, path), at, path, part))
<1>1. PICK s : s = StatementAt(tree, path)
  OBVIOUS
<1>2. PICK c : c = at.completion
  OBVIOUS
<1>3. /\ tree \in Statements /\ tree.kind \in Proper /\ Along(tree, path, at.pending)
      /\ s \in Statements /\ s.kind = "try" /\ Admits(s, part) /\ Ends(s.parts[part], c)
  BY <1>1, <1>2, Here DEF Behind
<1>4. /\ part = TryBody /\ c.kind = "throw" /\ HasHandler(s) => Admits(s, Handler)
      /\ part # Finalizer /\ ~(part = TryBody /\ c.kind = "throw" /\ HasHandler(s)) =>
           /\ Way(c) \in Interrupted(s)
           /\ HasFinalizer(s) => Admits(s, Finalizer)
           /\ ~HasFinalizer(s) => Way(c) \in DeclaredSet(s)
  BY <1>3, TryEnds
<1>5. TryStep(s, at, path, part) =
        IF part = TryBody /\ c.kind = "throw" /\ HasHandler(s)
          THEN Catching(at, Append(path, Handler))
        ELSE IF part = Finalizer THEN Resuming(at, path)
        ELSE IF HasFinalizer(s) THEN Interrupting(at, path)
        ELSE Completing(at, path, c)
  BY <1>2 DEF TryStep
<1>6. Targeted(c)
  BY <1>3 DEF Ends
<1>7. CASE part = TryBody /\ c.kind = "throw" /\ HasHandler(s)
  <2>1. Admits(s, Handler) /\ Handler # Finalizer
    BY <1>4, <1>7 DEF Handler, Finalizer
  <2>2. s.parts[Handler].kind \in Proper
    BY <1>3, <2>1, TryParts DEF Admits, Handler
  <2>3. Sound(tree, Entering(at, Append(path, Handler)))
    BY <1>1, <1>3, <2>1, <2>2, EntersPart
  <2>4. PICK path2 : path2 = Append(path, Handler)
    OBVIOUS
  <2>5. /\ Catching(at, path2).kind = Entering(at, path2).kind
        /\ Catching(at, path2).path = Entering(at, path2).path
        /\ Catching(at, path2).pending = Entering(at, path2).pending
        /\ Catching(at, path2).completion = Entering(at, path2).completion
    BY DEF Catching, Entering, Moved
  <2>6. Sound(tree, Catching(at, path2))
    BY <2>3, <2>4, <2>5 DEF Sound, Fits
  <2> QED
    BY <1>1, <1>5, <1>7, <2>4, <2>6
<1>8. CASE part = Finalizer
  <2>1. part # TryBody
    BY <1>8 DEF TryBody, Finalizer
  <2>2. Sound(tree, Resuming(at, path))
    BY <1>1, <1>2, <1>3, <1>8, ResumeKeeps
  <2> QED
    BY <1>1, <1>5, <1>8, <2>1, <2>2
<1>9. CASE part # Finalizer /\ ~(part = TryBody /\ c.kind = "throw" /\ HasHandler(s))
  <2>1. CASE HasFinalizer(s)
    <3>1. Sound(tree, Interrupting(at, path))
      BY <1>1, <1>2, <1>3, <1>4, <1>6, <1>9, <2>1, InterruptKeeps
    <3> QED
      BY <1>1, <1>5, <1>9, <2>1, <3>1
  <2>2. CASE ~HasFinalizer(s)
    <3>1. Ends(s, c)
      BY <1>4, <1>6, <1>9, <2>2 DEF Ends
    <3>2. Sound(tree, Completing(at, path, c))
      BY <1>1, <1>3, <3>1, Completes
    <3> QED
      BY <1>1, <1>5, <1>9, <2>2, <3>2
  <2> QED
    BY <2>1, <2>2
<1> QED
  BY <1>7, <1>8, <1>9

LEMMA CompleteKeeps ==
  ASSUME NEW tree, NEW at, Sound(tree, at), at.kind = "complete"
  PROVE  Sound(tree, CompleteStep(tree, at))
<1>1. /\ tree \in Statements /\ tree.kind \in Proper /\ Along(tree, at.path, at.pending)
      /\ Ends(StatementAt(tree, at.path), at.completion)
  BY DEF Sound, Fits
<1>2. CASE at.path = <<>>
  <2>1. /\ Settling(at).kind = "settle" /\ Settling(at).path = <<>>
        /\ Settling(at).pending = at.pending /\ Settling(at).completion = at.completion
    BY MovedFields DEF Settling
  <2>2. CompleteStep(tree, at) = Settling(at)
    BY <1>2 DEF CompleteStep
  <2>3. Sound(tree, Settling(at))
    BY <1>1, <1>2, <2>1 DEF Sound, Fits
  <2> QED
    BY <2>2, <2>3
<1>3. CASE at.path # <<>>
  <2>1. PICK path : path = Front(at.path)
    OBVIOUS
  <2>2. PICK part : part = Last(at.path)
    OBVIOUS
  <2>3. PICK s : s = StatementAt(tree, path)
    OBVIOUS
  <2>4. PICK c : c = at.completion
    OBVIOUS
  <2>5. /\ Along(tree, path, at.pending) /\ s \in Statements /\ Admits(s, part)
        /\ StatementAt(tree, at.path) = s.parts[part]
        /\ s.kind = "try" /\ part = Finalizer => Interrupts(s, path, at.pending)
    BY <1>1, <1>3, <2>1, <2>2, <2>3, Up
  <2>6. Behind(tree, at, path, part) /\ Ends(s.parts[part], c)
    BY <1>1, <2>3, <2>4, <2>5 DEF Behind
  <2>7. CompleteStep(tree, at) =
          CASE s.kind = "block" -> BlockStep(s, at, path, part)
            [] s.kind \in Loops -> LoopStep(s, at, path)
            [] s.kind = "for" -> ForStep(s, at, path, part)
            [] s.kind = "switch" -> SwitchStep(s, at, path, part)
            [] s.kind = "try" -> TryStep(s, at, path, part)
            [] OTHER -> Completing(at, path, c)
    BY <1>3, <2>1, <2>2, <2>3, <2>4 DEF CompleteStep
  <2>8. CASE s.kind = "block"
    <3>1. Sound(tree, BlockStep(s, at, path, part))
      BY <2>3, <2>6, <2>8, BlockKeeps
    <3>2. CompleteStep(tree, at) = BlockStep(s, at, path, part)
      BY <2>7, <2>8 DEF Loops
    <3> QED
      BY <3>1, <3>2
  <2>9. CASE s.kind \in Loops
    <3>1. Sound(tree, LoopStep(s, at, path))
      BY <2>3, <2>6, <2>9, LoopKeeps
    <3>2. CompleteStep(tree, at) = LoopStep(s, at, path)
      BY <2>7, <2>9 DEF Loops
    <3> QED
      BY <3>1, <3>2
  <2>10. CASE s.kind = "for"
    <3>1. Sound(tree, ForStep(s, at, path, part))
      BY <2>3, <2>6, <2>10, ForKeeps
    <3>2. CompleteStep(tree, at) = ForStep(s, at, path, part)
      BY <2>7, <2>10 DEF Loops
    <3> QED
      BY <3>1, <3>2
  <2>11. CASE s.kind = "switch"
    <3>1. Sound(tree, SwitchStep(s, at, path, part))
      BY <2>3, <2>6, <2>11, ClauseKeeps
    <3>2. CompleteStep(tree, at) = SwitchStep(s, at, path, part)
      BY <2>7, <2>11 DEF Loops
    <3> QED
      BY <3>1, <3>2
  <2>12. CASE s.kind = "try"
    <3>1. Sound(tree, TryStep(s, at, path, part))
      BY <2>3, <2>5, <2>6, <2>12, TryKeeps
    <3>2. CompleteStep(tree, at) = TryStep(s, at, path, part)
      BY <2>7, <2>12 DEF Loops
    <3> QED
      BY <3>1, <3>2
  <2>13. CASE s.kind \in {"if", "case", "default"}
    <3>1. Way(c) \in DeclaredSet(s) /\ Targeted(c)
      BY <2>5, <2>6, <2>13, BranchEnds DEF Ends
    <3>2. Ends(s, c)
      BY <3>1 DEF Ends
    <3>3. Sound(tree, Completing(at, path, c))
      BY <1>1, <2>3, <2>5, <3>2, Completes
    <3>4. CompleteStep(tree, at) = Completing(at, path, c)
      BY <2>7, <2>13 DEF Loops
    <3> QED
      BY <3>3, <3>4
  <2>14. s.kind \in Compound
    BY <2>5 DEF Admits
  <2> QED
    BY <2>8, <2>9, <2>10, <2>11, <2>12, <2>13, <2>14 DEF Compound
<1> QED
  BY <1>2, <1>3

-----------------------------------------------------------------------------
(* Evaluating an expression, or waiting, keeps the invariant.              *)

\* The test of a for statement and that of a clause stand where they belong.
LEMMA TestsStand ==
  ASSUME NEW tree, NEW path, NEW pending, tree \in Statements, tree.kind \in Proper,
         Along(tree, path, pending), StatementAt(tree, path).kind \in {"test", "case"}
  PROVE  /\ path # <<>>
         /\ StatementAt(tree, path).kind = "test" =>
              StatementAt(tree, Front(path)).kind = "for" /\ Last(path) = ForTest
         /\ StatementAt(tree, path).kind = "case" =>
              StatementAt(tree, Front(path)).kind = "switch"
<1>1. path # <<>>
  BY StatementAtRoot DEF Proper, Simple, Loops
<1>2. PICK s : s = StatementAt(tree, Front(path))
  OBVIOUS
<1>3. PICK part : part = Last(path)
  OBVIOUS
<1>4. /\ s \in Statements /\ Admits(s, part) /\ StatementAt(tree, path) = s.parts[part]
  BY <1>1, <1>2, <1>3, Up
<1>5. /\ s.kind \in Compound /\ WellFormed(s)
      /\ part \in 1 .. Len(s.parts) /\ DOMAIN s.parts = 1 .. Len(s.parts)
  BY <1>4, Parts DEF Admits
<1>6. s.parts[part].kind \in {"test", "case"}
  BY <1>4
<1>7. CASE s.kind = "for"
  <2>1. part \in {Initializer, ForTest, Update, ForBody}
    BY <1>4, <1>7, ForParts DEF Admits, Initializer, ForTest, Update, ForBody
  <2>2. s.parts[part].kind = "test" /\ part = ForTest
    BY <1>4, <1>6, <1>7, <2>1, ForParts DEF Admits, Proper, Simple, Loops
  <2> QED
    BY <1>1, <1>2, <1>3, <1>4, <1>7, <2>2
<1>8. CASE s.kind = "switch"
  <2>1. s.parts[part].kind \in {"case", "default"}
    BY <1>4, <1>5, <1>8, Clauses
  <2> QED
    BY <1>1, <1>2, <1>4, <1>8, <2>1
<1>9. CASE s.kind = "try"
  <2>1. s.parts[part].kind \in Proper
    BY <1>4, <1>5, <1>9, TryParts DEF Admits
  <2> QED
    BY <1>6, <2>1 DEF Proper, Simple, Loops
<1>10. CASE s.kind \in {"block", "if", "case", "default"} \cup Loops
  <2>1. s.parts[part].kind \in Proper
    BY <1>5, <1>10 DEF WellFormed, PartsAre, Simple, Loops, Proper
  <2> QED
    BY <1>6, <2>1 DEF Proper, Simple, Loops
<1> QED
  BY <1>5, <1>7, <1>8, <1>9, <1>10 DEF Compound

LEMMA ThrowKeeps ==
  ASSUME NEW tree, NEW at, Sound(tree, at), at.kind \in {"evaluate", "await"}
  PROVE  Sound(tree, Continuation(tree, at, "throw"))
<1>1. PICK path : path = at.path
  OBVIOUS
<1>2. PICK s : s = StatementAt(tree, path)
  OBVIOUS
<1>3. /\ tree \in Statements /\ tree.kind \in Proper /\ Along(tree, path, at.pending)
      /\ s.kind \in Evaluated /\ (s.kind = "do" => ComesBack(s))
  BY <1>1, <1>2 DEF Sound, Fits, Evaluated, Simple
<1>4. s \in Statements
  BY <1>2, <1>3, Here
<1>5. Thrown \in DeclaredSet(s) \/ s.kind = "case"
  <2>1. CASE s.kind \in {"step", "let", "await", "test", "return", "returnAwait", "throw"}
    BY <1>4, <2>1, SetsByKind
  <2>2. CASE s.kind = "if"
    BY <1>4, <2>2, IfTests
  <2>3. CASE s.kind \in Loops
    BY <1>3, <1>4, <2>3, LoopTests
  <2>4. CASE s.kind = "switch"
    BY <1>4, <2>4, SwitchSets
  <2> QED
    BY <1>3, <2>1, <2>2, <2>3, <2>4 DEF Evaluated, Simple, Loops
<1>6. Ends(s, Throws(path))
  BY <1>5, Ways DEF Ends
<1>7. Sound(tree, Completing(at, path, Throws(path)))
  BY <1>2, <1>3, <1>6, Completes
<1>8. Continuation(tree, at, "throw") = Completing(at, path, Throws(path))
  BY <1>1 DEF Continuation
<1> QED
  BY <1>7, <1>8

\* Only conditions are true or false.
LEMMA Conditions ==
  ASSUME NEW tree, NEW at, Sound(tree, at), at.kind \in {"evaluate", "await"},
         NEW kind, kind = StatementAt(tree, at.path).kind,
         NEW outcome, outcome \in Outcomes(tree, at)
  PROVE  /\ outcome \in {"fulfilled", "throw", "true", "false", "value"}
         /\ outcome = "fulfilled" => at.kind = "await"
         /\ outcome \in {"true", "false"} =>
              at.kind = "evaluate" /\ kind \in {"if", "while", "do", "test", "case"}
         /\ outcome = "value" =>
              at.kind = "evaluate" /\ kind \notin {"if", "while", "do", "test", "case", "throw"}
<1>1. at.kind = "await" => kind \in {"await", "returnAwait"}
  BY DEF Sound, Fits
<1>2. Outcomes(tree, at) =
        CASE at.kind = "await" -> {"fulfilled", "throw"}
          [] kind \in {"if", "while", "do", "test", "case"} -> {"true", "false", "throw"}
          [] kind = "throw" -> {"throw"}
          [] OTHER -> {"value", "throw"}
  BY DEF Outcomes
<1>3. CASE at.kind = "await"
  <2>1. Outcomes(tree, at) = {"fulfilled", "throw"}
    BY <1>1, <1>2, <1>3
  <2> QED
    BY <1>3, <2>1
<1>4. CASE at.kind = "evaluate" /\ kind \in {"if", "while", "do", "test", "case"}
  <2>1. Outcomes(tree, at) = {"true", "false", "throw"}
    BY <1>2, <1>4
  <2> QED
    BY <1>4, <2>1
<1>5. CASE at.kind = "evaluate" /\ kind = "throw"
  <2>1. Outcomes(tree, at) = {"throw"}
    BY <1>2, <1>5
  <2> QED
    BY <2>1
<1>6. CASE at.kind = "evaluate" /\ kind \notin {"if", "while", "do", "test", "case", "throw"}
  <2>1. Outcomes(tree, at) = {"value", "throw"}
    BY <1>2, <1>6
  <2> QED
    BY <1>6, <2>1
<1> QED
  BY <1>3, <1>4, <1>5, <1>6

LEMMA TrueKeeps ==
  ASSUME NEW tree, NEW at, Sound(tree, at), at.kind = "evaluate",
         StatementAt(tree, at.path).kind \in {"if", "while", "do", "test", "case"}
  PROVE  Sound(tree, Continuation(tree, at, "true"))
<1>1. PICK path : path = at.path
  OBVIOUS
<1>2. PICK s : s = StatementAt(tree, path)
  OBVIOUS
<1>3. /\ tree \in Statements /\ tree.kind \in Proper /\ Along(tree, path, at.pending)
      /\ s.kind \in {"if", "while", "do", "test", "case"} /\ (s.kind = "do" => ComesBack(s))
  BY <1>1, <1>2 DEF Sound, Fits
<1>4. s \in Statements
  BY <1>2, <1>3, Here
<1>5. Continuation(tree, at, "true") =
        IF s.kind = "test" THEN Entering(at, Append(Front(path), ForBody))
        ELSE Entering(at, Append(path, 1))
  BY <1>1, <1>2 DEF Continuation
<1>6. CASE s.kind = "test"
  <2>1. PICK up : up = Front(path)
    OBVIOUS
  <2>2. PICK f : f = StatementAt(tree, up)
    OBVIOUS
  <2>3. path # <<>> /\ f.kind = "for"
    BY <1>2, <1>3, <1>6, <2>1, <2>2, TestsStand
  <2>4. f \in Statements /\ Along(tree, up, at.pending)
    BY <1>3, <2>1, <2>2, <2>3, Up
  <2>5. Admits(f, ForBody) /\ f.parts[ForBody].kind \in Proper
    BY <2>3, <2>4, ForTests, ForParts
  <2>6. Sound(tree, Entering(at, Append(up, ForBody)))
    BY <1>3, <2>2, <2>3, <2>4, <2>5, EntersPart
  <2> QED
    BY <1>5, <1>6, <2>1, <2>6
<1>7. CASE s.kind # "test"
  <2>1. Admits(s, 1) /\ s.parts[1].kind \in Proper
    <3>1. CASE s.kind = "if"
      BY <1>4, <3>1, IfTests, Parts DEF WellFormed, PartsAre, Admits, Simple, Loops
    <3>2. CASE s.kind \in {"while", "do"}
      BY <1>3, <1>4, <3>2, LoopTests, Parts DEF WellFormed, PartsAre, Admits, Simple, Loops
    <3>3. CASE s.kind = "case"
      <4>1. Len(s.parts) = 1 /\ PartsAre(s, {"block"})
        BY <1>4, <3>3, Parts DEF WellFormed, Simple, Loops
      <4>2. s.parts[1].kind = "block"
        BY <1>4, <4>1, Parts DEF PartsAre
      <4> QED
        BY <3>3, <4>1, <4>2 DEF Admits, Compound, Has, Proper
    <3> QED
      BY <1>3, <1>7, <3>1, <3>2, <3>3
  <2>2. Sound(tree, Entering(at, Append(path, 1)))
    BY <1>2, <1>3, <2>1, EntersPart
  <2> QED
    BY <1>5, <1>7, <2>2
<1> QED
  BY <1>6, <1>7

LEMMA FalseKeeps ==
  ASSUME NEW tree, NEW at, Sound(tree, at), at.kind = "evaluate",
         StatementAt(tree, at.path).kind \in {"if", "while", "do", "test", "case"}
  PROVE  Sound(tree, Continuation(tree, at, "false"))
<1>1. PICK path : path = at.path
  OBVIOUS
<1>2. PICK s : s = StatementAt(tree, path)
  OBVIOUS
<1>3. /\ tree \in Statements /\ tree.kind \in Proper /\ Along(tree, path, at.pending)
      /\ s.kind \in {"if", "while", "do", "test", "case"} /\ (s.kind = "do" => ComesBack(s))
  BY <1>1, <1>2 DEF Sound, Fits
<1>4. s \in Statements
  BY <1>2, <1>3, Here
<1>5. PICK up : up = Front(path)
  OBVIOUS
<1>6. PICK f : f = StatementAt(tree, up)
  OBVIOUS
<1>7. Continuation(tree, at, "false") =
        IF s.kind = "test" THEN Completing(at, up, Falls)
        ELSE IF s.kind = "case" THEN SwitchFrom(f, at, up, Last(path) + 1)
        ELSE IF s.kind = "if" /\ Len(s.parts) = 2 THEN Entering(at, Append(path, 2))
        ELSE Completing(at, path, Falls)
  BY <1>1, <1>2, <1>5, <1>6 DEF Continuation
<1>8. CASE s.kind = "test"
  <2>1. path # <<>> /\ f.kind = "for" /\ Last(path) = ForTest
    BY <1>2, <1>3, <1>5, <1>6, <1>8, TestsStand
  <2>2. f \in Statements /\ Along(tree, up, at.pending) /\ Admits(f, ForTest)
    BY <1>3, <1>5, <1>6, <2>1, Up
  <2>3. Normal \in DeclaredSet(f)
    BY <2>1, <2>2, ForTests DEF Admits
  <2>4. Ends(f, Falls)
    BY <2>3, Ways DEF Ends
  <2>5. Sound(tree, Completing(at, up, Falls))
    BY <1>3, <1>6, <2>2, <2>4, Completes
  <2> QED
    BY <1>7, <1>8, <2>5
<1>9. CASE s.kind = "case"
  <2>1. path # <<>> /\ f.kind = "switch"
    BY <1>2, <1>3, <1>5, <1>6, <1>9, TestsStand
  <2>2. f \in Statements /\ Along(tree, up, at.pending) /\ Last(path) \in Nat
    BY <1>3, <1>5, <1>6, <2>1, Up
  <2>3. Last(path) + 1 \in Nat /\ Last(path) + 1 > 0
    BY <2>2
  <2>4. Sound(tree, SwitchFrom(f, at, up, Last(path) + 1))
    BY <1>3, <1>6, <2>1, <2>2, <2>3, SwitchKeeps
  <2> QED
    BY <1>7, <1>9, <2>4
<1>10. CASE s.kind = "if" /\ Len(s.parts) = 2
  <2>1. Admits(s, 2)
    BY <1>4, <1>10, IfTests
  <2>2. s.parts[2].kind \in Proper
    BY <1>4, <1>10, <2>1, Parts DEF WellFormed, PartsAre, Admits, Simple, Loops
  <2>3. Sound(tree, Entering(at, Append(path, 2)))
    BY <1>2, <1>3, <1>10, <2>1, <2>2, EntersPart
  <2> QED
    BY <1>7, <1>10, <2>3
<1>11. CASE (s.kind = "if" /\ Len(s.parts) # 2) \/ s.kind \in {"while", "do"}
  <2>1. Normal \in DeclaredSet(s)
    <3>1. CASE s.kind = "if"
      BY <1>4, <1>11, <3>1, IfTests
    <3>2. CASE s.kind \in {"while", "do"}
      BY <1>3, <1>4, <3>2, LoopTests DEF Loops
    <3> QED
      BY <1>11, <3>1, <3>2
  <2>2. Ends(s, Falls)
    BY <2>1, Ways DEF Ends
  <2>3. Sound(tree, Completing(at, path, Falls))
    BY <1>2, <1>3, <2>2, Completes
  <2> QED
    BY <1>7, <1>11, <2>3
<1> QED
  BY <1>3, <1>8, <1>9, <1>10, <1>11

LEMMA ValueKeeps ==
  ASSUME NEW tree, NEW at, Sound(tree, at), at.kind = "evaluate",
         StatementAt(tree, at.path).kind \notin {"if", "while", "do", "test", "case", "throw"}
  PROVE  Sound(tree, Continuation(tree, at, "value"))
<1>1. PICK path : path = at.path
  OBVIOUS
<1>2. PICK s : s = StatementAt(tree, path)
  OBVIOUS
<1>3. /\ tree \in Statements /\ tree.kind \in Proper /\ Along(tree, path, at.pending)
      /\ s.kind \in {"step", "let", "await", "return", "returnAwait", "switch"}
  BY <1>1, <1>2 DEF Sound, Fits, Evaluated, Simple
<1>4. s \in Statements
  BY <1>2, <1>3, Here
<1>5. Continuation(tree, at, "value") =
        IF s.kind = "switch" THEN SwitchFrom(s, at, path, 1)
        ELSE IF s.kind \in {"await", "returnAwait"} THEN Waiting(at)
        ELSE IF s.kind = "return" THEN Completing(at, path, Returns(path))
        ELSE Completing(at, path, Falls)
  BY <1>1, <1>2 DEF Continuation
<1>6. CASE s.kind = "switch"
  <2>1. Sound(tree, SwitchFrom(s, at, path, 1))
    BY <1>2, <1>3, <1>6, SwitchKeeps
  <2> QED
    BY <1>5, <1>6, <2>1
<1>7. CASE s.kind \in {"await", "returnAwait"}
  <2>1. /\ Waiting(at).kind = "await" /\ Waiting(at).path = path
        /\ Waiting(at).pending = at.pending
    BY <1>1, MovedFields DEF Waiting
  <2>2. Sound(tree, Waiting(at))
    BY <1>2, <1>3, <1>7, <2>1 DEF Sound, Fits
  <2> QED
    BY <1>5, <1>7, <2>2
<1>8. CASE s.kind = "return"
  <2>1. Ends(s, Returns(path))
    BY <1>4, <1>8, SetsByKind, Ways DEF Ends
  <2>2. Sound(tree, Completing(at, path, Returns(path)))
    BY <1>2, <1>3, <2>1, Completes
  <2> QED
    BY <1>5, <1>8, <2>2
<1>9. CASE s.kind \in {"step", "let"}
  <2>1. Ends(s, Falls)
    BY <1>4, <1>9, SetsByKind, Ways DEF Ends
  <2>2. Sound(tree, Completing(at, path, Falls))
    BY <1>2, <1>3, <2>1, Completes
  <2> QED
    BY <1>5, <1>9, <2>2
<1> QED
  BY <1>3, <1>6, <1>7, <1>8, <1>9

LEMMA FulfilmentKeeps ==
  ASSUME NEW tree, NEW at, Sound(tree, at), at.kind = "await"
  PROVE  Sound(tree, Continuation(tree, at, "fulfilled"))
<1>1. PICK path : path = at.path
  OBVIOUS
<1>2. PICK s : s = StatementAt(tree, path)
  OBVIOUS
<1>3. /\ tree \in Statements /\ tree.kind \in Proper /\ Along(tree, path, at.pending)
      /\ s.kind \in {"await", "returnAwait"}
  BY <1>1, <1>2 DEF Sound, Fits
<1>4. s \in Statements
  BY <1>2, <1>3, Here
<1>5. PICK c : c = IF s.kind = "returnAwait" THEN Returns(path) ELSE Falls
  OBVIOUS
<1>6. Continuation(tree, at, "fulfilled") = Completing(at, path, c)
  BY <1>1, <1>2, <1>5 DEF Continuation
<1>7. Ends(s, c)
  BY <1>3, <1>4, <1>5, SetsByKind, Ways DEF Ends
<1>8. Sound(tree, Completing(at, path, c))
  BY <1>2, <1>3, <1>7, Completes
<1> QED
  BY <1>6, <1>8

LEMMA EvaluateKeeps ==
  ASSUME NEW tree, NEW at, Sound(tree, at), at.kind \in {"evaluate", "await"},
         NEW outcome, outcome \in Outcomes(tree, at)
  PROVE  Sound(tree, Continuation(tree, at, outcome))
<1>1. PICK kind : kind = StatementAt(tree, at.path).kind
  OBVIOUS
<1>2. /\ outcome \in {"fulfilled", "throw", "true", "false", "value"}
      /\ outcome = "fulfilled" => at.kind = "await"
      /\ outcome \in {"true", "false"} =>
           at.kind = "evaluate" /\ kind \in {"if", "while", "do", "test", "case"}
      /\ outcome = "value" =>
           at.kind = "evaluate" /\ kind \notin {"if", "while", "do", "test", "case", "throw"}
  BY <1>1, Conditions
<1>3. CASE outcome = "throw"
  BY <1>3, ThrowKeeps
<1>4. CASE outcome = "true"
  BY <1>1, <1>2, <1>4, TrueKeeps
<1>5. CASE outcome = "false"
  BY <1>1, <1>2, <1>5, FalseKeeps
<1>6. CASE outcome = "value"
  BY <1>1, <1>2, <1>6, ValueKeeps
<1>7. CASE outcome = "fulfilled"
  BY <1>2, <1>7, FulfilmentKeeps
<1> QED
  BY <1>2, <1>3, <1>4, <1>5, <1>6, <1>7

-----------------------------------------------------------------------------
(* Theorems.                                                               *)

\* Wherever a body runs, control is at a statement that its way there leads
\* to, every jump, return and error in flight is one declared for the
\* statement it leaves, and what waits for a finalizer is one of the ways
\* out that the finalizer interrupts.
BodyInv == Sound(body, control)

THEOREM BodyInvariant == BodySpec => []BodyInv
<1>1. BodyInit => BodyInv
  <2> SUFFICES ASSUME BodyInit PROVE BodyInv
    OBVIOUS
  <2>1. body \in Statements /\ body.kind \in Proper
    BY DEF BodyInit
  <2>2. /\ control.kind = "enter" /\ control.path = <<>> /\ control.pending = <<>>
    BY DEF BodyInit, Beginning, At
  <2>3. Along(body, <<>>, control.pending)
    BY DEF Along, Places
  <2>4. StatementAt(body, <<>>) = body
    BY StatementAtRoot
  <2> QED
    BY <2>1, <2>2, <2>3, <2>4 DEF BodyInv, Sound, Fits
<1>2. BodyInv /\ [BodyNext]_bodyVars => BodyInv'
  <2> SUFFICES ASSUME BodyInv, [BodyNext]_bodyVars PROVE BodyInv'
    OBVIOUS
  <2>1. PICK tree : tree = body
    OBVIOUS
  <2>2. PICK at : at = control
    OBVIOUS
  <2>3. Sound(tree, at)
    BY <2>1, <2>2 DEF BodyInv
  <2>4. CASE EnterStatement
    <3>1. body' = tree /\ control' = EnterStep(tree, at) /\ at.kind = "enter"
      BY <2>1, <2>2, <2>4 DEF EnterStatement
    <3>2. Sound(tree, EnterStep(tree, at))
      BY <2>3, <3>1, EnterKeeps
    <3> QED
      BY <3>1, <3>2 DEF BodyInv
  <2>5. CASE CompleteStatement
    <3>1. body' = tree /\ control' = CompleteStep(tree, at) /\ at.kind = "complete"
      BY <2>1, <2>2, <2>5 DEF CompleteStatement
    <3>2. Sound(tree, CompleteStep(tree, at))
      BY <2>3, <3>1, CompleteKeeps
    <3> QED
      BY <3>1, <3>2 DEF BodyInv
  <2>6. ASSUME NEW outcome, EvaluateExpression(outcome) PROVE BodyInv'
    <3>1. /\ body' = tree /\ control' = Continuation(tree, at, outcome)
          /\ at.kind \in {"evaluate", "await"} /\ outcome \in Outcomes(tree, at)
      BY <2>1, <2>2, <2>6 DEF EvaluateExpression
    <3>2. Sound(tree, Continuation(tree, at, outcome))
      BY <2>3, <3>1, EvaluateKeeps
    <3> QED
      BY <3>1, <3>2 DEF BodyInv
  <2>7. CASE UNCHANGED bodyVars
    BY <2>7 DEF BodyInv, bodyVars
  <2> QED
    BY <2>4, <2>5, <2>6, <2>7 DEF BodyNext
<1> QED
  BY <1>1, <1>2, PTL DEF BodySpec

\* However a body runs, whatever throws, and however deep its statements
\* nest: the way in which control leaves the body is in the completion set
\* computed for it.
THEOREM CompletionsSound == BodySpec => []CompletionsAreDeclared
<1>1. BodyInv => CompletionsAreDeclared
  <2> SUFFICES ASSUME BodyInv, control.kind = "settle"
               PROVE  Way(control.completion) \in DeclaredSet(body)
    BY DEF CompletionsAreDeclared
  <2>1. body.kind \in Proper /\ control.path = <<>>
        /\ Ends(StatementAt(body, control.path), control.completion)
    BY DEF BodyInv, Sound, Fits
  <2>2. StatementAt(body, <<>>) = body
    BY StatementAtRoot
  <2> QED
    BY <2>1, <2>2 DEF Ends, Proper, Simple, Loops
<1> QED
  BY <1>1, BodyInvariant, PTL

=============================================================================
