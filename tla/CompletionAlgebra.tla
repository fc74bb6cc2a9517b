-------------------------- MODULE CompletionAlgebra --------------------------
(***************************************************************************)
(* Statements of the intermediate representation, reduced to their control *)
(* flow, and how the completion set of a statement is made of those of its *)
(* parts (packages/compiler-completion).                                   *)
(*                                                                         *)
(* A statement is a record of a kind, a label and its parts.  The parts of *)
(* a block are its statements; of an if, the consequent and the optional   *)
(* alternative; of a while or do, its body; of a for, initializer, test,   *)
(* update and body; of a try, body, handler and finalizer; of a switch,    *)
(* its clauses, each with one block.  A part left out is Absent.  The data *)
(* of expressions is gone: evaluating one may complete or throw, and a     *)
(* condition or the test of a clause may be true, false or throw.  "let"   *)
(* is a step that introduces a binding, "return" returns the value of an   *)
(* expression and "returnAwait" the value of an awaited one.  For-of and   *)
(* for-in loops are left out.                                              *)
(***************************************************************************)
EXTENDS Controls, Naturals, FiniteSets, Sequences, SequencesExt

Node(kind, label, parts) == [kind |-> kind, label |-> label, parts |-> parts]

Absent == Node("absent", NoLabel, <<>>)
Step == Node("step", NoLabel, <<>>)
Let == Node("let", NoLabel, <<>>)
Await == Node("await", NoLabel, <<>>)
Return == Node("return", NoLabel, <<>>)
ReturnAwait == Node("returnAwait", NoLabel, <<>>)
Raise == Node("throw", NoLabel, <<>>)
Break(label) == Node("break", label, <<>>)
Continue(label) == Node("continue", label, <<>>)
Block(statements) == Node("block", NoLabel, statements)
If(consequent) == Node("if", NoLabel, <<consequent>>)
IfElse(consequent, otherwise) == Node("if", NoLabel, <<consequent, otherwise>>)
While(label, body) == Node("while", label, <<body>>)
Do(label, body) == Node("do", label, <<body>>)
Test == Node("test", NoLabel, <<>>)
For(label, initializer, test, update, body) ==
  Node("for", label, <<initializer, test, update, body>>)
Case(statements) == Node("case", NoLabel, <<Block(statements)>>)
Default(statements) == Node("default", NoLabel, <<Block(statements)>>)
Switch(label, clauses) == Node("switch", label, clauses)
Try(body, handler, finalizer) == Node("try", NoLabel, <<body, handler, finalizer>>)

Loops == {"while", "do"}

\* The positions of the parts of a for statement.
Initializer == 1
ForTest == 2
Update == 3
ForBody == 4

\* The positions of the clauses of a try statement.
TryBody == 1
Handler == 2
Finalizer == 3

Has(statement, part) == statement.parts[part].kind # "absent"

HasHandler(statement) == Has(statement, Handler)
HasFinalizer(statement) == Has(statement, Finalizer)

\* A traversal path names a statement inside another one.
StatementAt(statement, path) ==
  LET inside[n \in 0 .. Len(path)] ==
        IF n = 0 THEN statement ELSE inside[n - 1].parts[path[n]]
  IN  inside[Len(path)]

-----------------------------------------------------------------------------
(* Sets of completions.                                                    *)

\* Statements in sequence, from one of them on: each runs only behind a
\* normal completion of all before it.
SequentiallyFrom(sets, first) ==
  LET reached == {i \in first .. Len(sets) : \A j \in first .. i - 1 : Normal \in sets[j]}
  IN  (UNION {sets[i] \ {Normal} : i \in reached})
        \cup (IF \A i \in first .. Len(sets) : Normal \in sets[i] THEN {Normal} ELSE {})

Sequentially(sets) == SequentiallyFrom(sets, 1)

\* A jump a loop consumes: without a target the innermost loop owns it.
LoopOwns(label, completion) ==
  completion.target = NoLabel \/ completion.target = label

OwnedBreaks(label, completions) ==
  {c \in completions : c.kind = "break" /\ LoopOwns(label, c)}

OwnedContinues(label, completions) ==
  {c \in completions : c.kind = "continue" /\ LoopOwns(label, c)}

\* When a loop tests its condition: ahead of every round, behind it, never.
Evaluation(statement) ==
  CASE statement.kind = "do" -> "posttest"
    [] statement.kind = "for" /\ ~Has(statement, ForTest) -> "unconditional"
    [] OTHER -> "pretest"

LoopCompletions(evaluation, backEdgeCanThrow, label, body) ==
  LET breaks == OwnedBreaks(label, body)
      continues == OwnedContinues(label, body)
      hasBackEdge == Normal \in body \/ continues # {}
      tested == evaluation = "pretest" \/ (evaluation = "posttest" /\ hasBackEdge)
  IN  (body \ ({Normal} \cup breaks \cup continues))
        \cup (IF breaks # {} \/ tested THEN {Normal} ELSE {})
        \cup (IF tested \/ (backEdgeCanThrow /\ hasBackEdge) THEN {Thrown} ELSE {})

\* A labelled block or a switch consumes the breaks it owns.
ConsumeBreaks(owned, body) ==
  IF owned = {} THEN body ELSE (body \ owned) \cup {Normal}

LabelledBlockCompletions(label, body) ==
  ConsumeBreaks({c \in body : label # NoLabel /\ c.kind = "break" /\ c.target = label}, body)

\* Control may enter a switch at any clause and runs through those behind it.
SwitchCompletions(statement, clauses) ==
  LET entries == UNION {SequentiallyFrom(clauses, i) : i \in DOMAIN clauses}
      passed == IF \E i \in DOMAIN clauses : statement.parts[i].kind = "default"
                  THEN {} ELSE {Normal}
      selected == entries \cup passed
  IN  ConsumeBreaks(OwnedBreaks(statement.label, selected), selected) \cup {Thrown}

CatchReplacement(incoming, handler) ==
  IF Thrown \in incoming THEN (incoming \ {Thrown}) \cup handler ELSE incoming

\* Mutant: what a finalizer that can fall through leaves by is forgotten.
FinallyReplacementIgnored(incoming, finalizer) ==
  IF incoming = {} \/ Normal \in finalizer THEN incoming ELSE finalizer

FinallyReplacement(incoming, finalizer) ==
  CASE incoming = {} -> {}
    [] Normal \in finalizer -> incoming \cup (finalizer \ {Normal})
    [] OTHER -> finalizer

\* The completion set of a statement, from those of its parts.
Completions(statement, part) ==
  LET caught == IF HasHandler(statement)
                  THEN CatchReplacement(part[TryBody], part[Handler])
                  ELSE part[TryBody]
  IN  CASE statement.kind \in {"step", "let", "await", "test"} -> {Normal, Thrown}
        [] statement.kind \in {"return", "returnAwait"} -> {Returned, Thrown}
        [] statement.kind = "throw" -> {Thrown}
        [] statement.kind \in {"break", "continue"} ->
             {Completion(statement.kind, statement.label)}
        [] statement.kind = "block" ->
             LabelledBlockCompletions(statement.label, Sequentially(part))
        [] statement.kind = "if" ->
             part[1] \cup (IF Len(statement.parts) = 2 THEN part[2] ELSE {Normal}) \cup {Thrown}
        [] statement.kind \in Loops ->
             LoopCompletions(Evaluation(statement), FALSE, statement.label, part[1])
        [] statement.kind = "for" ->
             LoopCompletions(Evaluation(statement), Has(statement, Update),
                             statement.label, part[ForBody])
               \cup (IF Has(statement, Initializer) THEN {Thrown} ELSE {})
        [] statement.kind \in {"case", "default"} -> part[1]
        [] statement.kind = "switch" -> SwitchCompletions(statement, part)
        [] statement.kind = "try" ->
             IF HasFinalizer(statement)
               THEN FinallyReplacement(caught, part[Finalizer])
               ELSE caught
        [] OTHER -> {}

=============================================================================
