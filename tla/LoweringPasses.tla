--------------------------- MODULE LoweringPasses ---------------------------
(***************************************************************************)
(* The passes of packages/compiler-lowering that change the control flow   *)
(* of a body, as functions on statements, and their verifiers.             *)
(*                                                                         *)
(* A statement of a lowered body also says which statement of the source   *)
(* its expression comes from.  One whose expression the compiler made has  *)
(* no source: it reads or writes a temporary, named by its role and by the *)
(* statement it was made for, and value is what it assigns or compares     *)
(* with.  A statement no pass can lower is Refused: the pass throws.       *)
(***************************************************************************)
EXTENDS CompletionSets, Integers

NoTemporary == <<"none", <<>>>>
Literal == <<"true", <<>>>>

Made(kind, label, parts) ==
  [kind |-> kind, label |-> label, parts |-> parts,
   from |-> <<>>, temporary |-> NoTemporary, value |-> 0]

MadeBlock(statements) == Made("block", NoLabel, statements)
MadeBreak == Made("break", NoLabel, <<>>)
MadeContinue == Made("continue", NoLabel, <<>>)
Refused == Made("refused", NoLabel, <<>>)

\* Statements on temporaries: "let" declares one, "step" assigns to it, "if"
\* and "case" compare it with the value, "while" runs as long as it is at
\* least the value, "switch" reads it and "throw" throws it.
On(kind, parts, temporary, value) ==
  [Made(kind, NoLabel, parts) EXCEPT !.temporary = temporary, !.value = value]

RECURSIVE Placed(_, _)
Placed(statement, path) ==
  IF statement = Absent THEN Absent ELSE
  [Made(statement.kind, statement.label,
        [i \in DOMAIN statement.parts |-> Placed(statement.parts[i], Append(path, i))])
     EXCEPT !.from = path]

RECURSIVE Holds(_, _)
\* A statement of one of these kinds stands in a statement.
Holds(statement, kinds) ==
  statement.kind \in kinds \/ \E i \in DOMAIN statement.parts : Holds(statement.parts[i], kinds)

HasAwait(statement) == Holds(statement, {"await", "returnAwait"})
IsRefused(statement) == Holds(statement, {"refused"})

-----------------------------------------------------------------------------
(* c-style-for: a for becomes a while, and each continue it owns runs the  *)
(* update first.                                                           *)

Context(label, increment) == [target |-> label, increment |-> increment, crossesFinally |-> FALSE]

\* Contexts stand innermost first.
ContinueContext(label, contexts) ==
  LET owners == SelectSeq(contexts, LAMBDA c : label \in {NoLabel, c.target})
  IN  IF owners = <<>> THEN Context(NoLabel, Absent) ELSE Head(owners)

MarkFinally(contexts) == [i \in DOMAIN contexts |-> [contexts[i] EXCEPT !.crossesFinally = TRUE]]

LowerContinue(statement, elected) ==
  CASE elected.increment = Absent -> statement
    [] elected.crossesFinally -> Refused
    [] OTHER -> MadeBlock(<<elected.increment, statement>>)

Present(parts) == SelectSeq(parts, LAMBDA part : part # Absent)

ForAsWhile(statement, body) ==
  LET round == MadeBlock(Present(<<body, statement.parts[Update]>>))
      test == statement.parts[ForTest]
      loop == IF test = Absent THEN On("while", <<round>>, Literal, 0)
              ELSE [Made("while", NoLabel, <<round>>) EXCEPT !.from = test.from]
  IN  MadeBlock(Present(<<statement.parts[Initializer], [loop EXCEPT !.label = statement.label]>>))

RECURSIVE CStyleFor(_, _)
CStyleFor(statement, contexts) ==
  LET within(increment) == <<Context(statement.label, increment)>> \o contexts
      guarded == IF HasFinalizer(statement) THEN MarkFinally(contexts) ELSE contexts
  IN  CASE statement.kind = "continue" ->
             LowerContinue(statement, ContinueContext(statement.label, contexts))
        [] statement.kind \in Loops ->
             [statement EXCEPT !.parts = <<CStyleFor(@[1], within(Absent))>>]
        [] statement.kind = "for" ->
             ForAsWhile(statement,
                        CStyleFor(statement.parts[ForBody], within(statement.parts[Update])))
        [] statement.kind = "try" ->
             [statement EXCEPT !.parts = <<CStyleFor(@[TryBody], guarded),
                                           CStyleFor(@[Handler], guarded),
                                           CStyleFor(@[Finalizer], contexts)>>]
        [] OTHER ->
             [statement EXCEPT !.parts =
                [i \in DOMAIN statement.parts |-> CStyleFor(statement.parts[i], contexts)]]

-----------------------------------------------------------------------------
(* How a clause of a switch ends (compilerSwitchClauseCompletion).         *)

RECURSIVE TerminalBreak(_, _)
TerminalBreak(statement, label) ==
  CASE statement.kind = "break" ->
         IF statement.label \in {NoLabel, label} THEN "localBreak" ELSE "abrupt"
    [] statement.kind = "block" /\ statement.parts # <<>> ->
         TerminalBreak(Last(statement.parts), label)
    [] OTHER -> "none"

RECURSIVE AbruptCompletion(_)
AbruptCompletion(statement) ==
  \/ statement.kind \in {"continue", "return", "returnAwait", "throw"}
  \/ /\ statement.kind = "block" /\ statement.parts # <<>>
     /\ AbruptCompletion(Last(statement.parts))

\* A nested loop or switch is only searched when the switch has a label.
RECURSIVE TargetBreak(_, _)
TargetBreak(statement, label) ==
  \/ statement.kind = "break" /\ statement.label \in {NoLabel, label}
  \/ /\ statement.kind \in {"block", "if", "try"} \/ label # NoLabel
     /\ \E i \in DOMAIN statement.parts : TargetBreak(statement.parts[i], label)

ClauseCompletion(statements, label) ==
  IF statements = <<>> THEN "fallthrough" ELSE
  LET terminal == TerminalBreak(Last(statements), label)
      breaks(i) == TargetBreak(statements[i], label)
  IN  CASE terminal # "none" -> terminal
        [] \E i \in 1 .. Len(statements) - 1 : breaks(i) -> "unsupported"
        [] AbruptCompletion(Last(statements)) -> "abrupt"
        [] breaks(Len(statements)) -> "unsupported"
        [] OTHER -> "fallthrough"

StatementsOf(clause) == clause.parts[1].parts
WithStatements(clause, statements) == [clause EXCEPT !.parts[1].parts = statements]

ClauseCompletions(clauses, label) ==
  [i \in DOMAIN clauses |-> ClauseCompletion(StatementsOf(clauses[i]), label)]

-----------------------------------------------------------------------------
(* switch-fallthrough: no clause runs into the next one.                   *)

RECURSIVE ConsumeTerminalBreak(_, _)
ConsumeTerminalBreak(statements, label) ==
  IF statements = <<>> THEN <<>> ELSE
  LET last == Last(statements)
  IN  CASE last.kind = "break" /\ last.label \in {NoLabel, label} -> Front(statements)
        [] last.kind = "block" ->
             Append(Front(statements),
                    [last EXCEPT !.parts = ConsumeTerminalBreak(last.parts, label)])
        [] OTHER -> statements

\* The clause and the ones it runs into, each without its terminal break.
RECURSIVE Suffix(_, _, _, _)
Suffix(clauses, completions, label, start) ==
  LET own == IF completions[start] = "localBreak"
               THEN ConsumeTerminalBreak(StatementsOf(clauses[start]), label)
               ELSE StatementsOf(clauses[start])
  IN  IF completions[start] # "fallthrough" \/ start = Len(clauses) THEN own
      ELSE own \o Suffix(clauses, completions, label, start + 1)

\* Mutant: a clause that ends in a throw is not known to be terminated.
TerminatedUnlessThrown(statements) ==
  IF statements # <<>> /\ Last(statements).kind \in {"break", "return", "returnAwait"}
    THEN statements ELSE Append(statements, MadeBreak)

Terminated(statements) ==
  IF statements # <<>> /\ Last(statements).kind \in {"break", "return", "returnAwait", "throw"}
    THEN statements ELSE Append(statements, MadeBreak)

WithSuffixes(statement, completions) ==
  [statement EXCEPT !.parts =
     [i \in DOMAIN @ |->
        WithStatements(@[i], Terminated(Suffix(@, completions, statement.label, i)))]]

\* A break out of the switch leaves the state loop as well.
RECURSIVE RewriteBreak(_, _, _)
RewriteBreak(statement, label, exit) ==
  CASE statement.kind = "break" /\ statement.label \in {NoLabel, label} ->
         MadeBlock(<<exit, MadeBreak>>)
    [] statement.kind \in {"block", "if", "try"} \/ label # NoLabel ->
         [statement EXCEPT !.parts =
            [i \in DOMAIN @ |-> RewriteBreak(@[i], label, exit)]]
    [] OTHER -> statement

ContinuesLoop(statements) ==
  statements # <<>> /\ Last(statements).kind = "continue" /\ Last(statements).label = NoLabel

\* The states are the positions of the clauses from 0; -1 leaves the switch
\* and -2 continues the loop around it.  The switches of the machine carry no
\* subject domain, which is the value of a switch.
UnknownDomain == 1
StateOf(i) == i - 1

\* Mutant: a clause that breaks leaves the state as it is.
StateClauseKept(clause, completion, state, label, next) ==
  LET statements == StatementsOf(clause)
      assign(value) == On("step", <<>>, state, value)
  IN  CASE completion = "localBreak" ->
             ConsumeTerminalBreak(statements, label) \o <<MadeBreak>>
        [] ContinuesLoop(statements) -> Front(statements) \o <<assign(-2), MadeBreak>>
        [] completion = "fallthrough" -> statements \o <<assign(next), MadeBreak>>
        [] OTHER -> statements

StateClause(clause, completion, state, label, next) ==
  LET statements == StatementsOf(clause)
      assign(value) == On("step", <<>>, state, value)
      consumed == ConsumeTerminalBreak(statements, label)
      kept == CASE completion = "localBreak" ->
                     [i \in DOMAIN consumed |-> RewriteBreak(consumed[i], label, assign(-1))]
                [] ContinuesLoop(statements) -> Front(statements)
                [] OTHER -> statements
      leaving == CASE ContinuesLoop(statements) -> <<assign(-2), MadeBreak>>
                   [] completion = "fallthrough" -> <<assign(next), MadeBreak>>
                   [] completion = "localBreak" -> <<assign(-1), MadeBreak>>
                   [] OTHER -> <<>>
  IN  kept \o leaving

StateMachine(statement, completions) ==
  LET clauses == statement.parts
      state == <<"state", statement.from>>
      assigning(i) == MadeBlock(<<On("step", <<>>, state, StateOf(i)), MadeBreak>>)
      defaults == {i \in DOMAIN clauses : clauses[i].kind = "default"}
      tests == SelectSeq([i \in DOMAIN clauses |-> i], LAMBDA i : clauses[i].kind = "case")
      selectors == [k \in DOMAIN tests |-> [clauses[tests[k]] EXCEPT !.parts = <<assigning(tests[k])>>]]
      otherwise == Made("default", NoLabel,
                        <<assigning(IF defaults = {} THEN 0 ELSE Min(defaults))>>)
      next(i) == IF i < Len(clauses) THEN StateOf(i + 1) ELSE -1
      executed(i) == On("case",
                        <<MadeBlock(StateClause(clauses[i], completions[i], state,
                                                statement.label, next(i)))>>,
                        state, StateOf(i))
      continued == On("if", <<MadeContinue>>, state, -2)
  IN  Made("block", statement.label,
           <<On("let", <<>>, state, -1),
             [statement EXCEPT !.label = NoLabel, !.value = UnknownDomain,
                               !.parts = Append(selectors, otherwise)],
             On("while", <<On("switch", [i \in DOMAIN clauses |-> executed(i)],
                              state, UnknownDomain)>>,
                state, 0)>>
           \o (IF \E i \in DOMAIN clauses : ContinuesLoop(StatementsOf(clauses[i]))
                 THEN <<continued>> ELSE <<>>))

LowerSwitch(statement, completions) ==
  LET has(completion) == \E i \in DOMAIN completions : completions[i] = completion
      binds == \E i \in DOMAIN statement.parts : Holds(statement.parts[i].parts[1], {"let"})
  IN  CASE has("unsupported") -> Refused
        [] has("fallthrough") /\ binds -> StateMachine(statement, completions)
        [] OTHER -> WithSuffixes(statement, completions)

RECURSIVE SwitchFallthrough(_)
SwitchFallthrough(statement) ==
  LET inner == [statement EXCEPT !.parts = [i \in DOMAIN @ |-> SwitchFallthrough(@[i])]]
  IN  IF statement.kind = "switch"
        THEN LowerSwitch(inner, ClauseCompletions(inner.parts, inner.label))
        ELSE inner

\* The verifier does not look at the label.
RECURSIVE FallthroughRemains(_)
FallthroughRemains(statement) ==
  \/ /\ statement.kind = "switch"
     /\ \E i \in DOMAIN statement.parts :
          ClauseCompletion(StatementsOf(statement.parts[i]), NoLabel)
            \notin {"localBreak", "abrupt"}
  \/ \E i \in DOMAIN statement.parts : FallthroughRemains(statement.parts[i])

-----------------------------------------------------------------------------
(* switch-suspension: a switch that suspends becomes a chain of ifs.       *)

RECURSIVE LocalBreak(_)
LocalBreak(statement) ==
  \/ statement.kind = "break" /\ statement.label = NoLabel
  \/ /\ statement.kind \in {"block", "if"}
     /\ \E i \in DOMAIN statement.parts : LocalBreak(statement.parts[i])

EndsInBreak(statements) ==
  statements # <<>> /\ Last(statements).kind = "break" /\ Last(statements).label = NoLabel

ClauseConvertible(statements, last) ==
  \/ EndsInBreak(statements)
  \/ statements # <<>> /\ Last(statements).kind \in {"return", "returnAwait", "throw"}
  \/ last /\ \A i \in DOMAIN statements : ~LocalBreak(statements[i])

Convertible(statement, asyncScope) ==
  LET clauses == statement.parts
      count == Len(clauses)
  IN  /\ statement.label = NoLabel /\ statement.value # UnknownDomain
      /\ asyncScope \/ HasAwait(statement)
      /\ \A i \in 1 .. count - 1 : clauses[i].kind = "case"
      /\ \A i \in 1 .. count : ClauseConvertible(StatementsOf(clauses[i]), i = count)

BranchBody(clause) ==
  LET statements == StatementsOf(clause)
  IN  MadeBlock(IF EndsInBreak(statements) THEN Front(statements) ELSE statements)

RECURSIVE Branches(_)
Branches(clauses) ==
  IF clauses = <<>> THEN Absent
  ELSE IF Head(clauses).kind = "default" THEN BranchBody(Head(clauses))
  ELSE [Made("if", NoLabel, Present(<<BranchBody(Head(clauses)), Branches(Tail(clauses))>>))
          EXCEPT !.from = Head(clauses).from]

SwitchAsBranches(statement) ==
  MadeBlock(Present(<<[Made("let", NoLabel, <<>>) EXCEPT !.from = statement.from],
                      Branches(statement.parts)>>))

RECURSIVE SwitchSuspension(_, _)
SwitchSuspension(statement, asyncScope) ==
  LET inner == [statement EXCEPT !.parts = [i \in DOMAIN @ |-> SwitchSuspension(@[i], asyncScope)]]
  IN  IF statement.kind = "switch" /\ Convertible(inner, asyncScope)
        THEN SwitchAsBranches(inner) ELSE inner

RECURSIVE ConvertibleRemains(_)
ConvertibleRemains(statement) ==
  \/ statement.kind = "switch" /\ Convertible(statement, FALSE)
  \/ \E i \in DOMAIN statement.parts : ConvertibleRemains(statement.parts[i])

-----------------------------------------------------------------------------
(* finally-await-hoisting: a finalizer that suspends stands behind the     *)
(* protected region, which is left by falling through or with its error    *)
(* saved.                                                                  *)

Protected(statement) ==
  IF HasHandler(statement) THEN [statement EXCEPT !.parts[Finalizer] = Absent]
  ELSE statement.parts[TryBody]

FinalizerBehind(statement, protected) ==
  LET threw == <<"threw", statement.from>>
      error == <<"error", statement.from>>
      region == IF protected.kind = "block" THEN protected ELSE MadeBlock(<<protected>>)
      save == MadeBlock(<<On("step", <<>>, error, 0), On("step", <<>>, threw, 1)>>)
  IN  MadeBlock(<<On("let", <<>>, threw, 0),
                  On("let", <<>>, error, 0),
                  Made("try", NoLabel, <<region, save, Absent>>),
                  statement.parts[Finalizer],
                  On("if", <<On("throw", <<>>, error, 0)>>, threw, 1)>>)

\* Mutant: a region that may be left by a jump or a return is hoisted as well.
HoistAnyFinalizer(statement) == FinalizerBehind(statement, Protected(statement))

HoistFinalizer(statement) ==
  IF Opaque(Protected(statement)) THEN FinalizerBehind(statement, Protected(statement))
  ELSE statement

RECURSIVE FinallyAwaitHoisting(_)
FinallyAwaitHoisting(statement) ==
  LET inner == [statement EXCEPT !.parts = [i \in DOMAIN @ |-> FinallyAwaitHoisting(@[i])]]
  IN  IF statement.kind = "try" /\ HasAwait(inner.parts[Finalizer])
        THEN HoistFinalizer(inner) ELSE inner

-----------------------------------------------------------------------------
(* catch-await-hoisting: a handler that suspends stands behind its try.    *)

HoistHandler(statement) ==
  LET caught == <<"caught", statement.from>>
      flagged == MadeBlock(<<On("step", <<>>, caught, 1)>>)
      region == <<On("let", <<>>, caught, 0),
                  Made("try", NoLabel, <<statement.parts[TryBody], flagged, Absent>>),
                  On("if", <<statement.parts[Handler]>>, caught, 1)>>
  IN  IF HasFinalizer(statement)
        THEN MadeBlock(<<Made("try", NoLabel,
                              <<MadeBlock(region), Absent, statement.parts[Finalizer]>>)>>)
        ELSE MadeBlock(region)

RECURSIVE CatchAwaitHoisting(_)
CatchAwaitHoisting(statement) ==
  LET inner == [statement EXCEPT !.parts = [i \in DOMAIN @ |-> CatchAwaitHoisting(@[i])]]
  IN  IF statement.kind = "try" /\ HasAwait(statement.parts[Handler])
        THEN HoistHandler(inner) ELSE inner

RECURSIVE AwaitIn(_, _)
\* An await stands in this clause of some try.
AwaitIn(statement, clause) ==
  \/ statement.kind = "try" /\ HasAwait(statement.parts[clause])
  \/ \E i \in DOMAIN statement.parts : AwaitIn(statement.parts[i], clause)

-----------------------------------------------------------------------------
(* The passes a backend elects, in its order, and how one is applied: the  *)
(* order in haxeCompilerBackend.ts 317-336, cppCompilerBackend.ts 751-761  *)
(* and rustCompilerBackend.ts 998-1007.                                    *)

\* Mutant: switches are converted before their fallthrough is removed.
PipelineSuspendingFirst(backend) ==
  CASE backend = "haxe" ->
         <<"finally-await-hoisting", "c-style-for", "switch-fallthrough", "switch-suspension">>
    [] backend = "cpp" ->
         <<"catch-await-hoisting", "c-style-for", "switch-suspension", "switch-fallthrough">>
    [] backend = "rust" -> <<"c-style-for", "switch-suspension", "switch-fallthrough">>

Pipeline(backend) ==
  CASE backend = "haxe" ->
         <<"finally-await-hoisting", "c-style-for", "switch-fallthrough", "switch-suspension">>
    [] backend = "cpp" ->
         <<"catch-await-hoisting", "c-style-for", "switch-fallthrough", "switch-suspension">>
    [] backend = "rust" -> <<"c-style-for", "switch-fallthrough", "switch-suspension">>

LowerWith(pass, body) ==
  CASE pass = "finally-await-hoisting" -> FinallyAwaitHoisting(body)
    [] pass = "catch-await-hoisting" -> CatchAwaitHoisting(body)
    [] pass = "c-style-for" -> CStyleFor(body, <<>>)
    [] pass = "switch-fallthrough" -> SwitchFallthrough(body)
    [] pass = "switch-suspension" -> SwitchSuspension(body, HasAwait(body))

Remains(pass, body) ==
  CASE pass = "finally-await-hoisting" -> AwaitIn(body, Finalizer)
    [] pass = "catch-await-hoisting" -> AwaitIn(body, Handler)
    [] pass = "c-style-for" -> Holds(body, {"for"})
    [] pass = "switch-fallthrough" -> FallthroughRemains(body)
    [] pass = "switch-suspension" -> ConvertibleRemains(body)

=============================================================================
