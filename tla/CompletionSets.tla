--------------------------- MODULE CompletionSets ---------------------------
(***************************************************************************)
(* The completion sets the compiler computes for statements, and what it   *)
(* decides by them.                                                        *)
(***************************************************************************)
EXTENDS CompletionAlgebra

RECURSIVE CompletionSet(_)
CompletionSet(statement) ==
  Completions(statement, [i \in DOMAIN statement.parts |-> CompletionSet(statement.parts[i])])

\* A statement control can leave only by falling through or by throwing.
Opaque(statement) == CompletionSet(statement) \subseteq {Normal, Thrown}

=============================================================================
