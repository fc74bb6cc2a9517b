------------------------------ MODULE Controls ------------------------------
(***************************************************************************)
(* Completions, and controls: what a body that is being run does next.     *)
(***************************************************************************)

NoLabel == ""

Completion(kind, target) == [kind |-> kind, target |-> target]

Normal == Completion("normal", NoLabel)
Returned == Completion("return", NoLabel)
Thrown == Completion("throw", NoLabel)

\* A completion in flight remembers the statement its value comes from.
InFlight(completion, path) ==
  [kind |-> completion.kind, target |-> completion.target, from |-> path]

Falls == InFlight(Normal, <<>>)
Throws(path) == InFlight(Thrown, path)
Returns(path) == InFlight(Returned, path)

NoCompletion == InFlight(Completion("none", NoLabel), <<>>)

At(kind, path, pending, completion) ==
  [kind |-> kind, path |-> path, pending |-> pending, completion |-> completion,
   caught |-> <<>>, turn |-> 0]

Idle == At("idle", <<>>, <<>>, NoCompletion)

=============================================================================
