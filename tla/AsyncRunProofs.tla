--------------------------- MODULE AsyncRunProofs ---------------------------
(***************************************************************************)
(* Theorems about AsyncRun: what every run of every well-formed machine    *)
(* keeps, however many states it has and however often they are entered.   *)
(***************************************************************************)
EXTENDS AsyncRun, NaturalsInduction, WellFoundedInduction, TLAPS

\* What holds wherever a machine stands: the state it is in can be entered,
\* the step before the next one let it follow, and what is running belongs
\* to the next step; the carriers of the state's regions are declared, and
\* those that must hold a returned value on the way to the step do.
Placed ==
  /\ machine \in Machines
  /\ Enterable(machine, at)
  /\ next \in 1 .. Len(State.steps) + 1
  /\ next > 1 => State.steps[next - 1].kind \in Passing

RunningFits ==
  \/ running = Idle
  \/ HasStep /\ CurrentStep.kind = "execute" /\ InFragment(running)
  \/ HasStep /\ CurrentStep.kind = "suspend" /\ running.kind = "await"

HoldsReturn(region) == region \in DOMAIN carried /\ carried[region].kind = "return"

CarriersHold ==
  /\ Declared(machine, at) \subseteq DOMAIN carried
  /\ \A region \in Bound(machine, at) \cup CarriedBefore(State, next) : HoldsReturn(region)
  /\ \A region \in DOMAIN carried : carried[region].kind \in {"normal", "return"}

RejectionsHold ==
  /\ HandlersHaveRejections
  /\ rejection.kind \in {"none", "throw"}
  /\ settlement.kind \in {"none", "normal", "return", "throw"}

RunInv == Placed /\ RunningFits /\ CarriersHold /\ RejectionsHold

-----------------------------------------------------------------------------
(* Looking up states.                                                      *)

LEMMA Least ==
  ASSUME NEW S \in SUBSET Nat, S # {}
  PROVE  Min(S) \in S
<1> DEFINE Less == OpToRel(<, Nat)
<1>1. \A x, y \in Nat : y < x => <<y, x>> \in Less
  <2> TAKE x, y \in Nat
  <2> HAVE y < x
  <2>1. <<y, x>> \in Nat \X Nat /\ <<y, x>>[1] < <<y, x>>[2]
    OBVIOUS
  <2> QED
    BY <2>1, Zenon DEF OpToRel
<1>2. \E x \in S : \A y \in S : <<y, x>> \notin Less
  BY NatLessThanWellFounded, WFMin
<1> HIDE DEF Less
<1>3. PICK x \in S : \A y \in S : <<y, x>> \notin Less
  BY <1>2
<1>4. \A y \in S : x <= y
  <2> TAKE y \in S
  <2>1. x \in Nat /\ y \in Nat /\ ~(y < x)
    BY <1>1, <1>3
  <2> QED
    BY <2>1
<1> QED
  BY <1>4 DEF Min

\* The state found for an identity is one of the machine's, and has it.
LEMMA StateFound ==
  ASSUME NEW states \in Machines, NEW identity \in Identities(states)
  PROVE  /\ StateOf(states, identity).identity = identity
         /\ \E i \in DOMAIN states : StateOf(states, identity) = states[i]
<1> DEFINE S == {i \in DOMAIN states : states[i].identity = identity}
<1>1. DOMAIN states \subseteq Nat
  BY MachinesAssumption
<1>2. S \in SUBSET Nat /\ S # {}
  BY <1>1 DEF Identities
<1>3. Min(S) \in S
  BY <1>2, Least
<1> QED
  BY <1>3 DEF StateOf

\* What the conditions on a machine say of a state it can enter.
LEMMA StateWellFormed ==
  ASSUME NEW states \in Machines, NEW identity \in Identities(states),
         NEW state, state = StateOf(states, identity)
  PROVE  /\ state.identity = identity
         /\ DOMAIN state.steps = 1 .. Len(state.steps)
         /\ WellFormedGuard(states, state)
         /\ \A k \in 1 .. Len(state.steps) : WellFormedStep(states, state, k)
<1>1. PICK i \in DOMAIN states : state = states[i]
  BY StateFound
<1>2. WellFormed(states) /\ DOMAIN states[i].steps = 1 .. Len(states[i].steps)
  BY MachinesAssumption
<1> QED
  BY <1>1, <1>2, StateFound DEF WellFormed

-----------------------------------------------------------------------------
(* The steps.                                                              *)

LEMMA IdleKind == Idle.kind = "idle"
BY DEF Idle, At

LEMMA CompletionKinds ==
  /\ NoCompletion.kind = "none" /\ Falls.kind = "normal"
  /\ \A path : Throws(path).kind = "throw" /\ Returns(path).kind = "return"
BY DEF NoCompletion, Falls, Throws, Returns, InFlight, Completion, Normal, Thrown, Returned

\* What RunInv and the conditions on the machine say of the step that is next.
LEMMA NextStep ==
  ASSUME RunInv
  PROVE  /\ State.identity = at /\ DOMAIN State.steps = 1 .. Len(State.steps)
         /\ Len(State.steps) \in Nat /\ next \in Nat
         /\ WellFormedGuard(machine, State)
         /\ HasStep => /\ next \in 1 .. Len(State.steps)
                       /\ WellFormedStep(machine, State, next)
                       /\ CurrentStep.kind \in Passing \cup Ending
         /\ ~HasStep => at.kind = "catch" /\ Rethrows(machine, at)
<1>1. machine \in Machines /\ at \in Identities(machine)
  BY DEF RunInv, Placed, Enterable
<1>2. /\ State.identity = at /\ DOMAIN State.steps = 1 .. Len(State.steps)
      /\ WellFormedGuard(machine, State)
      /\ \A k \in 1 .. Len(State.steps) : WellFormedStep(machine, State, k)
  BY <1>1, StateWellFormed DEF State
<1>3. PICK i \in DOMAIN machine : State = machine[i]
  BY <1>1, StateFound DEF State
<1>4. Len(State.steps) \in Nat /\ next \in Nat
  BY <1>1, <1>2 DEF RunInv, Placed
<1>5. ASSUME HasStep
      PROVE  /\ next \in 1 .. Len(State.steps)
             /\ WellFormedStep(machine, State, next)
             /\ CurrentStep.kind \in Passing \cup Ending
  <2>1. next \in 1 .. Len(State.steps)
    BY <1>4, <1>5 DEF RunInv, Placed, HasStep
  <2> QED
    BY <1>2, <2>1 DEF WellFormedStep, CurrentStep
<1>6. ASSUME ~HasStep
      PROVE  at.kind = "catch" /\ Rethrows(machine, at)
  <2>1. next = Len(State.steps) + 1
    BY <1>4, <1>6 DEF RunInv, Placed, HasStep
  <2>2. Continues(machine, State)
    BY DEF RunInv, Placed, Enterable, State
  <2>3. ~(State.steps # <<>> /\ State.steps[Len(State.steps)].kind \in Ending)
    <3>1. CASE State.steps = <<>>
      BY <3>1
    <3>2. CASE State.steps # <<>>
      <4>1. next > 1
        BY <1>2, <1>4, <2>1, <3>2
      <4>2. State.steps[Len(State.steps)].kind \in Passing
        BY <1>4, <2>1, <4>1 DEF RunInv, Placed
      <4> QED
        BY <4>2 DEF Passing, Ending
    <3> QED
      BY <3>1, <3>2
  <2> QED
    BY <1>2, <2>2, <2>3 DEF Continues
<1> QED
  BY <1>2, <1>4, <1>5, <1>6

\* Entering a state with all that it asks for.
LEMMA EnterState ==
  ASSUME RunInv, machine' = machine, next' = 1, running' = Idle,
         Enterable(machine, at'),
         Declared(machine, at') \subseteq DOMAIN carried',
         \A region \in Bound(machine, at') : HoldsReturn(region)',
         \A region \in DOMAIN carried' : carried'[region].kind \in {"normal", "return"},
         RejectionsHold'
  PROVE  RunInv'
<1>1. at' \in Identities(machine)
  BY DEF Enterable
<1>2. machine \in Machines
  BY DEF RunInv, Placed
<1>3. /\ State' = StateOf(machine, at')
      /\ DOMAIN State'.steps = 1 .. Len(State'.steps)
  BY <1>1, <1>2, StateWellFormed DEF State
<1>4. Placed'
  BY <1>2, <1>3 DEF Placed
<1>5. RunningFits'
  BY DEF RunningFits
<1>6. CarriedBefore(State', 1) = {}
  BY DEF CarriedBefore
<1>7. CarriersHold'
  BY <1>6 DEF CarriersHold
<1> QED
  BY <1>4, <1>5, <1>7 DEF RunInv

\* A step that settles the task stays where it is.
LEMMA Settling ==
  ASSUME RunInv, NEW completion, SettleWith(completion), UNCHANGED <<machine, carried>>,
         running' = Idle, completion.kind \in {"normal", "return", "throw"}
  PROVE  RunInv'
<1>1. State' = State
  BY DEF State, SettleWith
<1>2. Placed'
  BY <1>1 DEF RunInv, Placed, SettleWith
<1>3. CarriersHold'
  BY <1>1 DEF RunInv, CarriersHold, HoldsReturn, SettleWith
<1>4. RejectionsHold'
  BY DEF RunInv, RejectionsHold, HandlersHaveRejections, SettleWith
<1> QED
  BY <1>2, <1>3, <1>4 DEF RunInv, RunningFits

\* A throw takes the route of the guard.
LEMMA Routing ==
  ASSUME RunInv, NEW path, Route(Throws(path)), UNCHANGED <<machine, carried>>,
         running' = Idle
  PROVE  RunInv'
<1>1. CASE State.guard = NoGuard
  BY <1>1, CompletionKinds, Settling DEF Route
<1>2. CASE State.guard # NoGuard
  <2>1. at' = State.guard.catch /\ next' = 1 /\ rejection' = Throws(path) /\ settlement' = settlement
    BY <1>2 DEF Route, GoTo
  <2>2. /\ Enterable(machine, at')
        /\ Declared(machine, at') \subseteq Declared(machine, at)
        /\ Bound(machine, at') \subseteq Bound(machine, at)
    BY <1>2, <2>1, NextStep DEF WellFormedGuard
  <2>3. RejectionsHold'
    BY <2>1, CompletionKinds DEF RunInv, RejectionsHold, HandlersHaveRejections
  <2> QED
    BY <2>1, <2>2, <2>3, EnterState DEF RunInv, CarriersHold, HoldsReturn
<1> QED
  BY <1>1, <1>2

\* A step that ends its state goes to one of its targets: what it carries on
\* the way is all it changes of the carriers.
LEMMA Going ==
  ASSUME RunInv, HasStep, NEW target \in Targets(CurrentStep),
         GoTo(target), Proceed, machine' = machine, running' = Idle,
         DOMAIN carried' = DOMAIN carried \cup Declares(CurrentStep) \cup Rebinds(CurrentStep),
         \A region \in DOMAIN carried' :
           \/ /\ region \notin Declares(CurrentStep) \cup Rebinds(CurrentStep)
              /\ carried'[region] = carried[region]
           \/ region \in Declares(CurrentStep) /\ carried'[region].kind = "normal"
           \/ /\ region \in Rebinds(CurrentStep) \ Declares(CurrentStep)
              /\ carried'[region].kind = "return"
  PROVE  RunInv'
<1>1. /\ at' = target /\ next' = 1
      /\ UNCHANGED <<rejection, settlement>>
  BY DEF GoTo, Proceed
<1>2. WellFormedStep(machine, State, next) /\ State.identity = at
  BY NextStep
<1>3. /\ Enterable(machine, target) /\ target.kind # "catch"
      /\ Declared(machine, target) \subseteq Declared(machine, at) \cup Declares(CurrentStep)
      /\ Bound(machine, target) \subseteq
           (Bound(machine, at) \cup CarriedBefore(State, next) \cup Rebinds(CurrentStep))
             \ Declares(CurrentStep)
  BY <1>2 DEF WellFormedStep, CurrentStep
<1>4. RejectionsHold'
  BY <1>1, <1>3 DEF RunInv, RejectionsHold, HandlersHaveRejections
<1>5. Declared(machine, at') \subseteq DOMAIN carried'
  BY <1>1, <1>3 DEF RunInv, CarriersHold
<1>6. \A region \in Bound(machine, at') : HoldsReturn(region)'
  BY <1>1, <1>3 DEF RunInv, CarriersHold, HoldsReturn
<1>7. \A region \in DOMAIN carried' : carried'[region].kind \in {"normal", "return"}
  BY DEF RunInv, CarriersHold
<1> QED
  BY <1>1, <1>3, <1>4, <1>5, <1>6, <1>7, EnterState

\* A step that passes lets the next one follow; a carry leaves its value.
LEMMA Passes ==
  ASSUME RunInv, HasStep, CurrentStep.kind \in Passing,
         Advance, Proceed, machine' = machine, running' = Idle,
         CurrentStep.kind = "execute" => carried' = carried,
         CurrentStep.kind = "carry" =>
           /\ DOMAIN carried' = DOMAIN carried \cup {CurrentStep.carrier}
           /\ \A region \in DOMAIN carried' :
                \/ region # CurrentStep.carrier /\ carried'[region] = carried[region]
                \/ region = CurrentStep.carrier /\ carried'[region].kind = "return"
  PROVE  RunInv'
<1>1. next' = next + 1 /\ at' = at /\ State' = State /\ UNCHANGED <<rejection, settlement>>
  BY DEF Advance, Proceed, State
<1>2. next \in 1 .. Len(State.steps) /\ Len(State.steps) \in Nat
  BY NextStep
<1>3. next + 1 - 1 = next /\ next + 1 \in 1 .. Len(State.steps) + 1
  BY <1>2
<1>4. Placed'
  BY <1>1, <1>3 DEF RunInv, Placed, CurrentStep
<1>5. \A region \in CarriedBefore(State, next + 1) :
        \/ region \in CarriedBefore(State, next)
        \/ CurrentStep.kind = "carry" /\ region = CurrentStep.carrier
  <2> TAKE region \in CarriedBefore(State, next + 1)
  <2>1. PICK j \in 1 .. next : /\ State.steps[j].kind = "carry"
                               /\ region = State.steps[j].carrier
    BY <1>2, <1>3 DEF CarriedBefore
  <2>2. CASE j = next
    BY <2>1, <2>2 DEF CurrentStep
  <2>3. CASE j # next
    <3>1. j \in 1 .. next - 1
      BY <1>2, <2>3
    <3> QED
      BY <2>1, <3>1 DEF CarriedBefore
  <2> QED
    BY <2>2, <2>3
<1>6. DOMAIN carried \subseteq DOMAIN carried'
  BY DEF Passing
<1>7. Declared(machine, at') \subseteq DOMAIN carried'
  BY <1>1, <1>6 DEF RunInv, CarriersHold
<1>8. PICK carrier : carrier = CurrentStep.carrier
  OBVIOUS
<1>9. \A region \in DOMAIN carried' :
        \/ region \in DOMAIN carried /\ carried'[region] = carried[region]
        \/ carried'[region].kind = "return"
  BY DEF Passing
<1>10. \A region : HoldsReturn(region) => HoldsReturn(region)'
  BY <1>6, <1>9 DEF HoldsReturn
<1>11. CurrentStep.kind = "carry" => HoldsReturn(carrier)'
  BY <1>8 DEF HoldsReturn
<1>12. \A region \in Bound(machine, at) \cup CarriedBefore(State, next + 1) : HoldsReturn(region)'
  BY <1>5, <1>10, <1>11, <1>8 DEF RunInv, CarriersHold
<1>13. \A region \in DOMAIN carried' : carried'[region].kind \in {"normal", "return"}
  BY <1>9 DEF RunInv, CarriersHold
<1>14. CarriersHold'
  BY <1>1, <1>7, <1>12, <1>13 DEF CarriersHold
<1>15. RejectionsHold'
  BY <1>1 DEF RunInv, RejectionsHold, HandlersHaveRejections
<1> QED
  BY <1>4, <1>14, <1>15 DEF RunInv, RunningFits

\* Carrying a completion to a region.
LEMMA Carrying ==
  ASSUME NEW region, NEW completion, Carry(region, completion)
  PROVE  /\ DOMAIN carried' = DOMAIN carried \cup {region}
         /\ carried'[region] = completion
         /\ \A r \in DOMAIN carried' : r # region => carried'[r] = carried[r]
BY DEF Carry

LEMMA RunInvInit ==
  ASSUME RunInit
  PROVE  RunInv
<1>1. /\ machine \in Machines /\ at = Entry /\ next = 1 /\ running = Idle
      /\ carried = <<>> /\ rejection = NoCompletion /\ settlement = NoCompletion
  BY DEF RunInit, Begin
<1>2. WellFormed(machine)
  BY <1>1, MachinesAssumption
<1>3. Enterable(machine, at) /\ Declared(machine, at) = {} /\ Bound(machine, at) = {}
  BY <1>1, <1>2 DEF WellFormed
<1>4. DOMAIN State.steps = 1 .. Len(State.steps)
  BY <1>1, <1>3, StateWellFormed DEF State, Enterable
<1>5. Placed
  BY <1>1, <1>3, <1>4 DEF Placed
<1>6. CarriedBefore(State, next) = {} /\ DOMAIN carried = {}
  BY <1>1 DEF CarriedBefore
<1>7. CarriersHold
  BY <1>3, <1>6 DEF CarriersHold
<1>8. RejectionsHold
  BY <1>1, CompletionKinds DEF RejectionsHold, HandlersHaveRejections, Entry, Identity
<1> QED
  BY <1>1, <1>5, <1>7, <1>8 DEF RunInv, RunningFits

\* Outside execute steps and waits nothing is running.
LEMMA NothingRuns ==
  ASSUME RunInv, NEW kind, Runs(kind), kind \notin {"execute", "suspend"}
  PROVE  running = Idle
BY DEF RunInv, RunningFits, Runs

LEMMA RunInvStep ==
  ASSUME RunInv, RunNext
  PROVE  RunInv'
<1>1. ASSUME NEW control, BeginSource(control) \/ RunSource(control)
      PROVE  RunInv'
  <2>1. /\ Runs("execute") /\ InFragment(control) /\ running' = control
        /\ UNCHANGED <<machine, at, next, carried, rejection, settlement>>
    BY <1>1 DEF BeginSource, RunSource
  <2>2. State' = State /\ CurrentStep' = CurrentStep /\ HasStep' = HasStep
    BY <2>1 DEF State, CurrentStep, HasStep
  <2>3. RunningFits'
    BY <2>1, <2>2 DEF RunningFits, Runs, InFragment
  <2> QED
    BY <2>1, <2>2, <2>3
    DEF RunInv, Placed, CarriersHold, HoldsReturn, RejectionsHold, HandlersHaveRejections
<1>2. CASE EndSource
  <2>1. /\ Runs("execute") /\ running' = Idle /\ UNCHANGED <<machine, carried>>
    BY <1>2 DEF EndSource
  <2>2. CASE running.completion.kind = "normal" /\ Advance /\ Proceed
    BY <2>1, <2>2, Passes DEF Runs, Passing
  <2>3. CASE Route(Throws(CurrentStep.path \o running.completion.from))
    BY <2>1, <2>3, Routing
  <2> QED
    BY <1>2, <2>2, <2>3 DEF EndSource
<1>3. ASSUME NEW outcome, TestCondition(outcome)
      PROVE  RunInv'
  <2>1. /\ Runs("branch") /\ UNCHANGED <<machine, running, carried>>
    BY <1>3 DEF TestCondition
  <2>2. running' = Idle
    BY <2>1, NothingRuns
  <2>3. ASSUME NEW target \in {CurrentStep.whenTrue, CurrentStep.whenFalse}, GoTo(target), Proceed
        PROVE  RunInv'
    <3>1. target \in Targets(CurrentStep) /\ Declares(CurrentStep) = {} /\ Rebinds(CurrentStep) = {}
      BY <2>1 DEF Targets, Declares, Rebinds, Runs
    <3> QED
      BY <2>1, <2>2, <2>3, <3>1, Going DEF Runs
  <2>4. CASE Route(Throws(CurrentStep.path))
    BY <2>1, <2>2, <2>4, Routing
  <2> QED
    BY <1>3, <2>3, <2>4 DEF TestCondition
<1>4. ASSUME NEW outcome, CarryValue(outcome)
      PROVE  RunInv'
  <2>1. Runs("carry") /\ UNCHANGED <<machine, running>>
    BY <1>4 DEF CarryValue
  <2>2. running' = Idle
    BY <2>1, NothingRuns
  <2>3. CASE Advance /\ Proceed /\ Carry(CurrentStep.carrier, Returns(CurrentStep.path))
    <3>1. PICK carrier : carrier = CurrentStep.carrier
      OBVIOUS
    <3>2. /\ DOMAIN carried' = DOMAIN carried \cup {carrier}
          /\ carried'[carrier].kind = "return"
          /\ \A r \in DOMAIN carried' : r # carrier => carried'[r] = carried[r]
      <4>1. PICK completion : completion = Returns(CurrentStep.path)
        OBVIOUS
      <4>2. Carry(carrier, completion) /\ completion.kind = "return"
        BY <2>3, <3>1, <4>1, CompletionKinds
      <4> QED
        BY <4>2, Carrying
    <3> QED
      BY <2>1, <2>2, <2>3, <3>1, <3>2, Passes DEF Runs, Passing
  <2>4. CASE Route(Throws(CurrentStep.path)) /\ UNCHANGED carried
    BY <2>1, <2>2, <2>4, Routing
  <2> QED
    BY <1>4, <2>3, <2>4 DEF CarryValue
<1>5. ASSUME NEW outcome, ResolveValue(outcome)
      PROVE  RunInv'
  <2>1. Runs("resolve") /\ UNCHANGED <<machine, running, carried>>
    BY <1>5 DEF ResolveValue
  <2>2. running' = Idle
    BY <2>1, NothingRuns
  <2>3. CASE SettleWith(Returns(CurrentStep.path))
    BY <2>1, <2>2, <2>3, CompletionKinds, Settling
  <2>4. CASE Route(Throws(CurrentStep.path))
    BY <2>1, <2>2, <2>4, Routing
  <2> QED
    BY <1>5, <2>3, <2>4 DEF ResolveValue
<1>6. CASE RejectValue
  <2>1. Runs("reject") /\ UNCHANGED <<machine, running, carried>>
    BY <1>6 DEF RejectValue
  <2>2. running' = Idle
    BY <2>1, NothingRuns
  <2>3. CASE SettleWith(Throws(CurrentStep.path))
    BY <2>1, <2>2, <2>3, CompletionKinds, Settling
  <2>4. CASE Route(Throws(CurrentStep.path))
    BY <2>1, <2>2, <2>4, Routing
  <2> QED
    BY <1>6, <2>3, <2>4 DEF RejectValue
<1>7. CASE ResolveEnd
  <2>1. Runs("resolveEnd") /\ SettleWith(Falls) /\ UNCHANGED <<machine, running, carried>>
    BY <1>7 DEF ResolveEnd
  <2> QED
    BY <2>1, CompletionKinds, NothingRuns, Settling
<1>8. CASE ResolveCarried
  <2>1. /\ Runs("resolveCarried") /\ SettleWith(carried[CurrentStep.carrier])
        /\ UNCHANGED <<machine, running, carried>>
    BY <1>8 DEF ResolveCarried
  <2>2. WellFormedStep(machine, State, next) /\ State.identity = at
    BY <2>1, NextStep DEF Runs
  <2>3. HoldsReturn(CurrentStep.carrier)
    BY <2>1, <2>2 DEF WellFormedStep, Runs, CurrentStep, RunInv, CarriersHold
  <2> QED
    BY <2>1, <2>3, NothingRuns, Settling DEF HoldsReturn
<1>9. ASSUME NEW outcome, AwaitOperand(outcome)
      PROVE  RunInv'
  <2>1. Runs("suspend") /\ running = Idle /\ UNCHANGED <<machine, carried>>
    BY <1>9 DEF AwaitOperand
  <2>2. CASE /\ running' = [running EXCEPT !.kind = "await"]
             /\ UNCHANGED <<at, next>> /\ Proceed
    <3>1. running'.kind = "await"
      BY <2>1, <2>2 DEF Idle, At
    <3>2. State' = State /\ CurrentStep' = CurrentStep /\ HasStep' = HasStep
      BY <2>1, <2>2 DEF State, CurrentStep, HasStep
    <3>3. RunningFits'
      BY <2>1, <3>1, <3>2 DEF RunningFits, Runs
    <3> QED
      BY <2>1, <2>2, <3>2, <3>3
      DEF RunInv, Placed, CarriersHold, HoldsReturn, RejectionsHold, HandlersHaveRejections, Proceed
  <2>3. CASE Route(Throws(CurrentStep.path)) /\ UNCHANGED running
    BY <2>1, <2>3, Routing
  <2> QED
    BY <1>9, <2>2, <2>3 DEF AwaitOperand
<1>10. ASSUME NEW outcome, AwaitSettles(outcome)
       PROVE  RunInv'
  <2>1. Runs("suspend") /\ running' = Idle /\ machine' = machine
    BY <1>10 DEF AwaitSettles
  <2>2. CASE /\ CurrentStep.fulfillment.kind = "discard"
             /\ GoTo(CurrentStep.resume) /\ Proceed /\ UNCHANGED carried
    <3>1. /\ CurrentStep.resume \in Targets(CurrentStep)
          /\ Declares(CurrentStep) = {} /\ Rebinds(CurrentStep) = {}
      BY <2>1, <2>2 DEF Targets, Declares, Rebinds, Runs
    <3> QED
      BY <2>1, <2>2, <3>1, Going DEF Runs
  <2>3. CASE /\ CurrentStep.fulfillment.kind = "rebind"
             /\ GoTo(CurrentStep.resume) /\ Proceed
             /\ Carry(CurrentStep.fulfillment.carrier, Returns(CurrentStep.path))
    <3>1. /\ CurrentStep.resume \in Targets(CurrentStep)
          /\ Declares(CurrentStep) = {}
          /\ Rebinds(CurrentStep) = {CurrentStep.fulfillment.carrier}
      BY <2>1, <2>3 DEF Targets, Declares, Rebinds, Runs
    <3>2. PICK region : region = CurrentStep.fulfillment.carrier
      OBVIOUS
    <3>3. /\ DOMAIN carried' = DOMAIN carried \cup {region}
          /\ carried'[region].kind = "return"
          /\ \A r \in DOMAIN carried' : r # region => carried'[r] = carried[r]
      <4>1. PICK completion : completion = Returns(CurrentStep.path)
        OBVIOUS
      <4>2. Carry(region, completion) /\ completion.kind = "return"
        BY <2>3, <3>2, <4>1, CompletionKinds
      <4> QED
        BY <4>2, Carrying
    <3> QED
      BY <2>1, <2>3, <3>1, <3>2, <3>3, Going DEF Runs
  <2>4. CASE SettleWith(Returns(CurrentStep.path)) /\ UNCHANGED carried
    BY <2>1, <2>4, CompletionKinds, Settling
  <2>5. CASE Route(Throws(CurrentStep.path)) /\ UNCHANGED carried
    BY <2>1, <2>5, Routing
  <2> QED
    BY <1>10, <2>2, <2>3, <2>4, <2>5 DEF AwaitSettles, Fulfill
<1>11. CASE ContinueState
  <2>1. /\ Runs("goto") \/ Runs("loop")
        /\ GoTo(CurrentStep.target) /\ Proceed
        /\ UNCHANGED <<machine, running, carried>>
    BY <1>11 DEF ContinueState
  <2>2. running' = Idle
    BY <2>1, NothingRuns
  <2>3. /\ CurrentStep.target \in Targets(CurrentStep)
        /\ Declares(CurrentStep) = {} /\ Rebinds(CurrentStep) = {}
    BY <2>1 DEF Targets, Declares, Rebinds, Runs
  <2> QED
    BY <2>1, <2>2, <2>3, Going DEF Runs
<1>12. CASE OpenRegion
  <2>1. /\ Runs("guard") /\ GoTo(WhenTrue(CurrentStep.path)) /\ Proceed
        /\ UNCHANGED <<machine, running>>
        /\ IF CurrentStep.cleanup THEN Carry(CurrentStep.path, Falls) ELSE UNCHANGED carried
    BY <1>12 DEF OpenRegion
  <2>2. running' = Idle
    BY <2>1, NothingRuns
  <2>3. WhenTrue(CurrentStep.path) \in Targets(CurrentStep) /\ Rebinds(CurrentStep) = {}
    BY <2>1 DEF Targets, Rebinds, Runs
  <2>4. CASE CurrentStep.cleanup
    <3>1. Declares(CurrentStep) = {CurrentStep.path}
      BY <2>1, <2>4 DEF Declares, Runs
    <3>2. PICK region : region = CurrentStep.path
      OBVIOUS
    <3>3. /\ DOMAIN carried' = DOMAIN carried \cup {region}
          /\ carried'[region].kind = "normal"
          /\ \A r \in DOMAIN carried' : r # region => carried'[r] = carried[r]
      <4>1. Carry(region, Falls)
        BY <2>1, <2>4, <3>2
      <4>2. PICK completion : completion = Falls
        OBVIOUS
      <4>3. Carry(region, completion) /\ completion.kind = "normal"
        BY <4>1, <4>2, CompletionKinds
      <4> QED
        BY <4>3, Carrying
    <3> QED
      BY <2>1, <2>2, <2>3, <3>1, <3>2, <3>3, Going DEF Runs
  <2>5. CASE ~CurrentStep.cleanup
    <3>1. Declares(CurrentStep) = {} /\ UNCHANGED carried
      BY <2>1, <2>5 DEF Declares
    <3> QED
      BY <2>1, <2>2, <2>3, <3>1, Going DEF Runs
  <2> QED
    BY <2>4, <2>5
<1>13. CASE Rethrow
  <2>1. /\ ~HasStep /\ at.kind = "catch" /\ SettleWith(rejection)
        /\ UNCHANGED <<machine, running, carried>>
    BY <1>13 DEF Rethrow
  <2>2. running' = Idle
    BY <2>1 DEF RunInv, RunningFits
  <2>3. rejection.kind = "throw"
    BY <2>1 DEF RunInv, RejectionsHold, HandlersHaveRejections
  <2> QED
    BY <2>1, <2>2, <2>3, Settling
<1> QED
  BY <1>1, <1>2, <1>3, <1>4, <1>5, <1>6, <1>7, <1>8, <1>9, <1>10, <1>11, <1>12, <1>13 DEF RunNext

-----------------------------------------------------------------------------
(* Theorems.                                                               *)

\* RunInv holds of every run of every well-formed machine.
THEOREM RunInvariant == RunSpec => []RunInv
<1>1. RunInit => RunInv
  BY RunInvInit
<1>2. RunInv /\ [RunNext]_runVars => RunInv'
  <2> SUFFICES ASSUME RunInv, [RunNext]_runVars
               PROVE  RunInv'
    OBVIOUS
  <2>1. CASE RunNext
    BY <2>1, RunInvStep
  <2>2. CASE UNCHANGED runVars
    <3>1. /\ UNCHANGED <<machine, at, next, running, carried, rejection, settlement>>
          /\ State' = State /\ CurrentStep' = CurrentStep /\ HasStep' = HasStep
      BY <2>2 DEF runVars, State, CurrentStep, HasStep
    <3> QED
      BY <3>1 DEF RunInv, Placed, RunningFits, CarriersHold, HoldsReturn, RejectionsHold,
                  HandlersHaveRejections
  <2> QED
    BY <2>1, <2>2
<1> QED
  BY <1>1, <1>2, PTL DEF RunSpec

\* The machine stands at a step of one of its states or behind the last one,
\* and its registers hold what they are for.
THEOREM RunTypeCorrect == RunSpec => []TypeOK
<1>1. RunInv => TypeOK
  <2> SUFFICES ASSUME RunInv
               PROVE  TypeOK
    OBVIOUS
  <2>1. running.kind \in {"idle", "evaluate", "await", "settle"}
    BY IdleKind DEF RunInv, RunningFits, InFragment
  <2> QED
    BY <2>1 DEF RunInv, Placed, Enterable, CarriersHold, RejectionsHold, TypeOK
<1> QED
  BY <1>1, RunInvariant, PTL

\* However a machine runs, it never returns from a state with the task
\* unsettled and nothing left to call.
THEOREM RunNeverStops == RunSpec => []NeverStops
<1>1. RunInv => NeverStops
  <2> SUFFICES ASSUME RunInv
               PROVE  NeverStops
    OBVIOUS
  <2> QED
    BY NextStep DEF RunInv, RunningFits, NeverStops
<1> QED
  BY <1>1, RunInvariant, PTL

\* A carrier is declared on every way to a step that reads or binds it.
THEOREM CarriersInScope == RunSpec => []CarriersAreDeclared
<1>1. RunInv => CarriersAreDeclared
  BY NextStep DEF RunInv, CarriersHold, CarriersAreDeclared, WellFormedStep, CurrentStep
<1> QED
  BY <1>1, RunInvariant, PTL

\* A cleanup never settles the task with a carrier that no return has bound.
THEOREM ReturnsReachCleanups == RunSpec => []CleanupsSettleReturns
<1>1. RunInv => CleanupsSettleReturns
  BY NextStep
  DEF RunInv, CarriersHold, HoldsReturn, CleanupsSettleReturns, Runs, WellFormedStep, CurrentStep
<1> QED
  BY <1>1, RunInvariant, PTL

\* A handler is only ever entered with a rejection.
THEOREM HandlersAreCalled == RunSpec => []HandlersHaveRejections
<1>1. RunInv => HandlersHaveRejections
  BY DEF RunInv, RejectionsHold
<1> QED
  BY <1>1, RunInvariant, PTL

\* Each settlement has its reason in the step that makes it, and a cleanup
\* passes on the rejection it was called with and no other.
THEOREM SettlementsHaveReasons == RunSpec => SettlesForAReason
<1> DEFINE Reason ==
      CASE settlement'.kind = "normal" -> Runs("resolveEnd")
        [] settlement'.kind = "return" ->
             Runs("resolve") \/ Runs("resolveCarried") \/ Runs("suspend")
        [] settlement'.kind = "throw" ->
             \/ State.guard = NoGuard \/ Runs("reject")
             \/ at.kind = "catch" /\ settlement' = rejection
        [] OTHER -> FALSE
<1>1. ASSUME RunInv, RunNext, settlement' # settlement
      PROVE  Reason
  <2>1. ASSUME NEW path, Route(Throws(path))
        PROVE  Reason
    BY <1>1, <2>1, CompletionKinds DEF Route, SettleWith
  <2>2. CASE EndSource
    BY <1>1, <2>1, <2>2 DEF EndSource, Proceed
  <2>3. ASSUME NEW outcome, TestCondition(outcome)
        PROVE  Reason
    BY <1>1, <2>1, <2>3 DEF TestCondition, Proceed
  <2>4. ASSUME NEW outcome, CarryValue(outcome)
        PROVE  Reason
    BY <1>1, <2>1, <2>4 DEF CarryValue, Proceed
  <2>5. ASSUME NEW outcome, ResolveValue(outcome)
        PROVE  Reason
    BY <1>1, <2>1, <2>5, CompletionKinds DEF ResolveValue, SettleWith
  <2>6. ASSUME NEW outcome, AwaitOperand(outcome)
        PROVE  Reason
    BY <1>1, <2>1, <2>6 DEF AwaitOperand, Proceed
  <2>7. ASSUME NEW outcome, AwaitSettles(outcome)
        PROVE  Reason
    BY <1>1, <2>1, <2>7, CompletionKinds DEF AwaitSettles, Fulfill, Proceed, SettleWith
  <2>8. CASE RejectValue
    BY <1>1, <2>1, <2>8, CompletionKinds DEF RejectValue, SettleWith
  <2>9. CASE ResolveEnd
    BY <1>1, <2>9, CompletionKinds DEF ResolveEnd, SettleWith
  <2>10. CASE ResolveCarried
    <3>1. CleanupsSettleReturns
      BY <1>1, NextStep
      DEF RunInv, CarriersHold, HoldsReturn, CleanupsSettleReturns, Runs, WellFormedStep, CurrentStep
    <3> QED
      BY <2>10, <3>1 DEF ResolveCarried, CleanupsSettleReturns, SettleWith
  <2>11. CASE Rethrow
    BY <1>1, <2>11 DEF Rethrow, RunInv, RejectionsHold, HandlersHaveRejections, SettleWith
  <2>12. ASSUME NEW control, BeginSource(control) \/ RunSource(control)
         PROVE  FALSE
    BY <1>1, <2>12 DEF BeginSource, RunSource
  <2>13. CASE ContinueState \/ OpenRegion
    BY <1>1, <2>13 DEF ContinueState, OpenRegion, Proceed
  <2> QED
    BY <1>1, <2>2, <2>3, <2>4, <2>5, <2>6, <2>7, <2>8, <2>9, <2>10, <2>11, <2>12, <2>13
    DEF RunNext
<1>2. RunInv /\ [RunNext]_runVars => [settlement' # settlement => Reason]_runVars
  BY <1>1
<1> QED
  BY <1>2, RunInvariant, PTL DEF RunSpec, SettlesForAReason

=============================================================================
