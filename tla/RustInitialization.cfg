CONSTANTS
  a = a
  b = b
  c = c
  p = p
  q = q
  Modules <- AllModules
  Packages = {p, q}
  Threads = {t1, t2}
  Finalizations <- MCFinalizations
  Errors = {e1, e2}
  NoError = NoError
  Reentrancy = Reentrancy
  Fallible <- MCFallible
  MaxBootstraps = 2
SPECIFICATION Spec
INVARIANTS
  TypeOK
  ReturnsAreTrue
  InitializedWholeOrNotAtAll
PROPERTIES
  KeepsThePromise
  RejectedOnlyByAnother
  EveryBootstrapReturns
CHECK_DEADLOCK FALSE
