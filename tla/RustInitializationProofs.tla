---------------------- MODULE RustInitializationProofs ----------------------
\* Proofs about RustInitialization, for any package, any number of threads and
\* any work that fails. All of them rest on one inductive invariant: the calls
\* whose work has begun are the first ones of the schedule, their number says in
\* which state each module is, only the module of the last of them may be worked
\* on or errored, and no bootstrap is past the call after it.
EXTENDS RustInitialization, FiniteSetTheorems, TLAPS

N == Len(finalization.order)

Begun == Len(log)

\* The place of the module of the k-th call.
Slot(k) == IF k <= N THEN k ELSE k - N

ModuleAt(k) == finalization.order[Slot(k)]

PhaseAt(k) == IF k <= N THEN "instantiate" ELSE "evaluate"

LogIsPrefix ==
  /\ Begun <= 2 * N
  /\ \A k \in 1 .. Begun : log[k] = Schedule(finalization)[k]

\* The states of the module at place i after b calls have begun.
AllowedAt(b, i) ==
  IF b < i THEN {"uninstantiated"}
  ELSE IF b = i THEN {"instantiating", "instantiated", "errored"}
  ELSE IF b < N + i THEN {"instantiated"}
  ELSE IF b = N + i THEN {"evaluating", "evaluated", "errored"}
  ELSE {"evaluated"}

StatesFollowLog ==
  /\ \A i \in 1 .. N : lifecycle[finalization.order[i]] \in AllowedAt(Begun, i)
  /\ \A m \in Modules \ Grouped(finalization) : lifecycle[m] = "uninstantiated"

Settled == Begun > 0 => lifecycle[ModuleAt(Begun)] \in {"instantiated", "evaluated"}

\* Where a thread with the record h may be.
FollowsLog(h) ==
  /\ h.at \in Running => h.call <= Begun + 1
  /\ h.at \in Running /\ h.call = Begun + 1 => Settled
  /\ h.at = "evaluate" => h.call > N
  /\ h.at = "instantiating" =>
       h.call = Begun /\ Begun <= N /\ lifecycle[ModuleAt(Begun)] = "instantiating"
  /\ h.at = "evaluating" =>
       h.call = Begun /\ Begun > N /\ lifecycle[ModuleAt(Begun)] = "evaluating"
  /\ h.at = "ok" => Begun = 2 * N /\ Settled
  /\ h.at = "failed" => h.result # NoError
  /\ h.at = "failed" /\ h.result # Reentrancy =>
       /\ Begun > 0
       /\ lifecycle[ModuleAt(Begun)] = "errored"
       /\ error[ModuleAt(Begun)] = h.result
  /\ h.at # "idle" => session = "available"

ThreadsFollowLog == \A t \in Threads : FollowsLog(host[t])

OneWorker ==
  \A t, u \in Threads : host[t].at \in Working /\ host[u].at \in Working => t = u

WorkHasAWorker ==
  Begun > 0 /\ lifecycle[ModuleAt(Begun)] \in Working => \E t \in Threads : host[t].at \in Working

ErroredHaveErrors ==
  \A m \in Modules : lifecycle[m] = "errored" => error[m] \in Errors

HooksNeedAvailability ==
  /\ log # <<>> => session = "available"
  /\ session = "available" =>
       /\ ExecutionRefusals(finalization) = {}
       /\ ~CrateCollision(finalization) /\ ~ReservedCollision(finalization)

Inv ==
  /\ TypeOK
  /\ LogIsPrefix
  /\ StatesFollowLog
  /\ ThreadsFollowLog
  /\ OneWorker
  /\ WorkHasAWorker
  /\ ErroredHaveErrors
  /\ HooksNeedAvailability

HostRecords ==
  [at : Running \cup {"idle", "ok", "failed"}, call : 1 .. Length,
   result : Errors \cup {NoError, Reentrancy}, runs : 0 .. MaxBootstraps]

USE InitializationAssumption

-----------------------------------------------------------------------------
\* What the schedule of a finalization is.
LEMMA ScheduleFacts ==
  ASSUME NEW f \in Finalizations
  PROVE  /\ Len(f.order) \in Nat \ {0}
         /\ \A i \in 1 .. Len(f.order) : f.order[i] \in Modules
         /\ Schedule(f) \in Seq(Calls)
         /\ Len(Schedule(f)) = 2 * Len(f.order)
         /\ \A k \in 1 .. 2 * Len(f.order) :
              Schedule(f)[k] = [phase |-> IF k <= Len(f.order) THEN "instantiate" ELSE "evaluate",
                                module |-> f.order[IF k <= Len(f.order) THEN k ELSE k - Len(f.order)]]
<1> DEFINE n == Len(f.order)
<1>1. n \in Nat \ {0} /\ \A i \in 1 .. n : f.order[i] \in Modules
  OBVIOUS
<1>2. \A k \in 1 .. 2 * n :
        Schedule(f)[k] = [phase |-> IF k <= n THEN "instantiate" ELSE "evaluate",
                          module |-> f.order[IF k <= n THEN k ELSE k - n]]
  BY <1>1 DEF Schedule
<1>3. ASSUME NEW k \in 1 .. 2 * n PROVE Schedule(f)[k] \in Calls
  <2>1. CASE k <= n
    <3>1. Schedule(f)[k] = [phase |-> "instantiate", module |-> f.order[k]]
      BY <2>1, <1>2
    <3> QED
      BY <2>1, <3>1, <1>1 DEF Calls, Phases
  <2>2. CASE k > n
    <3>1. Schedule(f)[k] = [phase |-> "evaluate", module |-> f.order[k - n]]
      BY <2>2, <1>1, <1>2
    <3>2. k - n \in 1 .. n
      BY <2>2, <1>1
    <3> QED
      BY <3>1, <3>2, <1>1 DEF Calls, Phases
  <2> QED
    BY <1>1, <2>1, <2>2
<1>4. DOMAIN Schedule(f) = 1 .. 2 * n
  BY DEF Schedule
<1>5. Schedule(f) = [k \in 1 .. 2 * n |-> Schedule(f)[k]]
  BY DEF Schedule
<1>6. 2 * n \in Nat
  BY <1>1
<1> HIDE DEF n
<1>7. Schedule(f) \in Seq(Calls) /\ Len(Schedule(f)) = 2 * n
  BY <1>3, <1>4, <1>5, <1>6
<1> QED
  BY <1>1, <1>2, <1>7 DEF n

\* The same in terms of the state.
LEMMA StateFacts ==
  ASSUME TypeOK
  PROVE  /\ N \in Nat \ {0}
         /\ Length = 2 * N
         /\ Begun \in Nat
         /\ \A k \in 1 .. 2 * N :
              /\ Slot(k) \in 1 .. N
              /\ ModuleAt(k) \in Grouped(finalization)
              /\ ModuleAt(k) \in Modules
              /\ Schedule(finalization)[k] = [phase |-> PhaseAt(k), module |-> ModuleAt(k)]
         /\ Schedule(finalization) \in Seq(Calls)
         /\ Len(Schedule(finalization)) = 2 * N
         /\ \A i, j \in 1 .. N : finalization.order[i] = finalization.order[j] => i = j
<1>1. finalization \in Finalizations
  BY DEF TypeOK
<1>2. N \in Nat \ {0} /\ Length = 2 * N /\ Begun \in Nat
  BY <1>1, ScheduleFacts DEF N, Length, Begun, TypeOK
<1>3. \A k \in 1 .. 2 * N : Slot(k) \in 1 .. N
  BY <1>2 DEF Slot
<1>4. \A i, j \in 1 .. N : finalization.order[i] = finalization.order[j] => i = j
  BY <1>1 DEF N, Places
<1> QED
  BY <1>1, <1>2, <1>3, <1>4, ScheduleFacts DEF N, Slot, ModuleAt, PhaseAt, Grouped, Places

\* The initial states satisfy the invariant.
LEMMA InitInv == Init => Inv
<1> SUFFICES ASSUME Init PROVE Inv
  OBVIOUS
<1>1. Len(finalization.order) \in Nat \ {0}
  BY ScheduleFacts DEF Init
<1>2. TypeOK
  BY <1>1 DEF Init, TypeOK, LifecycleStates, Running, Working, Length
<1>3. Begun = 0
  BY DEF Init, Begun
<1>4. LogIsPrefix
  BY <1>1, <1>3 DEF LogIsPrefix, N
<1>5. StatesFollowLog
  BY <1>1, <1>3, <1>2, StateFacts DEF StatesFollowLog, AllowedAt, Init, N, Grouped
<1>6. ThreadsFollowLog /\ OneWorker /\ WorkHasAWorker
  BY <1>3 DEF ThreadsFollowLog, FollowsLog, OneWorker, WorkHasAWorker, Init, Running, Working
<1>7. ErroredHaveErrors /\ HooksNeedAvailability
  BY DEF ErroredHaveErrors, HooksNeedAvailability, Init
<1> QED
  BY <1>2, <1>4, <1>5, <1>6, <1>7 DEF Inv

\* A step that changes the record of one thread, which neither works nor begins
\* to, preserves the invariant if the new record follows the log.
LEMMA HostMoves ==
  ASSUME Inv, NEW t \in Threads, NEW h \in HostRecords,
         host' = [host EXCEPT ![t] = h],
         UNCHANGED <<finalization, session, lifecycle, error, log>>,
         host[t].at \notin Working, h.at \notin Working,
         FollowsLog(h)
  PROVE  Inv'
<1>1. TypeOK'
  BY DEF Inv, TypeOK, HostRecords, Length
<1>2. Begun' = Begun /\ N' = N /\ \A k : ModuleAt(k)' = ModuleAt(k)
  BY DEF Begun, N, ModuleAt, Slot
<1>3. LogIsPrefix' /\ StatesFollowLog' /\ ErroredHaveErrors' /\ HooksNeedAvailability'
  BY DEF Inv, LogIsPrefix, StatesFollowLog, AllowedAt, ErroredHaveErrors, HooksNeedAvailability, Begun, N
<1>4. ASSUME NEW u \in Threads PROVE FollowsLog(host[u])'
  <2>1. host'[u] = h \/ host'[u] = host[u]
    BY DEF Inv, TypeOK
  <2>2. FollowsLog(host[u]) /\ FollowsLog(h)
    BY DEF Inv, ThreadsFollowLog
  <2> QED
    BY <2>1, <2>2 DEF FollowsLog, Begun, N, ModuleAt, Slot, Settled
<1>5. ThreadsFollowLog'
  BY <1>4 DEF ThreadsFollowLog
<1>6. OneWorker'
  BY DEF Inv, TypeOK, OneWorker
<1>7. WorkHasAWorker'
  <2> SUFFICES ASSUME Begun > 0, lifecycle[ModuleAt(Begun)] \in Working
               PROVE  \E u \in Threads : host'[u].at \in Working
    BY <1>2 DEF WorkHasAWorker
  <2>1. PICK u \in Threads : host[u].at \in Working
    BY DEF Inv, WorkHasAWorker
  <2>2. host'[u] = host[u]
    BY <2>1 DEF Inv, TypeOK
  <2> QED
    BY <2>1, <2>2
<1> QED
  BY <1>1, <1>3, <1>5, <1>6, <1>7 DEF Inv

\* A thread that works is at the last call begun, and a thread that is not past
\* it is at a module that the log says the state of.
LEMMA WorkerIsLast ==
  ASSUME Inv, NEW t \in Threads, host[t].at \in Working
  PROVE  /\ Begun > 0 /\ Begun \in 1 .. 2 * N
         /\ host[t].call = Begun
         /\ lifecycle[ModuleAt(Begun)] = host[t].at
         /\ host[t].at = IF Begun <= N THEN "instantiating" ELSE "evaluating"
         /\ ~Settled
<1>1. host[t].call \in 1 .. 2 * N
  BY StateFacts DEF Inv, TypeOK
<1>2. FollowsLog(host[t])
  BY DEF Inv, ThreadsFollowLog
<1>3. Begun \in Nat /\ N \in Nat
  BY StateFacts DEF Inv
<1>4. host[t].call = Begun /\ lifecycle[ModuleAt(Begun)] = host[t].at
      /\ host[t].at = IF Begun <= N THEN "instantiating" ELSE "evaluating"
  BY <1>2, <1>3 DEF FollowsLog, Working
<1> QED
  BY <1>1, <1>3, <1>4 DEF Settled, Working

\* While the last call is settled, nobody works.
LEMMA SettledIsQuiet ==
  ASSUME Inv, Settled
  PROVE  \A u \in Threads : host[u].at \notin Working
BY WorkerIsLast

\* What the next call does to what the log allows: it moves the state of its own
\* module, and lets the others be where they are when its predecessor is settled.
LEMMA AllowedMoves ==
  ASSUME N \in Nat \ {0}, NEW b \in Nat, b < 2 * N, NEW i \in 1 .. N
  PROVE  /\ i = Slot(b + 1) /\ b < N => "instantiating" \in AllowedAt(b + 1, i)
         /\ i = Slot(b + 1) /\ b >= N => "evaluating" \in AllowedAt(b + 1, i)
         /\ \A s \in AllowedAt(b, i) :
              /\ i # Slot(b + 1)
              /\ b > 0 /\ i = Slot(b) => s \in {"instantiated", "evaluated"}
              => s \in AllowedAt(b + 1, i)
<1>1. i \in Nat /\ 1 <= i /\ i <= N
  OBVIOUS
<1>2. ASSUME i = Slot(b + 1), b < N PROVE "instantiating" \in AllowedAt(b + 1, i)
  <2>1. b + 1 = i
    BY <1>2 DEF Slot
  <2> QED
    BY <2>1, <1>1 DEF AllowedAt
<1>3. ASSUME i = Slot(b + 1), b >= N PROVE "evaluating" \in AllowedAt(b + 1, i)
  <2>1. b + 1 = N + i
    BY <1>3, <1>1 DEF Slot
  <2>2. ~(b + 1 < i) /\ b + 1 # i /\ ~(b + 1 < N + i)
    BY <2>1, <1>1
  <2> QED
    BY <2>1, <2>2 DEF AllowedAt
<1>4. ASSUME i # Slot(b + 1), NEW s \in AllowedAt(b, i),
             b > 0 /\ i = Slot(b) => s \in {"instantiated", "evaluated"}
      PROVE  s \in AllowedAt(b + 1, i)
  <2>1. b + 1 # i /\ b + 1 # N + i
    BY <1>4, <1>1 DEF Slot
  <2>2. CASE b < i
    <3>1. b + 1 < i
      BY <2>1, <2>2, <1>1
    <3> QED
      BY <2>2, <3>1 DEF AllowedAt
  <2>3. CASE b = i
    <3>1. Slot(b) = i /\ b > 0
      BY <2>3, <1>1 DEF Slot
    <3>2. s = "instantiated"
      BY <3>1, <2>3, <1>4, <1>1 DEF AllowedAt
    <3>3. ~(b + 1 < i) /\ b + 1 # i /\ b + 1 < N + i
      BY <2>1, <2>3, <1>1
    <3> QED
      BY <3>2, <3>3 DEF AllowedAt
  <2>4. CASE i < b /\ b < N + i
    <3>1. ~(b < i) /\ b # i /\ ~(b + 1 < i) /\ b + 1 # i /\ b + 1 < N + i
      BY <2>1, <2>4, <1>1
    <3> QED
      BY <2>4, <3>1 DEF AllowedAt
  <2>5. CASE b = N + i
    <3>1. Slot(b) = i /\ b > 0 /\ ~(b < i) /\ b # i /\ ~(b < N + i)
      BY <2>5, <1>1 DEF Slot
    <3>2. s = "evaluated"
      BY <3>1, <2>5, <1>4 DEF AllowedAt
    <3>3. ~(b + 1 < i) /\ b + 1 # i /\ ~(b + 1 < N + i) /\ b + 1 # N + i
      BY <2>5, <1>1
    <3> QED
      BY <3>2, <3>3 DEF AllowedAt
  <2>6. CASE b > N + i
    <3>1. ~(b < i) /\ b # i /\ ~(b < N + i) /\ b # N + i
      BY <2>6, <1>1
    <3>2. ~(b + 1 < i) /\ b + 1 # i /\ ~(b + 1 < N + i) /\ b + 1 # N + i
      BY <2>6, <1>1
    <3> QED
      BY <3>1, <3>2 DEF AllowedAt
  <2> QED
    BY <2>2, <2>3, <2>4, <2>5, <2>6, <1>1
<1> QED
  BY <1>2, <1>3, <1>4

\* The next call of the schedule begins.
LEMMA WorkBegins ==
  ASSUME Inv, NEW t \in Threads, NEW w \in Working,
         host[t].at \in {"instantiate", "evaluate"},
         host[t].call = Begun + 1,
         w = IF Begun < N THEN "instantiating" ELSE "evaluating",
         lifecycle' = [lifecycle EXCEPT ![ModuleAt(Begun + 1)] = w],
         host' = [host EXCEPT ![t].at = w],
         log' = Append(log, Schedule(finalization)[Begun + 1]),
         UNCHANGED <<finalization, session, error>>
  PROVE  Inv'
<1> DEFINE m == ModuleAt(Begun + 1)
<1>1. Settled /\ session = "available"
  BY DEF Inv, ThreadsFollowLog, FollowsLog, Running
<1>2. Begun + 1 \in 1 .. 2 * N /\ Begun \in Nat /\ N \in Nat \ {0} /\ N' = N
  BY StateFacts DEF Inv, TypeOK, N
<1>3. Schedule(finalization)[Begun + 1] \in Calls /\ m \in Modules
      /\ Schedule(finalization) \in Seq(Calls) /\ Len(Schedule(finalization)) = 2 * N
  BY <1>2, StateFacts DEF Inv
<1>4. Begun' = Begun + 1 /\ log' \in Seq(Calls)
      /\ log'[Begun + 1] = Schedule(finalization)[Begun + 1]
      /\ \A k \in 1 .. Begun : log'[k] = log[k]
  BY <1>3 DEF Begun, Inv, TypeOK
<1>5. \A k : ModuleAt(k)' = ModuleAt(k)
  BY DEF ModuleAt, Slot, N
<1>6. lifecycle' \in [Modules -> LifecycleStates] /\ lifecycle'[m] = w
      /\ \A n \in Modules \ {m} : lifecycle'[n] = lifecycle[n]
  BY <1>3 DEF Inv, TypeOK, LifecycleStates, Working
<1>7. host' \in [Threads -> HostRecords] /\ host'[t].at = w /\ host'[t].call = host[t].call
      /\ \A u \in Threads \ {t} : host'[u] = host[u]
  BY DEF Inv, TypeOK, HostRecords, Running
<1>8. TypeOK'
  BY <1>4, <1>6, <1>7 DEF Inv, TypeOK, HostRecords, Length
<1>9. LogIsPrefix'
  <2>1. ASSUME NEW k \in 1 .. Begun + 1 PROVE log'[k] = Schedule(finalization)[k]
    <3>1. k = Begun + 1 \/ k \in 1 .. Begun
      BY <1>2
    <3> QED
      BY <3>1, <1>4 DEF Inv, LogIsPrefix
  <2>2. finalization' = finalization
    OBVIOUS
  <2>3. Begun' <= 2 * N'
    BY <1>2, <1>4
  <2>4. \A k \in 1 .. Begun' : log'[k] = Schedule(finalization')[k]
    BY <2>1, <2>2, <1>4
  <2> QED
    BY <2>3, <2>4 DEF LogIsPrefix
<1>10. StatesFollowLog'
  <2>1. ASSUME NEW i \in 1 .. N, i # Slot(Begun + 1)
        PROVE  lifecycle'[finalization.order[i]] = lifecycle[finalization.order[i]]
    <3>1. Slot(Begun + 1) \in 1 .. N /\ finalization.order[i] # m
      BY <2>1, <1>2, StateFacts DEF Inv, ModuleAt
    <3>2. finalization.order[i] \in Modules
      BY ScheduleFacts DEF Inv, TypeOK, N
    <3> QED
      BY <3>1, <3>2, <1>6
  <2>2. ASSUME NEW i \in 1 .. N, i = Slot(Begun + 1)
        PROVE  lifecycle'[finalization.order[i]] \in AllowedAt(Begun + 1, i)
    <3>1. lifecycle'[finalization.order[i]] = w
      BY <2>2, <1>6 DEF ModuleAt
    <3> QED
      BY <3>1, <2>2, <1>2, AllowedMoves
  <2>3. ASSUME NEW i \in 1 .. N, i # Slot(Begun + 1)
        PROVE  lifecycle'[finalization.order[i]] \in AllowedAt(Begun + 1, i)
    <3>1. lifecycle[finalization.order[i]] \in AllowedAt(Begun, i)
      BY DEF Inv, StatesFollowLog
    <3>2. Begun > 0 /\ i = Slot(Begun) => lifecycle[finalization.order[i]] \in {"instantiated", "evaluated"}
      BY <1>1 DEF Settled, ModuleAt
    <3>3. Begun < 2 * N
      BY <1>2
    <3>4. lifecycle[finalization.order[i]] \in AllowedAt(Begun + 1, i)
      BY <3>1, <3>2, <3>3, <2>3, <1>2, AllowedMoves
    <3> QED
      BY <3>4, <2>1, <2>3
  <2>4. \A n \in Modules \ Grouped(finalization) : lifecycle'[n] = "uninstantiated"
    BY <1>2, <1>6, StateFacts DEF Inv, StatesFollowLog
  <2> QED
    BY <2>2, <2>3, <2>4, <1>2, <1>4 DEF StatesFollowLog, AllowedAt
<1>11. ThreadsFollowLog'
  <2>1. FollowsLog(host[t])'
    BY <1>1, <1>2, <1>4, <1>5, <1>6, <1>7 DEF FollowsLog, Working, Running
  <2>2. ASSUME NEW u \in Threads \ {t} PROVE FollowsLog(host[u])'
    <3>1. host'[u] = host[u] /\ host[u].at \notin Working
      BY <1>1, <1>7, SettledIsQuiet
    <3>2. FollowsLog(host[u]) /\ host[u].call \in Nat
      BY StateFacts DEF Inv, ThreadsFollowLog, TypeOK
    <3>3. host[u].at # "ok" /\ ~(host[u].at = "failed" /\ host[u].result # Reentrancy)
      BY <3>2, <1>1, <1>2 DEF FollowsLog, Settled
    <3> QED
      BY <3>1, <3>2, <3>3, <1>2, <1>4, <1>5 DEF FollowsLog, Working, Running
  <2> QED
    BY <2>1, <2>2 DEF ThreadsFollowLog
<1>12. OneWorker' /\ WorkHasAWorker'
  BY <1>1, <1>7, SettledIsQuiet DEF OneWorker, WorkHasAWorker
<1>13. ErroredHaveErrors' /\ HooksNeedAvailability'
  BY <1>1, <1>6 DEF Inv, ErroredHaveErrors, HooksNeedAvailability, Working
<1> QED
  BY <1>8, <1>9, <1>10, <1>11, <1>12, <1>13 DEF Inv

\* The last call begun ends, well or not: its module gets the state s, and the
\* thread the record h.
LEMMA WorkEnds ==
  ASSUME Inv, NEW t \in Threads, host[t].at \in Working,
         NEW s \in LifecycleStates,
         s \in {"errored", IF Begun <= N THEN "instantiated" ELSE "evaluated"},
         lifecycle' = [lifecycle EXCEPT ![ModuleAt(Begun)] = s],
         error' \in [Modules -> Errors \cup {NoError}],
         ErroredHaveErrors',
         NEW h \in HostRecords, h.at \notin Working, FollowsLog(h)',
         host' = [host EXCEPT ![t] = h],
         UNCHANGED <<finalization, session, log>>
  PROVE  Inv'
<1> DEFINE m == ModuleAt(Begun)
<1>1. Begun \in 1 .. 2 * N /\ lifecycle[m] = host[t].at /\ ~Settled
  BY WorkerIsLast
<1>2. N \in Nat \ {0} /\ m \in Modules /\ N' = N /\ Begun' = Begun /\ \A k : ModuleAt(k)' = ModuleAt(k)
  BY <1>1, StateFacts DEF Inv, N, Begun, ModuleAt, Slot
<1>3. lifecycle' \in [Modules -> LifecycleStates] /\ lifecycle'[m] = s
      /\ \A n \in Modules \ {m} : lifecycle'[n] = lifecycle[n]
  BY <1>2 DEF Inv, TypeOK
<1>4. host'[t] = h /\ \A u \in Threads \ {t} : host'[u] = host[u] /\ host[u].at \notin Working
  BY DEF Inv, TypeOK, OneWorker
<1>5. TypeOK'
  BY <1>3 DEF Inv, TypeOK, HostRecords, Length
<1>6. LogIsPrefix' /\ HooksNeedAvailability'
  BY <1>2 DEF Inv, LogIsPrefix, HooksNeedAvailability, Begun
<1>7. StatesFollowLog'
  <2>1. ASSUME NEW i \in 1 .. N, i = Slot(Begun)
        PROVE  lifecycle'[finalization.order[i]] \in AllowedAt(Begun, i)
    <3>1. lifecycle'[finalization.order[i]] = s
      BY <2>1, <1>3 DEF ModuleAt
    <3>2. CASE Begun <= N
      <4>1. Begun = i
        BY <2>1, <3>2 DEF Slot
      <4> QED
        BY <4>1, <3>1, <3>2, <1>1, <1>2 DEF AllowedAt
    <3>3. CASE Begun > N
      <4>1. Begun = N + i /\ ~(Begun < i) /\ Begun # i /\ ~(Begun < N + i)
        BY <2>1, <3>3, <1>1, <1>2 DEF Slot
      <4>2. s \in {"errored", "evaluated"}
        BY <3>3, <1>1, <1>2
      <4> QED
        BY <4>1, <4>2, <3>1 DEF AllowedAt
    <3> QED
      BY <3>2, <3>3, <1>1, <1>2
  <2>2. ASSUME NEW i \in 1 .. N, i # Slot(Begun)
        PROVE  lifecycle'[finalization.order[i]] \in AllowedAt(Begun, i)
    <3>1. finalization.order[i] # m /\ finalization.order[i] \in Modules
      BY <2>2, <1>1, StateFacts, ScheduleFacts DEF Inv, TypeOK, ModuleAt, N
    <3> QED
      BY <3>1, <1>3 DEF Inv, StatesFollowLog
  <2>3. \A n \in Modules \ Grouped(finalization) : lifecycle'[n] = "uninstantiated"
    BY <1>1, <1>3, StateFacts DEF Inv, StatesFollowLog
  <2> QED
    BY <2>1, <2>2, <2>3, <1>2 DEF StatesFollowLog, AllowedAt
<1>8. ASSUME NEW u \in Threads \ {t} PROVE FollowsLog(host[u])'
  <2>1. FollowsLog(host[u]) /\ host'[u] = host[u] /\ host[u].at \notin Working
    BY <1>4 DEF Inv, ThreadsFollowLog
  <2>2. host[u].at \in Running => host[u].call # Begun + 1
    BY <2>1, <1>1 DEF FollowsLog
  <2>3. host[u].at # "ok" /\ ~(host[u].at = "failed" /\ host[u].result # Reentrancy)
    BY <2>1, <1>1 DEF FollowsLog, Settled, Working
  <2> QED
    BY <2>1, <2>2, <2>3, <1>2 DEF FollowsLog, Working
<1>9. ThreadsFollowLog'
  BY <1>4, <1>8 DEF ThreadsFollowLog
<1>10. OneWorker' /\ WorkHasAWorker'
  BY <1>2, <1>3, <1>4 DEF OneWorker, WorkHasAWorker, Working
<1> QED
  BY <1>5, <1>6, <1>7, <1>9, <1>10 DEF Inv

-----------------------------------------------------------------------------
\* The record of a thread whose hook returned Ok(()).
AdvancedRecord(h) ==
  IF h.call = 2 * N
  THEN [at |-> "ok", call |-> h.call, result |-> h.result, runs |-> h.runs]
  ELSE [at |-> "instantiate", call |-> h.call + 1, result |-> h.result, runs |-> h.runs]

\* A record of a thread with two of its fields replaced.
LEMMA TwoFields ==
  ASSUME NEW h \in HostRecords, NEW x, NEW y
  PROVE  [h EXCEPT !.at = x, !.call = y] = [at |-> x, call |-> y, result |-> h.result, runs |-> h.runs]
<1> DEFINE g == [at |-> x, call |-> h.call, result |-> h.result, runs |-> h.runs]
<1>1. [h EXCEPT !.at = x] = g
  BY DEF HostRecords
<1>2. [h EXCEPT !.at = x, !.call = y] = [g EXCEPT !.call = y]
  BY <1>1
<1>3. [g EXCEPT !.call = y] = [at |-> x, call |-> y, result |-> h.result, runs |-> h.runs]
  OBVIOUS
<1> QED
  BY <1>2, <1>3

\* What Advanced gives the thread.
LEMMA AdvancedIsRecord ==
  ASSUME TypeOK, NEW t \in Threads
  PROVE  /\ Advanced(t) = [host EXCEPT ![t] = AdvancedRecord(host[t])]
         /\ AdvancedRecord(host[t]) \in HostRecords
         /\ AdvancedRecord(host[t]).at \in {"ok", "instantiate"}
<1>1. N \in Nat \ {0} /\ Length = 2 * N
  BY StateFacts
<1>2. host[t] \in HostRecords /\ host[t].call \in 1 .. 2 * N
  BY <1>1 DEF TypeOK, HostRecords
<1>3. host[t] = [at |-> host[t].at, call |-> host[t].call, result |-> host[t].result, runs |-> host[t].runs]
  BY <1>2 DEF HostRecords
<1>4. Advanced(t) = [host EXCEPT ![t] = AdvancedRecord(host[t])]
  <2>1. CASE host[t].call = 2 * N
    <3>1. [host[t] EXCEPT !.at = "ok"]
          = [at |-> "ok", call |-> host[t].call, result |-> host[t].result, runs |-> host[t].runs]
      BY <1>2 DEF HostRecords
    <3> QED
      BY <2>1, <3>1, <1>1 DEF Advanced, AdvancedRecord
  <2>2. CASE host[t].call # 2 * N
    <3>1. [host[t] EXCEPT !.at = "instantiate", !.call = host[t].call + 1]
          = [at |-> "instantiate", call |-> host[t].call + 1, result |-> host[t].result, runs |-> host[t].runs]
      BY <1>2, TwoFields
    <3> QED
      BY <2>2, <3>1, <1>1 DEF Advanced, AdvancedRecord
  <2> QED
    BY <2>1, <2>2
<1> QED
  BY <1>1, <1>2, <1>4 DEF AdvancedRecord, HostRecords, Running

\* The record of a thread whose bootstrap ended with the error e.
FailedRecord(h, e) == [at |-> "failed", call |-> h.call, result |-> e, runs |-> h.runs]

\* What a failed hook gives the thread.
LEMMA FailedIsRecord ==
  ASSUME TypeOK, NEW t \in Threads, NEW e
  PROVE  [host[t] EXCEPT !.at = "failed", !.result = e] = FailedRecord(host[t], e)
<1> DEFINE g == [at |-> "failed", call |-> host[t].call, result |-> host[t].result, runs |-> host[t].runs]
<1>1. host[t] \in HostRecords
  BY DEF TypeOK, HostRecords
<1>2. [host[t] EXCEPT !.at = "failed"] = g
  BY <1>1 DEF HostRecords
<1>3. [host[t] EXCEPT !.at = "failed", !.result = e] = [g EXCEPT !.result = e]
  BY <1>2
<1>4. [g EXCEPT !.result = e] = FailedRecord(host[t], e)
  BY DEF FailedRecord
<1> QED
  BY <1>3, <1>4

\* What a thread knows of the call it makes.
LEMMA CallFacts ==
  ASSUME Inv, NEW t \in Threads
  PROVE  /\ host[t].call \in 1 .. 2 * N
         /\ Call(t).module = ModuleAt(host[t].call)
         /\ Call(t).phase = PhaseAt(host[t].call)
         /\ ModuleAt(host[t].call) \in Modules
         /\ Slot(host[t].call) \in 1 .. N
         /\ lifecycle[ModuleAt(host[t].call)] \in AllowedAt(Begun, Slot(host[t].call))
<1>1. host[t].call \in 1 .. 2 * N
  BY StateFacts DEF Inv, TypeOK
<1>2. Slot(host[t].call) \in 1 .. N /\ ModuleAt(host[t].call) \in Modules
      /\ Schedule(finalization)[host[t].call]
         = [phase |-> PhaseAt(host[t].call), module |-> ModuleAt(host[t].call)]
  BY <1>1, StateFacts DEF Inv
<1>3. lifecycle[ModuleAt(host[t].call)] \in AllowedAt(Begun, Slot(host[t].call))
  BY <1>2 DEF Inv, StatesFollowLog, ModuleAt
<1> QED
  BY <1>1, <1>2, <1>3 DEF Call

\* A call that is done has begun, and the log is settled if it was the last to.
LEMMA DoneIsBehind ==
  ASSUME Inv, NEW t \in Threads,
         lifecycle[Call(t).module] \in
           (IF host[t].call <= N THEN {"instantiated", "evaluated"} ELSE {"evaluated"})
  PROVE  host[t].call < Begun \/ (host[t].call = Begun /\ Settled)
<1> DEFINE k == host[t].call
<1>1. k \in 1 .. 2 * N /\ N \in Nat \ {0} /\ Begun \in Nat
  BY CallFacts, StateFacts DEF Inv
<1>2. lifecycle[ModuleAt(k)] \in AllowedAt(Begun, Slot(k)) /\ Call(t).module = ModuleAt(k)
  BY CallFacts
<1>3. k <= Begun
  <2>1. CASE k <= N
    BY <2>1, <1>1, <1>2 DEF AllowedAt, Slot
  <2>2. CASE k > N
    <3>1. Slot(k) = k - N
      BY <2>2, <1>1 DEF Slot
    <3>2. "evaluated" \in AllowedAt(Begun, k - N)
      BY <3>1, <2>2, <1>1, <1>2
    <3> QED
      BY <3>2, <2>2, <1>1 DEF AllowedAt
  <2> QED
    BY <2>1, <2>2, <1>1
<1>4. k = Begun => Settled
  BY <1>2 DEF Settled
<1> QED
  BY <1>1, <1>3, <1>4

\* A call that may begin is the next one.
LEMMA ReadyIsNext ==
  ASSUME Inv, NEW t \in Threads, host[t].at \in Running,
         \/ lifecycle[Call(t).module] = "uninstantiated"
         \/ host[t].call > N /\ lifecycle[Call(t).module] = "instantiated"
  PROVE  /\ host[t].call = Begun + 1
         /\ lifecycle[Call(t).module] = "uninstantiated" => Begun < N
<1> DEFINE k == host[t].call
<1>1. k \in 1 .. 2 * N /\ N \in Nat \ {0} /\ Begun \in Nat
  BY CallFacts, StateFacts DEF Inv
<1>2. lifecycle[ModuleAt(k)] \in AllowedAt(Begun, Slot(k)) /\ Call(t).module = ModuleAt(k)
  BY CallFacts
<1>3. k <= Begun + 1
  BY DEF Inv, ThreadsFollowLog, FollowsLog
<1>4. CASE lifecycle[ModuleAt(k)] = "uninstantiated"
  <2>1. Begun < Slot(k)
    BY <1>1, <1>2, <1>4 DEF AllowedAt
  <2> QED
    BY <2>1, <1>1, <1>2, <1>3 DEF Slot
<1>5. CASE k > N /\ lifecycle[ModuleAt(k)] = "instantiated"
  <2>1. Slot(k) = k - N
    BY <1>1, <1>5 DEF Slot
  <2>2. "instantiated" \in AllowedAt(Begun, k - N)
    BY <2>1, <1>2, <1>5
  <2>3. Begun < k
    BY <2>2, <1>1 DEF AllowedAt
  <2> QED
    BY <2>3, <1>1, <1>2, <1>3, <1>5
<1> QED
  BY <1>2, <1>4, <1>5

\* An errored module is the module of the last call begun.
LEMMA ErroredIsLast ==
  ASSUME Inv, NEW m \in Modules, lifecycle[m] = "errored"
  PROVE  Begun > 0 /\ m = ModuleAt(Begun) /\ Begun \in 1 .. 2 * N
<1>1. N \in Nat \ {0} /\ Begun \in Nat
  BY StateFacts DEF Inv
<1>2. PICK i \in 1 .. N : m = finalization.order[i]
  BY DEF Inv, StatesFollowLog, Grouped, Places, N
<1>3. "errored" \in AllowedAt(Begun, i)
  BY <1>2 DEF Inv, StatesFollowLog
<1>4. Begun = i \/ Begun = N + i
  BY <1>1, <1>3 DEF AllowedAt
<1> QED
  BY <1>1, <1>2, <1>4 DEF ModuleAt, Slot

-----------------------------------------------------------------------------
\* Every action preserves the invariant.

\* The end of the compilation preserves the invariant.
LEMMA FinalizeInv == Inv /\ Finalize => Inv'
<1> SUFFICES ASSUME Inv, Finalize PROVE Inv'
  OBVIOUS
<1>1. TypeOK'
  BY DEF Inv, TypeOK, Finalize, Length
<1>2. \A t \in Threads : host[t].at = "idle"
  BY DEF Inv, ThreadsFollowLog, FollowsLog, Finalize
<1>3. LogIsPrefix' /\ StatesFollowLog' /\ ErroredHaveErrors'
  BY DEF Inv, Finalize, LogIsPrefix, StatesFollowLog, AllowedAt, ErroredHaveErrors, Begun, N
<1>4. ThreadsFollowLog' /\ OneWorker'
  BY <1>2 DEF Finalize, ThreadsFollowLog, FollowsLog, OneWorker, Running, Working
<1>5. WorkHasAWorker'
  BY DEF Inv, Finalize, WorkHasAWorker, Begun, N, ModuleAt, Slot
<1>6. HooksNeedAvailability'
  BY DEF Inv, Finalize, HooksNeedAvailability
<1> QED
  BY <1>1, <1>3, <1>4, <1>5, <1>6 DEF Inv

\* The start of a bootstrap preserves it.
LEMMA BootstrapInv ==
  ASSUME Inv, NEW t \in Threads, Bootstrap(t)
  PROVE  Inv'
<1> DEFINE h == [at |-> "instantiate", call |-> 1, result |-> NoError, runs |-> host[t].runs + 1]
<1>1. N \in Nat \ {0} /\ Length = 2 * N /\ Begun \in Nat
  BY StateFacts DEF Inv
<1>2. h \in HostRecords
  BY <1>1 DEF Inv, TypeOK, HostRecords, Running, Bootstrap
<1>3. FollowsLog(h)
  BY <1>1 DEF Bootstrap, FollowsLog, Settled, Running, Working
<1>4. /\ host' = [host EXCEPT ![t] = h]
      /\ UNCHANGED <<finalization, session, lifecycle, error, log>>
      /\ host[t].at \notin Working /\ h.at \notin Working
  BY DEF Bootstrap, Running, Working
<1> QED
  BY <1>2, <1>3, <1>4, HostMoves

\* A hook that returned an error before it began to work.
LEMMA StopInv ==
  ASSUME Inv, NEW t \in Threads, host[t].at \in {"instantiate", "evaluate"},
         NEW r, r = Reentrancy \/ (r = error[Call(t).module] /\ lifecycle[Call(t).module] = "errored"),
         Stop(t, r), UNCHANGED <<finalization, session>>
  PROVE  Inv'
<1> DEFINE h == [at |-> "failed", call |-> host[t].call, result |-> r, runs |-> host[t].runs]
<1>1. host[t] \in HostRecords
  BY DEF Inv, TypeOK, HostRecords
<1>2. r = Reentrancy \/ (r \in Errors /\ Begun > 0 /\ lifecycle[ModuleAt(Begun)] = "errored"
                         /\ r = error[ModuleAt(Begun)])
  BY CallFacts, ErroredIsLast DEF Inv, ErroredHaveErrors
<1>3. h \in HostRecords
  BY <1>1, <1>2 DEF HostRecords
<1>4. FollowsLog(host[t])
  BY DEF Inv, ThreadsFollowLog
<1>5. FollowsLog(h)
  BY <1>2, <1>4 DEF FollowsLog, Running, Working
<1>6. /\ host' = [host EXCEPT ![t] = h]
      /\ UNCHANGED <<lifecycle, error, log>>
  <2>1. [host[t] EXCEPT !.at = "failed", !.result = r] = h
    BY FailedIsRecord DEF Inv, FailedRecord
  <2> QED
    BY <2>1 DEF Stop
<1>7. host[t].at \notin Working /\ h.at \notin Working
  BY DEF Working
<1> QED
  BY <1>3, <1>5, <1>6, <1>7, HostMoves

\* A hook that returned Ok(()) before it began to work.
LEMMA CachedInv ==
  ASSUME Inv, NEW t \in Threads, host[t].at \in {"instantiate", "evaluate"},
         lifecycle[Call(t).module] \in
           (IF host[t].call <= N THEN {"instantiated", "evaluated"} ELSE {"evaluated"}),
         host' = Advanced(t), UNCHANGED <<finalization, session, lifecycle, error, log>>
  PROVE  Inv'
<1> DEFINE h == AdvancedRecord(host[t])
<1>1. host' = [host EXCEPT ![t] = h] /\ h \in HostRecords /\ h.at \in {"ok", "instantiate"}
  BY AdvancedIsRecord DEF Inv
<1>2. host[t].call < Begun \/ (host[t].call = Begun /\ Settled)
  BY DoneIsBehind
<1>3. FollowsLog(host[t]) /\ Begun <= 2 * N /\ Begun \in Nat /\ N \in Nat \ {0} /\ host[t].call \in 1 .. 2 * N
  BY CallFacts, StateFacts DEF Inv, ThreadsFollowLog, LogIsPrefix
<1>4. session = "available"
  BY <1>3 DEF FollowsLog
<1>5. FollowsLog(h)
  <2>1. CASE host[t].call = 2 * N
    BY <2>1, <1>2, <1>3, <1>4 DEF AdvancedRecord, FollowsLog, Running, Working
  <2>2. CASE host[t].call # 2 * N
    <3>1. host[t].call + 1 <= Begun + 1 /\ (host[t].call + 1 = Begun + 1 => Settled)
      BY <1>2, <1>3
    <3> QED
      BY <2>2, <3>1, <1>4 DEF AdvancedRecord, FollowsLog, Running, Working
  <2> QED
    BY <2>1, <2>2
<1> QED
  BY <1>1, <1>5, HostMoves DEF Working

\* The section an instantiate hook starts with preserves the invariant.
LEMMA EnterInstantiateInv ==
  ASSUME Inv, NEW t \in Threads, EnterInstantiate(t)
  PROVE  Inv'
<1> DEFINE m == Call(t).module
<1>1. host[t].at = "instantiate" /\ UNCHANGED <<finalization, session>>
  BY DEF EnterInstantiate, Enter
<1>2. host[t].call \in 1 .. 2 * N /\ N \in Nat \ {0} /\ Begun \in Nat /\ m = ModuleAt(host[t].call)
  BY CallFacts, StateFacts DEF Inv
<1>3. CASE lifecycle[m] \in {"instantiated", "evaluated"} /\ host' = Instantiated(t)
           /\ UNCHANGED <<lifecycle, error, log>>
  <2>1. CASE host[t].call <= N
    <3>1. host' = Advanced(t)
      BY <1>2, <1>3, <2>1, CallFacts DEF Instantiated, PhaseAt
    <3> QED
      BY <1>1, <1>3, <2>1, <3>1, CachedInv
  <2>2. CASE host[t].call > N
    <3> DEFINE h == [at |-> "evaluate", call |-> host[t].call, result |-> host[t].result, runs |-> host[t].runs]
    <3>1. host[t] \in HostRecords
      BY DEF Inv, TypeOK, HostRecords
    <3>2. h \in HostRecords /\ h.at \notin Working
      BY <3>1 DEF HostRecords, Running, Working
    <3>3. [host[t] EXCEPT !.at = "evaluate"] = h
      BY <3>1 DEF HostRecords
    <3>4. Call(t).phase = "evaluate"
      BY <1>2, <2>2, CallFacts DEF PhaseAt
    <3>5. Instantiated(t) = [host EXCEPT ![t] = h]
      BY <3>3, <3>4 DEF Instantiated
    <3>6. FollowsLog(host[t])
      BY DEF Inv, ThreadsFollowLog
    <3>7. FollowsLog(h)
      BY <1>1, <2>2, <3>6 DEF FollowsLog, Running, Working
    <3> QED
      BY <1>1, <1>3, <3>2, <3>5, <3>7, HostMoves DEF Working
  <2> QED
    BY <2>1, <2>2, <1>2
<1>4. CASE Stop(t, Reentrancy)
  BY <1>1, <1>4, StopInv
<1>5. CASE lifecycle[m] = "errored" /\ Stop(t, error[m])
  BY <1>1, <1>5, StopInv
<1>6. CASE /\ lifecycle[m] = "uninstantiated"
           /\ lifecycle' = [lifecycle EXCEPT ![m] = "instantiating"]
           /\ host' = [host EXCEPT ![t].at = "instantiating"]
           /\ log' = Append(log, [phase |-> "instantiate", module |-> m])
           /\ error' = error
  <2>1. host[t].call = Begun + 1 /\ Begun < N
    BY <1>1, <1>6, ReadyIsNext DEF Running
  <2>2. Schedule(finalization)[Begun + 1] = [phase |-> "instantiate", module |-> m]
    BY <1>2, <2>1, StateFacts DEF Inv, PhaseAt
  <2> QED
    BY <1>1, <1>2, <1>6, <2>1, <2>2, WorkBegins DEF Working
<1> QED
  BY <1>3, <1>4, <1>5, <1>6 DEF EnterInstantiate, Enter

\* The section an evaluate hook starts with preserves it.
LEMMA EnterEvaluateInv ==
  ASSUME Inv, NEW t \in Threads, EnterEvaluate(t)
  PROVE  Inv'
<1> DEFINE m == Call(t).module
<1>1. host[t].at = "evaluate" /\ UNCHANGED <<finalization, session>>
  BY DEF EnterEvaluate, Enter
<1>2. host[t].call \in 1 .. 2 * N /\ N \in Nat \ {0} /\ Begun \in Nat /\ m = ModuleAt(host[t].call)
  BY CallFacts, StateFacts DEF Inv
<1>3. host[t].call > N
  BY <1>1 DEF Inv, ThreadsFollowLog, FollowsLog
<1>4. CASE lifecycle[m] = "evaluated" /\ host' = Advanced(t) /\ UNCHANGED <<lifecycle, error, log>>
  BY <1>1, <1>2, <1>3, <1>4, CachedInv
<1>5. CASE Stop(t, Reentrancy)
  BY <1>1, <1>5, StopInv
<1>6. CASE lifecycle[m] = "errored" /\ Stop(t, error[m])
  BY <1>1, <1>6, StopInv
<1>7. CASE /\ lifecycle[m] \in {"uninstantiated", "instantiated"}
           /\ lifecycle' = [lifecycle EXCEPT ![m] = "evaluating"]
           /\ host' = [host EXCEPT ![t].at = "evaluating"]
           /\ log' = Append(log, [phase |-> "evaluate", module |-> m])
           /\ error' = error
  <2>1. host[t].call = Begun + 1 /\ (lifecycle[m] = "uninstantiated" => Begun < N)
    BY <1>1, <1>3, <1>7, ReadyIsNext DEF Running
  <2>2. ~(Begun < N)
    BY <1>2, <1>3, <2>1
  <2>3. Schedule(finalization)[Begun + 1] = [phase |-> "evaluate", module |-> m]
    BY <1>2, <1>3, <2>1, StateFacts DEF Inv, PhaseAt
  <2> QED
    BY <1>1, <1>2, <1>7, <2>1, <2>2, <2>3, WorkBegins DEF Working
<1> QED
  BY <1>4, <1>5, <1>6, <1>7 DEF EnterEvaluate, Enter

\* The work of a call ends without an error.
LEMMA SucceededInv ==
  ASSUME Inv, NEW t \in Threads, host[t].at \in Working,
         NEW s, s = IF Begun <= N THEN "instantiated" ELSE "evaluated",
         lifecycle' = [lifecycle EXCEPT ![ModuleAt(Begun)] = s],
         host' = Advanced(t),
         UNCHANGED <<finalization, session, error, log>>
  PROVE  Inv'
<1>1. Begun \in 1 .. 2 * N /\ host[t].call = Begun
  BY WorkerIsLast
<1>2. N \in Nat \ {0} /\ ModuleAt(Begun) \in Modules /\ N' = N /\ Begun' = Begun
      /\ \A k : ModuleAt(k)' = ModuleAt(k)
  BY <1>1, StateFacts DEF Inv, N, Begun, ModuleAt, Slot
<1>3. PICK h \in HostRecords :
        h = AdvancedRecord(host[t]) /\ h.at \in {"ok", "instantiate"} /\ host' = [host EXCEPT ![t] = h]
  BY AdvancedIsRecord DEF Inv
<1>4. s \in LifecycleStates /\ s \in {"instantiated", "evaluated"}
  BY DEF LifecycleStates
<1>5. lifecycle'[ModuleAt(Begun)] = s /\ \A n \in Modules : lifecycle'[n] \in {lifecycle[n], s}
  BY <1>2 DEF Inv, TypeOK
<1>6. Settled'
  BY <1>2, <1>4, <1>5 DEF Settled
<1>7. session' = "available"
  BY DEF Inv, ThreadsFollowLog, FollowsLog, Working
<1>8. IF Begun = 2 * N THEN h.at = "ok" ELSE h.at = "instantiate" /\ h.call = Begun + 1
  BY <1>1, <1>3 DEF AdvancedRecord
<1>9. FollowsLog(h)'
  BY <1>1, <1>2, <1>6, <1>7, <1>8 DEF FollowsLog, Running, Working
<1>10. ErroredHaveErrors'
  BY <1>4, <1>5 DEF Inv, ErroredHaveErrors
<1>11. error' \in [Modules -> Errors \cup {NoError}]
  BY DEF Inv, TypeOK
<1>12. h.at \notin Working
  BY <1>3 DEF Working
<1> QED
  BY <1>3, <1>4, <1>9, <1>10, <1>11, <1>12, WorkEnds

\* The work of a call fails with the error e.
LEMMA FailedInv ==
  ASSUME Inv, NEW t \in Threads, host[t].at \in Working, NEW e \in Errors,
         lifecycle' = [lifecycle EXCEPT ![ModuleAt(Begun)] = "errored"],
         error' = [error EXCEPT ![ModuleAt(Begun)] = e],
         host' = [host EXCEPT ![t] = [host[t] EXCEPT !.at = "failed", !.result = e]],
         UNCHANGED <<finalization, session, log>>
  PROVE  Inv'
<1>1. Begun \in 1 .. 2 * N /\ host[t].call = Begun
  BY WorkerIsLast
<1>2. N \in Nat \ {0} /\ ModuleAt(Begun) \in Modules /\ N' = N /\ Begun' = Begun
      /\ \A k : ModuleAt(k)' = ModuleAt(k)
  BY <1>1, StateFacts DEF Inv, N, Begun, ModuleAt, Slot
<1>3. host[t] \in HostRecords
  BY DEF Inv, TypeOK, HostRecords
<1>4. FailedRecord(host[t], e) \in HostRecords
  BY <1>3 DEF HostRecords, FailedRecord
<1>5. host' = [host EXCEPT ![t] = FailedRecord(host[t], e)]
  BY FailedIsRecord DEF Inv
<1>6. PICK h \in HostRecords : h = FailedRecord(host[t], e) /\ host' = [host EXCEPT ![t] = h]
  BY <1>4, <1>5
<1>7. h.at = "failed" /\ h.result = e
  BY <1>6 DEF FailedRecord
<1>8. lifecycle'[ModuleAt(Begun)] = "errored" /\ error'[ModuleAt(Begun)] = e
      /\ error' \in [Modules -> Errors \cup {NoError}]
  BY <1>2 DEF Inv, TypeOK
<1>9. ErroredHaveErrors'
  BY <1>2 DEF Inv, TypeOK, ErroredHaveErrors
<1>10. session' = "available"
  BY DEF Inv, ThreadsFollowLog, FollowsLog, Working
<1>11. FollowsLog(h)'
  BY <1>1, <1>2, <1>7, <1>8, <1>10 DEF FollowsLog, Running, Working
<1>12. h.at \notin Working /\ "errored" \in LifecycleStates
  BY <1>7 DEF Working, LifecycleStates
<1> QED
  BY <1>6, <1>8, <1>9, <1>11, <1>12, WorkEnds

\* What a thread that completes its work knows.
LEMMA WorkerCall ==
  ASSUME Inv, NEW t \in Threads, host[t].at \in Working
  PROVE  Call(t).module = ModuleAt(Begun) /\ Call(t).phase = PhaseAt(Begun)
BY WorkerIsLast, CallFacts

\* The section an instantiate hook ends with preserves the invariant.
LEMMA CompleteInstantiateInv ==
  ASSUME Inv, NEW t \in Threads, CompleteInstantiate(t)
  PROVE  Inv'
<1>1. host[t].at = "instantiating" /\ host[t].at \in Working /\ UNCHANGED <<finalization, session>>
  BY DEF CompleteInstantiate, Complete, Working
<1>2. Begun <= N /\ Call(t).module = ModuleAt(Begun) /\ Call(t).phase = "instantiate"
  BY <1>1, WorkerIsLast, WorkerCall DEF PhaseAt
<1>3. Instantiated(t) = Advanced(t)
  BY <1>2 DEF Instantiated
<1>4. CASE /\ lifecycle' = [lifecycle EXCEPT ![Call(t).module] = "instantiated"]
           /\ host' = Instantiated(t)
           /\ UNCHANGED <<error, log>>
  BY <1>1, <1>2, <1>3, <1>4, SucceededInv
<1>5. ASSUME NEW e \in Errors, log' = log,
             lifecycle' = [lifecycle EXCEPT ![Call(t).module] = "errored"],
             error' = [error EXCEPT ![Call(t).module] = e],
             host' = [host EXCEPT ![t] = [host[t] EXCEPT !.at = "failed", !.result = e]]
      PROVE  Inv'
  BY <1>1, <1>2, <1>5, FailedInv
<1> QED
  BY <1>4, <1>5 DEF CompleteInstantiate, Complete

\* The section an evaluate hook ends with preserves it.
LEMMA CompleteEvaluateInv ==
  ASSUME Inv, NEW t \in Threads, CompleteEvaluate(t)
  PROVE  Inv'
<1>1. host[t].at = "evaluating" /\ host[t].at \in Working /\ UNCHANGED <<finalization, session>>
  BY DEF CompleteEvaluate, Complete, Working
<1>2. ~(Begun <= N) /\ Call(t).module = ModuleAt(Begun)
  BY <1>1, WorkerIsLast, WorkerCall
<1>3. CASE /\ lifecycle' = [lifecycle EXCEPT ![Call(t).module] = "evaluated"]
           /\ host' = Advanced(t)
           /\ UNCHANGED <<error, log>>
  BY <1>1, <1>2, <1>3, SucceededInv
<1>4. ASSUME NEW e \in Errors, log' = log,
             lifecycle' = [lifecycle EXCEPT ![Call(t).module] = "errored"],
             error' = [error EXCEPT ![Call(t).module] = e],
             host' = [host EXCEPT ![t] = [host[t] EXCEPT !.at = "failed", !.result = e]]
      PROVE  Inv'
  BY <1>1, <1>2, <1>4, FailedInv
<1> QED
  BY <1>3, <1>4 DEF CompleteEvaluate, Complete

\* The invariant is inductive.
LEMMA NextInv == Inv /\ [Next]_vars => Inv'
<1> SUFFICES ASSUME Inv, [Next]_vars PROVE Inv'
  OBVIOUS
<1>1. CASE Finalize
  BY <1>1, FinalizeInv
<1>2. ASSUME NEW t \in Threads, Bootstrap(t) PROVE Inv'
  BY <1>2, BootstrapInv
<1>3. ASSUME NEW t \in Threads, Step(t) PROVE Inv'
  BY <1>3, EnterInstantiateInv, CompleteInstantiateInv, EnterEvaluateInv, CompleteEvaluateInv DEF Step
<1>4. CASE UNCHANGED vars
  BY <1>4 DEF vars, Inv, TypeOK, LogIsPrefix, StatesFollowLog, AllowedAt, ThreadsFollowLog, FollowsLog,
       OneWorker, WorkHasAWorker, ErroredHaveErrors, HooksNeedAvailability, Begun, N, ModuleAt, Slot,
       Settled, Length
<1> QED
  BY <1>1, <1>2, <1>3, <1>4 DEF Next

\* In every reachable state the log, the modules' states and the threads agree as
\* the invariant says: at most one piece of work is being done, and it is the last
\* call begun.
THEOREM WorkFollowsSchedule == Spec => []Inv
<1>1. Init => Inv
  BY InitInv
<1>2. Inv /\ [Next]_vars => Inv'
  BY NextInv
<1> QED
  BY <1>1, <1>2, PTL DEF Spec

\* The variables have their types: no bootstrap runs past the schedule's end.
THEOREM TypeCorrect == Spec => []TypeOK
<1>1. Inv => TypeOK
  BY DEF Inv
<1> QED
  BY <1>1, WorkFollowsSchedule, PTL

-----------------------------------------------------------------------------
\* The properties.

Busy == \E m \in Modules : lifecycle[m] \in Working

\* What the abstract specification sees of a state, by the last call begun.
SeenInLog ==
  /\ Busy <=> Begun > 0 /\ lifecycle[ModuleAt(Begun)] \in Working
  /\ Begun > 0 /\ lifecycle[ModuleAt(Begun)] = "errored" =>
       Failure = error[ModuleAt(Begun)] /\ Failure \in Errors
  /\ ~(Begun > 0 /\ lifecycle[ModuleAt(Begun)] = "errored") => Failure = NoError

\* Only the module of the last call begun may be worked on, or have failed.
LEMMA PromiseFacts == Inv => SeenInLog
<1> SUFFICES ASSUME Inv PROVE SeenInLog
  OBVIOUS
<1>1. N \in Nat \ {0} /\ Begun \in Nat /\ Begun <= 2 * N
  BY StateFacts DEF Inv, LogIsPrefix
<1>2. Begun > 0 => ModuleAt(Begun) \in Modules
  BY <1>1, StateFacts DEF Inv
<1>3. ASSUME NEW m \in Modules, lifecycle[m] \in Working
      PROVE  Begun > 0 /\ m = ModuleAt(Begun)
  <2>1. PICK i \in 1 .. N : m = finalization.order[i]
    BY <1>3 DEF Inv, StatesFollowLog, Grouped, Places, N, Working
  <2>2. lifecycle[m] \in AllowedAt(Begun, i)
    BY <2>1 DEF Inv, StatesFollowLog
  <2>3. Begun = i \/ Begun = N + i
    BY <1>1, <1>3, <2>2 DEF AllowedAt, Working
  <2> QED
    BY <1>1, <2>1, <2>3 DEF ModuleAt, Slot
<1>4. Busy <=> Begun > 0 /\ lifecycle[ModuleAt(Begun)] \in Working
  BY <1>2, <1>3 DEF Busy
<1>5. \A m \in Errored : Begun > 0 /\ m = ModuleAt(Begun)
  BY ErroredIsLast DEF Errored
<1>6. Begun > 0 /\ lifecycle[ModuleAt(Begun)] = "errored" =>
        Failure = error[ModuleAt(Begun)] /\ Failure \in Errors
  <2> SUFFICES ASSUME Begun > 0, lifecycle[ModuleAt(Begun)] = "errored"
               PROVE  Failure = error[ModuleAt(Begun)] /\ Failure \in Errors
    OBVIOUS
  <2>1. ModuleAt(Begun) \in Errored
    BY <1>2 DEF Errored
  <2>2. (CHOOSE m \in Errored : TRUE) = ModuleAt(Begun)
    BY <1>5, <2>1
  <2> QED
    BY <1>2, <2>1, <2>2 DEF Failure, Inv, ErroredHaveErrors
<1>7. ~(Begun > 0 /\ lifecycle[ModuleAt(Begun)] = "errored") => Failure = NoError
  BY <1>5 DEF Failure, Errored
<1> QED
  BY <1>4, <1>6, <1>7 DEF SeenInLog

\* A bootstrap that returned Ok(()) left every module evaluated, and one that
\* returned an error of the work returned the one failure there is.
THEOREM ReturnsCorrect == Spec => []ReturnsAreTrue
<1>1. Inv => ReturnsAreTrue
  <2> SUFFICES ASSUME Inv, NEW t \in Threads
               PROVE  /\ host[t].at = "ok" =>
                           /\ Access("value") = "after-bootstrap"
                           /\ \A m \in Grouped(finalization) : lifecycle[m] = "evaluated"
                      /\ host[t].at = "failed" /\ host[t].result # Reentrancy => host[t].result = Failure
    BY DEF ReturnsAreTrue
  <2>1. FollowsLog(host[t]) /\ N \in Nat \ {0} /\ Begun \in Nat
    BY StateFacts DEF Inv, ThreadsFollowLog
  <2>2. ASSUME host[t].at = "ok", NEW m \in Grouped(finalization) PROVE lifecycle[m] = "evaluated"
    <3>1. Begun = 2 * N /\ Settled
      BY <2>1, <2>2 DEF FollowsLog
    <3>2. PICK i \in 1 .. N : m = finalization.order[i]
      BY DEF Grouped, Places, N
    <3>3. lifecycle[m] \in AllowedAt(Begun, i)
      BY <3>2 DEF Inv, StatesFollowLog
    <3>4. CASE i = N
      <4>1. ModuleAt(Begun) = m
        BY <2>1, <3>1, <3>2, <3>4 DEF ModuleAt, Slot
      <4>2. lifecycle[m] \in {"instantiated", "evaluated"}
        BY <2>1, <3>1, <4>1 DEF Settled
      <4> QED
        BY <2>1, <3>1, <3>3, <3>4, <4>2 DEF AllowedAt
    <3>5. CASE i # N
      <4>1. ~(Begun < i) /\ Begun # i /\ ~(Begun < N + i) /\ Begun # N + i
        BY <2>1, <3>1, <3>5
      <4> QED
        BY <3>3, <4>1 DEF AllowedAt
    <3> QED
      BY <3>4, <3>5
  <2>3. host[t].at = "ok" => Access("value") = "after-bootstrap"
    BY <2>1 DEF FollowsLog, Access
  <2>4. host[t].at = "failed" /\ host[t].result # Reentrancy => host[t].result = Failure
    BY <2>1, PromiseFacts DEF FollowsLog, SeenInLog
  <2> QED
    BY <2>2, <2>3, <2>4
<1> QED
  BY <1>1, WorkFollowsSchedule, PTL

\* An eligible package has no refusal of a cycle or of a step.
LEMMA NothingRefused ==
  ASSUME NEW f \in Finalizations, ExecutionRefusals(f) = {}
  PROVE  IncompleteSubjects(f) = {} /\ GroupRefusals(f) = {} /\ StepRefusals(f) = {}
<1>1. IncompleteSubjects(f) = {}
  BY DEF ExecutionRefusals
<1>2. {r \in EligibilityRefusals(f) : r.code # "entry-invocation-unbound"} = {}
  BY <1>1 DEF ExecutionRefusals
<1>3. ASSUME NEW r \in GroupRefusals(f)
      PROVE  r.code = "cross-crate-cycle-unrepresented"
  <2> DEFINE crossing == {g \in f.cycles : Cardinality({f.package[k] : k \in g}) > 1}
  <2>1. r \in {[code |-> "cross-crate-cycle-unrepresented", subject |-> group] : group \in crossing}
    BY <1>3 DEF GroupRefusals
  <2> HIDE DEF crossing
  <2> QED
    BY <2>1
<1>4. ASSUME NEW r \in StepRefusals(f)
      PROVE  r.code = "step-unrepresented"
  <2> DEFINE unrepresented ==
        {n \in Planned(f) : \E step \in f.steps[n] :
           step = {} \/ step \ {"primitive-constant", "private-scalar-state"} # {}}
  <2>1. r \in {[code |-> "step-unrepresented", subject |-> {m}] : m \in unrepresented}
    BY <1>4 DEF StepRefusals
  <2> HIDE DEF unrepresented
  <2> QED
    BY <2>1
<1>5. \A r \in GroupRefusals(f) \cup StepRefusals(f) :
        r \in EligibilityRefusals(f) /\ r.code # "entry-invocation-unbound"
  BY <1>3, <1>4 DEF EligibilityRefusals
<1> QED
  BY <1>1, <1>2, <1>5

\* A package that a hook runs for, or whose bindings promise a bootstrap, kept every
\* planned module's output, has no module refused or replaced by a placeholder, no
\* cycle across packages and no step with an effect that Rust does not represent.
THEOREM WholeOrNotAtAll == Spec => []InitializedWholeOrNotAtAll
<1>1. Inv => InitializedWholeOrNotAtAll
  <2> DEFINE f == finalization
  <2> SUFFICES ASSUME Inv, log # <<>> \/ Access("value") = "after-bootstrap"
               PROVE  /\ Planned(f) \subseteq f.kept
                      /\ f.refused = {} /\ f.placeholders = {}
                      /\ \A g \in f.cycles : \A m, n \in g : f.package[m] = f.package[n]
                      /\ \A m \in Planned(f) : \A step \in f.steps[m] :
                           step # {} /\ step \subseteq {"primitive-constant", "private-scalar-state"}
    BY DEF InitializedWholeOrNotAtAll
  <2>1. session = "available"
    BY DEF Inv, HooksNeedAvailability, Access
  <2>2. f \in Finalizations
    BY DEF Inv, TypeOK
  <2>3. ExecutionRefusals(f) = {}
    BY <2>1 DEF Inv, HooksNeedAvailability
  <2> HIDE DEF f
  <2>4. IncompleteSubjects(f) = {} /\ GroupRefusals(f) = {} /\ StepRefusals(f) = {}
    BY <2>2, <2>3, NothingRefused
  <2>5. Planned(f) \subseteq f.kept /\ f.refused = {} /\ f.placeholders = {}
    BY <2>4 DEF IncompleteSubjects
  <2>6. ASSUME NEW g \in f.cycles, NEW m \in g, NEW n \in g
        PROVE  f.package[m] = f.package[n]
    <3> DEFINE crates == {f.package[k] : k \in g}
    <3>1. crates \in SUBSET Packages /\ IsFiniteSet(Packages)
      BY <2>2, PackagesAssumption
    <3>2. IsFiniteSet(crates) /\ Cardinality(crates) \in Nat
      BY <3>1, FS_Subset, FS_CardinalityType
    <3>3. ~(Cardinality(crates) > 1)
      <4>1. \A group \in {c \in f.cycles : Cardinality({f.package[k] : k \in c}) > 1} :
              [code |-> "cross-crate-cycle-unrepresented", subject |-> group] \in GroupRefusals(f)
        BY DEF GroupRefusals
      <4> QED
        BY <2>4, <4>1
    <3>4. Cardinality(crates) = 0 \/ Cardinality(crates) = 1
      BY <3>2, <3>3
    <3>5. crates = {} \/ \E x : crates = {x}
      BY <3>2, <3>4, FS_EmptySet, FS_Singleton
    <3> QED
      BY <3>5
  <2>7. ASSUME NEW m \in Planned(f), NEW step \in f.steps[m]
        PROVE  step # {} /\ step \subseteq {"primitive-constant", "private-scalar-state"}
    <3>1. \A n \in {k \in Planned(f) : \E s \in f.steps[k] :
                      s = {} \/ s \ {"primitive-constant", "private-scalar-state"} # {}} :
            [code |-> "step-unrepresented", subject |-> {n}] \in StepRefusals(f)
      BY DEF StepRefusals
    <3> QED
      BY <2>4, <3>1
  <2> QED
    BY <2>5, <2>6, <2>7
<1> QED
  BY <1>1, WorkFollowsSchedule, PTL

\* A bootstrap is only rejected for work that another thread is doing.
THEOREM RejectionCorrect == Spec => RejectedOnlyByAnother
<1> DEFINE Rejected(t) == host[t].at \in Running /\ host'[t].at = "failed" /\ host'[t].result = Reentrancy
           Rejection(t) == \E u \in Threads \ {t} : host[u].at \in Working /\ Call(u).module = Call(t).module
<1>1. ASSUME Inv, [Next]_vars, NEW t \in Threads,
             host[t].at \in Running, host'[t].at = "failed", host'[t].result = Reentrancy
      PROVE  \E u \in Threads \ {t} : host[u].at \in Working /\ Call(u).module = Call(t).module
  <2> DEFINE m == Call(t).module
  <2>1. host' # host
    BY <1>1 DEF Running, Working
  <2>2. PICK u \in Threads : Bootstrap(u) \/ Step(u)
    BY <1>1, <2>1 DEF Next, Finalize, vars
  <2>3. host[t] \in HostRecords /\ host \in [Threads -> HostRecords]
        /\ error \in [Modules -> Errors \cup {NoError}] /\ m \in Modules
    BY <1>1, CallFacts DEF Inv, TypeOK, HostRecords
  <2>4. u = t
    <3> SUFFICES ASSUME u # t PROVE host'[t] = host[t]
      BY <1>1 DEF Running, Working
    <3>1. CASE Bootstrap(u)
      BY <2>3, <3>1 DEF Bootstrap
    <3>2. \A x : [host EXCEPT ![u] = x][t] = host[t]
      BY <2>3
    <3>3. Advanced(u)[t] = host[t] /\ Instantiated(u)[t] = host[t]
      BY <2>3 DEF Advanced, Instantiated
    <3>4. CASE Step(u)
      BY <2>3, <3>2, <3>3, <3>4 DEF Step, EnterInstantiate, EnterEvaluate, Enter, Stop,
         CompleteInstantiate, CompleteEvaluate, Complete
    <3> QED
      BY <2>2, <3>1, <3>4
  <2>5. Step(t)
    BY <1>1, <2>2, <2>4 DEF Bootstrap
  <2>6. Advanced(t)[t].at # "failed" /\ Instantiated(t)[t].at # "failed"
    BY <1>1, <2>3, AdvancedIsRecord DEF Inv, Instantiated
  <2>7. ASSUME NEW e, host' = [host EXCEPT ![t] = [host[t] EXCEPT !.at = "failed", !.result = e]]
        PROVE  e = Reentrancy
    <3>1. host'[t] = FailedRecord(host[t], e)
      BY <1>1, <2>3, <2>7, FailedIsRecord DEF Inv
    <3> QED
      BY <1>1, <3>1 DEF FailedRecord
  <2>8. host[t].at \notin Working
    <3> SUFFICES ASSUME host[t].at \in Working PROVE FALSE
      OBVIOUS
    <3>1. PICK e \in Errors : host' = [host EXCEPT ![t] = [host[t] EXCEPT !.at = "failed", !.result = e]]
      BY <1>1, <2>5, <2>6 DEF Step, EnterInstantiate, EnterEvaluate, Enter, CompleteInstantiate,
         CompleteEvaluate, Complete, Working
    <3> QED
      BY <2>7, <3>1
  <2>9. lifecycle[m] \in Working
    <3>1. CASE lifecycle[m] = "errored" /\ Stop(t, error[m])
      <4>1. error[m] = Reentrancy
        BY <2>7, <3>1 DEF Stop
      <4> QED
        BY <4>1, <1>1, <2>3, <3>1 DEF Inv, ErroredHaveErrors
    <3>2. CASE host' = [host EXCEPT ![t].at = "instantiating"]
      BY <1>1, <2>3, <3>2 DEF HostRecords
    <3>3. CASE host' = [host EXCEPT ![t].at = "evaluating"]
      BY <1>1, <2>3, <3>3 DEF HostRecords
    <3> QED
      BY <1>1, <2>5, <2>6, <2>8, <3>1, <3>2, <3>3 DEF Step, EnterInstantiate, EnterEvaluate, Enter,
         CompleteInstantiate, CompleteEvaluate, Complete, Working
  <2>10. Begun > 0 /\ m = ModuleAt(Begun)
    <3>1. PICK i \in 1 .. N : m = finalization.order[i]
      BY <1>1, <2>3, <2>9 DEF Inv, StatesFollowLog, Grouped, Places, N, Working
    <3>2. lifecycle[m] \in AllowedAt(Begun, i)
      BY <1>1, <3>1 DEF Inv, StatesFollowLog
    <3>3. N \in Nat \ {0} /\ Begun \in Nat
      BY <1>1, StateFacts DEF Inv
    <3>4. Begun = i \/ Begun = N + i
      BY <2>9, <3>2, <3>3 DEF AllowedAt, Working
    <3> QED
      BY <3>1, <3>3, <3>4 DEF ModuleAt, Slot
  <2>11. PICK w \in Threads : host[w].at \in Working
    BY <1>1, <2>9, <2>10 DEF Inv, WorkHasAWorker
  <2> QED
    BY <1>1, <2>8, <2>10, <2>11, WorkerCall
<1>2. Inv /\ [Next]_vars => [\A t \in Threads : Rejected(t) => Rejection(t)]_vars
  BY <1>1
<1> QED
  BY <1>2, WorkFollowsSchedule, PTL DEF Spec, RejectedOnlyByAnother

\* What a step does to what the abstract specification sees.
LEMMA StepRefines ==
  ASSUME Inv, Inv', [Next]_vars, SeenInLog, SeenInLog'
  PROVE  [Promise!Next]_(Promise!vars)
<1> DEFINE seen == <<finalization, session, lifecycle, error, log>>
<1>1. N \in Nat \ {0} /\ Begun \in Nat /\ Len(Schedule(finalization)) = 2 * N
      /\ (Begun > 0 => ModuleAt(Begun) \in Modules)
      /\ finalization \in Finalizations
      /\ lifecycle \in [Modules -> LifecycleStates] /\ error \in [Modules -> Errors \cup {NoError}]
  <2>1. N \in Nat \ {0} /\ Begun \in Nat /\ Len(Schedule(finalization)) = 2 * N
    BY StateFacts DEF Inv
  <2>2. Begun > 0 => Begun \in 1 .. 2 * N
    BY <2>1 DEF Inv, LogIsPrefix
  <2> QED
    BY <2>1, <2>2, StateFacts DEF Inv, TypeOK
<1>2. CASE UNCHANGED seen
  BY <1>2 DEF Promise!vars, Failure, Errored
<1>3. CASE Finalize
  <2>1. session = "open" /\ log = <<>> /\ UNCHANGED <<finalization, lifecycle, error, log>>
    BY <1>3 DEF Finalize, Inv, HooksNeedAvailability
  <2>2. Failure' = Failure
    BY <2>1 DEF Failure, Errored
  <2>3. CASE session' = "available"
    <3>1. Promise!Announce
      BY <1>1, <2>1, <2>2, <2>3 DEF Promise!Announce
    <3> QED
      BY <3>1 DEF Promise!Next
  <2>4. CASE session' # "available"
    BY <2>1, <2>2, <2>4 DEF Promise!vars
  <2> QED
    BY <2>3, <2>4
<1>4. ASSUME NEW t \in Threads, NEW phase, NEW state \in Working,
             host[t].at \in {"instantiate", "evaluate"},
             host[t].call = Begun + 1,
             lifecycle' = [lifecycle EXCEPT ![Call(t).module] = state],
             log' = Append(log, [phase |-> phase, module |-> Call(t).module]),
             UNCHANGED <<finalization, session, error>>
      PROVE  Promise!Next
  <2>1. FollowsLog(host[t]) /\ Begun + 1 \in 1 .. 2 * N /\ Call(t).module = ModuleAt(Begun + 1)
        /\ ModuleAt(Begun + 1) \in Modules
    BY <1>4, CallFacts DEF Inv, ThreadsFollowLog
  <2>2. Settled /\ session = "available"
    BY <1>4, <2>1 DEF FollowsLog, Running
  <2>3. ~Busy /\ Failure = NoError
    BY <2>2 DEF Settled, Working, SeenInLog
  <2>4. Begun' = Begun + 1 /\ ModuleAt(Begun)' = ModuleAt(Begun + 1)
    BY <1>4 DEF Begun, ModuleAt, Slot, N, Inv, TypeOK
  <2>5. lifecycle'[ModuleAt(Begun)'] = state
    BY <1>1, <1>4, <2>1, <2>4
  <2>6. Busy' /\ Failure' = NoError
    BY <1>1, <2>4, <2>5 DEF Working, SeenInLog
  <2>7. log' = Append(log, Schedule(finalization)[Len(log) + 1])
    <3>1. log'[Begun + 1] = Schedule(finalization)[Begun + 1]
      <4>1. \A k \in 1 .. Begun' : log'[k] = Schedule(finalization)[k]
        BY <1>4 DEF Inv, LogIsPrefix
      <4>2. Begun + 1 \in 1 .. Begun'
        BY <1>1, <2>4
      <4> QED
        BY <4>1, <4>2
    <3>2. log'[Begun + 1] = [phase |-> phase, module |-> Call(t).module]
      BY <1>4 DEF Begun, Inv, TypeOK
    <3> QED
      BY <1>4, <3>1, <3>2 DEF Begun
  <2>8. Len(log) < Len(Schedule(finalization))
    BY <1>1, <2>1 DEF Begun
  <2> QED
    BY <1>4, <2>2, <2>3, <2>6, <2>7, <2>8 DEF Promise!Next, Promise!Begin, Busy
<1>5. ASSUME NEW t \in Threads, host[t].at \in Working,
             NEW state, state \in {"instantiated", "evaluated"},
             lifecycle' = [lifecycle EXCEPT ![Call(t).module] = state],
             UNCHANGED <<finalization, session, error, log>>
      PROVE  Promise!Next
  <2>1. Begun \in 1 .. 2 * N /\ Call(t).module = ModuleAt(Begun) /\ lifecycle[ModuleAt(Begun)] \in Working
    BY <1>5, WorkerIsLast, WorkerCall
  <2>2. Busy /\ Failure = NoError
    BY <1>1, <2>1 DEF Working, SeenInLog
  <2>3. Begun' = Begun /\ ModuleAt(Begun)' = ModuleAt(Begun)
    BY <1>5 DEF Begun, ModuleAt, Slot, N
  <2>4. lifecycle'[ModuleAt(Begun)'] = state
    BY <1>1, <1>5, <2>1, <2>3
  <2>5. ~Busy' /\ Failure' = NoError
    BY <1>5, <2>3, <2>4 DEF Working, SeenInLog
  <2> QED
    BY <1>5, <2>2, <2>5 DEF Promise!Next, Promise!Finish, Busy
<1>6. ASSUME NEW t \in Threads, host[t].at \in Working, NEW e \in Errors,
             lifecycle' = [lifecycle EXCEPT ![Call(t).module] = "errored"],
             error' = [error EXCEPT ![Call(t).module] = e],
             UNCHANGED <<finalization, session, log>>
      PROVE  Promise!Next
  <2>1. Begun \in 1 .. 2 * N /\ Call(t).module = ModuleAt(Begun) /\ lifecycle[ModuleAt(Begun)] \in Working
    BY <1>6, WorkerIsLast, WorkerCall
  <2>2. Busy
    BY <1>1, <2>1 DEF SeenInLog
  <2>3. Begun' = Begun /\ ModuleAt(Begun)' = ModuleAt(Begun)
    BY <1>6 DEF Begun, ModuleAt, Slot, N
  <2>4. lifecycle'[ModuleAt(Begun)'] = "errored"
    BY <1>1, <1>6, <2>1, <2>3
  <2>5. ~Busy' /\ Failure' \in Errors
    BY <1>1, <2>1, <2>3, <2>4 DEF Working, SeenInLog
  <2> QED
    BY <1>6, <2>2, <2>5 DEF Promise!Next, Promise!Fail, Busy
<1>7. ASSUME NEW t \in Threads, Step(t) PROVE [Promise!Next]_(Promise!vars)
  <2>1. CASE EnterInstantiate(t)
    <3>1. CASE lifecycle[Call(t).module] \in {"uninstantiated"}
      <4>1. host[t].call = Begun + 1
        BY <2>1, <3>1, ReadyIsNext DEF EnterInstantiate, Enter, Running
      <4>2. CASE UNCHANGED seen
        BY <4>2, <1>2
      <4>3. CASE /\ lifecycle' = [lifecycle EXCEPT ![Call(t).module] = "instantiating"]
                 /\ log' = Append(log, [phase |-> "instantiate", module |-> Call(t).module])
                 /\ UNCHANGED <<finalization, session, error>>
        BY <2>1, <4>1, <4>3, <1>4 DEF EnterInstantiate, Enter, Working
      <4> QED
        BY <2>1, <4>2, <4>3 DEF EnterInstantiate, Enter, Stop
    <3>2. CASE lifecycle[Call(t).module] \notin {"uninstantiated"}
      <4>1. UNCHANGED seen
        BY <2>1, <3>2 DEF EnterInstantiate, Enter, Stop
      <4> QED
        BY <4>1, <1>2
    <3> QED
      BY <3>1, <3>2
  <2>2. CASE EnterEvaluate(t)
    <3>1. CASE lifecycle[Call(t).module] \in {"uninstantiated", "instantiated"}
      <4>1. host[t].call > N
        BY <2>2 DEF Inv, ThreadsFollowLog, FollowsLog, EnterEvaluate, Enter
      <4>2. host[t].call = Begun + 1
        BY <2>2, <3>1, <4>1, ReadyIsNext DEF EnterEvaluate, Enter, Running
      <4>3. CASE UNCHANGED seen
        BY <4>3, <1>2
      <4>4. CASE /\ lifecycle' = [lifecycle EXCEPT ![Call(t).module] = "evaluating"]
                 /\ log' = Append(log, [phase |-> "evaluate", module |-> Call(t).module])
                 /\ UNCHANGED <<finalization, session, error>>
        BY <2>2, <4>2, <4>4, <1>4 DEF EnterEvaluate, Enter, Working
      <4> QED
        BY <2>2, <4>3, <4>4 DEF EnterEvaluate, Enter, Stop
    <3>2. CASE lifecycle[Call(t).module] \notin {"uninstantiated", "instantiated"}
      <4>1. UNCHANGED seen
        BY <2>2, <3>2 DEF EnterEvaluate, Enter, Stop
      <4> QED
        BY <4>1, <1>2
    <3> QED
      BY <3>1, <3>2
  <2>3. CASE CompleteInstantiate(t)
    BY <2>3, <1>5, <1>6 DEF CompleteInstantiate, Complete, Working
  <2>4. CASE CompleteEvaluate(t)
    BY <2>4, <1>5, <1>6 DEF CompleteEvaluate, Complete, Working
  <2> QED
    BY <1>7, <2>1, <2>2, <2>3, <2>4 DEF Step
<1>8. ASSUME NEW t \in Threads, Bootstrap(t) PROVE [Promise!Next]_(Promise!vars)
  BY <1>2, <1>8 DEF Bootstrap
<1>9. CASE UNCHANGED vars
  BY <1>2, <1>9 DEF vars
<1> QED
  BY <1>3, <1>7, <1>8, <1>9 DEF Next

\* The hooks, run by any number of threads, implement the promise the
\* documentation makes: the work of one schedule, in order, once, one piece at a
\* time, and none after the first failure.
THEOREM PromiseKept == Spec => KeepsThePromise
<1>1. Init => Promise!Init
  <2> SUFFICES ASSUME Init PROVE Promise!Init
    OBVIOUS
  <2>1. Errored = {}
    BY DEF Init, Errored
  <2> QED
    BY <2>1 DEF Init, Promise!Init, Failure, Working
<1>2. Inv /\ Inv' /\ [Next]_vars => [Promise!Next]_(Promise!vars)
  BY StepRefines, PromiseFacts, PTL
<1> QED
  BY <1>1, <1>2, WorkFollowsSchedule, PTL DEF Spec, KeepsThePromise, Promise!Spec

=============================================================================
