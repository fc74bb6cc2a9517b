----------------------- MODULE OrderedInitialization -----------------------
\* What docs/rust-package-compilation.md promises a host about initialization,
\* without the modules' lifecycle states, their locks or the host's threads:
\* one schedule, its work begun in its order and each piece at most once, one
\* piece at a time, and nothing begun after the first failure, which stays.
EXTENDS Sequences, Naturals

CONSTANTS Schedules, \* the schedules a compilation may hand out
          Errors,    \* what the work of a module may fail with
          NoError

VARIABLES schedule,  \* the calls the host is told to make
          work,      \* the calls whose work has begun, in the order it began
          busy,      \* whether the last of them is still running
          failure    \* the first failure, or NoError

vars == <<schedule, work, busy, failure>>

Init == schedule = <<>> /\ work = <<>> /\ busy = FALSE /\ failure = NoError

\* A compilation hands out its schedule once.
Announce ==
  /\ schedule = <<>>
  /\ schedule' \in Schedules
  /\ UNCHANGED <<work, busy, failure>>

Begin ==
  /\ ~busy
  /\ failure = NoError
  /\ Len(work) < Len(schedule)
  /\ work' = Append(work, schedule[Len(work) + 1])
  /\ busy' = TRUE
  /\ UNCHANGED <<schedule, failure>>

Finish ==
  /\ busy
  /\ busy' = FALSE
  /\ UNCHANGED <<schedule, work, failure>>

Fail ==
  /\ busy
  /\ busy' = FALSE
  /\ failure' \in Errors
  /\ UNCHANGED <<schedule, work>>

Next == Announce \/ Begin \/ Finish \/ Fail

Spec == Init /\ [][Next]_vars
=============================================================================
