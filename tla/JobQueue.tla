------------------------------ MODULE JobQueue ------------------------------
(***************************************************************************)
(* What include/thread_pool.h promises of a pool, without its threads,     *)
(* mutex and conditions: jobs are started in the order they were accepted, *)
(* at most Parallel of them at a time, each runs once, and a closed pool   *)
(* takes no job and is torn down only after the last one has run.          *)
(***************************************************************************)
EXTENDS Naturals, Sequences, FiniteSets

CONSTANT Parallel     \* how many jobs may be in hand at once

VARIABLES phase,      \* "open", "closed" or "gone"
          pending,    \* accepted jobs not started, oldest first
          running,    \* started jobs that have not returned
          finished,   \* jobs that have returned
          issued      \* how many jobs were accepted; they are numbered 1, 2, ...

jvars == <<phase, pending, running, finished, issued>>

Init ==
  /\ phase = "open"
  /\ pending = << >>
  /\ running = {}
  /\ finished = {}
  /\ issued = 0

Accept ==
  /\ phase = "open"
  /\ issued' = issued + 1
  /\ pending' = Append(pending, issued + 1)
  /\ UNCHANGED <<phase, running, finished>>

Start ==
  /\ phase # "gone"
  /\ pending # << >>
  /\ Cardinality(running) < Parallel
  /\ running' = running \cup {Head(pending)}
  /\ pending' = Tail(pending)
  /\ UNCHANGED <<phase, finished, issued>>

Finish(j) ==
  /\ j \in running
  /\ running' = running \ {j}
  /\ finished' = finished \cup {j}
  /\ UNCHANGED <<phase, pending, issued>>

Close ==
  /\ phase = "open"
  /\ phase' = "closed"
  /\ UNCHANGED <<pending, running, finished, issued>>

Teardown ==
  /\ phase = "closed"
  /\ pending = << >>
  /\ running = {}
  /\ phase' = "gone"
  /\ UNCHANGED <<pending, running, finished, issued>>

Next == \/ Accept \/ Start \/ Close \/ Teardown
        \/ \E j \in running : Finish(j)

Spec == Init /\ [][Next]_jvars

\* An accepted job is started and a started job returns, if the pool is used
\* as documented; a closed pool is torn down.
FairSpec ==
  /\ Spec
  /\ WF_jvars(Start)
  /\ WF_jvars(\E j \in running : Finish(j))
  /\ WF_jvars(Teardown)
=============================================================================
