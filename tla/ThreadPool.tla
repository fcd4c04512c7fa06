----------------------------- MODULE ThreadPool -----------------------------
(***************************************************************************)
(* The bounded worker pool of src/utils/thread_pool.c.                     *)
(*                                                                         *)
(* A critical section between mutex_lock and mutex_unlock is one action:   *)
(* everything it reads and writes is only touched under p->mu.  cond_wait  *)
(* splits a critical section in two: the thread leaves the mutex and joins *)
(* the waiters of the condition in one step, and re-tests its loop         *)
(* condition in a later one.  A signal moves one waiter back to the test,  *)
(* a broadcast all of them, and a waiter may also wake up spuriously, as   *)
(* POSIX and Windows condition variables allow.                            *)
(*                                                                         *)
(* Threads are the pool's workers and the clients that call submit and     *)
(* wait.  A running job may call submit too.  The owner calls init and     *)
(* free, and calls free when no client is inside a call: that is what the  *)
(* comments of thread_pool_submit ask of it.                               *)
(***************************************************************************)
EXTENDS Naturals, Sequences, FiniteSets

CONSTANTS Workers,   \* the threads thread_pool_init tries to start
          Clients,   \* the threads that call thread_pool_submit and _wait
          MaxJobs    \* bound: no submit begins once this many were accepted

ASSUME WorkersFinite == IsFiniteSet(Workers)
ASSUME DisjointThreads == Workers \cap Clients = {}
ASSUME MaxJobsNat == MaxJobs \in Nat

VARIABLES owner,     \* where the owner is in init ... free
          pc,        \* where each worker and each client is
          queue,     \* the list from p->head to p->tail; jobs are numbered
                     \* in the order in which submit accepted them
          queued,    \* p->queued
          active,    \* p->active
          stop,      \* p->stop
          holds,     \* the job a worker has dequeued and not given back, or 0
          accepted,  \* history: how many jobs submit has accepted
          done,      \* history: the jobs whose fn has returned
          owed       \* history: accepted when a client entered wait

vars == <<owner, pc, queue, queued, active, stop, holds, accepted, done, owed>>

Threads == Workers \cup Clients

NoJob == 0

OwnerStates == {"init", "up", "joining", "freed", "failed"}

WorkerStates == {"absent",    \* thread_init has not started it
                 "looking",   \* about to test head == NULL under the mutex
                 "asleep",    \* in cond_wait(&p->work)
                 "running",   \* inside fn(job->arg)
                 "offering",  \* the job is inside thread_pool_submit
                 "leaving",   \* fn has returned, the mutex not yet taken
                 "exited"}

ClientStates == {"out", "offering", "waiting", "idling"}

Asleep  == {w \in Workers : pc[w] = "asleep"}
Looking == {w \in Workers : pc[w] = "looking"}
Busy    == {w \in Workers : pc[w] \in {"running", "offering", "leaving"}}
InHand  == {w \in Workers : pc[w] \in {"running", "offering"}}
Idling  == {c \in Clients : pc[c] = "idling"}

\* What cond_signal does to the threads waiting in the set S, each of which
\* then goes back to the test at "target": one of them wakes up, if there is one.
Signal(S, pcs, target) ==
  IF S = {} THEN {pcs}
            ELSE {[pcs EXCEPT ![t] = target] : t \in S}

\* What cond_broadcast does: all of them wake up.
Broadcast(S, pcs, target) ==
  {[t \in Threads |-> IF t \in S THEN target ELSE pcs[t]]}

-----------------------------------------------------------------------------
Init ==
  /\ owner = "init"
  /\ pc = [t \in Threads |-> IF t \in Workers THEN "absent" ELSE "out"]
  /\ queue = << >>
  /\ queued = 0
  /\ active = 0
  /\ stop = 0
  /\ holds = [w \in Workers |-> NoJob]
  /\ accepted = 0
  /\ done = {}
  /\ owed = [c \in Clients |-> 0]

(***************************************************************************)
(* thread_pool_init: the threads start one after the other and run at      *)
(* once.  The first failure ends the loop; a pool with no worker at all is *)
(* unwound and -1 returned.                                                *)
(***************************************************************************)
StartWorker(w) ==
  /\ owner = "init"
  /\ pc[w] = "absent"
  /\ pc' = [pc EXCEPT ![w] = "looking"]
  /\ UNCHANGED <<owner, queue, queued, active, stop, holds, accepted, done, owed>>

InitReturns ==
  /\ owner = "init"
  /\ owner' = IF \A w \in Workers : pc[w] = "absent" THEN "failed" ELSE "up"
  /\ UNCHANGED <<pc, queue, queued, active, stop, holds, accepted, done, owed>>

\* A caller whose init failed has no pool and makes no further call.
InitFailed ==
  /\ owner = "failed"
  /\ UNCHANGED vars

(***************************************************************************)
(* thread_pool_submit.  The sentinel p->workers == NULL is read before the *)
(* mutex is taken, so the call is two steps.                               *)
(***************************************************************************)
Caller(t) == \/ t \in Clients /\ pc[t] = "out" /\ owner \in {"up", "freed"}
             \/ t \in Workers /\ pc[t] = "running"

AfterSubmit(t) == IF t \in Clients THEN "out" ELSE "running"

SubmitRefusedDead(t) ==
  /\ Caller(t)
  /\ owner = "freed"
  /\ UNCHANGED vars

SubmitEnter(t) ==
  /\ Caller(t)
  /\ owner # "freed"
  /\ accepted < MaxJobs
  /\ pc' = [pc EXCEPT ![t] = "offering"]
  /\ UNCHANGED <<owner, queue, queued, active, stop, holds, accepted, done, owed>>

SubmitRefusedStopped(t) ==
  /\ pc[t] = "offering"
  /\ stop = 1
  /\ pc' = [pc EXCEPT ![t] = AfterSubmit(t)]
  /\ UNCHANGED <<owner, queue, queued, active, stop, holds, accepted, done, owed>>

LinkJob(q, j) == Append(q, j)

WakeForJob_OnlyIfEmpty(pcs) ==
  IF queue = << >> THEN Signal(Asleep, pcs, "looking") ELSE {pcs}
WakeForJob(pcs) == Signal(Asleep, pcs, "looking")

SubmitAccepted(t) ==
  /\ pc[t] = "offering"
  /\ stop = 0
  /\ accepted' = accepted + 1
  /\ queue' = LinkJob(queue, accepted + 1)
  /\ queued' = queued + 1
  /\ pc' \in WakeForJob([pc EXCEPT ![t] = AfterSubmit(t)])
  /\ UNCHANGED <<owner, active, stop, holds, done, owed>>

(***************************************************************************)
(* worker_loop.                                                            *)
(***************************************************************************)
WorkerSleeps(w) ==
  /\ pc[w] = "looking"
  /\ queue = << >>
  /\ stop = 0
  /\ pc' = [pc EXCEPT ![w] = "asleep"]
  /\ UNCHANGED <<owner, queue, queued, active, stop, holds, accepted, done, owed>>

MayExit_Early == stop = 1
MayExit == stop = 1 /\ queue = << >>

WorkerExits(w) ==
  /\ pc[w] = "looking"
  /\ MayExit
  /\ pc' = [pc EXCEPT ![w] = "exited"]
  /\ UNCHANGED <<owner, queue, queued, active, stop, holds, accepted, done, owed>>

Claim(n) == n + 1

WorkerTakes(w) ==
  /\ pc[w] = "looking"
  /\ queue # << >>
  /\ holds' = [holds EXCEPT ![w] = Head(queue)]
  /\ queue' = Tail(queue)
  /\ queued' = queued - 1
  /\ active' = Claim(active)
  /\ pc' = [pc EXCEPT ![w] = "running"]
  /\ UNCHANGED <<owner, stop, accepted, done, owed>>

\* p->fn(job->arg) returns.
JobReturns(w) ==
  /\ pc[w] = "running"
  /\ done' = done \cup {holds[w]}
  /\ pc' = [pc EXCEPT ![w] = "leaving"]
  /\ UNCHANGED <<owner, queue, queued, active, stop, holds, accepted, owed>>

NowIdle_OnlyLast == queued = 0 /\ active = 0
NowIdle == queued = 0 /\ active - 1 = 0

WorkerFinishes(w) ==
  /\ pc[w] = "leaving"
  /\ active' = active - 1
  /\ holds' = [holds EXCEPT ![w] = NoJob]
  /\ pc' \in LET back == [pc EXCEPT ![w] = "looking"]
             IN  IF NowIdle THEN Signal(Idling, back, "waiting") ELSE {back}
  /\ UNCHANGED <<owner, queue, queued, stop, accepted, done, owed>>

(***************************************************************************)
(* thread_pool_wait.                                                       *)
(***************************************************************************)
WaitEnter(c) ==
  /\ owner = "up"
  /\ pc[c] = "out"
  /\ pc' = [pc EXCEPT ![c] = "waiting"]
  /\ owed' = [owed EXCEPT ![c] = accepted]
  /\ UNCHANGED <<owner, queue, queued, active, stop, holds, accepted, done>>

WorkLeft_QueueOnly == queued > 0
WorkLeft == queued > 0 \/ active > 0

WaitSleeps(c) ==
  /\ pc[c] = "waiting"
  /\ WorkLeft
  /\ pc' = [pc EXCEPT ![c] = "idling"]
  /\ UNCHANGED <<owner, queue, queued, active, stop, holds, accepted, done, owed>>

WaitReturns(c) ==
  /\ pc[c] = "waiting"
  /\ ~WorkLeft
  /\ pc' = [pc EXCEPT ![c] = "out"]
  /\ UNCHANGED <<owner, queue, queued, active, stop, holds, accepted, done, owed>>

(***************************************************************************)
(* thread_pool_free: stop and broadcast, then the joins, the sentinel and  *)
(* the destruction of the mutex and of the conditions.                     *)
(***************************************************************************)
WakeForStop == Broadcast(Asleep, pc, "looking")

FreeStops ==
  /\ owner = "up"
  /\ \A c \in Clients : pc[c] = "out"
  /\ stop' = 1
  /\ pc' \in WakeForStop
  /\ owner' = "joining"
  /\ UNCHANGED <<queue, queued, active, holds, accepted, done, owed>>

Joined_NoneBusy == Busy = {}
Joined == \A w \in Workers : pc[w] \in {"absent", "exited"}

FreeReturns ==
  /\ owner = "joining"
  /\ Joined
  /\ owner' = "freed"
  /\ queue' = << >>
  /\ UNCHANGED <<pc, queued, active, stop, holds, accepted, done, owed>>

\* A waiter of either condition may wake up although nobody signalled it.
SpuriousWakeup(t) ==
  /\ \/ pc[t] = "asleep" /\ pc' = [pc EXCEPT ![t] = "looking"]
     \/ pc[t] = "idling" /\ pc' = [pc EXCEPT ![t] = "waiting"]
  /\ UNCHANGED <<owner, queue, queued, active, stop, holds, accepted, done, owed>>

-----------------------------------------------------------------------------
Submit(t) == \/ SubmitRefusedDead(t) \/ SubmitEnter(t)
             \/ SubmitRefusedStopped(t) \/ SubmitAccepted(t)

WorkerLoop(w) == \/ WorkerSleeps(w) \/ WorkerExits(w)
                 \/ WorkerTakes(w) \/ WorkerFinishes(w)

Wait(c) == WaitEnter(c) \/ WaitSleeps(c) \/ WaitReturns(c)

Next ==
  \/ \E w \in Workers : StartWorker(w) \/ WorkerLoop(w) \/ JobReturns(w)
  \/ \E t \in Threads : Submit(t) \/ SpuriousWakeup(t)
  \/ \E c \in Clients : Wait(c)
  \/ InitReturns \/ InitFailed \/ FreeStops \/ FreeReturns

Spec == Init /\ [][Next]_vars

(***************************************************************************)
(* Fairness: the kernel schedules every runnable thread and the mutex is   *)
(* held for a bounded time, so a thread that can go on does.  A job's fn   *)
(* returns, however often it calls submit on the way (strong fairness).    *)
(* Nobody is obliged to call submit, wait or free, or to be woken          *)
(* spuriously.                                                             *)
(***************************************************************************)
Fairness ==
  /\ \A w \in Workers : WF_vars(WorkerLoop(w)) /\ SF_vars(JobReturns(w))
  /\ \A t \in Threads : WF_vars(SubmitRefusedStopped(t) \/ SubmitAccepted(t))
  /\ \A c \in Clients : WF_vars(WaitSleeps(c) \/ WaitReturns(c))
  /\ WF_vars(FreeReturns)

FairSpec == Spec /\ Fairness

-----------------------------------------------------------------------------
(***************************************************************************)
(* Properties.                                                             *)
(***************************************************************************)
\* Every variable has the shape the C declarations give it.
TypeOK ==
  /\ owner \in OwnerStates
  /\ pc \in [Threads -> WorkerStates \cup ClientStates]
  /\ \A w \in Workers : pc[w] \in WorkerStates
  /\ \A c \in Clients : pc[c] \in ClientStates
  /\ queue \in Seq(Nat)
  /\ queued \in Nat
  /\ active \in Nat
  /\ stop \in {0, 1}
  /\ holds \in [Workers -> Nat]
  /\ accepted \in Nat
  /\ done \subseteq Nat
  /\ owed \in [Clients -> Nat]

\* p->queued and p->active, on which wait's loop and the idle signal decide,
\* agree with the list and with the workers that have a job in hand.
CountersAgree ==
  /\ queued = Len(queue)
  /\ active = Cardinality(Busy)

\* Jobs leave the list in the order submit accepted them: the list holds the
\* most recently accepted jobs, oldest first, and no worker holds a later one.
Fifo ==
  /\ Len(queue) <= accepted
  /\ \A i \in 1 .. Len(queue) : queue[i] = accepted - Len(queue) + i
  /\ \A w \in Busy : holds[w] \in 1 .. (accepted - Len(queue))

\* No accepted job is lost or run twice: every one that left the list is
\* either held by exactly one worker that has not finished it, or done.
EachJobOnce ==
  /\ done \subseteq 1 .. (accepted - Len(queue))
  /\ \A j \in 1 .. (accepted - Len(queue)) :
       \/ j \in done
       \/ \E w \in InHand : holds[w] = j
  /\ \A w \in InHand : holds[w] \notin done
  /\ \A v, w \in Busy : v # w => holds[v] # holds[w]

\* No wakeup of submit is lost: while a worker sleeps, every job in the list
\* has a worker of its own on the way to it, so jobs never queue up behind a
\* busy worker while another one sleeps.
NoLostWakeup ==
  Asleep # {} => Len(queue) <= Cardinality(Looking)

\* After free has set stop no worker sleeps: the joins cannot hang on one.
StopWakesAll == stop = 1 => Asleep = {}

\* When wait returns, every job accepted before it was called has run.
WaitPromise ==
  [][\A c \in Clients : WaitReturns(c) => 1 .. owed[c] \subseteq done]_vars

\* When free returns, every accepted job has run: the list that free throws
\* away is empty and the counters are back at zero.
FreePromise ==
  owner = "freed" => done = 1 .. accepted /\ queued = 0 /\ active = 0

\* When free has destroyed the mutex and the conditions, no thread is left
\* inside a function of the pool that would still use them.
NoUseAfterFree ==
  owner = "freed" => \A t \in Threads : pc[t] \in {"absent", "exited", "out"}

\* A call of wait eventually returns (the bound MaxJobs makes the stream of
\* submissions finite; an endless one may keep wait waiting).
WaitEnds == \A c \in Clients : (pc[c] = "waiting") ~> (pc[c] = "out")

(***************************************************************************)
(* The pool implements the job queue its header describes.                 *)
(***************************************************************************)
Phase == CASE owner = "joining" -> "closed"
           [] owner = "freed"   -> "gone"
           [] OTHER             -> "open"

Abstract == INSTANCE JobQueue WITH
              Parallel <- Cardinality(Workers),
              phase    <- Phase,
              pending  <- queue,
              running  <- {holds[w] : w \in InHand},
              finished <- done,
              issued   <- accepted

\* Seen through its list and the jobs its workers have in hand, the pool takes
\* only steps of the job queue and makes the progress it promises.
ImplementsJobQueue == Abstract!FairSpec
=============================================================================
