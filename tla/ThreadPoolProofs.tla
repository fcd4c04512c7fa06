-------------------------- MODULE ThreadPoolProofs --------------------------
(***************************************************************************)
(* Safety of the worker pool for any finite set of workers, any set of     *)
(* clients and any number of jobs.                                         *)
(***************************************************************************)
EXTENDS ThreadPool, FiniteSetTheorems, TLAPS

(***************************************************************************)
(* The strengthening that makes the invariants inductive.  A worker leaves *)
(* only through a stopped and drained queue, no job enters a stopped one,  *)
(* and a pool that came up has at least one worker to see it drained.      *)
(***************************************************************************)
Lifecycle ==
  /\ stop = 1 <=> owner \in {"joining", "freed"}
  /\ owner # "up" => \A c \in Clients : pc[c] = "out"
  /\ owner \in {"up", "joining", "freed"} => \E w \in Workers : pc[w] # "absent"
  /\ owner = "freed" => \A w \in Workers : pc[w] \in {"absent", "exited"}
  /\ \A w \in Workers : pc[w] = "exited" => stop = 1 /\ queue = << >>
  /\ \A c \in Clients : owed[c] <= accepted

IInv == /\ TypeOK
        /\ CountersAgree
        /\ Fifo
        /\ EachJobOnce
        /\ NoLostWakeup
        /\ StopWakesAll
        /\ Lifecycle
-----------------------------------------------------------------------------
\* The sets of workers the invariants count are finite.
LEMMA WorkerSetsFinite ==
  /\ IsFiniteSet(Busy) /\ Cardinality(Busy) \in Nat
  /\ IsFiniteSet(Looking) /\ Cardinality(Looking) \in Nat
<1>1. Busy \in SUBSET Workers /\ Looking \in SUBSET Workers
  BY DEF Busy, Looking
<1> QED
  BY <1>1, WorkersFinite, FS_Subset, FS_CardinalityType

\* A primed form of the same fact: the worker states are finite sets after a step too.
LEMMA LookingNat == (Cardinality(Looking) \in Nat)'
<1>1. Looking' \in SUBSET Workers
  BY DEF Looking
<1> QED
  BY <1>1, WorkersFinite, FS_Subset, FS_CardinalityType

\* Growing or shrinking a finite set by one element, as the counters do.
LEMMA CountUp ==
  ASSUME NEW S, IsFiniteSet(S), NEW x, x \notin S
  PROVE  Cardinality(S \cup {x}) = Cardinality(S) + 1
BY FS_AddElement

\* The same for a set that loses an element.
LEMMA CountDown ==
  ASSUME NEW S, IsFiniteSet(S), NEW x, x \in S
  PROVE  Cardinality(S \ {x}) = Cardinality(S) - 1
BY FS_RemoveElement

\* The state thread_pool_init leaves behind satisfies the invariant.
LEMMA InitIInv == Init => IInv
<1> SUFFICES ASSUME Init PROVE IInv
  OBVIOUS
<1>1. TypeOK
  <2>1. /\ pc \in [Threads -> WorkerStates \cup ClientStates]
        /\ \A w \in Workers : pc[w] \in WorkerStates
        /\ \A c \in Clients : pc[c] \in ClientStates
    BY DisjointThreads DEF Init, WorkerStates, ClientStates, Threads
  <2> QED
    BY <2>1 DEF Init, TypeOK, OwnerStates, NoJob
<1>2. Busy = {} /\ Asleep = {}
  BY DEF Init, Busy, Asleep, Threads
<1>3. CountersAgree
  BY <1>2, FS_EmptySet DEF Init, CountersAgree
<1>4. Fifo /\ EachJobOnce
  <2>1. 1 .. (accepted - Len(queue)) = {}
    BY DEF Init
  <2> QED
    BY <1>2, <2>1 DEF Init, Fifo, EachJobOnce, InHand, Busy
<1>5. NoLostWakeup /\ StopWakesAll
  BY <1>2 DEF NoLostWakeup, StopWakesAll
<1>6. Lifecycle
  BY DisjointThreads DEF Init, Lifecycle, Threads
<1> QED
  BY <1>1, <1>3, <1>4, <1>5, <1>6 DEF IInv

\* A step that leaves the list, the counters and the jobs in hand alone keeps
\* everything the invariant says about jobs.
LEMMA JobsUntouched ==
  ASSUME IInv, UNCHANGED <<queue, queued, active, holds, accepted, done>>,
         Busy' = Busy, InHand' = InHand
  PROVE  CountersAgree' /\ Fifo' /\ EachJobOnce'
<1>1. CountersAgree'
  BY DEF IInv, CountersAgree
<1>2. Fifo'
  BY DEF IInv, Fifo
<1>3. EachJobOnce'
  BY DEF IInv, EachJobOnce
<1> QED
  BY <1>1, <1>2, <1>3

\* A started worker goes straight to look for a job.
LEMMA StartWorkerStep ==
  ASSUME IInv, NEW w \in Workers, StartWorker(w)
  PROVE  IInv'
<1>1. TypeOK'
  BY DisjointThreads DEF IInv, TypeOK, StartWorker, WorkerStates, ClientStates, OwnerStates, Threads
<1>2. Busy' = Busy /\ InHand' = InHand
  BY DisjointThreads DEF IInv, TypeOK, Busy, InHand, StartWorker, WorkerStates, ClientStates, OwnerStates, Threads
<1>3. CountersAgree' /\ Fifo' /\ EachJobOnce'
  BY <1>2, JobsUntouched DEF StartWorker
<1>4. NoLostWakeup'
  <2>1. Looking' = Looking \cup {w} /\ Asleep' = Asleep /\ w \notin Looking
    BY DEF IInv, TypeOK, Looking, Asleep, StartWorker, Threads
  <2>2. Cardinality(Looking') = Cardinality(Looking) + 1
    BY <2>1, WorkerSetsFinite, CountUp
  <2> QED
    BY <2>1, <2>2, WorkerSetsFinite DEF IInv, TypeOK, NoLostWakeup, StartWorker
<1>5. StopWakesAll'
  BY DEF IInv, TypeOK, StopWakesAll, Lifecycle, Asleep, StartWorker, WorkerStates, ClientStates, OwnerStates, Threads
<1>6. Lifecycle'
  BY DisjointThreads DEF IInv, TypeOK, Lifecycle, StartWorker, WorkerStates, ClientStates, OwnerStates, Threads
<1> QED
  BY <1>1, <1>3, <1>4, <1>5, <1>6 DEF IInv

\* A job that enters submit is still in hand.
LEMMA SubmitEnterStep ==
  ASSUME IInv, NEW t \in Threads, SubmitEnter(t)
  PROVE  IInv'
<1>1. TypeOK'
  BY DisjointThreads DEF IInv, TypeOK, SubmitEnter, Caller, WorkerStates, ClientStates, OwnerStates, Threads
<1>2. Busy' = Busy /\ InHand' = InHand
  BY DisjointThreads DEF IInv, TypeOK, Busy, InHand, SubmitEnter, Caller, WorkerStates, ClientStates, OwnerStates, Threads
<1>3. CountersAgree' /\ Fifo' /\ EachJobOnce'
  BY <1>2, JobsUntouched DEF SubmitEnter
<1>4. NoLostWakeup'
  <2>1. Looking' = Looking /\ Asleep' = Asleep
    BY DisjointThreads DEF IInv, TypeOK, Looking, Asleep, SubmitEnter, Caller, WorkerStates, ClientStates, OwnerStates, Threads
  <2> QED
    BY <2>1 DEF IInv, NoLostWakeup, SubmitEnter
<1>5. StopWakesAll'
  BY DEF IInv, TypeOK, StopWakesAll, Lifecycle, Asleep, SubmitEnter, Caller, WorkerStates, ClientStates, OwnerStates, Threads
<1>6. Lifecycle'
  BY DisjointThreads DEF IInv, TypeOK, Lifecycle, SubmitEnter, Caller, WorkerStates, ClientStates, OwnerStates, Threads
<1> QED
  BY <1>1, <1>3, <1>4, <1>5, <1>6 DEF IInv

\* A refused submit goes back to its caller.
LEMMA SubmitRefusedStoppedStep ==
  ASSUME IInv, NEW t \in Threads, SubmitRefusedStopped(t)
  PROVE  IInv'
<1>1. TypeOK'
  BY DisjointThreads DEF IInv, TypeOK, SubmitRefusedStopped, AfterSubmit, WorkerStates, ClientStates, OwnerStates, Threads
<1>2. Busy' = Busy /\ InHand' = InHand
  BY DisjointThreads DEF IInv, TypeOK, Busy, InHand, SubmitRefusedStopped, AfterSubmit, WorkerStates, ClientStates, OwnerStates, Threads
<1>3. CountersAgree' /\ Fifo' /\ EachJobOnce'
  BY <1>2, JobsUntouched DEF SubmitRefusedStopped
<1>4. NoLostWakeup'
  <2>1. Looking' = Looking /\ Asleep' = Asleep
    BY DisjointThreads DEF IInv, TypeOK, Looking, Asleep, SubmitRefusedStopped, AfterSubmit, WorkerStates, ClientStates, OwnerStates, Threads
  <2> QED
    BY <2>1 DEF IInv, NoLostWakeup, SubmitRefusedStopped
<1>5. StopWakesAll'
  BY DEF IInv, TypeOK, StopWakesAll, Lifecycle, Asleep, SubmitRefusedStopped, AfterSubmit, WorkerStates, ClientStates, OwnerStates, Threads
<1>6. Lifecycle'
  BY DisjointThreads DEF IInv, TypeOK, Lifecycle, SubmitRefusedStopped, AfterSubmit, WorkerStates, ClientStates, OwnerStates, Threads
<1> QED
  BY <1>1, <1>3, <1>4, <1>5, <1>6 DEF IInv

\* A worker goes to sleep over an empty list only.
LEMMA WorkerSleepsStep ==
  ASSUME IInv, NEW w \in Workers, WorkerSleeps(w)
  PROVE  IInv'
<1>1. TypeOK'
  BY DisjointThreads DEF IInv, TypeOK, WorkerSleeps, WorkerStates, ClientStates, OwnerStates, Threads
<1>2. Busy' = Busy /\ InHand' = InHand
  BY DisjointThreads DEF IInv, TypeOK, Busy, InHand, WorkerSleeps, WorkerStates, ClientStates, OwnerStates, Threads
<1>3. CountersAgree' /\ Fifo' /\ EachJobOnce'
  BY <1>2, JobsUntouched DEF WorkerSleeps
<1>4. NoLostWakeup'
  BY LookingNat DEF IInv, TypeOK, CountersAgree, NoLostWakeup, WorkerSleeps
<1>5. StopWakesAll'
  BY DEF IInv, TypeOK, StopWakesAll, Lifecycle, Asleep, WorkerSleeps, WorkerStates, ClientStates, OwnerStates, Threads
<1>6. Lifecycle'
  BY DisjointThreads DEF IInv, TypeOK, Lifecycle, WorkerSleeps, WorkerStates, ClientStates, OwnerStates, Threads
<1> QED
  BY <1>1, <1>3, <1>4, <1>5, <1>6 DEF IInv

\* A worker leaves a stopped pool, in which none sleeps.
LEMMA WorkerExitsStep ==
  ASSUME IInv, NEW w \in Workers, WorkerExits(w)
  PROVE  IInv'
<1>1. TypeOK'
  BY DisjointThreads DEF IInv, TypeOK, WorkerExits, MayExit, WorkerStates, ClientStates, OwnerStates, Threads
<1>2. Busy' = Busy /\ InHand' = InHand
  BY DisjointThreads DEF IInv, TypeOK, Busy, InHand, WorkerExits, MayExit, WorkerStates, ClientStates, OwnerStates, Threads
<1>3. CountersAgree' /\ Fifo' /\ EachJobOnce'
  BY <1>2, JobsUntouched DEF WorkerExits
<1>4. NoLostWakeup'
  <2>1. Asleep' = {}
    BY DEF IInv, TypeOK, StopWakesAll, Asleep, WorkerExits, MayExit, Threads
  <2> QED
    BY <2>1 DEF NoLostWakeup
<1>5. StopWakesAll'
  BY DEF IInv, TypeOK, StopWakesAll, Lifecycle, Asleep, WorkerExits, MayExit, WorkerStates, ClientStates, OwnerStates, Threads
<1>6. Lifecycle'
  BY DisjointThreads DEF IInv, TypeOK, Lifecycle, WorkerExits, MayExit, WorkerStates, ClientStates, OwnerStates, Threads
<1> QED
  BY <1>1, <1>3, <1>4, <1>5, <1>6 DEF IInv

\* A client enters wait.
LEMMA WaitEnterStep ==
  ASSUME IInv, NEW c \in Clients, WaitEnter(c)
  PROVE  IInv'
<1>1. TypeOK'
  BY DisjointThreads DEF IInv, TypeOK, WaitEnter, WorkerStates, ClientStates, OwnerStates, Threads
<1>2. Busy' = Busy /\ InHand' = InHand
  BY DisjointThreads DEF IInv, TypeOK, Busy, InHand, WaitEnter, WorkerStates, ClientStates, OwnerStates, Threads
<1>3. CountersAgree' /\ Fifo' /\ EachJobOnce'
  BY <1>2, JobsUntouched DEF WaitEnter
<1>4. NoLostWakeup'
  <2>1. Looking' = Looking /\ Asleep' = Asleep
    BY DisjointThreads DEF IInv, TypeOK, Looking, Asleep, WaitEnter, WorkerStates, ClientStates, OwnerStates, Threads
  <2> QED
    BY <2>1 DEF IInv, NoLostWakeup, WaitEnter
<1>5. StopWakesAll'
  BY DEF IInv, TypeOK, StopWakesAll, Lifecycle, Asleep, WaitEnter, WorkerStates, ClientStates, OwnerStates, Threads
<1>6. Lifecycle'
  BY DisjointThreads DEF IInv, TypeOK, Lifecycle, WaitEnter, WorkerStates, ClientStates, OwnerStates, Threads
<1> QED
  BY <1>1, <1>3, <1>4, <1>5, <1>6 DEF IInv

\* A client goes to sleep in wait.
LEMMA WaitSleepsStep ==
  ASSUME IInv, NEW c \in Clients, WaitSleeps(c)
  PROVE  IInv'
<1>1. TypeOK'
  BY DisjointThreads DEF IInv, TypeOK, WaitSleeps, WorkLeft, WorkerStates, ClientStates, OwnerStates, Threads
<1>2. Busy' = Busy /\ InHand' = InHand
  BY DisjointThreads DEF IInv, TypeOK, Busy, InHand, WaitSleeps, WorkLeft, WorkerStates, ClientStates, OwnerStates, Threads
<1>3. CountersAgree' /\ Fifo' /\ EachJobOnce'
  BY <1>2, JobsUntouched DEF WaitSleeps
<1>4. NoLostWakeup'
  <2>1. Looking' = Looking /\ Asleep' = Asleep
    BY DisjointThreads DEF IInv, TypeOK, Looking, Asleep, WaitSleeps, WorkerStates, ClientStates, OwnerStates, Threads
  <2> QED
    BY <2>1 DEF IInv, NoLostWakeup, WaitSleeps
<1>5. StopWakesAll'
  BY DEF IInv, TypeOK, StopWakesAll, Lifecycle, Asleep, WaitSleeps, WorkLeft, WorkerStates, ClientStates, OwnerStates, Threads
<1>6. Lifecycle'
  BY DisjointThreads DEF IInv, TypeOK, Lifecycle, WaitSleeps, WorkLeft, WorkerStates, ClientStates, OwnerStates, Threads
<1> QED
  BY <1>1, <1>3, <1>4, <1>5, <1>6 DEF IInv

\* A client returns from wait.
LEMMA WaitReturnsStep ==
  ASSUME IInv, NEW c \in Clients, WaitReturns(c)
  PROVE  IInv'
<1>1. TypeOK'
  BY DisjointThreads DEF IInv, TypeOK, WaitReturns, WorkLeft, WorkerStates, ClientStates, OwnerStates, Threads
<1>2. Busy' = Busy /\ InHand' = InHand
  BY DisjointThreads DEF IInv, TypeOK, Busy, InHand, WaitReturns, WorkLeft, WorkerStates, ClientStates, OwnerStates, Threads
<1>3. CountersAgree' /\ Fifo' /\ EachJobOnce'
  BY <1>2, JobsUntouched DEF WaitReturns
<1>4. NoLostWakeup'
  <2>1. Looking' = Looking /\ Asleep' = Asleep
    BY DisjointThreads DEF IInv, TypeOK, Looking, Asleep, WaitReturns, WorkerStates, ClientStates, OwnerStates, Threads
  <2> QED
    BY <2>1 DEF IInv, NoLostWakeup, WaitReturns
<1>5. StopWakesAll'
  BY DEF IInv, TypeOK, StopWakesAll, Lifecycle, Asleep, WaitReturns, WorkLeft, WorkerStates, ClientStates, OwnerStates, Threads
<1>6. Lifecycle'
  BY DisjointThreads DEF IInv, TypeOK, Lifecycle, WaitReturns, WorkLeft, WorkerStates, ClientStates, OwnerStates, Threads
<1> QED
  BY <1>1, <1>3, <1>4, <1>5, <1>6 DEF IInv

\* A spurious wakeup only adds a worker that looks for jobs.
LEMMA SpuriousWakeupStep ==
  ASSUME IInv, NEW t \in Threads, SpuriousWakeup(t)
  PROVE  IInv'
<1>1. TypeOK'
  BY DisjointThreads DEF IInv, TypeOK, SpuriousWakeup, WorkerStates, ClientStates, OwnerStates, Threads
<1>2. Busy' = Busy /\ InHand' = InHand
  BY DisjointThreads DEF IInv, TypeOK, Busy, InHand, SpuriousWakeup, WorkerStates, ClientStates, OwnerStates, Threads
<1>3. CountersAgree' /\ Fifo' /\ EachJobOnce'
  BY <1>2, JobsUntouched DEF SpuriousWakeup
<1>4. NoLostWakeup'
  <2>1. CASE pc[t] = "asleep"
    <3>1. /\ t \in Workers /\ t \notin Looking
          /\ Looking' = Looking \cup {t} /\ Asleep' \subseteq Asleep
      BY <2>1, DisjointThreads DEF IInv, TypeOK, Looking, Asleep, SpuriousWakeup, Threads, ClientStates
    <3>2. Cardinality(Looking') = Cardinality(Looking) + 1
      BY <3>1, WorkerSetsFinite, CountUp
    <3> QED
      BY <3>1, <3>2, WorkerSetsFinite DEF IInv, TypeOK, NoLostWakeup, SpuriousWakeup
  <2>2. CASE pc[t] = "idling"
    <3>1. Looking' = Looking /\ Asleep' = Asleep
      BY <2>2, DisjointThreads DEF IInv, TypeOK, Looking, Asleep, SpuriousWakeup, Threads, WorkerStates
    <3> QED
      BY <3>1 DEF IInv, NoLostWakeup, SpuriousWakeup
  <2> QED
    BY <2>1, <2>2 DEF SpuriousWakeup
<1>5. StopWakesAll'
  BY DEF IInv, TypeOK, StopWakesAll, Lifecycle, Asleep, SpuriousWakeup, WorkerStates, ClientStates, OwnerStates, Threads
<1>6. Lifecycle'
  BY DisjointThreads DEF IInv, TypeOK, Lifecycle, SpuriousWakeup, WorkerStates, ClientStates, OwnerStates, Threads
<1> QED
  BY <1>1, <1>3, <1>4, <1>5, <1>6 DEF IInv

\* init hands over a pool with a worker, or none.
LEMMA InitReturnsStep ==
  ASSUME IInv, InitReturns
  PROVE  IInv'
<1>1. TypeOK'
  BY DisjointThreads DEF IInv, TypeOK, InitReturns, WorkerStates, ClientStates, OwnerStates, Threads
<1>2. Busy' = Busy /\ InHand' = InHand
  BY DisjointThreads DEF IInv, TypeOK, Busy, InHand, InitReturns, WorkerStates, ClientStates, OwnerStates, Threads
<1>3. CountersAgree' /\ Fifo' /\ EachJobOnce'
  BY <1>2, JobsUntouched DEF InitReturns
<1>4. NoLostWakeup'
  <2>1. Looking' = Looking /\ Asleep' = Asleep
    BY DisjointThreads DEF IInv, TypeOK, Looking, Asleep, InitReturns, WorkerStates, ClientStates, OwnerStates, Threads
  <2> QED
    BY <2>1 DEF IInv, NoLostWakeup, InitReturns
<1>5. StopWakesAll'
  BY DEF IInv, TypeOK, StopWakesAll, Lifecycle, Asleep, InitReturns, WorkerStates, ClientStates, OwnerStates, Threads
<1>6. Lifecycle'
  BY DisjointThreads DEF IInv, TypeOK, Lifecycle, InitReturns, WorkerStates, ClientStates, OwnerStates, Threads
<1> QED
  BY <1>1, <1>3, <1>4, <1>5, <1>6 DEF IInv

\* free wakes every sleeping worker.
LEMMA FreeStopsStep ==
  ASSUME IInv, FreeStops
  PROVE  IInv'
<1>1. TypeOK'
  BY DisjointThreads DEF IInv, TypeOK, FreeStops, WakeForStop, Broadcast, Asleep, WorkerStates, ClientStates, OwnerStates, Threads
<1>2. Busy' = Busy /\ InHand' = InHand
  BY DisjointThreads DEF IInv, TypeOK, Busy, InHand, FreeStops, WakeForStop, Broadcast, Asleep, WorkerStates, ClientStates, OwnerStates, Threads
<1>3. CountersAgree' /\ Fifo' /\ EachJobOnce'
  BY <1>2, JobsUntouched DEF FreeStops
<1>4. NoLostWakeup'
  <2>1. Asleep' = {}
    BY DEF IInv, TypeOK, Asleep, FreeStops, WakeForStop, Broadcast, Threads
  <2> QED
    BY <2>1 DEF NoLostWakeup
<1>5. StopWakesAll'
  BY DEF IInv, TypeOK, StopWakesAll, Lifecycle, Asleep, FreeStops, WakeForStop, Broadcast, Asleep, WorkerStates, ClientStates, OwnerStates, Threads
<1>6. Lifecycle'
  BY DisjointThreads DEF IInv, TypeOK, Lifecycle, FreeStops, WakeForStop, Broadcast, Asleep, WorkerStates, ClientStates, OwnerStates, Threads
<1> QED
  BY <1>1, <1>3, <1>4, <1>5, <1>6 DEF IInv

\* submit links the job at the tail and wakes a sleeping worker, if there is one.
LEMMA SubmitAcceptedStep ==
  ASSUME IInv, NEW t \in Threads, SubmitAccepted(t)
  PROVE  IInv'
<1> DEFINE back == [pc EXCEPT ![t] = AfterSubmit(t)]
<1>1. /\ pc \in [Threads -> WorkerStates \cup ClientStates]
      /\ queue \in Seq(Nat) /\ queued \in Nat /\ accepted \in Nat
      /\ Asleep \subseteq Threads /\ t \notin Asleep
      /\ queue' = Append(queue, accepted + 1) /\ accepted' = accepted + 1
      /\ stop = 0 /\ pc[t] = "offering" /\ UNCHANGED <<owner, stop, owed>>
  BY DEF IInv, TypeOK, Asleep, Threads, SubmitAccepted, LinkJob
<1>2. \/ Asleep = {} /\ pc' = back
      \/ \E s \in Asleep : pc' = [back EXCEPT ![s] = "looking"]
  BY DEF SubmitAccepted, WakeForJob, Signal
<1>3. /\ \A x \in Threads \ {t} :
           \/ pc'[x] = pc[x]
           \/ x \in Asleep /\ pc'[x] = "looking"
      /\ pc'[t] = AfterSubmit(t)
      /\ pc' \in [Threads -> WorkerStates \cup ClientStates]
  BY <1>1, <1>2 DEF AfterSubmit, WorkerStates, ClientStates
<1>4. TypeOK'
  <2>1. \A w \in Workers : pc'[w] \in WorkerStates
    BY <1>3, DisjointThreads DEF IInv, TypeOK, AfterSubmit, Threads, WorkerStates
  <2>2. \A c \in Clients : pc'[c] \in ClientStates
    BY <1>3, DisjointThreads DEF IInv, TypeOK, AfterSubmit, Asleep, Threads, ClientStates
  <2>3. queue' \in Seq(Nat) /\ accepted' \in Nat
    BY <1>1
  <2> QED
    BY <1>1, <1>3, <2>1, <2>2, <2>3 DEF IInv, TypeOK, SubmitAccepted
<1>5. Busy' = Busy /\ InHand' = InHand
  BY <1>3, DisjointThreads, ZenonT(60) DEF IInv, TypeOK, Busy, InHand, Asleep, AfterSubmit, SubmitAccepted, Threads, ClientStates
<1>6. CountersAgree'
  BY <1>1, <1>5 DEF IInv, CountersAgree, SubmitAccepted
<1>7. accepted' - Len(queue') = accepted - Len(queue) /\ Len(queue') = Len(queue) + 1
  BY <1>1
<1>8. Fifo'
  <2>1. \A i \in 1 .. Len(queue') : queue'[i] = accepted' - Len(queue') + i
    <3>1. \A i \in 1 .. Len(queue) : queue'[i] = queue[i]
      BY <1>1
    <3>2. queue'[Len(queue) + 1] = accepted + 1
      BY <1>1
    <3> QED
      BY <1>1, <1>7, <3>1, <3>2 DEF IInv, Fifo
  <2>2. holds' = holds
    BY DEF SubmitAccepted
  <2> QED
    BY <1>1, <1>5, <1>7, <2>1, <2>2 DEF IInv, Fifo
<1>9. EachJobOnce'
  BY <1>5, <1>7 DEF IInv, EachJobOnce, SubmitAccepted
<1>10. NoLostWakeup'
  <2>1. CASE Asleep = {}
    BY <1>3, <2>1, DisjointThreads DEF NoLostWakeup, Asleep, AfterSubmit, Threads
  <2>2. CASE Asleep # {}
    <3>1. PICK s \in Asleep : pc' = [back EXCEPT ![s] = "looking"]
      BY <1>2, <2>2
    <3>2. Looking' = Looking \cup {s} /\ s \notin Looking
      BY <1>1, <3>1, DisjointThreads DEF Looking, Asleep, AfterSubmit, SubmitAccepted, Threads
    <3>3. Cardinality(Looking') = Cardinality(Looking) + 1
      BY <3>2, WorkerSetsFinite, CountUp
    <3> QED
      BY <1>1, <1>7, <2>2, <3>3, WorkerSetsFinite DEF IInv, NoLostWakeup
  <2> QED
    BY <2>1, <2>2
<1>11. StopWakesAll'
  BY DEF SubmitAccepted, StopWakesAll
<1>12. Lifecycle'
  <2>1. \A w \in Workers : pc'[w] # "exited" /\ (pc[w] # "absent" => pc'[w] # "absent")
    BY <1>1, <1>3 DEF IInv, Lifecycle, AfterSubmit, Threads
  <2>2. owner # "up" => t \notin Clients
    BY <1>1 DEF IInv, Lifecycle
  <2>3. owner # "up" => \A c \in Clients : pc'[c] = "out"
    BY <1>1, <1>3, <2>2 DEF IInv, Lifecycle, Asleep, Threads
  <2> QED
    BY <1>1, <2>1, <2>3 DEF IInv, TypeOK, Lifecycle
<1> QED
  BY <1>4, <1>6, <1>8, <1>9, <1>10, <1>11, <1>12 DEF IInv

\* A worker takes the oldest job of the list.
LEMMA WorkerTakesStep ==
  ASSUME IInv, NEW w \in Workers, WorkerTakes(w)
  PROVE  IInv'
<1>1. /\ queue \in Seq(Nat) /\ queue # << >> /\ Len(queue) \in Nat \ {0}
      /\ accepted \in Nat /\ accepted' = accepted
      /\ Len(queue') = Len(queue) - 1
      /\ \A i \in 1 .. Len(queue') : queue'[i] = queue[i + 1]
      /\ holds \in [Workers -> Nat] /\ holds' = [holds EXCEPT ![w] = queue[1]]
  BY DEF IInv, TypeOK, WorkerTakes
<1>2. TypeOK'
  BY <1>1, DisjointThreads DEF IInv, TypeOK, CountersAgree, WorkerTakes, Claim, WorkerStates, Threads
<1>3. /\ Busy' = Busy \cup {w} /\ w \notin Busy
      /\ InHand' = InHand \cup {w} /\ w \notin InHand
      /\ Looking' = Looking \ {w} /\ w \in Looking
      /\ Asleep' = Asleep
  BY DEF IInv, TypeOK, Busy, InHand, Looking, Asleep, WorkerTakes, Threads
<1>4. CountersAgree'
  BY <1>1, <1>3, WorkerSetsFinite, CountUp DEF IInv, CountersAgree, WorkerTakes, Claim
<1>5. /\ accepted' - Len(queue') = accepted - Len(queue) + 1
      /\ queue[1] = accepted - Len(queue) + 1
      /\ Len(queue) <= accepted
  BY <1>1 DEF IInv, Fifo
<1>6. \A v \in Workers : holds'[v] = IF v = w THEN queue[1] ELSE holds[v]
  BY <1>1
<1>7. \A v \in Busy : holds[v] \in 1 .. (accepted - Len(queue))
  BY DEF IInv, Fifo
<1>8. Fifo'
  <2>1. \A i \in 1 .. Len(queue') : queue'[i] = accepted' - Len(queue') + i
    BY <1>1 DEF IInv, Fifo
  <2>2. \A v \in Busy' : holds'[v] \in 1 .. (accepted' - Len(queue'))
    BY <1>1, <1>3, <1>5, <1>6, <1>7 DEF Busy
  <2> QED
    BY <1>1, <1>5, <2>1, <2>2 DEF Fifo
<1>9. EachJobOnce'
  <2>1. /\ done' = done
        /\ done \subseteq 1 .. (accepted - Len(queue))
        /\ \A j \in 1 .. (accepted - Len(queue)) : j \in done \/ \E v \in InHand : holds[v] = j
        /\ \A v \in InHand : holds[v] \notin done
        /\ \A u, v \in Busy : u # v => holds[u] # holds[v]
    BY DEF IInv, EachJobOnce, WorkerTakes
  <2>2. done' \subseteq 1 .. (accepted' - Len(queue'))
    BY <1>1, <1>5, <2>1
  <2>3. \A j \in 1 .. (accepted' - Len(queue')) : j \in done' \/ \E v \in InHand' : holds'[v] = j
    <3> SUFFICES ASSUME NEW j \in 1 .. (accepted' - Len(queue')), j \notin done'
                 PROVE  \E v \in InHand' : holds'[v] = j
      OBVIOUS
    <3>1. CASE j = queue[1]
      BY <1>3, <1>6, <3>1
    <3>2. CASE j # queue[1]
      <4>1. j \in 1 .. (accepted - Len(queue))
        <5>1. accepted - Len(queue) \in Nat
          BY <1>1, <1>5
        <5> QED
          BY <1>5, <3>2, <5>1
      <4>2. PICK v \in InHand : holds[v] = j
        BY <2>1, <4>1
      <4> QED
        BY <1>3, <1>6, <4>2 DEF InHand
    <3> QED
      BY <3>1, <3>2
  <2>4. \A v \in InHand' : holds'[v] \notin done'
    BY <1>1, <1>3, <1>5, <1>6, <2>1 DEF InHand
  <2>5. \A u, v \in Busy' : u # v => holds'[u] # holds'[v]
    BY <1>1, <1>3, <1>5, <1>6, <1>7, <2>1 DEF Busy
  <2> QED
    BY <2>2, <2>3, <2>4, <2>5 DEF EachJobOnce
<1>10. NoLostWakeup'
  BY <1>1, <1>3, WorkerSetsFinite, CountDown DEF IInv, NoLostWakeup
<1>11. StopWakesAll'
  BY <1>3 DEF IInv, StopWakesAll, WorkerTakes
<1>12. Lifecycle'
  BY DisjointThreads DEF IInv, TypeOK, Lifecycle, WorkerTakes, Threads
<1> QED
  BY <1>2, <1>4, <1>8, <1>9, <1>10, <1>11, <1>12 DEF IInv

\* fn returns: the job is done and still counted as active.
LEMMA JobReturnsStep ==
  ASSUME IInv, NEW w \in Workers, JobReturns(w)
  PROVE  IInv'
<1>1. /\ Busy' = Busy /\ w \in Busy
      /\ InHand' = InHand \ {w} /\ w \in InHand /\ InHand \subseteq Busy
      /\ Looking' = Looking /\ Asleep' = Asleep
      /\ done' = done \cup {holds[w]}
      /\ UNCHANGED <<owner, queue, queued, active, stop, holds, accepted, owed>>
  BY DEF IInv, TypeOK, Busy, InHand, Looking, Asleep, JobReturns, Threads
<1>2. TypeOK'
  BY DisjointThreads DEF IInv, TypeOK, JobReturns, WorkerStates, Threads
<1>3. CountersAgree' /\ Fifo'
  BY <1>1 DEF IInv, CountersAgree, Fifo
<1>4. EachJobOnce'
  <2>1. done' \subseteq 1 .. (accepted - Len(queue))
    BY <1>1 DEF IInv, EachJobOnce, Fifo
  <2>2. \A j \in 1 .. (accepted - Len(queue)) : j \in done' \/ \E v \in InHand' : holds[v] = j
    BY <1>1 DEF IInv, EachJobOnce
  <2>3. \A v \in InHand' : holds[v] \notin done'
    BY <1>1 DEF IInv, EachJobOnce
  <2> QED
    BY <1>1, <2>1, <2>2, <2>3 DEF IInv, EachJobOnce
<1>5. NoLostWakeup' /\ StopWakesAll'
  BY <1>1 DEF IInv, NoLostWakeup, StopWakesAll
<1>6. Lifecycle'
  BY DisjointThreads DEF IInv, TypeOK, Lifecycle, JobReturns, Threads
<1> QED
  BY <1>2, <1>3, <1>4, <1>5, <1>6 DEF IInv

\* A worker gives its job back and, if it was the last one, signals idle.
LEMMA WorkerFinishesStep ==
  ASSUME IInv, NEW w \in Workers, WorkerFinishes(w)
  PROVE  IInv'
<1> DEFINE back == [pc EXCEPT ![w] = "looking"]
<1>1. /\ pc \in [Threads -> WorkerStates \cup ClientStates] /\ pc[w] = "leaving"
      /\ active \in Nat /\ active' = active - 1
      /\ holds \in [Workers -> Nat] /\ holds' = [holds EXCEPT ![w] = 0]
      /\ Idling \subseteq Clients /\ w \notin Clients
      /\ UNCHANGED <<owner, queue, queued, stop, accepted, done, owed>>
  BY DisjointThreads DEF IInv, TypeOK, WorkerFinishes, NoJob, Idling
<1>2. pc' = back \/ \E c \in Idling : pc' = [back EXCEPT ![c] = "waiting"]
  BY DEF WorkerFinishes, Signal
<1>3. /\ \A x \in Workers \ {w} : pc'[x] = pc[x]
      /\ \A c \in Clients : pc'[c] = pc[c] \/ (pc[c] = "idling" /\ pc'[c] = "waiting")
      /\ pc'[w] = "looking"
      /\ pc' \in [Threads -> WorkerStates \cup ClientStates]
  BY <1>1, <1>2, DisjointThreads DEF WorkerStates, ClientStates, Threads, Idling
<1>4. /\ Busy' = Busy \ {w} /\ w \in Busy
      /\ InHand' = InHand /\ w \notin InHand
      /\ Looking' = Looking \cup {w} /\ w \notin Looking
      /\ Asleep' = Asleep
  BY <1>1, <1>3 DEF Busy, InHand, Looking, Asleep
<1>5. active = Cardinality(Busy) /\ active - 1 = Cardinality(Busy') /\ active - 1 \in Nat
  <2>1. active = Cardinality(Busy)
    BY DEF IInv, CountersAgree
  <2>2. Cardinality(Busy \ {w}) = Cardinality(Busy) - 1
    BY <1>4, WorkerSetsFinite, CountDown
  <2>3. IsFiniteSet(Busy \ {w}) /\ Cardinality(Busy \ {w}) \in Nat
    BY WorkerSetsFinite, FS_RemoveElement, FS_CardinalityType
  <2> QED
    BY <1>4, <2>1, <2>2, <2>3
<1>6. TypeOK'
  <2>1. \A x \in Workers : pc'[x] \in WorkerStates
    BY <1>1, <1>3 DEF IInv, TypeOK, WorkerStates
  <2>2. \A c \in Clients : pc'[c] \in ClientStates
    BY <1>3 DEF IInv, TypeOK, ClientStates
  <2> QED
    BY <1>1, <1>3, <1>5, <2>1, <2>2 DEF IInv, TypeOK
<1>7. CountersAgree'
  BY <1>1, <1>5 DEF IInv, CountersAgree
<1>8. \A v \in Workers \ {w} : holds'[v] = holds[v]
  BY <1>1
<1>9. Fifo'
  BY <1>1, <1>4, <1>8 DEF IInv, Fifo, Busy
<1>10. EachJobOnce'
  <2>1. \A v \in InHand : holds'[v] = holds[v]
    BY <1>4, <1>8 DEF InHand
  <2>2. \A u, v \in Busy' : u # v => holds'[u] # holds'[v]
    BY <1>4, <1>8 DEF IInv, EachJobOnce, Busy
  <2> QED
    BY <1>1, <1>4, <2>1, <2>2 DEF IInv, EachJobOnce
<1>11. NoLostWakeup'
  <2>1. Cardinality(Looking') = Cardinality(Looking) + 1
    BY <1>4, WorkerSetsFinite, CountUp
  <2> QED
    BY <1>1, <1>4, <2>1, WorkerSetsFinite DEF IInv, TypeOK, NoLostWakeup
<1>12. StopWakesAll'
  BY <1>1, <1>4 DEF IInv, StopWakesAll
<1>13. Lifecycle'
  BY <1>1, <1>3 DEF IInv, TypeOK, Lifecycle
<1> QED
  BY <1>6, <1>7, <1>9, <1>10, <1>11, <1>12, <1>13 DEF IInv

\* The list that free throws away is empty: a worker saw it drained.
LEMMA FreeReturnsStep ==
  ASSUME IInv, FreeReturns
  PROVE  IInv'
<1>1. queue = << >>
  BY DEF IInv, Lifecycle, FreeReturns, Joined
<1>2. Busy' = Busy /\ InHand' = InHand /\ Asleep' = Asleep /\ Looking' = Looking
  BY DEF FreeReturns, Busy, InHand, Asleep, Looking
<1>3. UNCHANGED <<pc, queue, queued, active, stop, holds, accepted, done, owed>> /\ owner' = "freed"
  BY <1>1 DEF FreeReturns
<1>4. CountersAgree' /\ Fifo' /\ EachJobOnce'
  BY <1>2, <1>3, JobsUntouched
<1>5. NoLostWakeup' /\ StopWakesAll'
  BY <1>2, <1>3 DEF IInv, NoLostWakeup, StopWakesAll
<1>6. TypeOK'
  BY <1>3 DEF IInv, TypeOK, OwnerStates
<1>7. Lifecycle'
  BY <1>3 DEF IInv, Lifecycle, FreeReturns, Joined
<1> QED
  BY <1>4, <1>5, <1>6, <1>7 DEF IInv

\* Every step of the pool keeps the invariant.
LEMMA NextIInv == IInv /\ [Next]_vars => IInv'
<1> SUFFICES ASSUME IInv, [Next]_vars PROVE IInv'
  OBVIOUS
<1>1. CASE UNCHANGED vars
  BY <1>1 DEF IInv, vars, TypeOK, CountersAgree, Fifo, EachJobOnce, NoLostWakeup, StopWakesAll,
     Lifecycle, Busy, InHand, Looking, Asleep
<1>2. ASSUME NEW w \in Workers, StartWorker(w) \/ WorkerLoop(w) \/ JobReturns(w)
      PROVE  IInv'
  BY <1>2, StartWorkerStep, WorkerSleepsStep, WorkerExitsStep, WorkerTakesStep, JobReturnsStep,
     WorkerFinishesStep DEF WorkerLoop
<1>3. ASSUME NEW t \in Threads, Submit(t) \/ SpuriousWakeup(t)
      PROVE  IInv'
  BY <1>1, <1>3, SubmitEnterStep, SubmitRefusedStoppedStep, SubmitAcceptedStep, SpuriousWakeupStep
     DEF Submit, SubmitRefusedDead
<1>4. ASSUME NEW c \in Clients, Wait(c)
      PROVE  IInv'
  BY <1>4, WaitEnterStep, WaitSleepsStep, WaitReturnsStep DEF Wait
<1>5. CASE InitReturns \/ InitFailed \/ FreeStops \/ FreeReturns
  BY <1>1, <1>5, InitReturnsStep, FreeStopsStep, FreeReturnsStep DEF InitFailed
<1> QED
  BY <1>1, <1>2, <1>3, <1>4, <1>5 DEF Next

\* The inductive invariant holds of every behaviour of the pool.
THEOREM PoolInvariant == Spec => []IInv
BY InitIInv, NextIInv, PTL DEF Spec
-----------------------------------------------------------------------------
\* Type correctness: in particular the counters never wrap below zero.
THEOREM PoolTypeOK == Spec => []TypeOK
<1>1. IInv => TypeOK
  BY DEF IInv
<1> QED
  BY <1>1, PoolInvariant, PTL

\* Jobs are started in the order submit accepted them, for any number of them.
THEOREM PoolFifo == Spec => []Fifo
<1>1. IInv => Fifo
  BY DEF IInv
<1> QED
  BY <1>1, PoolInvariant, PTL

\* No accepted job is lost and none is run twice.
THEOREM PoolEachJobOnce == Spec => []EachJobOnce
<1>1. IInv => EachJobOnce
  BY DEF IInv
<1> QED
  BY <1>1, PoolInvariant, PTL

\* submit's single cond_signal per job is enough: no job waits while a worker
\* that could take it sleeps.
THEOREM PoolNoLostWakeup == Spec => []NoLostWakeup
<1>1. IInv => NoLostWakeup
  BY DEF IInv
<1> QED
  BY <1>1, PoolInvariant, PTL

\* An empty list and no busy worker leave nothing undone.
LEMMA DrainedMeansDone ==
  ASSUME IInv, queue = << >>, Busy = {}
  PROVE  done = 1 .. accepted /\ queued = 0 /\ active = 0
<1>1. InHand = {} /\ accepted - Len(queue) = accepted
  BY DEF IInv, TypeOK, Busy, InHand
<1>2. done = 1 .. accepted
  BY <1>1 DEF IInv, EachJobOnce
<1>3. queued = 0 /\ active = 0
  BY FS_EmptySet DEF IInv, CountersAgree
<1> QED
  BY <1>2, <1>3

\* When free returns, every accepted job has run.
THEOREM PoolFreePromise == Spec => []FreePromise
<1>1. ASSUME IInv PROVE FreePromise
  <2> SUFFICES ASSUME owner = "freed"
               PROVE  done = 1 .. accepted /\ queued = 0 /\ active = 0
    BY DEF FreePromise
  <2>1. queue = << >> /\ Busy = {}
    BY <1>1 DEF IInv, Lifecycle, Busy
  <2> QED
    BY <1>1, <2>1, DrainedMeansDone
<1> QED
  BY <1>1, PoolInvariant, PTL

\* When free returns, no thread is left inside the pool's functions.
THEOREM PoolNoUseAfterFree == Spec => []NoUseAfterFree
<1>1. IInv => NoUseAfterFree
  BY DEF IInv, Lifecycle, NoUseAfterFree, Threads
<1> QED
  BY <1>1, PoolInvariant, PTL

\* When wait returns, every job accepted before the call has run.
THEOREM PoolWaitPromise == Spec => WaitPromise
<1>1. ASSUME IInv, NEW c \in Clients, WaitReturns(c)
      PROVE  1 .. owed[c] \subseteq done
  <2>1. queued = 0 /\ active = 0
    BY <1>1 DEF IInv, TypeOK, WaitReturns, WorkLeft
  <2>2. queue = << >>
    <3>1. queue \in Seq(Nat) /\ Len(queue) = 0
      BY <1>1, <2>1 DEF IInv, TypeOK, CountersAgree
    <3> QED
      BY <3>1
  <2>3. Busy = {}
    BY <1>1, <2>1, WorkerSetsFinite, FS_EmptySet DEF IInv, CountersAgree
  <2>4. done = 1 .. accepted
    BY <1>1, <2>2, <2>3, DrainedMeansDone
  <2> QED
    BY <1>1, <2>4 DEF IInv, TypeOK, Lifecycle
<1>2. IInv => \A c \in Clients : WaitReturns(c) => 1 .. owed[c] \subseteq done
  BY <1>1
<1> QED
  BY <1>2, PoolInvariant, PTL DEF WaitPromise
-----------------------------------------------------------------------------
(***************************************************************************)
(* The refinement.  Running is the abstract set of jobs in hand; the other *)
(* abstract variables are variables of the pool, and Phase is its owner.   *)
(***************************************************************************)
Running == {holds[w] : w \in InHand}

\* A step that changes neither the jobs nor the phase is a stutter of the queue.
LEMMA Stutters ==
  ASSUME Phase' = Phase, InHand' = InHand, UNCHANGED <<queue, holds, done, accepted>>
  PROVE  UNCHANGED Abstract!jvars
<1>1. Running' = Running
  BY DEF Running
<1> QED
  BY <1>1 DEF Abstract!jvars, Running

\* A looking worker leaves room for its job: the jobs in hand are fewer than
\* the workers, since each is held by a worker and the looking one holds none.
LEMMA RoomForOne ==
  ASSUME NEW w \in Workers, pc[w] = "looking"
  PROVE  Cardinality(Running) < Cardinality(Workers)
<1> DEFINE f == [v \in InHand |-> holds[v]]
<1>1. InHand \in SUBSET (Workers \ {w})
  BY DEF InHand
<1>2. /\ IsFiniteSet(Workers \ {w})
      /\ Cardinality(Workers \ {w}) = Cardinality(Workers) - 1
      /\ Cardinality(Workers) \in Nat
  BY WorkersFinite, FS_RemoveElement, FS_CardinalityType
<1>3. /\ IsFiniteSet(InHand) /\ Cardinality(InHand) \in Nat
      /\ Cardinality(InHand) <= Cardinality(Workers) - 1
  BY <1>1, <1>2, FS_Subset, FS_CardinalityType
<1>4. f \in Surjection(InHand, Running)
  BY DEF Surjection, Running
<1>5. IsFiniteSet(Running) /\ Cardinality(Running) <= Cardinality(InHand)
  BY <1>3, <1>4, FS_Surjection
<1>6. Cardinality(Running) \in Nat
  BY <1>5, FS_CardinalityType
<1> QED
  BY <1>2, <1>3, <1>5, <1>6

\* A worker that takes a job starts the oldest pending one.
LEMMA TakesStarts ==
  ASSUME IInv, NEW w \in Workers, WorkerTakes(w)
  PROVE  Abstract!Start
<1>1. InHand' = InHand \cup {w} /\ w \notin InHand
  BY DEF IInv, TypeOK, InHand, WorkerTakes, Threads
<1>2. \A v \in Workers : holds'[v] = IF v = w THEN Head(queue) ELSE holds[v]
  BY DEF IInv, TypeOK, WorkerTakes
<1>3. Running' = Running \cup {Head(queue)}
  BY <1>1, <1>2 DEF Running, InHand
<1>4. Abstract!Cardinality(Running) < Cardinality(Workers)
  <2>1. Abstract!Cardinality(Running) = Cardinality(Running)
    BY Zenon DEF Abstract!Cardinality, Cardinality, Abstract!IsFiniteSet, IsFiniteSet
  <2> QED
    BY <2>1, RoomForOne DEF WorkerTakes
<1>5. owner # "freed"
  BY DEF IInv, Lifecycle, WorkerTakes
<1>6. Phase # "gone" /\ Phase' = Phase
  BY <1>5 DEF Phase, WorkerTakes
<1> QED
  BY <1>3, <1>4, <1>6 DEF Abstract!Start, Running, WorkerTakes

\* A job whose fn returns is finished, and it was the only one of its number.
LEMMA ReturnsFinishes ==
  ASSUME IInv, NEW w \in Workers, JobReturns(w)
  PROVE  \E j \in Running : Abstract!Finish(j)
<1>1. InHand' = InHand \ {w} /\ w \in InHand /\ InHand \subseteq Busy
  BY DEF IInv, TypeOK, InHand, Busy, JobReturns, Threads
<1>2. \A v \in InHand : v # w => holds[v] # holds[w]
  BY <1>1 DEF IInv, EachJobOnce
<1>3. Running' = Running \ {holds[w]}
  BY <1>1, <1>2 DEF Running, JobReturns
<1>4. ASSUME NEW j, j = holds[w]
      PROVE  Abstract!Finish(j)
  BY <1>1, <1>3, <1>4 DEF Abstract!Finish, Running, Phase, JobReturns
<1> QED
  BY <1>1, <1>4 DEF Running

\* An accepted job is pending behind all others.
LEMMA AcceptedAccepts ==
  ASSUME IInv, NEW t \in Threads, SubmitAccepted(t)
  PROVE  Abstract!Accept
<1> DEFINE back == [pc EXCEPT ![t] = AfterSubmit(t)]
<1>1. /\ pc \in [Threads -> WorkerStates \cup ClientStates] /\ pc[t] = "offering"
      /\ Asleep \subseteq Threads
      /\ \A s \in Asleep : pc[s] = "asleep"
  BY DEF IInv, TypeOK, SubmitAccepted, Asleep, Threads
<1>2. pc' = back \/ \E s \in Asleep : pc' = [back EXCEPT ![s] = "looking"]
  BY DEF SubmitAccepted, WakeForJob, Signal
<1>3. InHand' = InHand
  BY <1>1, <1>2, DisjointThreads DEF InHand, AfterSubmit, Threads
<1>4. Running' = Running
  BY <1>3 DEF Running, SubmitAccepted
<1>5. Phase = "open" /\ Phase' = Phase
  BY DEF IInv, Lifecycle, TypeOK, Phase, SubmitAccepted
<1> QED
  BY <1>4, <1>5 DEF Abstract!Accept, Running, SubmitAccepted, LinkJob

\* free closes the queue, and its return tears a drained one down.
LEMMA FreeClosesAndTearsDown ==
  ASSUME IInv, FreeStops \/ FreeReturns
  PROVE  Abstract!Close \/ Abstract!Teardown
<1>1. CASE FreeStops
  <2>1. InHand' = InHand
    BY <1>1 DEF FreeStops, WakeForStop, Broadcast, InHand, Asleep, Threads
  <2>2. Running' = Running
    BY <1>1, <2>1 DEF Running, FreeStops
  <2> QED
    BY <1>1, <2>2 DEF Abstract!Close, Phase, Running, FreeStops
<1>2. CASE FreeReturns
  <2>1. queue = << >> /\ InHand = {}
    BY <1>2 DEF IInv, Lifecycle, FreeReturns, Joined, InHand
  <2>2. Running = {} /\ Running' = {}
    BY <1>2, <2>1 DEF Running, InHand, FreeReturns
  <2> QED
    BY <1>2, <2>1, <2>2 DEF Abstract!Teardown, Phase, Running, FreeReturns
<1> QED
  BY <1>1, <1>2

\* The other steps of a worker move it without touching a job.
LEMMA WorkerStutters ==
  ASSUME IInv, NEW w \in Workers,
         StartWorker(w) \/ WorkerSleeps(w) \/ WorkerExits(w) \/ WorkerFinishes(w)
  PROVE  UNCHANGED Abstract!jvars
<1>1. CASE StartWorker(w) \/ WorkerSleeps(w) \/ WorkerExits(w)
  <2>1. InHand' = InHand
    BY <1>1 DEF IInv, TypeOK, InHand, StartWorker, WorkerSleeps, WorkerExits, Threads
  <2> QED
    BY <1>1, <2>1, Stutters DEF StartWorker, WorkerSleeps, WorkerExits, Phase
<1>2. CASE WorkerFinishes(w)
  <2> DEFINE back == [pc EXCEPT ![w] = "looking"]
  <2>1. pc' = back \/ \E c \in Idling : pc' = [back EXCEPT ![c] = "waiting"]
    BY <1>2 DEF WorkerFinishes, Signal
  <2>2. /\ pc \in [Threads -> WorkerStates \cup ClientStates] /\ pc[w] = "leaving"
        /\ Idling \subseteq Clients
    BY <1>2 DEF IInv, TypeOK, WorkerFinishes, Idling
  <2>3. InHand' = InHand /\ w \notin InHand
    BY <2>1, <2>2, DisjointThreads DEF InHand, Threads
  <2>4. \A v \in InHand : holds'[v] = holds[v]
    BY <1>2, <2>3 DEF IInv, TypeOK, WorkerFinishes, InHand
  <2>5. Running' = Running
    BY <2>3, <2>4 DEF Running
  <2> QED
    BY <1>2, <2>5 DEF Abstract!jvars, Running, Phase, WorkerFinishes
<1> QED
  BY <1>1, <1>2

\* So do the steps of the clients, of a submit that accepts nothing, and init's.
LEMMA OthersStutter ==
  ASSUME IInv,
         \/ \E t \in Threads : SubmitEnter(t) \/ SubmitRefusedStopped(t) \/ SpuriousWakeup(t)
         \/ \E c \in Clients : Wait(c)
         \/ InitReturns
  PROVE  UNCHANGED Abstract!jvars
<1>1. ASSUME NEW t \in Threads, SubmitEnter(t) \/ SubmitRefusedStopped(t) \/ SpuriousWakeup(t)
      PROVE  UNCHANGED Abstract!jvars
  <2>1. InHand' = InHand
    BY <1>1, DisjointThreads DEF IInv, TypeOK, InHand, SubmitEnter, SubmitRefusedStopped,
       SpuriousWakeup, Caller, AfterSubmit, Threads
  <2> QED
    BY <1>1, <2>1, Stutters DEF SubmitEnter, SubmitRefusedStopped, SpuriousWakeup, Phase
<1>2. ASSUME NEW c \in Clients, Wait(c)
      PROVE  UNCHANGED Abstract!jvars
  <2>1. InHand' = InHand
    BY <1>2, DisjointThreads DEF IInv, TypeOK, InHand, Wait, WaitEnter, WaitSleeps, WaitReturns, Threads
  <2> QED
    BY <1>2, <2>1, Stutters DEF Wait, WaitEnter, WaitSleeps, WaitReturns, Phase
<1>3. CASE InitReturns
  <2>1. InHand' = InHand /\ Phase' = Phase
    BY <1>3 DEF InHand, InitReturns, Phase
  <2> QED
    BY <1>3, <2>1, Stutters DEF InitReturns
<1> QED
  BY <1>1, <1>2, <1>3

\* Every step of the pool is a step of the job queue or a stutter.
LEMMA NextRefines == IInv /\ [Next]_vars => [Abstract!Next]_(Abstract!jvars)
<1> SUFFICES ASSUME IInv, [Next]_vars
             PROVE  Abstract!Next \/ UNCHANGED Abstract!jvars
  OBVIOUS
<1>1. CASE UNCHANGED vars
  <2>1. InHand' = InHand /\ Phase' = Phase
    BY <1>1 DEF vars, InHand, Phase
  <2> QED
    BY <1>1, <2>1, Stutters DEF vars
<1>2. ASSUME NEW w \in Workers, StartWorker(w) \/ WorkerLoop(w) \/ JobReturns(w)
      PROVE  Abstract!Next \/ UNCHANGED Abstract!jvars
  BY <1>2, WorkerStutters, TakesStarts, ReturnsFinishes DEF WorkerLoop, Abstract!Next, Running
<1>3. ASSUME NEW t \in Threads, Submit(t) \/ SpuriousWakeup(t)
      PROVE  Abstract!Next \/ UNCHANGED Abstract!jvars
  BY <1>1, <1>3, OthersStutter, AcceptedAccepts DEF Submit, SubmitRefusedDead, Abstract!Next
<1>4. ASSUME NEW c \in Clients, Wait(c)
      PROVE  Abstract!Next \/ UNCHANGED Abstract!jvars
  BY <1>4, OthersStutter
<1>5. CASE InitReturns \/ InitFailed \/ FreeStops \/ FreeReturns
  BY <1>1, <1>5, OthersStutter, FreeClosesAndTearsDown DEF InitFailed, Abstract!Next
<1> QED
  BY <1>1, <1>2, <1>3, <1>4, <1>5 DEF Next

\* The pool implements the safety part of the job queue its header promises,
\* for any number of workers, clients and jobs: this is ImplementsJobQueue
\* without its fairness.
THEOREM PoolImplementsJobQueue == Spec => Abstract!Spec
<1>1. Init => Abstract!Init
  BY DEF Init, Abstract!Init, Phase, InHand, Threads
<1> QED
  BY <1>1, PoolInvariant, NextRefines, PTL DEF Spec, Abstract!Spec

=============================================================================
