------------------------------- MODULE Server -------------------------------
(***************************************************************************)
(* The accept loops of a C-WEB process and their shutdown:                 *)
(* http_serve_config and connection_worker of src/http/server.c, and the   *)
(* part of the generated main (tools/cweb.c) that runs a TCP and a unix    *)
(* listener side by side, each with a pool of its own.                     *)
(*                                                                         *)
(* The pool appears as the JobQueue that ThreadPool implements: jobs start *)
(* in order, at most Parallel at a time, wait returns when none is left.   *)
(* thread_pool_submit cannot fail here, because only free stops the pool   *)
(* and free comes after the loop.  A connection is idle between requests   *)
(* and busy from the first byte of a request to the end of its response.   *)
(***************************************************************************)
EXTENDS Naturals, Sequences, FiniteSets

CONSTANTS Listeners,   \* one accept loop each
          Primary,     \* the listener the process's main thread serves
          Conns,       \* the clients' connections
          Parallel,    \* workers per pool
          None,        \* no connection, no listener
          UsesTls,     \* the configuration names a certificate and a key
          MaxSignals   \* bound: how many shutdown signals arrive

ASSUME PrimaryListens == Primary \in Listeners
ASSUME NoneIsNeither == None \notin Conns \cup Listeners
ASSUME BoundsNat == Parallel \in Nat \ {0} /\ MaxSignals \in Nat

VARIABLES g_shutdown,  \* the flag the signal handler sets
          signals,     \* how many signals have arrived
          loop,        \* where the thread of each listener is
          listener,    \* "open", "shut" (net_shutdown) or "closed"
          backlog,     \* connections the kernel holds for each listener
          got,         \* the connection net_accept has just returned
          queue,       \* connections submitted to each pool, not started
          tls_ctx,     \* the TLS context of each listener
          conn,        \* the state of each connection
          home,        \* the listener a connection came in by
          closes,      \* how often a connection's socket was closed
          timed,       \* connections whose socket carries a receive timeout
          cut          \* connections closed in the middle of a request

vars == <<g_shutdown, signals, loop, listener, backlog, got, queue, tls_ctx,
          conn, home, closes, timed, cut>>

Served(l) == {c \in Conns : home[c] = l /\ conn[c] \in {"handshake", "idle", "busy"}}

Init ==
  /\ g_shutdown = FALSE
  /\ signals = 0
  /\ loop = [l \in Listeners |-> "setup"]
  /\ listener = [l \in Listeners |-> "open"]
  /\ backlog = [l \in Listeners |-> << >>]
  /\ got = [l \in Listeners |-> None]
  /\ queue = [l \in Listeners |-> << >>]
  /\ tls_ctx = [l \in Listeners |-> "none"]
  /\ conn = [c \in Conns |-> "away"]
  /\ home = [c \in Conns |-> None]
  /\ closes = [c \in Conns |-> 0]
  /\ timed = {}
  /\ cut = {}

Goto(l, place) == loop' = [loop EXCEPT ![l] = place]

(***************************************************************************)
(* http_serve_config up to the loop.  An unusable certificate or a pool    *)
(* without workers makes it return -1; the pool's failure leaves the TLS   *)
(* context behind.                                                         *)
(***************************************************************************)
Setup(l) ==
  /\ loop[l] = "setup"
  /\ tls_ctx' = [tls_ctx EXCEPT ![l] = IF UsesTls THEN "live" ELSE "none"]
  /\ Goto(l, "top")
  /\ UNCHANGED <<g_shutdown, signals, listener, backlog, got, queue, conn, home, closes, timed, cut>>

SetupFails(l) ==
  /\ loop[l] = "setup"
  /\ \/ UsesTls /\ UNCHANGED tls_ctx
     \/ tls_ctx' = [tls_ctx EXCEPT ![l] = IF UsesTls THEN "live" ELSE "none"]
  /\ Goto(l, "returned")
  /\ UNCHANGED <<g_shutdown, signals, listener, backlog, got, queue, conn, home, closes, timed, cut>>

\* A client's connection reaches the listener's backlog.
Connect(c, l) ==
  /\ conn[c] = "away"
  /\ listener[l] = "open"
  /\ conn' = [conn EXCEPT ![c] = "backlog"]
  /\ home' = [home EXCEPT ![c] = l]
  /\ backlog' = [backlog EXCEPT ![l] = Append(@, c)]
  /\ UNCHANGED <<g_shutdown, signals, loop, listener, got, queue, tls_ctx, closes, timed, cut>>

(***************************************************************************)
(* The accept loop.  "accept" is the thread inside the system call.        *)
(***************************************************************************)
EnterAccept(l) ==
  /\ loop[l] = "top"
  /\ Goto(l, "accept")
  /\ UNCHANGED <<g_shutdown, signals, listener, backlog, got, queue, tls_ctx, conn, home, closes, timed, cut>>

net_accept(l) ==
  /\ loop[l] = "accept"
  /\ listener[l] = "open"
  /\ backlog[l] # << >>
  /\ got' = [got EXCEPT ![l] = Head(backlog[l])]
  /\ backlog' = [backlog EXCEPT ![l] = Tail(@)]
  /\ conn' = [conn EXCEPT ![Head(backlog[l])] = "accepted"]
  /\ Goto(l, "submit")
  /\ UNCHANGED <<g_shutdown, signals, listener, queue, tls_ctx, home, closes, timed, cut>>

\* The peer loop has shut the listener down.
AcceptShut(l) ==
  /\ loop[l] = "accept"
  /\ listener[l] = "shut"
  /\ Goto(l, "failed")
  /\ UNCHANGED <<g_shutdown, signals, listener, backlog, got, queue, tls_ctx, conn, home, closes, timed, cut>>

\* The process is out of descriptors: the connection stays in the backlog.
AcceptExhausted(l) ==
  /\ loop[l] = "accept"
  /\ listener[l] = "open"
  /\ backlog[l] # << >>
  /\ Goto(l, "failed")
  /\ UNCHANGED <<g_shutdown, signals, listener, backlog, got, queue, tls_ctx, conn, home, closes, timed, cut>>

MustLeave == g_shutdown

AfterFailure(l) ==
  /\ loop[l] = "failed"
  /\ Goto(l, IF MustLeave THEN "drain" ELSE "top")
  /\ UNCHANGED <<g_shutdown, signals, listener, backlog, got, queue, tls_ctx, conn, home, closes, timed, cut>>

Submit(l) ==
  /\ loop[l] = "submit"
  /\ queue' = [queue EXCEPT ![l] = Append(@, got[l])]
  /\ conn' = [conn EXCEPT ![got[l]] = "queued"]
  /\ got' = [got EXCEPT ![l] = None]
  /\ Goto(l, "top")
  /\ UNCHANGED <<g_shutdown, signals, listener, backlog, tls_ctx, home, closes, timed, cut>>

\* thread_pool_wait and thread_pool_free return, then the TLS context is freed.
Drained(l) == queue[l] = << >> /\ Served(l) = {}

Drain_TlsFirst(l) ==
  /\ loop[l] = "drain"
  /\ tls_ctx' = [tls_ctx EXCEPT ![l] = IF @ = "live" THEN "freed" ELSE @]
  /\ Goto(l, IF Drained(l) THEN "returned" ELSE "drain")
  /\ UNCHANGED <<g_shutdown, signals, listener, backlog, got, queue, conn, home, closes, timed, cut>>
Drain(l) ==
  /\ loop[l] = "drain"
  /\ Drained(l)
  /\ tls_ctx' = [tls_ctx EXCEPT ![l] = IF @ = "live" THEN "freed" ELSE @]
  /\ Goto(l, "returned")
  /\ UNCHANGED <<g_shutdown, signals, listener, backlog, got, queue, conn, home, closes, timed, cut>>

(***************************************************************************)
(* The generated main.  Whoever returns first shuts the other listener     *)
(* down to wake its loop; the main thread joins the other one and closes   *)
(* the listeners.                                                          *)
(***************************************************************************)
WakePeers_None(l) == UNCHANGED listener
WakePeers(l) ==
  listener' = [k \in Listeners |->
                 IF k # l /\ listener[k] = "open" THEN "shut" ELSE listener[k]]

Returned(l) ==
  /\ loop[l] = "returned"
  /\ WakePeers(l)
  /\ Goto(l, IF l = Primary THEN "join" ELSE "ended")
  /\ UNCHANGED <<g_shutdown, signals, backlog, got, queue, tls_ctx, conn, home, closes, timed, cut>>

Joined == \A k \in Listeners \ {Primary} : loop[k] = "ended"

Exit ==
  /\ loop[Primary] = "join"
  /\ Joined
  /\ listener' = [k \in Listeners |-> "closed"]
  /\ Goto(Primary, "ended")
  /\ UNCHANGED <<g_shutdown, signals, backlog, got, queue, tls_ctx, conn, home, closes, timed, cut>>

(***************************************************************************)
(* connection_worker.  The receive timeout is set by serve_connection, and *)
(* only after the TLS handshake.                                           *)
(***************************************************************************)
WorkerStarts(l) ==
  /\ queue[l] # << >>
  /\ Cardinality(Served(l)) < Parallel
  /\ conn' = [conn EXCEPT ![Head(queue[l])] = IF UsesTls THEN "handshake" ELSE "idle"]
  /\ timed' = IF UsesTls THEN timed ELSE timed \cup {Head(queue[l])}
  /\ queue' = [queue EXCEPT ![l] = Tail(@)]
  /\ UNCHANGED <<g_shutdown, signals, loop, listener, backlog, got, tls_ctx, home, closes, cut>>

Close(c) == /\ conn' = [conn EXCEPT ![c] = "closed"]
            /\ closes' = [closes EXCEPT ![c] = @ + 1]

HandshakeDone(c) ==
  /\ conn[c] = "handshake"
  /\ conn' = [conn EXCEPT ![c] = "idle"]
  /\ timed' = timed \cup {c}
  /\ UNCHANGED <<g_shutdown, signals, loop, listener, backlog, got, queue, tls_ctx, home, closes, cut>>

\* After a failed handshake the worker returns at once.
HandshakeFails_FallsThrough(c) ==
  /\ conn[c] = "handshake"
  /\ conn' = [conn EXCEPT ![c] = "idle"]
  /\ closes' = [closes EXCEPT ![c] = @ + 1]
  /\ UNCHANGED <<g_shutdown, signals, loop, listener, backlog, got, queue, tls_ctx, home, timed, cut>>
HandshakeFails(c) ==
  /\ conn[c] = "handshake"
  /\ Close(c)
  /\ UNCHANGED <<g_shutdown, signals, loop, listener, backlog, got, queue, tls_ctx, home, timed, cut>>

RequestStarts(c) ==
  /\ conn[c] = "idle"
  /\ conn' = [conn EXCEPT ![c] = "busy"]
  /\ UNCHANGED <<g_shutdown, signals, loop, listener, backlog, got, queue, tls_ctx, home, closes, timed, cut>>

RequestAnswered(c) ==
  /\ conn[c] = "busy"
  /\ conn' = [conn EXCEPT ![c] = "idle"]
  /\ UNCHANGED <<g_shutdown, signals, loop, listener, backlog, got, queue, tls_ctx, home, closes, timed, cut>>

\* The client closes, asks for no keep-alive or lets the idle timeout expire.
ServeEnds(c) ==
  /\ conn[c] = "idle"
  /\ Close(c)
  /\ UNCHANGED <<g_shutdown, signals, loop, listener, backlog, got, queue, tls_ctx, home, timed, cut>>

(***************************************************************************)
(* SIGINT or SIGTERM, once a loop has installed the handler.  The kernel   *)
(* runs the handler on a thread of its choice.  The handler only sets the  *)
(* flag; a blocked accept or recv of that thread fails with EINTR, because *)
(* the handler is installed without SA_RESTART.                            *)
(***************************************************************************)
Arrives ==
  /\ signals < MaxSignals
  /\ \E l \in Listeners : loop[l] # "setup"
  /\ signals' = signals + 1
  /\ g_shutdown' = TRUE

SignalLoop(l) ==
  /\ Arrives
  /\ loop[l] # "ended"
  /\ IF loop[l] = "accept" THEN Goto(l, "failed") ELSE UNCHANGED loop
  /\ UNCHANGED <<listener, backlog, got, queue, tls_ctx, conn, home, closes, timed, cut>>

\* On a worker the recv fails: the handshake or serve_connection gives up.
SignalWorker(c) ==
  /\ Arrives
  /\ conn[c] \in {"handshake", "idle", "busy"}
  /\ cut' = IF conn[c] = "busy" THEN cut \cup {c} ELSE cut
  /\ Close(c)
  /\ UNCHANGED <<loop, listener, backlog, got, queue, tls_ctx, home, timed>>

\* On a worker that waits for a job nothing but the flag changes.
SignalResting(l) ==
  /\ Arrives
  /\ loop[l] \in {"top", "accept", "failed", "submit", "drain"}
  /\ Cardinality(Served(l)) < Parallel
  /\ UNCHANGED <<loop, listener, backlog, got, queue, tls_ctx, conn, home, closes, timed, cut>>

-----------------------------------------------------------------------------
LoopStep(l) == \/ Setup(l) \/ SetupFails(l) \/ EnterAccept(l) \/ net_accept(l)
               \/ AcceptShut(l) \/ AfterFailure(l) \/ Submit(l) \/ Drain(l) \/ Returned(l)

Next ==
  \/ \E l \in Listeners : LoopStep(l) \/ AcceptExhausted(l) \/ WorkerStarts(l)
                         \/ SignalLoop(l) \/ SignalResting(l)
  \/ \E l \in Listeners, c \in Conns : Connect(c, l)
  \/ \E c \in Conns : \/ HandshakeDone(c) \/ HandshakeFails(c) \/ RequestStarts(c)
                      \/ RequestAnswered(c) \/ ServeEnds(c) \/ SignalWorker(c)
  \/ Exit

Spec == Init /\ [][Next]_vars

(***************************************************************************)
(* Threads run and the pool starts queued jobs.  A receive ends by itself  *)
(* only on a socket with a timeout.  Two things are asked of the clients,  *)
(* which nothing in serve_connection enforces: they read what is sent to   *)
(* them, as a send has no timeout, and they do not keep a connection busy  *)
(* for ever (strong fairness of ServeEnds): it does not look at g_shutdown.*)
(***************************************************************************)
Fairness ==
  /\ \A l \in Listeners : WF_vars(LoopStep(l)) /\ WF_vars(WorkerStarts(l))
  /\ \A c \in Conns : /\ WF_vars(c \in timed /\ HandshakeFails(c))
                      /\ WF_vars(c \in timed /\ RequestAnswered(c))
                      /\ SF_vars(c \in timed /\ ServeEnds(c))
  /\ WF_vars(Exit)

FairSpec == Spec /\ Fairness

-----------------------------------------------------------------------------
(***************************************************************************)
(* Properties.                                                             *)
(***************************************************************************)
\* Every variable has its type, and a loop holds a socket exactly between accept
\* and submit.
TypeOK ==
  /\ g_shutdown \in BOOLEAN
  /\ signals \in 0 .. MaxSignals
  /\ loop \in [Listeners -> {"setup", "top", "accept", "failed", "submit", "drain",
                             "returned", "join", "ended"}]
  /\ listener \in [Listeners -> {"open", "shut", "closed"}]
  /\ backlog \in [Listeners -> Seq(Conns)]
  /\ got \in [Listeners -> Conns \cup {None}]
  /\ \A l \in Listeners : got[l] # None <=> loop[l] = "submit"
  /\ queue \in [Listeners -> Seq(Conns)]
  /\ tls_ctx \in [Listeners -> {"none", "live", "freed"}]
  /\ conn \in [Conns -> {"away", "backlog", "accepted", "queued", "handshake", "idle",
                         "busy", "closed"}]
  /\ home \in [Conns -> Listeners \cup {None}]
  /\ closes \in [Conns -> Nat]
  /\ timed \subseteq Conns /\ cut \subseteq Conns

\* Every accepted socket is closed exactly once, and an accept loop that has
\* returned has left none of its connections open.
ClosedOnce ==
  /\ \A c \in Conns : closes[c] = IF conn[c] = "closed" THEN 1 ELSE 0
  /\ \A c \in Conns : home[c] # None /\ loop[home[c]] \in {"returned", "join", "ended"}
                        => conn[c] \in {"backlog", "closed"}

\* The TLS context outlives every connection that may still use it.
TlsOutlivesConnections ==
  \A l \in Listeners : UsesTls /\ (Served(l) # {} \/ queue[l] # << >>) => tls_ctx[l] = "live"

\* Every client finishes its TLS handshake or gives up.  The server does not see
\* to that: while it lasts, the socket has no receive timeout.
HandshakeEnds == \A c \in Conns : (conn[c] = "handshake") ~> (conn[c] # "handshake")

\* Once one loop has returned after a signal, so does the other: "both stop
\* together", although only one of them was interrupted, if the clients finish
\* their handshakes.
BothStop ==
  HandshakeEnds =>
    ((g_shutdown /\ \E l \in Listeners : loop[l] \in {"returned", "ended"})
       ~> (\A l \in Listeners : loop[l] = "ended"))

\* After a shutdown signal the accept loops return.
ShutdownReturns == g_shutdown ~> (\A l \in Listeners : loop[l] = "ended")

=============================================================================
