---------------------------- MODULE ServerProofs ----------------------------
(***************************************************************************)
(* Safety of the accept loops and of their shutdown for any listeners, any *)
(* connections, any pool size and any number of signals.                   *)
(***************************************************************************)
EXTENDS Server, TLAPS

(***************************************************************************)
(* The strengthening.  Each socket is in one place at a time: in the       *)
(* backlog, in the hands of the loop that accepted it, in that loop's pool *)
(* queue, with a worker, or closed.                                        *)
(***************************************************************************)
\* What a list or a loop holds is in the state that says so.
Placed ==
  /\ \A l \in Listeners : \A i \in 1 .. Len(backlog[l]) :
       conn[backlog[l][i]] = "backlog" /\ home[backlog[l][i]] = l
  /\ \A l \in Listeners : \A i \in 1 .. Len(queue[l]) :
       conn[queue[l][i]] = "queued" /\ home[queue[l][i]] = l
  /\ \A l \in Listeners : got[l] # None =>
       conn[got[l]] = "accepted" /\ home[got[l]] = l

\* No list holds a socket twice.
Distinct ==
  \A l \in Listeners :
    /\ \A i, j \in 1 .. Len(backlog[l]) : backlog[l][i] = backlog[l][j] => i = j
    /\ \A i, j \in 1 .. Len(queue[l]) : queue[l][i] = queue[l][j] => i = j

\* A socket in a state that somebody must act on is where that somebody looks.
Tracked ==
  \A c \in Conns :
    /\ conn[c] = "away" <=> home[c] = None
    /\ conn[c] = "accepted" => got[home[c]] = c
    /\ conn[c] = "queued" => \E i \in 1 .. Len(queue[home[c]]) : queue[home[c]][i] = c

\* What the sockets of a loop may be doing while it sets up and after it returned.
Quiet ==
  \A c \in Conns : home[c] # None =>
    /\ loop[home[c]] = "setup" => conn[c] = "backlog"
    /\ loop[home[c]] \in {"returned", "join", "ended"} => conn[c] \in {"backlog", "closed"}

\* The context lives from setup to drain, and only the last loop closes listeners.
Resources ==
  \A l \in Listeners :
    /\ UsesTls /\ loop[l] \in {"top", "accept", "failed", "submit", "drain"} => tls_ctx[l] = "live"
    /\ loop[l] = "join" => l = Primary
    /\ listener[l] = "closed" => \A k \in Listeners : loop[k] = "ended"

CloseCounted == \A c \in Conns : closes[c] = IF conn[c] = "closed" THEN 1 ELSE 0

IInv == TypeOK /\ Placed /\ Distinct /\ Tracked /\ Quiet /\ Resources /\ CloseCounted
-----------------------------------------------------------------------------
\* The process starts with no connection and every loop at its setup.
LEMMA InitIInv == Init => IInv
<1> SUFFICES ASSUME Init PROVE IInv
  OBVIOUS
<1>1. TypeOK
  <2>1. g_shutdown \in BOOLEAN
    BY Zenon DEF Init
  <2> QED
    BY <2>1, BoundsNat DEF Init, TypeOK
<1>2. Placed /\ Distinct
  BY DEF Init, Placed, Distinct
<1>3. Tracked /\ Quiet /\ Resources /\ CloseCounted
  BY DEF Init, Tracked, Quiet, Resources, CloseCounted
<1> QED
  BY <1>1, <1>2, <1>3 DEF IInv

\* A step that moves no socket keeps what is said about the sockets' places.
LEMMA SocketsUntouched ==
  ASSUME IInv, UNCHANGED <<backlog, got, queue, conn, home, closes>>
  PROVE  Placed' /\ Distinct' /\ Tracked' /\ CloseCounted'
<1>1. Placed' /\ Distinct'
  BY DEF IInv, Placed, Distinct
<1>2. Tracked' /\ CloseCounted'
  BY DEF IInv, Tracked, CloseCounted
<1> QED
  BY <1>1, <1>2

\* Setup finds nothing but the backlog, and leaves a live TLS context to a loop.
LEMMA SetupStep ==
  ASSUME IInv, NEW l \in Listeners, Setup(l) \/ SetupFails(l)
  PROVE  IInv'
<1>1. TypeOK'
  BY NoneIsNeither, ZenonT(60) DEF IInv, TypeOK, Setup, SetupFails, Goto
<1>2. Placed' /\ Distinct' /\ Tracked' /\ CloseCounted'
  BY SocketsUntouched DEF Setup, SetupFails
<1>3. Quiet'
  BY DEF IInv, TypeOK, Quiet, Setup, SetupFails, Goto
<1>4. Resources'
  BY DEF IInv, TypeOK, Resources, Setup, SetupFails, Goto
<1> QED
  BY <1>1, <1>2, <1>3, <1>4 DEF IInv

\* The loop's way round accept, without a connection.
LEMMA LoopTurnStep ==
  ASSUME IInv, NEW l \in Listeners,
         EnterAccept(l) \/ AcceptShut(l) \/ AcceptExhausted(l) \/ AfterFailure(l)
  PROVE  IInv'
<1>1. TypeOK'
  BY ZenonT(60) DEF IInv, TypeOK, EnterAccept, AcceptShut, AcceptExhausted, AfterFailure, Goto
<1>2. Placed' /\ Distinct' /\ Tracked' /\ CloseCounted'
  BY SocketsUntouched DEF EnterAccept, AcceptShut, AcceptExhausted, AfterFailure
<1>3. Quiet'
  BY DEF IInv, TypeOK, Quiet, EnterAccept, AcceptShut, AcceptExhausted, AfterFailure, Goto
<1>4. Resources'
  BY DEF IInv, TypeOK, Resources, EnterAccept, AcceptShut, AcceptExhausted, AfterFailure, Goto
<1> QED
  BY <1>1, <1>2, <1>3, <1>4 DEF IInv

\* A signal a loop's thread or a resting worker takes.
LEMMA SignalLoopStep ==
  ASSUME IInv, NEW l \in Listeners, SignalLoop(l) \/ SignalResting(l)
  PROVE  IInv'
<1>1. TypeOK'
  <2>1. g_shutdown' \in BOOLEAN
    BY Zenon DEF SignalLoop, SignalResting, Arrives
  <2>2. signals' \in 0 .. MaxSignals
    BY BoundsNat DEF IInv, TypeOK, SignalLoop, SignalResting, Arrives
  <2> QED
    BY <2>1, <2>2 DEF IInv, TypeOK, SignalLoop, SignalResting, Goto
<1>2. Placed' /\ Distinct' /\ Tracked' /\ CloseCounted'
  BY SocketsUntouched DEF SignalLoop, SignalResting
<1>3. Quiet'
  BY DEF IInv, TypeOK, Quiet, SignalLoop, SignalResting, Goto
<1>4. Resources'
  BY DEF IInv, TypeOK, Resources, SignalLoop, SignalResting, Goto
<1> QED
  BY <1>1, <1>2, <1>3, <1>4 DEF IInv

\* A drained loop has nothing left but its backlog and closed sockets.
LEMMA DrainStep ==
  ASSUME IInv, NEW l \in Listeners, Drain(l)
  PROVE  IInv'
<1>1. TypeOK'
  BY DEF IInv, TypeOK, Drain, Goto
<1>2. Placed' /\ Distinct' /\ Tracked' /\ CloseCounted'
  BY SocketsUntouched DEF Drain
<1>3. ASSUME NEW c \in Conns, home[c] = l
      PROVE  conn[c] \in {"backlog", "closed"}
  <2>1. loop[l] = "drain" /\ queue[l] = << >> /\ got[l] = None /\ l # None
    BY NoneIsNeither DEF IInv, TypeOK, Drain, Drained
  <2>2. conn[c] \notin {"handshake", "idle", "busy"}
    BY <1>3 DEF Drain, Drained, Served
  <2>3. conn[c] # "accepted"
    BY <1>3, <2>1, NoneIsNeither DEF IInv, Tracked
  <2>4. conn[c] # "queued"
    <3>1. 1 .. Len(queue[home[c]]) = {}
      BY <1>3, <2>1
    <3> QED
      BY <3>1 DEF IInv, Tracked
  <2>5. conn[c] # "away"
    BY <1>3, <2>1 DEF IInv, Tracked
  <2> QED
    BY <2>2, <2>3, <2>4, <2>5 DEF IInv, TypeOK
<1>4. Quiet'
  BY <1>3 DEF IInv, TypeOK, Quiet, Drain, Goto
<1>5. Resources'
  BY DEF IInv, TypeOK, Resources, Drain, Goto
<1> QED
  BY <1>1, <1>2, <1>4, <1>5 DEF IInv

\* The loop that returns first shuts the others' listeners and closes none.
LEMMA ReturnedStep ==
  ASSUME IInv, NEW l \in Listeners, Returned(l)
  PROVE  IInv'
<1>1. TypeOK'
  BY DEF IInv, TypeOK, Returned, WakePeers, Goto
<1>2. Placed' /\ Distinct' /\ Tracked' /\ CloseCounted'
  BY SocketsUntouched DEF Returned
<1>3. Quiet'
  BY DEF IInv, TypeOK, Quiet, Returned, Goto
<1>4. Resources'
  BY DEF IInv, TypeOK, Resources, Returned, WakePeers, Goto
<1> QED
  BY <1>1, <1>2, <1>3, <1>4 DEF IInv

\* The main thread closes the listeners after the last join.
LEMMA ExitStep ==
  ASSUME IInv, Exit
  PROVE  IInv'
<1>1. TypeOK'
  BY PrimaryListens DEF IInv, TypeOK, Exit, Goto
<1>2. Placed' /\ Distinct' /\ Tracked' /\ CloseCounted'
  BY SocketsUntouched DEF Exit
<1>3. Quiet'
  BY PrimaryListens DEF IInv, TypeOK, Quiet, Exit, Goto
<1>4. \A k \in Listeners : loop'[k] = "ended"
  BY PrimaryListens DEF IInv, TypeOK, Exit, Joined, Goto
<1>5. Resources'
  BY <1>4 DEF Resources
<1> QED
  BY <1>1, <1>2, <1>3, <1>5 DEF IInv
\* A connection reaches the backlog of an open listener.
LEMMA ConnectStep ==
  ASSUME IInv, NEW l \in Listeners, NEW c \in Conns, Connect(c, l)
  PROVE  IInv'
<1>1. /\ conn' = [conn EXCEPT ![c] = "backlog"] /\ conn[c] = "away"
      /\ home' = [home EXCEPT ![c] = l]
      /\ backlog' = [backlog EXCEPT ![l] = Append(backlog[l], c)]
      /\ backlog[l] \in Seq(Conns)
      /\ UNCHANGED <<g_shutdown, signals, loop, listener, got, queue, tls_ctx, closes, timed, cut>>
  BY DEF IInv, TypeOK, Connect
<1>2. TypeOK'
  BY <1>1 DEF IInv, TypeOK
<1>3. \A k \in Listeners : \A i \in 1 .. Len(backlog'[k]) :
        \/ k = l /\ i = Len(backlog[l]) + 1 /\ backlog'[k][i] = c
        \/ i \in 1 .. Len(backlog[k]) /\ backlog'[k][i] = backlog[k][i]
  BY <1>1 DEF IInv, TypeOK
<1>4. \A k \in Listeners : \A i \in 1 .. Len(backlog[k]) : backlog[k][i] \in Conns /\ backlog[k][i] # c
  BY <1>1 DEF IInv, TypeOK, Placed
<1>5. \A k \in Listeners : \A i \in 1 .. Len(queue[k]) : queue[k][i] \in Conns /\ queue[k][i] # c
  BY <1>1 DEF IInv, TypeOK, Placed
<1>6. Placed'
  <2>1. \A k \in Listeners : \A i \in 1 .. Len(backlog'[k]) :
          conn'[backlog'[k][i]] = "backlog" /\ home'[backlog'[k][i]] = k
    <3> SUFFICES ASSUME NEW k \in Listeners, NEW i \in 1 .. Len(backlog'[k])
                 PROVE  conn'[backlog'[k][i]] = "backlog" /\ home'[backlog'[k][i]] = k
      OBVIOUS
    <3>1. CASE k = l /\ backlog'[k][i] = c
      BY <1>1, <3>1 DEF IInv, TypeOK
    <3>2. CASE i \in 1 .. Len(backlog[k]) /\ backlog'[k][i] = backlog[k][i]
      <4>1. conn[backlog[k][i]] = "backlog" /\ home[backlog[k][i]] = k
        BY <3>2 DEF IInv, Placed
      <4> QED
        BY <1>1, <1>4, <3>2, <4>1 DEF IInv, TypeOK
    <3> QED
      BY <1>3, <3>1, <3>2
  <2>2. \A k \in Listeners : \A i \in 1 .. Len(queue'[k]) :
          conn'[queue'[k][i]] = "queued" /\ home'[queue'[k][i]] = k
    BY <1>1, <1>5 DEF IInv, TypeOK, Placed
  <2>3. \A k \in Listeners : got'[k] # None => conn'[got'[k]] = "accepted" /\ home'[got'[k]] = k
    BY <1>1 DEF IInv, TypeOK, Placed
  <2> QED
    BY <2>1, <2>2, <2>3 DEF Placed
<1>7. Distinct'
  BY <1>1, <1>3, <1>4 DEF IInv, TypeOK, Distinct
<1>8. Tracked'
  BY <1>1, NoneIsNeither DEF IInv, TypeOK, Tracked
<1>9. Quiet' /\ Resources' /\ CloseCounted'
  BY <1>1 DEF IInv, TypeOK, Quiet, Resources, CloseCounted
<1> QED
  BY <1>2, <1>6, <1>7, <1>8, <1>9 DEF IInv

\* accept takes the oldest connection of the backlog into the loop's hands.
LEMMA AcceptStep ==
  ASSUME IInv, NEW l \in Listeners, net_accept(l)
  PROVE  IInv'
<1> DEFINE c == Head(backlog[l])
<1>1. /\ backlog[l] \in Seq(Conns) /\ backlog[l] # << >>
      /\ c \in Conns /\ c = backlog[l][1] /\ conn[c] = "backlog" /\ home[c] = l
      /\ got' = [got EXCEPT ![l] = c] /\ got[l] = None /\ c # None
      /\ backlog' = [backlog EXCEPT ![l] = Tail(backlog[l])]
      /\ conn' = [conn EXCEPT ![c] = "accepted"]
      /\ loop' = [loop EXCEPT ![l] = "submit"] /\ loop[l] = "accept"
      /\ UNCHANGED <<g_shutdown, signals, listener, queue, tls_ctx, home, closes, timed, cut>>
  BY NoneIsNeither DEF IInv, TypeOK, Placed, net_accept, Goto
<1> HIDE DEF c
<1>2. TypeOK'
  BY <1>1 DEF IInv, TypeOK
<1>3. \A k \in Listeners : \A i \in 1 .. Len(backlog'[k]) :
        \/ k = l /\ i + 1 \in 1 .. Len(backlog[l]) /\ backlog'[k][i] = backlog[l][i + 1]
        \/ k # l /\ i \in 1 .. Len(backlog[k]) /\ backlog'[k][i] = backlog[k][i]
  BY <1>1 DEF IInv, TypeOK
<1>4. \A k \in Listeners : \A i \in 1 .. Len(backlog'[k]) :
        backlog'[k][i] \in Conns /\ backlog'[k][i] # c
           /\ conn[backlog'[k][i]] = "backlog" /\ home[backlog'[k][i]] = k
  <2> SUFFICES ASSUME NEW k \in Listeners, NEW i \in 1 .. Len(backlog'[k])
               PROVE  /\ backlog'[k][i] \in Conns /\ backlog'[k][i] # c
                      /\ conn[backlog'[k][i]] = "backlog" /\ home[backlog'[k][i]] = k
    OBVIOUS
  <2>1. /\ \A j \in 1 .. Len(backlog[k]) :
             backlog[k][j] \in Conns /\ conn[backlog[k][j]] = "backlog" /\ home[backlog[k][j]] = k
        /\ \A j \in 1 .. Len(backlog[k]) : backlog[k][1] = backlog[k][j] => 1 = j
    <3>1. Len(backlog[k]) \in Nat /\ backlog[k] \in Seq(Conns)
      BY DEF IInv, TypeOK
    <3>2. \A j \in 1 .. Len(backlog[k]) : 1 \in 1 .. Len(backlog[k])
      BY <3>1
    <3> QED
      BY <3>1, <3>2 DEF IInv, Placed, Distinct
  <2>2. CASE k = l /\ i + 1 \in 1 .. Len(backlog[l]) /\ backlog'[k][i] = backlog[l][i + 1]
    <3>1. i \in Nat /\ i >= 1
      BY <1>1 DEF IInv, TypeOK
    <3> QED
      BY <1>1, <2>1, <2>2, <3>1
  <2>3. CASE k # l /\ i \in 1 .. Len(backlog[k]) /\ backlog'[k][i] = backlog[k][i]
    BY <1>1, <2>1, <2>3
  <2> QED
    BY <1>3, <2>2, <2>3
<1>5. \A k \in Listeners : \A i \in 1 .. Len(queue[k]) : queue[k][i] \in Conns /\ queue[k][i] # c
  BY <1>1 DEF IInv, TypeOK, Placed
<1>6. Placed'
  <2>1. \A k \in Listeners : \A i \in 1 .. Len(backlog'[k]) :
          conn'[backlog'[k][i]] = "backlog" /\ home'[backlog'[k][i]] = k
    <3> SUFFICES ASSUME NEW k \in Listeners, NEW i \in 1 .. Len(backlog'[k])
                 PROVE  conn'[backlog'[k][i]] = "backlog" /\ home'[backlog'[k][i]] = k
      OBVIOUS
    <3>1. \A d \in Conns : d # c => conn'[d] = conn[d]
      BY <1>1 DEF IInv, TypeOK
    <3>2. home' = home
      BY <1>1
    <3> QED
      BY <1>4, <3>1, <3>2
  <2>2. \A k \in Listeners : \A i \in 1 .. Len(queue'[k]) :
          conn'[queue'[k][i]] = "queued" /\ home'[queue'[k][i]] = k
    BY <1>1, <1>5 DEF IInv, TypeOK, Placed
  <2>3. \A k \in Listeners : got'[k] # None => conn'[got'[k]] = "accepted" /\ home'[got'[k]] = k
    BY <1>1 DEF IInv, TypeOK, Placed
  <2> QED
    BY <2>1, <2>2, <2>3 DEF Placed
<1>7. Distinct'
  <2>1. \A k \in Listeners : \A i, j \in 1 .. Len(backlog'[k]) : backlog'[k][i] = backlog'[k][j] => i = j
    <3> SUFFICES ASSUME NEW k \in Listeners, NEW i \in 1 .. Len(backlog'[k]),
                        NEW j \in 1 .. Len(backlog'[k]), backlog'[k][i] = backlog'[k][j]
                 PROVE  i = j
      OBVIOUS
    <3>1. i \in Nat /\ j \in Nat
      OBVIOUS
    <3>2. \A m, n \in 1 .. Len(backlog[k]) : backlog[k][m] = backlog[k][n] => m = n
      BY DEF IInv, Distinct
    <3>3. CASE k = l
      <4>1. i + 1 = j + 1
        BY <1>3, <3>2, <3>3
      <4> QED
        BY <3>1, <4>1
    <3>4. CASE k # l
      BY <1>3, <3>2, <3>4
    <3> QED
      BY <3>3, <3>4
  <2> QED
    BY <1>1, <2>1 DEF IInv, Distinct
<1>8. Tracked'
  BY <1>1, NoneIsNeither DEF IInv, TypeOK, Tracked
<1>9. Quiet' /\ Resources' /\ CloseCounted'
  BY <1>1 DEF IInv, TypeOK, Quiet, Resources, CloseCounted
<1> QED
  BY <1>2, <1>6, <1>7, <1>8, <1>9 DEF IInv

\* submit hands the connection to the pool.
LEMMA SubmitStep ==
  ASSUME IInv, NEW l \in Listeners, Submit(l)
  PROVE  IInv'
<1> DEFINE c == got[l]
<1>1. /\ queue[l] \in Seq(Conns)
      /\ c \in Conns /\ c = got[l] /\ conn[c] = "accepted" /\ home[c] = l
      /\ got' = [got EXCEPT ![l] = None]
      /\ queue' = [queue EXCEPT ![l] = Append(queue[l], c)]
      /\ conn' = [conn EXCEPT ![c] = "queued"]
      /\ loop' = [loop EXCEPT ![l] = "top"] /\ loop[l] = "submit"
      /\ UNCHANGED <<g_shutdown, signals, listener, backlog, tls_ctx, home, closes, timed, cut>>
  BY NoneIsNeither DEF IInv, TypeOK, Placed, Submit, Goto
<1> HIDE DEF c
<1>2. TypeOK'
  BY <1>1 DEF IInv, TypeOK
<1>3. \A k \in Listeners : \A i \in 1 .. Len(queue'[k]) :
        \/ k = l /\ i = Len(queue[l]) + 1 /\ queue'[k][i] = c
        \/ i \in 1 .. Len(queue[k]) /\ queue'[k][i] = queue[k][i]
  BY <1>1 DEF IInv, TypeOK
<1>4. \A k \in Listeners : \A i \in 1 .. Len(queue[k]) :
        /\ queue[k][i] \in Conns /\ queue[k][i] # c
        /\ i \in 1 .. Len(queue'[k]) /\ queue'[k][i] = queue[k][i]
  BY <1>1 DEF IInv, TypeOK, Placed
<1>5. \A k \in Listeners : \A i \in 1 .. Len(backlog[k]) : backlog[k][i] \in Conns /\ backlog[k][i] # c
  BY <1>1 DEF IInv, TypeOK, Placed
<1>6. Placed'
  <2>1. \A k \in Listeners : \A i \in 1 .. Len(queue'[k]) :
          conn'[queue'[k][i]] = "queued" /\ home'[queue'[k][i]] = k
    BY <1>1, <1>3, <1>4 DEF IInv, TypeOK, Placed
  <2>2. \A k \in Listeners : \A i \in 1 .. Len(backlog'[k]) :
          conn'[backlog'[k][i]] = "backlog" /\ home'[backlog'[k][i]] = k
    BY <1>1, <1>5 DEF IInv, TypeOK, Placed
  <2>3. \A k \in Listeners : got'[k] # None => conn'[got'[k]] = "accepted" /\ home'[got'[k]] = k
    BY <1>1 DEF IInv, TypeOK, Placed
  <2> QED
    BY <2>1, <2>2, <2>3 DEF Placed
<1>7. Distinct'
  <2>1. \A k \in Listeners : \A i, j \in 1 .. Len(queue'[k]) : queue'[k][i] = queue'[k][j] => i = j
    BY <1>3, <1>4, SMTT(30) DEF IInv, Distinct
  <2> QED
    BY <1>1, <2>1 DEF IInv, Distinct
<1>8. Tracked'
  <2>1. /\ Len(queue[l]) + 1 \in 1 .. Len(queue'[l])
        /\ queue'[l][Len(queue[l]) + 1] = c
    BY <1>1 DEF IInv, TypeOK
  <2> SUFFICES ASSUME NEW d \in Conns
               PROVE  /\ conn'[d] = "away" <=> home'[d] = None
                      /\ conn'[d] = "accepted" => got'[home'[d]] = d
                      /\ conn'[d] = "queued" => \E i \in 1 .. Len(queue'[home'[d]]) : queue'[home'[d]][i] = d
    BY DEF Tracked
  <2>2. CASE d = c
    BY <1>1, <2>1, <2>2, NoneIsNeither DEF IInv, TypeOK
  <2>3. CASE d # c
    <3>1. conn'[d] = conn[d] /\ home'[d] = home[d]
      BY <1>1, <2>3 DEF IInv, TypeOK
    <3>2. (conn[d] = "away" <=> home[d] = None) /\ (conn[d] = "accepted" => got[home[d]] = d)
      BY DEF IInv, Tracked
    <3>3. ASSUME conn[d] = "queued"
          PROVE  \E i \in 1 .. Len(queue'[home[d]]) : queue'[home[d]][i] = d
      <4>1. home[d] \in Listeners
        BY <3>2, <3>3 DEF IInv, TypeOK
      <4>2. PICK i \in 1 .. Len(queue[home[d]]) : queue[home[d]][i] = d
        BY <3>3 DEF IInv, Tracked
      <4> QED
        BY <1>4, <4>1, <4>2
    <3>4. ASSUME conn[d] = "accepted"
          PROVE  got'[home[d]] = d
      <4>1. home[d] \in Listeners /\ got[home[d]] = d
        BY <3>2, <3>4 DEF IInv, TypeOK
      <4> QED
        BY <1>1, <2>3, <4>1 DEF IInv, TypeOK
    <3> QED
      BY <3>1, <3>2, <3>3, <3>4
  <2> QED
    BY <2>2, <2>3
<1>9. Quiet' /\ Resources' /\ CloseCounted'
  BY <1>1 DEF IInv, TypeOK, Quiet, Resources, CloseCounted
<1> QED
  BY <1>2, <1>6, <1>7, <1>8, <1>9 DEF IInv
\* A worker starts on the oldest connection of the queue.
LEMMA WorkerStartsStep ==
  ASSUME IInv, NEW l \in Listeners, WorkerStarts(l)
  PROVE  IInv'
<1> DEFINE c == Head(queue[l])
           next == IF UsesTls THEN "handshake" ELSE "idle"
<1>1. /\ queue[l] \in Seq(Conns) /\ queue[l] # << >>
      /\ c \in Conns /\ c = queue[l][1] /\ conn[c] = "queued" /\ home[c] = l
      /\ queue' = [queue EXCEPT ![l] = Tail(queue[l])]
      /\ conn' = [conn EXCEPT ![c] = next]
      /\ timed' \subseteq timed \cup {c}
      /\ UNCHANGED <<g_shutdown, signals, loop, listener, backlog, got, tls_ctx, home, closes, cut>>
  BY DEF IInv, TypeOK, Placed, WorkerStarts
<1>2. next \in {"handshake", "idle"}
  OBVIOUS
<1> HIDE DEF c, next
<1>3. TypeOK'
  BY <1>1, <1>2 DEF IInv, TypeOK
<1>4. \A d \in Conns : d # c => conn'[d] = conn[d]
  BY <1>1 DEF IInv, TypeOK
<1>5. \A k \in Listeners : \A i \in 1 .. Len(queue'[k]) :
        \/ k = l /\ i + 1 \in 1 .. Len(queue[l]) /\ queue'[k][i] = queue[l][i + 1]
        \/ k # l /\ i \in 1 .. Len(queue[k]) /\ queue'[k][i] = queue[k][i]
  BY <1>1 DEF IInv, TypeOK
<1>6. \A k \in Listeners : \A i \in 1 .. Len(queue'[k]) :
        queue'[k][i] \in Conns /\ queue'[k][i] # c
           /\ conn[queue'[k][i]] = "queued" /\ home[queue'[k][i]] = k
  <2> SUFFICES ASSUME NEW k \in Listeners, NEW i \in 1 .. Len(queue'[k])
               PROVE  /\ queue'[k][i] \in Conns /\ queue'[k][i] # c
                      /\ conn[queue'[k][i]] = "queued" /\ home[queue'[k][i]] = k
    OBVIOUS
  <2>1. /\ \A j \in 1 .. Len(queue[k]) :
             queue[k][j] \in Conns /\ conn[queue[k][j]] = "queued" /\ home[queue[k][j]] = k
        /\ \A j \in 1 .. Len(queue[k]) : queue[k][1] = queue[k][j] => 1 = j
    <3>1. Len(queue[k]) \in Nat /\ queue[k] \in Seq(Conns)
      BY DEF IInv, TypeOK
    <3>2. \A j \in 1 .. Len(queue[k]) : 1 \in 1 .. Len(queue[k])
      BY <3>1
    <3> QED
      BY <3>1, <3>2 DEF IInv, Placed, Distinct
  <2>2. CASE k = l /\ i + 1 \in 1 .. Len(queue[l]) /\ queue'[k][i] = queue[l][i + 1]
    <3>1. i \in Nat /\ i >= 1
      BY <1>1 DEF IInv, TypeOK
    <3> QED
      BY <1>1, <2>1, <2>2, <3>1
  <2>3. CASE k # l /\ i \in 1 .. Len(queue[k]) /\ queue'[k][i] = queue[k][i]
    BY <1>1, <2>1, <2>3
  <2> QED
    BY <1>5, <2>2, <2>3
<1>7. \A k \in Listeners : \A i \in 1 .. Len(backlog[k]) : backlog[k][i] \in Conns /\ backlog[k][i] # c
  BY <1>1 DEF IInv, TypeOK, Placed
<1>8. Placed'
  <2>1. \A k \in Listeners : \A i \in 1 .. Len(queue'[k]) :
          conn'[queue'[k][i]] = "queued" /\ home'[queue'[k][i]] = k
    <3>1. home' = home
      BY <1>1
    <3> QED
      BY <1>4, <1>6, <3>1
  <2>2. \A k \in Listeners : \A i \in 1 .. Len(backlog'[k]) :
          conn'[backlog'[k][i]] = "backlog" /\ home'[backlog'[k][i]] = k
    BY <1>1, <1>4, <1>7 DEF IInv, Placed
  <2>3. \A k \in Listeners : got'[k] # None => conn'[got'[k]] = "accepted" /\ home'[got'[k]] = k
    BY <1>1, <1>4 DEF IInv, TypeOK, Placed
  <2> QED
    BY <2>1, <2>2, <2>3 DEF Placed
<1>9. Distinct'
  <2>1. \A k \in Listeners : \A i, j \in 1 .. Len(queue'[k]) : queue'[k][i] = queue'[k][j] => i = j
    <3> SUFFICES ASSUME NEW k \in Listeners, NEW i \in 1 .. Len(queue'[k]),
                        NEW j \in 1 .. Len(queue'[k]), queue'[k][i] = queue'[k][j]
                 PROVE  i = j
      OBVIOUS
    <3>1. i \in Nat /\ j \in Nat
      OBVIOUS
    <3>2. \A m, n \in 1 .. Len(queue[k]) : queue[k][m] = queue[k][n] => m = n
      BY DEF IInv, Distinct
    <3>3. CASE k = l
      <4>1. i + 1 = j + 1
        BY <1>5, <3>2, <3>3
      <4> QED
        BY <3>1, <4>1
    <3>4. CASE k # l
      BY <1>5, <3>2, <3>4
    <3> QED
      BY <3>3, <3>4
  <2> QED
    BY <1>1, <2>1 DEF IInv, Distinct
<1>10. Tracked'
  <2> SUFFICES ASSUME NEW d \in Conns
               PROVE  /\ conn'[d] = "away" <=> home'[d] = None
                      /\ conn'[d] = "accepted" => got'[home'[d]] = d
                      /\ conn'[d] = "queued" => \E i \in 1 .. Len(queue'[home'[d]]) : queue'[home'[d]][i] = d
    BY DEF Tracked
  <2>1. CASE d = c
    BY <1>1, <1>2, <2>1, NoneIsNeither DEF IInv, TypeOK
  <2>2. CASE d # c
    <3>1. (conn[d] = "away" <=> home[d] = None) /\ (conn[d] = "accepted" => got[home[d]] = d)
      BY DEF IInv, Tracked
    <3>2. ASSUME conn[d] = "queued"
          PROVE  \E i \in 1 .. Len(queue'[home[d]]) : queue'[home[d]][i] = d
      <4>1. home[d] \in Listeners
        BY <3>1, <3>2 DEF IInv, TypeOK
      <4>2. PICK i \in 1 .. Len(queue[home[d]]) : queue[home[d]][i] = d
        BY <3>2 DEF IInv, Tracked
      <4>3. CASE home[d] # l
        BY <1>1, <4>1, <4>2, <4>3 DEF IInv, TypeOK
      <4>4. CASE home[d] = l
        <5>1. i # 1
          BY <1>1, <2>2, <4>2, <4>4
        <5>2. i - 1 \in 1 .. Len(queue'[l]) /\ queue'[l][i - 1] = queue[l][i]
          BY <1>1, <4>2, <4>4, <5>1 DEF IInv, TypeOK
        <5> QED
          BY <4>2, <4>4, <5>2
      <4> QED
        BY <4>3, <4>4
    <3> QED
      BY <1>1, <1>4, <2>2, <3>1, <3>2
  <2> QED
    BY <2>1, <2>2
<1>11. Quiet' /\ Resources' /\ CloseCounted'
  BY <1>1, <1>2 DEF IInv, TypeOK, Quiet, Resources, CloseCounted
<1> QED
  BY <1>3, <1>8, <1>9, <1>10, <1>11 DEF IInv

\* What a worker does to the connection it serves, closing it at most once.
LEMMA ServedMoves ==
  ASSUME IInv, NEW c \in Conns, conn[c] \in {"handshake", "idle", "busy"},
         NEW next \in {"idle", "busy", "closed"},
         conn' = [conn EXCEPT ![c] = next],
         closes' = IF next = "closed" THEN [closes EXCEPT ![c] = @ + 1] ELSE closes,
         UNCHANGED <<loop, listener, backlog, got, queue, tls_ctx, home>>
  PROVE  Placed' /\ Distinct' /\ Tracked' /\ Quiet' /\ Resources' /\ CloseCounted'
<1>1. \A d \in Conns : conn'[d] = IF d = c THEN next ELSE conn[d]
  BY DEF IInv, TypeOK
<1>2. /\ \A k \in Listeners : \A i \in 1 .. Len(backlog[k]) : backlog[k][i] \in Conns /\ backlog[k][i] # c
      /\ \A k \in Listeners : \A i \in 1 .. Len(queue[k]) : queue[k][i] \in Conns /\ queue[k][i] # c
      /\ \A k \in Listeners : got[k] # None => got[k] \in Conns /\ got[k] # c
  BY DEF IInv, TypeOK, Placed
<1>3. Placed' /\ Distinct'
  BY <1>1, <1>2 DEF IInv, Placed, Distinct
<1>4. Tracked'
  BY <1>1 DEF IInv, Tracked
<1>5. Quiet' /\ Resources'
  BY <1>1 DEF IInv, Quiet, Resources
<1>6. CloseCounted'
  BY <1>1 DEF IInv, TypeOK, CloseCounted
<1> QED
  BY <1>3, <1>4, <1>5, <1>6

\* The steps of connection_worker, and a signal that interrupts it.
LEMMA WorkerStep ==
  ASSUME IInv, NEW c \in Conns,
         \/ HandshakeDone(c) \/ HandshakeFails(c) \/ RequestStarts(c)
         \/ RequestAnswered(c) \/ ServeEnds(c) \/ SignalWorker(c)
  PROVE  IInv'
<1>1. \E next \in {"idle", "busy", "closed"} :
        /\ conn' = [conn EXCEPT ![c] = next]
        /\ closes' = IF next = "closed" THEN [closes EXCEPT ![c] = @ + 1] ELSE closes
  BY DEF HandshakeDone, HandshakeFails, RequestStarts, RequestAnswered, ServeEnds, SignalWorker, Close
<1>2. /\ conn[c] \in {"handshake", "idle", "busy"}
      /\ UNCHANGED <<loop, listener, backlog, got, queue, tls_ctx, home>>
      /\ timed' \subseteq Conns /\ cut' \subseteq Conns
  BY DEF IInv, TypeOK, HandshakeDone, HandshakeFails, RequestStarts, RequestAnswered, ServeEnds, SignalWorker
<1>3. g_shutdown' \in BOOLEAN
  <2>1. g_shutdown' = g_shutdown \/ g_shutdown' = TRUE
    BY Zenon DEF HandshakeDone, HandshakeFails, RequestStarts, RequestAnswered, ServeEnds, SignalWorker, Arrives
  <2> QED
    BY <2>1, Zenon DEF IInv, TypeOK
<1>4. signals' \in 0 .. MaxSignals
  BY BoundsNat DEF IInv, TypeOK, HandshakeDone, HandshakeFails, RequestStarts, RequestAnswered,
     ServeEnds, SignalWorker, Arrives
<1>5. Placed' /\ Distinct' /\ Tracked' /\ Quiet' /\ Resources' /\ CloseCounted'
  BY <1>1, <1>2, ServedMoves
<1>6. TypeOK'
  BY <1>1, <1>2, <1>3, <1>4 DEF IInv, TypeOK
<1> QED
  BY <1>5, <1>6 DEF IInv

\* Every step of the process keeps the invariant.
LEMMA NextIInv == IInv /\ [Next]_vars => IInv'
<1> SUFFICES ASSUME IInv, [Next]_vars PROVE IInv'
  OBVIOUS
<1>1. CASE UNCHANGED vars
  <2>1. TypeOK'
    BY <1>1 DEF IInv, TypeOK, vars
  <2>2. Placed' /\ Distinct' /\ Tracked' /\ CloseCounted'
    BY <1>1, SocketsUntouched DEF vars
  <2>3. Quiet' /\ Resources'
    BY <1>1 DEF IInv, Quiet, Resources, vars
  <2> QED
    BY <2>1, <2>2, <2>3 DEF IInv
<1>2. ASSUME NEW l \in Listeners,
             LoopStep(l) \/ AcceptExhausted(l) \/ WorkerStarts(l) \/ SignalLoop(l) \/ SignalResting(l)
      PROVE  IInv'
  BY <1>2, SetupStep, LoopTurnStep, AcceptStep, SubmitStep, DrainStep, ReturnedStep, WorkerStartsStep,
     SignalLoopStep DEF LoopStep
<1>3. ASSUME NEW l \in Listeners, NEW c \in Conns, Connect(c, l)
      PROVE  IInv'
  BY <1>3, ConnectStep
<1>4. ASSUME NEW c \in Conns,
             \/ HandshakeDone(c) \/ HandshakeFails(c) \/ RequestStarts(c)
             \/ RequestAnswered(c) \/ ServeEnds(c) \/ SignalWorker(c)
      PROVE  IInv'
  BY <1>4, WorkerStep
<1>5. CASE Exit
  BY <1>5, ExitStep
<1> QED
  BY <1>1, <1>2, <1>3, <1>4, <1>5 DEF Next

\* The inductive invariant holds of every behaviour of the process.
THEOREM ServerInvariant == Spec => []IInv
BY InitIInv, NextIInv, PTL DEF Spec
-----------------------------------------------------------------------------
\* Type correctness; a loop holds a socket exactly between accept and submit.
THEOREM ServerTypeOK == Spec => []TypeOK
<1>1. IInv => TypeOK
  BY DEF IInv
<1> QED
  BY <1>1, ServerInvariant, PTL

\* No socket is closed twice, and a loop that has returned has left none open:
\* thread_pool_wait and the single close of connection_worker see to it, however
\* many signals arrive and wherever they are delivered.
THEOREM ServerClosedOnce == Spec => []ClosedOnce
<1>1. IInv => ClosedOnce
  BY DEF IInv, ClosedOnce, CloseCounted, Quiet
<1> QED
  BY <1>1, ServerInvariant, PTL

\* The TLS context is freed only after the last connection that could use it.
THEOREM ServerTlsOutlivesConnections == Spec => []TlsOutlivesConnections
<1>1. ASSUME IInv PROVE TlsOutlivesConnections
  <2> SUFFICES ASSUME NEW l \in Listeners, UsesTls, Served(l) # {} \/ queue[l] # << >>
               PROVE  tls_ctx[l] = "live"
    BY DEF TlsOutlivesConnections
  <2>1. PICK c \in Conns : home[c] = l /\ conn[c] \in {"queued", "handshake", "idle", "busy"}
    <3>1. CASE Served(l) # {}
      BY <3>1 DEF Served
    <3>2. CASE queue[l] # << >>
      <4>1. queue[l] \in Seq(Conns) /\ 1 \in 1 .. Len(queue[l]) /\ queue[l][1] \in Conns
        BY <1>1, <3>2 DEF IInv, TypeOK
      <4> QED
        BY <1>1, <4>1 DEF IInv, Placed
    <3> QED
      BY <3>1, <3>2
  <2>2. loop[l] \notin {"setup", "returned", "join", "ended"}
    BY <1>1, <2>1, NoneIsNeither DEF IInv, Quiet
  <2>3. loop[l] \in {"top", "accept", "failed", "submit", "drain"}
    BY <1>1, <2>2 DEF IInv, TypeOK
  <2> QED
    BY <1>1, <2>3 DEF IInv, Resources
<1> QED
  BY <1>1, ServerInvariant, PTL
=============================================================================
