-------------------------- MODULE ConnectionProofs --------------------------
(***************************************************************************)
(* That a connection leaves no spill file behind, for every client, and    *)
(* that a client which declares the lengths of its bodies is served in     *)
(* step with what it sends, for every configuration, every size of the     *)
(* buffers and every way its bytes are cut.                                *)
(*                                                                         *)
(* NoFileLeft is not inductive: http_request_free sets the number of files *)
(* to 0 whatever it was, and the arms that abandon a spill subtract one.   *)
(* FilesAt says where the file is in each state of serve_connection: the   *)
(* spill arm owns exactly one, open; a complete request may own one,       *)
(* closed and mapped; nobody else owns any.                                *)
(*                                                                         *)
(* The other theorems rest on IInv, which says where serve_connection is   *)
(* on the wire: the requests before the turn have been handed over and     *)
(* answered, and the buffer, the spill file and what recv has not returned *)
(* yet are the slices of the wire that follow them.  The lemmas before it  *)
(* say what the wire is made of and what the parser makes of a buffer that *)
(* begins with a request.                                                  *)
(***************************************************************************)
EXTENDS Connection, WellFoundedInduction, SequenceTheorems, FiniteSetTheorems, TLAPS

-----------------------------------------------------------------------------
(***************************************************************************)
(* Induction for the recursive functions of the model, in the form that    *)
(* every nonempty set of numbers has a least element: the least index at   *)
(* which a claim fails cannot be 0 and cannot be a successor.  The claim   *)
(* is a set and not an operator, so that it can be cited.                  *)
(***************************************************************************)

\* A nonempty set of natural numbers has a least element.
LEMMA LeastNumber ==
  ASSUME NEW T, T \subseteq Nat, T # {}
  PROVE  \E n \in T : \A m \in T : n <= m
<1>1. \E n \in T : \A m \in T : ~(<<m, n>> \in OpToRel(<, Nat))
  <2> HIDE DEF OpToRel
  <2> QED
    BY WFMin, NatLessThanWellFounded, Zenon
<1>2. PICK n \in T : \A m \in T : ~(<<m, n>> \in OpToRel(<, Nat))
  BY <1>1, Zenon
<1>3. ASSUME NEW m \in T
      PROVE  n <= m
  <2>1. <<m, n>> \in Nat \X Nat
    OBVIOUS
  <2>2. ~(m < n)
    BY <1>2, <2>1 DEF OpToRel
  <2> QED
    BY <2>2
<1> QED
  BY <1>3

\* Induction up to a bound, for a set: it holds 0 and with n also n + 1.
LEMMA Induction ==
  ASSUME NEW N \in Nat, NEW S, 0 \in S,
         \A n \in 0 .. N - 1 : n \in S => n + 1 \in S
  PROVE  0 .. N \subseteq S
<1> DEFINE T == {n \in 0 .. N : n \notin S}
<1> SUFFICES ASSUME T # {}
             PROVE  FALSE
  OBVIOUS
<1>1. PICK n \in T : \A m \in T : n <= m
  <2>1. T \subseteq Nat
    OBVIOUS
  <2> HIDE DEF T
  <2> QED
    BY <2>1, LeastNumber
<1>2. n - 1 \in 0 .. N - 1 /\ n - 1 \notin T
  BY <1>1
<1> QED
  BY <1>1, <1>2

-----------------------------------------------------------------------------
\* The spill file belongs to the spill arm while it is written and to the
\* request, which HTTP/2 may have taken over, once it is complete.
FilesAt ==
  /\ pc = "spill" => files = 1 /\ spill_fd
  /\ pc \in {"ready", "h2", "overrun"} => files \in {0, 1} /\ ~spill_fd
  /\ pc \notin {"spill", "ready", "h2", "overrun"} => files = 0 /\ ~spill_fd

\* Before the first recv there is no file.
LEMMA FilesAtInit == Init => FilesAt
  BY DEF Init, FilesAt

\* A recv, in the parse loop or in the spill arm.
LEMMA FilesAtReceive == FilesAt /\ Receive => FilesAt'
<1> SUFFICES ASSUME FilesAt, Receive PROVE FilesAt'
  OBVIOUS
<1>1. ASSUME NEW n \in Sizes, fill_more(n) PROVE FilesAt'
  BY <1>1 DEF FilesAt, fill_more, WantsBytes
<1>2. ASSUME NEW n \in Sizes, SpillGrows(n) PROVE FilesAt'
  BY <1>2 DEF FilesAt, SpillGrows
<1>3. ASSUME NEW n \in Sizes, SpillCompletes(n) PROVE FilesAt'
  BY <1>3 DEF FilesAt, SpillCompletes
<1>4. CASE fill_more_stalls
  BY <1>4 DEF FilesAt, fill_more_stalls, WantsBytes, Leave
<1>5. CASE SpillStalls
  BY <1>5 DEF FilesAt, SpillStalls, Leave, Abandon
<1> QED
  BY <1>1, <1>2, <1>3, <1>4, <1>5 DEF Receive

\* A recv, a write or an mmap that fails.
LEMMA FilesAtFail == FilesAt /\ Fail => FilesAt'
<1> SUFFICES ASSUME FilesAt, Fail PROVE FilesAt'
  OBVIOUS
<1>1. CASE fill_more_fails
  BY <1>1 DEF FilesAt, fill_more_fails, WantsBytes, Leave
<1>2. CASE SpillPeerGone
  BY <1>2 DEF FilesAt, SpillPeerGone, Leave, Abandon
<1>3. CASE SpillIoFails
  BY <1>3 DEF FilesAt, SpillIoFails, Leave, Abandon
<1> QED
  BY <1>1, <1>2, <1>3 DEF Fail

\* The sniff and the parse loop: only SpillStarts makes a file.
LEMMA FilesAtParse ==
  ASSUME FilesAt,
         \/ Sniff \/ SniffMagic \/ NullConfig \/ ExpectUnknown \/ ExpectTooLong
         \/ send_continue \/ ReadOn \/ Oversized \/ SpillStarts \/ SpillStartFails
         \/ Malformed \/ ParsedPlain
         \/ ChunkedDone \/ ChunkedMore \/ ChunkedOversized \/ ChunkedMalformed
  PROVE  FilesAt'
<1>1. CASE Sniff
  BY <1>1 DEF FilesAt, Sniff
<1>2. CASE SniffMagic
  BY <1>2 DEF FilesAt, SniffMagic
<1>3. CASE NullConfig
  BY <1>3 DEF FilesAt, NullConfig, Incomplete
<1>4. CASE ExpectUnknown
  BY <1>4 DEF FilesAt, ExpectUnknown, Incomplete, Leave
<1>5. CASE ExpectTooLong
  BY <1>5 DEF FilesAt, ExpectTooLong, Incomplete, Leave
<1>6. CASE send_continue
  BY <1>6 DEF FilesAt, send_continue, Incomplete
<1>7. CASE ReadOn
  BY <1>7 DEF FilesAt, ReadOn, Incomplete
<1>8. CASE Oversized
  BY <1>8 DEF FilesAt, Oversized, Incomplete, Leave
<1>9. CASE SpillStarts
  BY <1>9 DEF FilesAt, SpillStarts, Incomplete
<1>10. CASE SpillStartFails
  BY <1>10 DEF FilesAt, SpillStartFails, Incomplete, Leave
<1>11. CASE Malformed
  BY <1>11 DEF FilesAt, Malformed, Leave
<1>12. CASE ParsedPlain
  BY <1>12 DEF FilesAt, ParsedPlain, Parsed
<1>13. CASE ChunkedDone
  BY <1>13 DEF FilesAt, ChunkedDone, Parsed
<1>14. CASE ChunkedMore
  BY <1>14 DEF FilesAt, ChunkedMore, Parsed
<1>15. CASE ChunkedOversized
  BY <1>15 DEF FilesAt, ChunkedOversized, Parsed, Leave
<1>16. CASE ChunkedMalformed
  BY <1>16 DEF FilesAt, ChunkedMalformed, Parsed
<1> QED
  BY <1>1, <1>2, <1>3, <1>4, <1>5, <1>6, <1>7, <1>8, <1>9, <1>10, <1>11,
     <1>12, <1>13, <1>14, <1>15, <1>16

\* From a complete request to its response: every way frees the request.
LEMMA FilesAtServe ==
  ASSUME FilesAt, UpgradeH2c \/ H2Returns \/ InflateFails \/ handle_upgrade \/ Respond
  PROVE  FilesAt'
<1>1. CASE UpgradeH2c \/ H2Returns
  BY <1>1 DEF FilesAt, UpgradeH2c, H2Returns, Ready, FreeRequest, Leave
<1>2. CASE InflateFails
  BY <1>2 DEF FilesAt, InflateFails, Http1, Ready, FreeRequest, Leave
<1>3. CASE handle_upgrade
  BY <1>3 DEF FilesAt, handle_upgrade, Http1, Ready, FreeRequest
<1>4. CASE Respond
  BY <1>4 DEF FilesAt, Respond, Http1, Ready, FreeRequest
<1> QED
  BY <1>1, <1>2, <1>3, <1>4

\* FilesAt holds in every state serve_connection reaches.
THEOREM ConnectionFilesAt == Spec => []FilesAt
<1>1. ASSUME FilesAt, [Next]_vars PROVE FilesAt'
  <2>1. CASE Receive
    BY <1>1, <2>1, FilesAtReceive
  <2>2. CASE Fail
    BY <1>1, <2>2, FilesAtFail
  <2>3. CASE Decide \/ H2Returns
    BY <1>1, <2>3, FilesAtParse, FilesAtServe DEF Decide
  <2>4. CASE Over \/ UNCHANGED vars
    BY <1>1, <2>4 DEF FilesAt, Over, vars
  <2> QED
    BY <1>1, <2>1, <2>2, <2>3, <2>4 DEF Next
<1> QED
  BY FilesAtInit, <1>1, PTL DEF Spec

\* At most one spill file exists at a time, and none is left behind when the
\* connection is over, however it ended: NoFileLeft, for every script of the
\* client, every configuration and every capacity.
THEOREM ConnectionNoFileLeft == Spec => []NoFileLeft
<1>1. FilesAt => NoFileLeft
  BY DEF FilesAt, NoFileLeft
<1> QED
  BY ConnectionFilesAt, <1>1, PTL
-----------------------------------------------------------------------------
(* The wire: the requests lie on it one behind the other.                  *)

\* f holds what the first n sequences of u are when put one behind the other.
Joined(u, n, f) == f = [m \in 1 .. n |-> IF m = 1 THEN u[m] ELSE f[m - 1] \o u[m]]

\* In w the sequences of u lie one behind the other, and e says where each ends.
Layout(S, u, w, e) ==
  /\ w \in Seq(S) /\ e \in [0 .. Len(u) -> Nat] /\ e[0] = 0 /\ Len(w) = e[Len(u)]
  /\ \A i \in 1 .. Len(u) : e[i] = e[i - 1] + Len(u[i])
  /\ \A i \in 1 .. Len(u) : \A k \in 1 .. Len(u[i]) : w[e[i - 1] + k] = u[i][k]

\* The recursion of FlattenSeq is a function.
LEMMA JoinedExists ==
  ASSUME NEW u, Len(u) \in Nat \ {0}
  PROVE  \E f : Joined(u, Len(u), f)
<1> DEFINE N == Len(u) - 1
           T == {n \in 0 .. N : \E f : Joined(u, n + 1, f)}
<1>1. 0 \in T
  <2> DEFINE z == [m \in 1 .. 1 |-> u[m]]
  <2>1. Joined(u, 0 + 1, z)
    BY DEF Joined
  <2> QED
    BY <2>1
<1>2. ASSUME NEW n \in 0 .. N - 1, n \in T
      PROVE  n + 1 \in T
  <2>1. PICK f : Joined(u, n + 1, f)
    BY <1>2
  <2> DEFINE g == [m \in 1 .. n + 2 |-> IF m = n + 2 THEN f[n + 1] \o u[m] ELSE f[m]]
  <2>2. ASSUME NEW m \in 1 .. n + 2
        PROVE  g[m] = IF m = 1 THEN u[m] ELSE g[m - 1] \o u[m]
    <3>1. CASE m = n + 2
      <4>1. m # 1 /\ m - 1 = n + 1 /\ m - 1 \in 1 .. n + 2 /\ m - 1 # n + 2
        BY <3>1
      <4>2. g[m] = f[n + 1] \o u[m] /\ g[m - 1] = f[n + 1]
        <5>1. g[m - 1] = f[m - 1]
          BY <4>1
        <5> QED
          BY <3>1, <4>1, <5>1
      <4> HIDE DEF g
      <4> QED
        BY <4>1, <4>2
    <3>2. CASE m # n + 2
      <4>1. m \in 1 .. n + 1 /\ g[m] = f[m] /\ (m # 1 => m - 1 \in 1 .. n + 2 /\ m - 1 # n + 2 /\ g[m - 1] = f[m - 1])
        BY <3>2
      <4>2. f[m] = IF m = 1 THEN u[m] ELSE f[m - 1] \o u[m]
        BY <2>1, <4>1 DEF Joined
      <4> HIDE DEF g
      <4> QED
        BY <4>1, <4>2
    <3> QED
      BY <3>1, <3>2
  <2>3. Joined(u, n + 2, g)
    <3>1. g = [m \in 1 .. n + 2 |-> IF m = 1 THEN u[m] ELSE g[m - 1] \o u[m]]
      BY <2>2
    <3> HIDE DEF g
    <3> QED
      BY <3>1 DEF Joined
  <2>4. (n + 1) + 1 = n + 2 /\ n + 1 \in 0 .. N
    OBVIOUS
  <2> HIDE DEF g
  <2> QED
    BY <2>3, <2>4
<1>3. 0 .. N \subseteq T
  <2>1. N \in Nat
    OBVIOUS
  <2> HIDE DEF N, T
  <2> QED
    BY <1>1, <1>2, <2>1, Induction
<1>4. N \in 0 .. N /\ N + 1 = Len(u)
  OBVIOUS
<1> HIDE DEF N
<1> QED
  BY <1>3, <1>4

\* What FlattenSeq returns.
LEMMA FlattenLaid ==
  ASSUME NEW S, NEW u, Len(u) \in Nat \ {0}, \A i \in 1 .. Len(u) : u[i] \in Seq(S)
  PROVE  \E e : Layout(S, u, FlattenSeq(u), e)
<1> DEFINE f == CHOOSE f : Joined(u, Len(u), f)
           N == Len(u)
<1>1. Joined(u, N, f)
  BY JoinedExists
<1>2. FlattenSeq(u) = f[N]
  BY DEF FlattenSeq, Joined
<1> HIDE DEF f
<1>3. N \in Nat \ {0} /\ \A i \in 1 .. N : u[i] \in Seq(S)
  OBVIOUS
<1> HIDE DEF N
<1>4. f[1] = u[1] /\ \A m \in 2 .. N : f[m] = f[m - 1] \o u[m]
  <2>1. ASSUME NEW m \in 1 .. N
        PROVE  f[m] = IF m = 1 THEN u[m] ELSE f[m - 1] \o u[m]
    BY <1>1 DEF Joined
  <2>2. 1 \in 1 .. N /\ \A m \in 2 .. N : m \in 1 .. N /\ m # 1
    BY <1>3
  <2> QED
    BY <2>1, <2>2
<1>5. \A m \in 1 .. N : f[m] \in Seq(S)
  <2> DEFINE T == {n \in 0 .. N - 1 : f[n + 1] \in Seq(S)}
  <2>1. 0 \in T
    BY <1>3, <1>4
  <2>2. ASSUME NEW n \in 0 .. (N - 1) - 1, n \in T
        PROVE  n + 1 \in T
    <3>0. PICK p, q : p = n + 1 /\ q = n + 2
      OBVIOUS
    <3>1. q \in 2 .. N /\ q \in 1 .. N /\ q - 1 = p /\ p + 1 = q /\ p \in 0 .. N - 1 /\ f[p] \in Seq(S)
      BY <1>3, <2>2, <3>0
    <3>2. f[q] = f[p] \o u[q] /\ u[q] \in Seq(S)
      BY <1>3, <1>4, <3>1
    <3>3. f[q] \in Seq(S)
      BY <3>1, <3>2, ConcatProperties
    <3> QED
      BY <3>0, <3>1, <3>3
  <2>3. 0 .. N - 1 \subseteq T
    <3>1. N - 1 \in Nat
      BY <1>3
    <3> HIDE DEF T
    <3> QED
      BY <2>1, <2>2, <3>1, Induction
  <2>4. ASSUME NEW m \in 1 .. N
        PROVE  f[m] \in Seq(S)
    <3>1. m - 1 \in 0 .. N - 1 /\ (m - 1) + 1 = m
      BY <1>3
    <3> QED
      BY <2>3, <3>1
  <2> QED
    BY <2>4
<1> DEFINE e == [i \in 0 .. N |-> IF i = 0 THEN 0 ELSE Len(f[i])]
<1>6. e \in [0 .. N -> Nat] /\ e[0] = 0 /\ \A i \in 1 .. N : e[i] = Len(f[i])
  BY <1>3, <1>5, LenProperties
<1> HIDE DEF e
<1>7. ASSUME NEW i \in 1 .. N
      PROVE  e[i] = e[i - 1] + Len(u[i]) /\ Len(u[i]) \in Nat
  <2>0. i - 1 \in 0 .. N /\ i \in 0 .. N /\ Len(u[i]) \in Nat
    BY <1>3, LenProperties
  <2>1. CASE i = 1
    BY <1>4, <1>6, <2>0, <2>1
  <2>2. CASE i # 1
    <3>1. i \in 2 .. N /\ i - 1 \in 1 .. N
      BY <1>3, <2>2
    <3>2. f[i] = f[i - 1] \o u[i] /\ f[i - 1] \in Seq(S) /\ u[i] \in Seq(S)
      BY <1>3, <1>4, <1>5, <3>1
    <3>3. Len(f[i]) = Len(f[i - 1]) + Len(u[i])
      BY <3>2, ConcatProperties
    <3> QED
      BY <1>6, <2>0, <3>1, <3>3
  <2> QED
    BY <2>1, <2>2
<1> DEFINE Good(n) == \A i \in 1 .. n : \A k \in 1 .. Len(u[i]) :
                        e[i - 1] + k <= Len(f[n]) /\ f[n][e[i - 1] + k] = u[i][k]
<1>8. Good(N)
  <2> DEFINE T == {n \in 0 .. N - 1 : Good(n + 1)}
  <2>1. 0 \in T
    <3>1. ASSUME NEW i \in 1 .. 1, NEW k \in 1 .. Len(u[i])
          PROVE  e[i - 1] + k <= Len(f[1]) /\ f[1][e[i - 1] + k] = u[i][k]
      <4>1. i = 1 /\ e[i - 1] = 0 /\ f[1] = u[i] /\ Len(u[i]) \in Nat
        BY <1>3, <1>4, <1>6, <1>7
      <4> QED
        BY <4>1
    <3>2. 0 + 1 = 1 /\ 0 \in 0 .. N - 1
      BY <1>3
    <3> QED
      BY <3>1, <3>2
  <2>2. ASSUME NEW n \in 0 .. (N - 1) - 1, n \in T
        PROVE  n + 1 \in T
    <3>p. PICK p, q : p = n + 1 /\ q = n + 2
      OBVIOUS
    <3>0. /\ p \in 1 .. N /\ q \in 2 .. N /\ q \in 1 .. N /\ p + 1 = q /\ q - 1 = p /\ (n + 1) + 1 = q /\ p \in 0 .. N - 1
          /\ Good(p) /\ p \in 0 .. N
      BY <1>3, <2>2, <3>p
    <3>1. /\ f[q] = f[p] \o u[q] /\ f[p] \in Seq(S) /\ u[q] \in Seq(S) /\ e[p] = Len(f[p])
          /\ Len(f[p]) \in Nat /\ Len(u[q]) \in Nat
      BY <1>3, <1>4, <1>5, <1>6, <3>0, LenProperties
    <3>2. PICK a, b, c, y, z : a = f[p] /\ b = u[q] /\ c = f[q] /\ y = Len(a) /\ z = Len(b)
      OBVIOUS
    <3>3. /\ Len(c) = y + z /\ y \in Nat /\ z \in Nat /\ e[p] = y
          /\ \A x \in 1 .. y + z : c[x] = IF x <= y THEN a[x] ELSE b[x - y]
      <4>1. a \in Seq(S) /\ b \in Seq(S) /\ c = a \o b
        BY <3>1, <3>2
      <4>2. /\ Len(c) = Len(a) + Len(b)
            /\ \A x \in 1 .. Len(a) + Len(b) : c[x] = IF x <= Len(a) THEN a[x] ELSE b[x - Len(a)]
        BY <4>1, ConcatProperties
      <4> QED
        BY <3>1, <3>2, <4>2
    <3>n. N \in Nat /\ p \in Nat /\ q \in Nat
      BY <1>3, <3>0
    <3>5. ASSUME NEW i \in 1 .. q, NEW k \in 1 .. Len(u[i])
          PROVE  e[i - 1] + k <= Len(c) /\ c[e[i - 1] + k] = u[i][k]
      <4>0. PICK x : x = e[i - 1] + k
        OBVIOUS
      <4>1. CASE i = q
        <5>1. k \in 1 .. z /\ x = y + k
          BY <3>0, <3>2, <3>3, <4>0, <4>1
        <5>2. x \in 1 .. y + z /\ ~(x <= y) /\ x - y = k
          BY <3>3, <5>1
        <5>3. c[x] = b[k] /\ x <= Len(c)
          BY <3>3, <5>2
        <5> QED
          BY <3>2, <4>0, <4>1, <5>3
      <4>2. CASE i # q
        <5>1. i \in 1 .. p /\ i - 1 \in 0 .. N /\ e[i - 1] \in Nat
          BY <1>6, <3>0, <3>n, <4>2
        <5>2. x <= Len(f[p]) /\ f[p][x] = u[i][k]
          BY <3>0, <4>0, <5>1
        <5>3. x \in Nat /\ x >= 1
          <6>1. PICK o : o = e[i - 1] /\ o \in Nat
            BY <5>1
          <6>2. k \in Int /\ k >= 1
            OBVIOUS
          <6> QED
            BY <4>0, <6>1, <6>2
        <5>4. x <= y /\ a[x] = u[i][k]
          BY <3>2, <5>2
        <5>5. x \in 1 .. y + z
          BY <3>3, <5>3, <5>4
        <5> QED
          BY <3>3, <4>0, <5>4, <5>5
      <4> QED
        BY <4>1, <4>2
    <3>6. \A i \in 1 .. q : \A k \in 1 .. Len(u[i]) : e[i - 1] + k <= Len(f[q]) /\ f[q][e[i - 1] + k] = u[i][k]
      BY <3>2, <3>5
    <3>4. Good(q)
      BY <3>6
    <3> QED
      BY <3>0, <3>p, <3>4
  <2>3. 0 .. N - 1 \subseteq T
    <3>1. N - 1 \in Nat
      BY <1>3
    <3> HIDE DEF T
    <3> QED
      BY <2>1, <2>2, <3>1, Induction
  <2>4. N - 1 \in 0 .. N - 1 /\ (N - 1) + 1 = N
    BY <1>3
  <2> HIDE DEF Good
  <2> QED
    BY <2>3, <2>4
<1>9. N \in 1 .. N /\ f[N] \in Seq(S) /\ Len(f[N]) = e[N]
  BY <1>3, <1>5, <1>6
<1> QED
  BY <1>2, <1>6, <1>7, <1>8, <1>9, SMTT(30) DEF Layout, N

-----------------------------------------------------------------------------
(* A client that declares the lengths of its bodies, or sends none.        *)

\* A header block and a body of exactly the declared length.  A request line that
\* starts like the HTTP/2 preface is as long as it.
Framed(r) ==
  /\ r.head \in Nat \ {0} /\ (r.proto = "pri" => r.head >= MagicUnits)
  /\ r.body \in Seq({"data"}) /\ r.length = Len(r.body) /\ ~r.chunked

\* The preface of a client that knows the server speaks HTTP/2.
Preface(r) == r.proto = "pri" /\ r.head = 1 /\ r.body = <<"magic">> /\ r.expect # "continue" /\ ~r.chunked

\* The client of this connection sends one or more requests of this form.
LengthFramed ==
  /\ Len(script) \in Nat \ {0}
  /\ \A i \in 1 .. Len(script) : Framed(script[i]) \/ (i = 1 /\ Preface(script[i]))

Size(i) == script[i].head + Len(script[i].body)
KindAt(r, k) == IF k > r.head THEN r.body[k - r.head] ELSE IF k = 1 /\ r.proto = "pri" THEN "pri" ELSE "head"
UnitAt(x, i, k) == x.req = i /\ x.pos = k /\ x.kind = KindAt(script[i], k)
Kinds   == {"head", "pri", "data", "magic"}
Cells   == [req : Nat, pos : Nat, kind : Kinds]

\* A request has a header block and a body.
LEMMA RequestOf ==
  ASSUME LengthFramed
  PROVE  /\ Len(script) \in Nat \ {0}
         /\ \A i \in 1 .. Len(script) :
              /\ script[i].head \in Nat \ {0} /\ script[i].body \in Seq(Kinds) /\ Len(script[i].body) \in Nat
              /\ Size(i) \in Nat
              /\ Framed(script[i]) \/ (i = 1 /\ Preface(script[i]))
<1>1. ASSUME NEW i \in 1 .. Len(script)
      PROVE  script[i].head \in Nat \ {0} /\ script[i].body \in Seq(Kinds)
  <2>1. PICK r : r = script[i] /\ (Framed(r) \/ Preface(r))
    BY DEF LengthFramed
  <2>2. CASE Framed(r)
    <3>1. r.body \in Seq(Kinds)
      <4>1. {"data"} \subseteq Kinds
        BY DEF Kinds
      <4> QED
        BY <2>2, <4>1, SeqMonotonic DEF Framed
    <3> QED
      BY <2>1, <2>2, <3>1 DEF Framed
  <2>3. CASE Preface(r)
    <3>1. <<"magic">> \in Seq(Kinds)
      BY DEF Kinds
    <3> QED
      BY <2>1, <2>3, <3>1 DEF Preface
  <2> QED
    BY <2>1, <2>2, <2>3
<1>2. ASSUME NEW i \in 1 .. Len(script)
      PROVE  Len(script[i].body) \in Nat /\ Size(i) \in Nat
  BY <1>1, LenProperties DEF Size
<1> QED
  BY <1>1, <1>2 DEF LengthFramed

\* The units of one request.
LEMMA UnitsOf ==
  ASSUME LengthFramed, NEW i \in 1 .. Len(script)
  PROVE  /\ Units(i) \in Seq(Cells) /\ Len(Units(i)) = Size(i)
         /\ \A k \in 1 .. Size(i) : UnitAt(Units(i)[k], i, k)
<1>1. PICK r, n : r = script[i] /\ n = Size(i)
  OBVIOUS
<1>2. r.head \in Nat \ {0} /\ r.body \in Seq(Kinds) /\ Len(r.body) \in Nat /\ n \in Nat /\ n = r.head + Len(r.body) /\ i \in Nat
  BY <1>1, RequestOf DEF Size
<1>3. Units(i) = [k \in 1 .. n |-> [req |-> i, pos |-> k, kind |-> KindAt(r, k)]]
  BY <1>1, <1>2 DEF Units, KindAt
<1>4. ASSUME NEW k \in 1 .. n
      PROVE  KindAt(r, k) \in Kinds /\ k \in Nat
  <2>1. CASE k > r.head
    <3>1. k - r.head \in 1 .. Len(r.body)
      BY <1>2, <2>1
    <3> QED
      BY <1>2, <2>1, <3>1, ElementOfSeq DEF KindAt
  <2>2. CASE ~(k > r.head)
    BY <1>2, <2>2 DEF Kinds, KindAt
  <2> QED
    BY <2>1, <2>2
<1>5. \A k \in 1 .. n : [req |-> i, pos |-> k, kind |-> KindAt(r, k)] \in Cells
  BY <1>2, <1>4 DEF Cells
<1>6. Units(i) \in [1 .. n -> Cells]
  BY <1>3, <1>5
<1>7. Units(i) \in Seq(Cells) /\ Len(Units(i)) = n
  BY <1>2, <1>6
<1>8. \A k \in 1 .. n : Units(i)[k].req = i /\ Units(i)[k].pos = k /\ Units(i)[k].kind = KindAt(r, k)
  BY <1>3
<1> QED
  BY <1>1, <1>7, <1>8 DEF UnitAt

\* Where the requests end never goes back.
LEMMA EndsGrow ==
  ASSUME NEW N \in Nat, NEW e \in [0 .. N -> Nat], NEW l, \A i \in 1 .. N : l[i] \in Nat /\ e[i] = e[i - 1] + l[i]
  PROVE  \A i \in 0 .. N : \A j \in 0 .. i : e[j] <= e[i]
<1> DEFINE T == {n \in 0 .. N : \A j \in 0 .. n : e[j] <= e[n]}
<1>1. 0 \in T
  OBVIOUS
<1>2. ASSUME NEW n \in 0 .. N - 1, n \in T
      PROVE  n + 1 \in T
  <2>1. PICK p : p = n + 1 /\ p \in 1 .. N /\ p - 1 = n /\ p \in 0 .. N
    OBVIOUS
  <2>2. e[n] <= e[p] /\ e[n] \in Nat /\ e[p] \in Nat
    <3>1. l[p] \in Nat /\ e[p] = e[n] + l[p] /\ e[n] \in Nat
      BY <2>1
    <3> QED
      BY <3>1
  <2>3. ASSUME NEW j \in 0 .. p
        PROVE  e[j] <= e[p]
    <3>1. CASE j = p
      BY <2>2, <3>1
    <3>2. CASE j # p
      <4>1. j \in 0 .. n /\ j \in 0 .. N
        BY <2>1, <3>2
      <4>2. e[j] <= e[n] /\ e[j] \in Nat
        BY <1>2, <4>1
      <4> QED
        BY <2>2, <4>2
    <3> QED
      BY <3>1, <3>2
  <2> QED
    BY <2>1, <2>3
<1>3. 0 .. N \subseteq T
  <2> HIDE DEF T
  <2> QED
    BY <1>1, <1>2, Induction
<1> QED
  BY <1>3

\* Every place lies in one of them.
LEMMA EndsCover ==
  ASSUME NEW N \in Nat, NEW e \in [0 .. N -> Nat], e[0] = 0
  PROVE  \A m \in 1 .. e[N] : \E i \in 1 .. N : e[i - 1] < m /\ m <= e[i]
<1> DEFINE T == {n \in 0 .. N : \A m \in 1 .. e[n] : \E i \in 1 .. N : e[i - 1] < m /\ m <= e[i]}
<1>1. 0 \in T
  OBVIOUS
<1>2. ASSUME NEW n \in 0 .. N - 1, n \in T
      PROVE  n + 1 \in T
  <2>1. PICK p : p = n + 1 /\ p \in 1 .. N /\ p - 1 = n /\ p \in 0 .. N
    OBVIOUS
  <2>2. e[n] \in Nat /\ e[p] \in Nat
    BY <2>1
  <2>3. ASSUME NEW m \in 1 .. e[p]
        PROVE  \E i \in 1 .. N : e[i - 1] < m /\ m <= e[i]
    <3>1. CASE m <= e[n]
      <4>1. m \in 1 .. e[n]
        BY <2>2, <3>1
      <4> QED
        BY <1>2, <4>1
    <3>2. CASE ~(m <= e[n])
      <4>1. e[p - 1] < m /\ m <= e[p]
        BY <2>1, <2>2, <3>2
      <4> QED
        BY <2>1, <4>1
    <3> QED
      BY <3>1, <3>2
  <2> QED
    BY <2>1, <2>3
<1>3. 0 .. N \subseteq T
  <2> HIDE DEF T
  <2> QED
    BY <1>1, <1>2, Induction
<1> QED
  BY <1>3

\* The requests lie on the wire in their order, each with all of its units.
LEMMA WireLaid ==
  ASSUME LengthFramed
  PROVE  /\ Wire \in Seq(Cells) /\ Len(Wire) \in Nat /\ EndOf(0) = 0 /\ Len(Wire) = EndOf(Len(script))
         /\ \A i \in 0 .. Len(script) : EndOf(i) \in Nat /\ \A j \in 0 .. i : EndOf(j) <= EndOf(i)
         /\ \A i \in 1 .. Len(script) :
              /\ EndOf(i) = EndOf(i - 1) + Size(i)
              /\ \A k \in 1 .. Size(i) : Wire[EndOf(i - 1) + k] = Units(i)[k]
<1>0. PICK N, u : N = Len(script) /\ u = [i \in 1 .. N |-> Units(i)] /\ N \in Nat \ {0}
  BY RequestOf
<1>n. N \in Nat /\ N \in 0 .. N /\ 0 \in 0 .. N /\ \A j \in 1 .. N : j - 1 \in 0 .. N /\ j \in 0 .. N /\ j \in Int
  BY <1>0
<1>1. Len(u) = N /\ \A i \in 1 .. N : u[i] = Units(i) /\ u[i] \in Seq(Cells) /\ Len(u[i]) = Size(i) /\ Size(i) \in Nat
  BY <1>0, UnitsOf, RequestOf
<1>2. PICK e : Layout(Cells, u, Wire, e)
  BY <1>0, <1>1, FlattenLaid DEF Wire
<1>3. PICK w : w = Wire
  OBVIOUS
<1>4. /\ w \in Seq(Cells) /\ e \in [0 .. N -> Nat] /\ e[0] = 0 /\ Len(w) = e[N] /\ Len(w) \in Nat
      /\ \A i \in 1 .. N : e[i] = e[i - 1] + Size(i)
      /\ \A i \in 1 .. N : \A k \in 1 .. Size(i) : w[e[i - 1] + k] = Units(i)[k]
  BY <1>1, <1>2, <1>3, LenProperties DEF Layout
<1>5. \A i \in 0 .. N : \A j \in 0 .. i : e[j] <= e[i]
  <2>1. PICK l : l = [i \in 1 .. N |-> Size(i)]
    OBVIOUS
  <2>2. \A i \in 1 .. N : l[i] \in Nat /\ e[i] = e[i - 1] + l[i]
    BY <1>1, <1>4, <2>1
  <2> QED
    BY <1>n, <1>4, <2>2, EndsGrow
<1>6. \A m \in 1 .. e[N] : \E i \in 1 .. N : e[i - 1] < m /\ m <= e[i]
  BY <1>0, <1>4, EndsCover
<1>7. ASSUME NEW i \in 0 .. N
      PROVE  EndOf(i) = e[i]
  <2>0. e[i] \in Nat /\ e[i] <= e[N] /\ e[N] \in Nat
    BY <1>n, <1>4, <1>5
  <2>1. ASSUME NEW m \in 1 .. Len(w)
        PROVE  w[m].req <= i <=> m <= e[i]
    <3>1. PICK j \in 1 .. N : e[j - 1] < m /\ m <= e[j]
      BY <1>4, <1>6
    <3>2. j - 1 \in 0 .. N /\ j \in 0 .. N /\ e[j - 1] \in Nat /\ e[j] \in Nat
      BY <1>n, <1>4
    <3>3. PICK k : k = m - e[j - 1]
      OBVIOUS
    <3>4. k \in 1 .. Size(j) /\ m = e[j - 1] + k
      <4>1. e[j] = e[j - 1] + Size(j) /\ Size(j) \in Nat
        BY <1>1, <1>4
      <4>2. PICK a, b : a = e[j - 1] /\ b = Size(j)
        OBVIOUS
      <4> QED
        BY <3>1, <3>2, <3>3, <4>1, <4>2
    <3>5. w[m].req = j
      <4>1. Units(j)[k].req = j
        BY <1>0, <3>4, UnitsOf DEF UnitAt
      <4>2. w[m] = Units(j)[k]
        BY <1>4, <3>4
      <4> QED
        BY <4>1, <4>2
    <3>6. CASE j <= i
      <4>1. j \in 0 .. i
        BY <3>2, <3>6
      <4>2. e[j] <= e[i]
        BY <1>5, <4>1
      <4> QED
        BY <2>0, <3>1, <3>2, <3>5, <3>6, <4>2
    <3>7. CASE ~(j <= i)
      <4>1. i \in 0 .. j - 1
        BY <1>0, <3>2, <3>7
      <4>2. e[i] <= e[j - 1]
        BY <1>5, <3>2, <4>1
      <4> QED
        BY <2>0, <3>1, <3>2, <3>5, <3>7, <4>2
    <3> QED
      BY <3>6, <3>7
  <2>2. {m \in 1 .. Len(w) : w[m].req <= i} = 1 .. e[i]
    <3>1. ASSUME NEW m \in 1 .. e[i]
          PROVE  m \in 1 .. Len(w)
      BY <1>4, <2>0
    <3>2. ASSUME NEW m \in 1 .. Len(w), m <= e[i]
          PROVE  m \in 1 .. e[i]
      BY <1>4, <2>0, <3>2
    <3>3. \A m \in 1 .. e[i] : m <= e[i]
      BY <2>0
    <3> QED
      BY <2>1, <3>1, <3>2, <3>3
  <2>3. Cardinality(1 .. e[i]) = e[i]
    <3>1. PICK x : x = e[i] /\ x \in Nat
      BY <2>0
    <3>2. Cardinality(1 .. x) = x
      BY <3>1, FS_Interval
    <3> QED
      BY <3>1, <3>2
  <2> QED
    BY <1>3, <2>2, <2>3 DEF EndOf
<1>8. /\ 0 \in 0 .. N /\ N \in 0 .. N /\ \A i \in 1 .. N : i - 1 \in 0 .. N /\ i \in 0 .. N
      /\ \A i \in 0 .. N : \A j \in 0 .. i : j \in 0 .. N
  BY <1>0
<1>9. EndOf(0) = 0 /\ Len(w) = EndOf(N)
  BY <1>4, <1>7, <1>8
<1>10. \A i \in 0 .. N : EndOf(i) \in Nat /\ \A j \in 0 .. i : EndOf(j) <= EndOf(i)
  BY <1>4, <1>5, <1>7, <1>8
<1>11. ASSUME NEW i \in 1 .. N
       PROVE  EndOf(i) = EndOf(i - 1) + Size(i) /\ \A k \in 1 .. Size(i) : w[EndOf(i - 1) + k] = Units(i)[k]
  <2>1. EndOf(i) = e[i] /\ EndOf(i - 1) = e[i - 1]
    BY <1>7, <1>8
  <2> QED
    BY <1>4, <2>1
<1> QED
  BY <1>0, <1>3, <1>4, <1>9, <1>10, <1>11

-----------------------------------------------------------------------------
(* Slices of the wire.                                                     *)

\* The units behind the first a, up to the bth.
LEMMA SliceOf ==
  ASSUME NEW S, NEW w \in Seq(S), NEW a \in Nat, NEW b \in Nat, a <= b, b <= Len(w)
  PROVE  /\ SubSeq(w, a + 1, b) \in Seq(S) /\ Len(SubSeq(w, a + 1, b)) = b - a
         /\ \A k \in 1 .. b - a : SubSeq(w, a + 1, b)[k] = w[a + k]
<1>1. a + 1 \in Int /\ b \in Int /\ \A k \in a + 1 .. b : w[k] \in S
  OBVIOUS
<1>2. PICK s : s = SubSeq(w, a + 1, b)
  OBVIOUS
<1>3. /\ s \in Seq(S) /\ Len(s) = (IF a + 1 <= b THEN b - (a + 1) + 1 ELSE 0)
      /\ \A k \in 1 .. b - (a + 1) + 1 : s[k] = w[(a + 1) + k - 1]
  BY <1>1, <1>2, SubSeqProperties
<1>4. Len(s) = b - a
  BY <1>3
<1>5. ASSUME NEW k \in 1 .. b - a
      PROVE  s[k] = w[a + k]
  <2>1. k \in 1 .. b - (a + 1) + 1 /\ (a + 1) + k - 1 = a + k
    OBVIOUS
  <2> QED
    BY <1>3, <2>1
<1> QED
  BY <1>2, <1>3, <1>4, <1>5

\* A slice goes on where the one before it ends.
LEMMA SliceJoin ==
  ASSUME NEW S, NEW w \in Seq(S), NEW a \in Nat, NEW b \in Nat, NEW c \in Nat, a <= b, b <= c, c <= Len(w)
  PROVE  SubSeq(w, a + 1, b) \o SubSeq(w, b + 1, c) = SubSeq(w, a + 1, c)
<1>1. a + 1 \in 1 .. Len(w) + 1 /\ b \in (a + 1) - 1 .. Len(w) /\ c \in b .. Len(w)
  OBVIOUS
<1> QED
  BY <1>1, ConcatAdjacentSubSeq

\* A slice of a slice.
LEMMA SliceCut ==
  ASSUME NEW S, NEW w \in Seq(S), NEW a \in Nat, NEW c \in Nat, a <= c, c <= Len(w),
         NEW x \in Nat, NEW y \in Nat, x <= y, a + y <= c
  PROVE  SubSeq(SubSeq(w, a + 1, c), x + 1, y) = SubSeq(w, (a + x) + 1, a + y)
<1>1. PICK s : s = SubSeq(w, a + 1, c)
  OBVIOUS
<1>2. s \in Seq(S) /\ Len(s) = c - a /\ \A k \in 1 .. c - a : s[k] = w[a + k]
  BY <1>1, SliceOf
<1>3. y <= Len(s) /\ a + x \in Nat /\ a + y \in Nat /\ a + x <= a + y /\ a + y <= Len(w)
  BY <1>2
<1>4. PICK p, q : p = SubSeq(s, x + 1, y) /\ q = SubSeq(w, (a + x) + 1, a + y)
  OBVIOUS
<1>5. p \in Seq(S) /\ Len(p) = y - x /\ \A k \in 1 .. y - x : p[k] = s[x + k]
  BY <1>2, <1>3, <1>4, SliceOf
<1>6. q \in Seq(S) /\ Len(q) = (a + y) - (a + x) /\ \A k \in 1 .. (a + y) - (a + x) : q[k] = w[(a + x) + k]
  BY <1>3, <1>4, SliceOf
<1>7. Len(p) = Len(q)
  BY <1>5, <1>6
<1>8. ASSUME NEW k \in 1 .. Len(p)
      PROVE  p[k] = q[k]
  <2>1. k \in 1 .. y - x /\ x + k \in 1 .. c - a /\ k \in 1 .. (a + y) - (a + x) /\ a + (x + k) = (a + x) + k
    BY <1>5
  <2> QED
    BY <1>2, <1>5, <1>6, <2>1
<1>9. p = q
  BY <1>5, <1>6, <1>7, <1>8, SeqEqual
<1> QED
  BY <1>1, <1>4, <1>9

\* What lies behind the first of two sequences is the second.
LEMMA Behind ==
  ASSUME NEW S, NEW h \in Seq(S), NEW r \in Seq(S)
  PROVE  SubSeq(h \o r, Len(h) + 1, Len(h \o r)) = r
<1>1. PICK s, m, n : s = h \o r /\ m = Len(h) /\ n = Len(r)
  OBVIOUS
<1>2. /\ s \in Seq(S) /\ Len(s) = Len(h) + Len(r)
      /\ \A i \in 1 .. Len(h) + Len(r) : s[i] = IF i <= Len(h) THEN h[i] ELSE r[i - Len(h)]
  BY <1>1, ConcatProperties
<1>3. m \in Nat /\ n \in Nat /\ Len(s) = m + n /\ m + n \in Nat /\ m <= m + n
  BY <1>1, <1>2, LenProperties
<1>4. PICK q : q = SubSeq(s, m + 1, m + n)
  OBVIOUS
<1>5. q \in Seq(S) /\ Len(q) = (m + n) - m /\ \A k \in 1 .. (m + n) - m : q[k] = s[m + k]
  BY <1>2, <1>3, <1>4, SliceOf
<1>6. Len(q) = Len(r)
  BY <1>1, <1>3, <1>5
<1>7. ASSUME NEW k \in 1 .. Len(q)
      PROVE  q[k] = r[k]
  <2>1. k \in 1 .. (m + n) - m /\ m + k \in 1 .. m + n /\ ~(m + k <= m) /\ (m + k) - m = k
    BY <1>3, <1>5
  <2> QED
    BY <1>1, <1>2, <1>5, <2>1
<1>8. q = r
  BY <1>5, <1>6, <1>7, SeqEqual
<1> QED
  BY <1>1, <1>3, <1>4, <1>8

\* The body of a request on the wire.
LEMMA BodyOf ==
  ASSUME LengthFramed, NEW i \in 1 .. Len(script)
  PROVE  /\ EndOf(i - 1) + script[i].head \in Nat /\ EndOf(i) \in Nat /\ EndOf(i - 1) \in Nat
         /\ EndOf(i - 1) + script[i].head <= EndOf(i) /\ EndOf(i) <= Len(Wire)
         /\ EndOf(i) = (EndOf(i - 1) + script[i].head) + Len(script[i].body)
         /\ Body(i) = SubSeq(Wire, (EndOf(i - 1) + script[i].head) + 1, EndOf(i))
<1>1. PICK w, u, a, c, h, l, N : /\ w = Wire /\ u = Units(i) /\ a = EndOf(i - 1) /\ c = EndOf(i) /\ h = script[i].head
                                 /\ l = Len(script[i].body) /\ N = Len(script)
  OBVIOUS
<1>2. /\ h \in Nat /\ l \in Nat /\ N \in Nat /\ Size(i) = h + l
  BY <1>1, RequestOf DEF Size
<1>3. /\ w \in Seq(Cells) /\ c = a + (h + l) /\ \A k \in 1 .. h + l : w[a + k] = u[k]
  BY <1>1, <1>2, WireLaid
<1>4. a \in Nat /\ c \in Nat /\ c <= Len(w)
  <2>1. i - 1 \in 0 .. N /\ i \in 0 .. N /\ N \in 0 .. N /\ i \in 0 .. N
    BY <1>1, <1>2
  <2> QED
    BY <1>1, <2>1, WireLaid
<1>5. u \in Seq(Cells) /\ Len(u) = h + l
  BY <1>1, <1>2, UnitsOf
<1>6. PICK p, q : p = SubSeq(u, h + 1, h + l) /\ q = SubSeq(w, (a + h) + 1, c)
  OBVIOUS
<1>7. p \in Seq(Cells) /\ Len(p) = (h + l) - h /\ \A k \in 1 .. (h + l) - h : p[k] = u[h + k]
  <2>1. h <= h + l /\ h + l <= Len(u) /\ h + l \in Nat
    BY <1>2, <1>5
  <2> QED
    BY <1>2, <1>5, <1>6, <2>1, SliceOf
<1>8. q \in Seq(Cells) /\ Len(q) = c - (a + h) /\ \A k \in 1 .. c - (a + h) : q[k] = w[(a + h) + k]
  <2>1. w \in Seq(Cells) /\ c \in Nat /\ c <= Len(w)
    BY <1>3, <1>4
  <2>2. PICK d : d = a + h
    OBVIOUS
  <2>3. d \in Nat /\ d <= c
    BY <1>2, <1>3, <1>4, <2>2
  <2>4. q = SubSeq(w, d + 1, c)
    BY <1>6, <2>2
  <2>5. q \in Seq(Cells) /\ Len(q) = c - d /\ \A k \in 1 .. c - d : q[k] = w[d + k]
    BY <2>1, <2>3, <2>4, SliceOf
  <2> QED
    BY <2>2, <2>5
<1>9. Len(p) = Len(q)
  BY <1>2, <1>3, <1>4, <1>7, <1>8
<1>10. ASSUME NEW k \in 1 .. Len(p)
       PROVE  p[k] = q[k]
  <2>1. k \in 1 .. (h + l) - h /\ k \in 1 .. c - (a + h) /\ h + k \in 1 .. h + l /\ a + (h + k) = (a + h) + k
    BY <1>2, <1>3, <1>4, <1>7
  <2> QED
    BY <1>3, <1>7, <1>8, <2>1
<1>11. p = q
  BY <1>7, <1>8, <1>9, <1>10, SeqEqual
<1>12. Body(i) = p
  BY <1>1, <1>6 DEF Body
<1>13. a + h \in Nat /\ a + h <= c /\ c = (a + h) + l
  BY <1>2, <1>3, <1>4
<1> QED
  BY <1>1, <1>4, <1>6, <1>11, <1>12, <1>13

-----------------------------------------------------------------------------
(* What the parser says of a buffer that begins with a request.            *)

\* The least element of a set.
LEMMA MinIs ==
  ASSUME NEW T, T \subseteq Int, NEW x \in T, \A y \in T : x <= y
  PROVE  Min(T) = x
<1>1. PICK z : z = Min(T)
  OBVIOUS
<1>2. z \in T /\ \A y \in T : z =< y
  BY <1>1 DEF Min
<1>3. x <= z /\ z <= x /\ x \in Int /\ z \in Int
  BY <1>2
<1> QED
  BY <1>1, <1>3

\* b begins where request i begins.
Window(b, i) == b \in Seq(Cells) /\ Len(b) \in Nat /\ \A k \in 1 .. Len(b) : k <= Size(i) => UnitAt(b[k], i, k)

\* The wire from the start of request i on.
LEMMA BufferOf ==
  ASSUME LengthFramed, NEW i \in 1 .. Len(script), NEW t \in Nat, EndOf(i - 1) <= t, t <= Len(Wire)
  PROVE  /\ Window(SubSeq(Wire, EndOf(i - 1) + 1, t), i)
         /\ Len(SubSeq(Wire, EndOf(i - 1) + 1, t)) = t - EndOf(i - 1)
<1>1. PICK a, w, z : a = EndOf(i - 1) /\ w = Wire /\ z = Size(i)
  OBVIOUS
<1>2. a \in Nat /\ w \in Seq(Cells) /\ z \in Nat /\ \A k \in 1 .. z : w[a + k] = Units(i)[k]
  BY <1>1, BodyOf, WireLaid, RequestOf
<1>b. PICK b : b = SubSeq(w, a + 1, t)
  OBVIOUS
<1>3. b \in Seq(Cells) /\ Len(b) = t - a /\ \A k \in 1 .. t - a : b[k] = w[a + k]
  <2>1. w \in Seq(Cells) /\ a \in Nat /\ t \in Nat /\ a <= t /\ t <= Len(w)
    BY <1>1, <1>2
  <2> QED
    BY <1>b, <2>1, SliceOf
<1>4. Len(b) \in Nat
  BY <1>3, LenProperties
<1>5. ASSUME NEW k \in 1 .. Len(b), k <= z
      PROVE  UnitAt(b[k], i, k)
  <2>1. k \in 1 .. z /\ k \in 1 .. t - a
    BY <1>2, <1>3, <1>5
  <2>2. b[k] = Units(i)[k]
    BY <1>2, <1>3, <2>1
  <2>3. UnitAt(Units(i)[k], i, k)
    BY <1>1, <2>1, UnitsOf
  <2> QED
    BY <2>2, <2>3
<1>6. Window(b, i)
  BY <1>1, <1>3, <1>4, <1>5 DEF Window
<1> QED
  BY <1>1, <1>b, <1>3, <1>6

\* Nothing has arrived.
LEMMA ParseNothing ==
  ASSUME NEW b, b = << >>
  PROVE  http_request_parse_adv(b).result = "incomplete" /\ http_request_parse_adv(b).req = 0
<1>1. find_header_end(b) = 0
  BY DEF find_header_end
<1> QED
  BY <1>1 DEF http_request_parse_adv

\* The parser finds the end of the header block, and nothing before it.
LEMMA ParseOf ==
  ASSUME LengthFramed, NEW i \in 1 .. Len(script), Framed(script[i]),
         NEW b, Window(b, i), NEW p, p = http_request_parse_adv(b)
  PROVE  /\ b # << >> => Start(b) = 1 /\ b[1].req = i
         /\ Len(b) < script[i].head => p.result = "incomplete" /\ p.req = 0
         /\ Len(b) >= script[i].head =>
              \/ p.result = "error"
              \/ /\ p.result = "incomplete" /\ p.req = i /\ p.offset = script[i].head
                 /\ Len(b) < Size(i)
              \/ /\ p.result = "ok" /\ p.req = i /\ p.offset = script[i].head /\ p.consumed = Size(i)
                 /\ Len(b) >= Size(i)
<1>0. PICK r, h, l, n : r = script[i] /\ h = r.head /\ l = Len(r.body) /\ n = Len(b)
  OBVIOUS
<1>1. /\ h \in Nat /\ h >= 1 /\ l \in Nat /\ Size(i) = h + l /\ r.length = l
  BY <1>0, RequestOf DEF Framed, Size
<1>2. /\ b \in Seq(Cells) /\ n \in Nat
      /\ \A k \in 1 .. n : k <= h + l => b[k].req = i /\ b[k].pos = k
      /\ \A k \in 1 .. n : k <= h => b[k].kind \in {"pri", "head"}
  <2>1. b \in Seq(Cells) /\ n \in Nat /\ \A k \in 1 .. n : k <= h + l => UnitAt(b[k], i, k)
    BY <1>0, <1>1 DEF Window
  <2>2. \A k \in 1 .. n : k <= h => k <= h + l /\ ~(k > h) /\ KindAt(r, k) \in {"pri", "head"}
    <3>1. ASSUME NEW k \in 1 .. n, k <= h
          PROVE  k <= h + l /\ ~(k > h) /\ KindAt(r, k) \in {"pri", "head"}
      <4>1. k <= h + l /\ ~(k > h)
        BY <1>1, <2>1, <3>1
      <4> QED
        BY <1>0, <4>1 DEF KindAt
    <3> QED
      BY <3>1
  <2> QED
    BY <1>0, <2>1, <2>2 DEF UnitAt
<1>3. ASSUME n >= 1
      PROVE  Start(b) = 1 /\ b[1].req = i /\ b[1].pos = 1
  <2>0. 1 \in 1 .. n /\ 1 <= h /\ 1 <= h + l
    BY <1>1, <1>2, <1>3
  <2>1. b[1].kind # "nl" /\ b[1].req = i /\ b[1].pos = 1
    BY <1>2, <2>0
  <2> DEFINE text == {m \in 1 .. n : ~IsNl(b, m)}
  <2>2. 1 \in text /\ \A m \in text : 1 <= m
    <3>1. ~IsNl(b, 1)
      BY <2>1 DEF IsNl
    <3>2. \A m \in 1 .. n : 1 <= m
      BY <1>2
    <3> QED
      BY <2>0, <3>1, <3>2
  <2>3. Min(text) = 1
    <3>1. text \subseteq Int
      BY <1>2
    <3> HIDE DEF text
    <3> QED
      BY <2>2, <3>1, MinIs
  <2>4. Start(b) = Min(text)
    BY <1>0, <2>2 DEF Start, SkipNl
  <2> QED
    BY <2>1, <2>3, <2>4
<1> DEFINE ends == {m \in 1 .. n : \/ b[m].pos = script[b[m].req].head
                                   \/ m > 1 /\ IsNl(b, m) /\ IsNl(b, m - 1)}
<1>4. \A m \in ends : m >= h /\ m \in Int
  <2>0. \A m \in 1 .. n : m \in Int
    BY <1>2
  <2>1. ASSUME NEW m \in 1 .. n, m < h
        PROVE  ~(b[m].pos = script[b[m].req].head) /\ ~IsNl(b, m)
    <3>1. m <= h + l /\ m <= h /\ m # h
      BY <1>1, <2>0, <2>1
    <3>2. b[m].req = i /\ b[m].pos = m /\ b[m].kind \in {"pri", "head"}
      BY <1>2, <3>1
    <3> QED
      BY <1>0, <3>1, <3>2 DEF IsNl
  <2>2. \A m \in 1 .. n : ~(m < h) => m >= h
    BY <1>1, <2>0
  <2> QED
    BY <2>0, <2>1, <2>2
<1>5. find_header_end(b) = IF ends = {} THEN 0 ELSE Min(ends)
  BY <1>0 DEF find_header_end
<1>6. CASE n < h
  <2>1. ends = {}
    <3>1. \A m \in ends : m <= n
      BY <1>2
    <3> HIDE DEF ends
    <3> QED
      BY <1>1, <1>2, <1>4, <1>6, <3>1
  <2>2. find_header_end(b) = 0
    BY <1>5, <2>1
  <2>3. p.result = "incomplete" /\ p.req = 0
    BY <2>2 DEF http_request_parse_adv
  <2>4. b # << >> => n >= 1
    BY <1>0, <1>2
  <2> QED
    BY <1>0, <1>1, <1>2, <1>3, <1>6, <2>3, <2>4
<1>7. CASE n >= h
  <2>0. n >= 1 /\ h \in 1 .. n /\ h <= h + l
    BY <1>1, <1>2, <1>7
  <2>1. h \in ends
    <3>1. b[h].req = i /\ b[h].pos = h
      BY <1>2, <2>0
    <3> QED
      BY <1>0, <2>0, <3>1
  <2>2. Min(ends) = h /\ ends # {}
    <3> HIDE DEF ends
    <3> QED
      <4>1. ends \subseteq Int /\ \A m \in ends : h <= m
        BY <1>1, <1>4
      <4> QED
        BY <2>1, <4>1, MinIs
  <2> HIDE DEF ends
  <2>3. find_header_end(b) = h /\ h # 0 /\ Start(b) = 1 /\ b[1].req = i
    <3>1. Start(b) = 1 /\ b[1].req = i
      BY <1>3, <2>0
    <3>2. find_header_end(b) = h
      BY <1>5, <2>2
    <3>3. h # 0
      BY <1>1
    <3> QED
      BY <3>1, <3>2, <3>3
  <2>4. p = IF ~WholeHead(b, h)
              THEN [result |-> "error", req |-> 0, offset |-> 0, consumed |-> 0]
            ELSE IF l > n - h
              THEN [result |-> "incomplete", req |-> i, offset |-> h, consumed |-> 0]
            ELSE [result |-> "ok", req |-> i, offset |-> h, consumed |-> h + l]
    BY <1>0, <1>1, <2>3 DEF http_request_parse_adv
  <2>5. \/ p.result = "error"
        \/ p.result = "incomplete" /\ p.req = i /\ p.offset = h /\ l > n - h
        \/ p.result = "ok" /\ p.req = i /\ p.offset = h /\ p.consumed = h + l /\ ~(l > n - h)
    BY <2>4
  <2>6. (l > n - h => n < h + l) /\ (~(l > n - h) => n >= h + l) /\ ~(n < h)
    BY <1>1, <1>2, <1>7
  <2> QED
    BY <1>0, <1>1, <2>3, <2>5, <2>6
<1>8. n < h \/ n >= h
  BY <1>1, <1>2
<1> QED
  BY <1>6, <1>7, <1>8

-----------------------------------------------------------------------------
(***************************************************************************)
(* The invariant.  Requests are served in turn: those before the turn have *)
(* been handed over and answered, and what is in the buffer, in the spill  *)
(* file and still on the wire is exactly what follows them.                *)
(***************************************************************************)
Turn   == Len(seen) + 1          \* the request whose turn it is
Mine   == script[Turn]
Begin  == EndOf(Len(seen))       \* where it begins on the wire, behind so many units
Finish == EndOf(Turn)            \* and where it ends
MyBody == Body(Turn)

Places   == {"sniff", "magic", "parse", "fill", "spill", "ready", "gone", "h2", "crashed", "overrun"}
Handed   == [req : Nat, body : Seq(Cells)]
Replies  == [req : Nat, status : FinalStatus \cup {100}]

Typed ==
  /\ cap \in Nat \ {0} /\ pc \in Places
  /\ taken \in Nat /\ taken <= Len(Wire)
  /\ seen \in Seq(Handed) /\ Len(seen) <= Len(script)
  /\ out \in Seq(Replies)

\* The final responses answer different requests in order, and one that ends the
\* connection is the last.
Paired ==
  /\ \A j, k \in {n \in 1 .. Len(out) : out[n].status \in FinalStatus} : j < k => out[j].req < out[k].req
  /\ \A k \in 1 .. (Len(out) - 1) : out[k].status \in {100, 200}

\* Final answers in order, of the requests before the turn as long as the connection goes on.
Sent ==
  /\ Paired
  /\ pc # "gone" => \A k \in 1 .. Len(out) : /\ out[k].status \in {100, 200}
                                             /\ out[k].status \in FinalStatus => out[k].req <= Len(seen)
  /\ pc # "gone" => \A i \in 1 .. Len(seen) : Answered(i)
  /\ pc # "gone" /\ continue_sent => Continued(Turn)

Served == \A k \in 1 .. Len(seen) : seen[k].req = k /\ (script[k].declared => seen[k].body = Body(k))

\* The client does not wait for a 100 Continue that it has not got.
Prompted == continue_sent \/ Mine.expect # "continue"

Placed ==
  /\ pc \in {"sniff", "magic", "parse", "fill"} => Begin <= taken /\ rb = SubSeq(Wire, Begin + 1, taken)
  /\ pc \in {"sniff", "magic"} => seen = << >>
  /\ pc = "magic" => taken >= 1 /\ Mine.proto = "pri"
  /\ pc \in {"parse", "fill", "spill", "ready"} /\ Turn <= Len(script) => Framed(Mine)
  /\ pc = "fill" /\ Turn <= Len(script) => taken < Finish /\ (taken >= Begin + Mine.head => Prompted)
  /\ pc = "spill" => /\ Turn <= Len(script) /\ cur = Turn /\ Prompted
                     /\ Begin + Mine.head <= taken /\ taken < Finish
                     /\ rb = SubSeq(Wire, Begin + 1, Begin + Mine.head)
                     /\ spilled = SubSeq(Wire, (Begin + Mine.head) + 1, taken)
  /\ pc = "ready" => /\ Turn <= Len(script) /\ cur = Turn /\ ~req.freed /\ Finish <= taken
                     /\ req.body \in Seq(Cells) /\ (Mine.declared => req.body = MyBody)
                     /\ rb_discard(rb, req.consumed) = SubSeq(Wire, Finish + 1, taken)

IInv == Typed /\ Sent /\ Served /\ Placed

\* What the request whose turn it is occupies of the wire.
LEMMA TurnOf ==
  ASSUME LengthFramed, Typed
  PROVE  /\ Len(seen) \in Nat /\ Len(script) \in Nat /\ Turn \in Nat /\ Turn >= 1 /\ Turn - 1 = Len(seen)
         /\ Begin \in Nat /\ Begin = EndOf(Turn - 1) /\ Wire \in Seq(Cells) /\ Len(Wire) \in Nat /\ Begin <= Len(Wire)
         /\ Turn <= Len(script) =>
              /\ Turn \in 1 .. Len(script) /\ Mine.head \in Nat /\ Mine.head >= 1 /\ Len(Mine.body) \in Nat
              /\ Finish \in Nat /\ Finish <= Len(Wire)
              /\ Begin + Mine.head \in Nat /\ Begin + Mine.head <= Finish
              /\ Finish = (Begin + Mine.head) + Len(Mine.body) /\ Finish = Begin + Size(Turn)
              /\ Size(Turn) = Mine.head + Len(Mine.body)
              /\ MyBody = SubSeq(Wire, (Begin + Mine.head) + 1, Finish)
         /\ ~(Turn <= Len(script)) => Begin = Len(Wire)
<1>1. Len(seen) \in Nat /\ Len(script) \in Nat /\ Len(seen) <= Len(script)
  BY RequestOf, LenProperties DEF Typed
<1>2. Turn \in Nat /\ Turn >= 1 /\ Turn - 1 = Len(seen) /\ Len(seen) \in 0 .. Len(script) /\ Len(script) \in 0 .. Len(script)
  BY <1>1 DEF Turn
<1>3. Wire \in Seq(Cells) /\ Len(Wire) \in Nat
  BY WireLaid
<1>4. Begin \in Nat /\ Begin = EndOf(Turn - 1)
  BY <1>2, WireLaid DEF Begin
<1>5. Begin <= Len(Wire)
  <2>1. Len(seen) \in 0 .. Len(script) /\ Len(Wire) = EndOf(Len(script))
    BY <1>2, WireLaid
  <2>2. EndOf(Len(seen)) <= EndOf(Len(script))
    BY <1>2, WireLaid
  <2> QED
    BY <2>1, <2>2 DEF Begin
<1>6. ASSUME Turn <= Len(script)
      PROVE  /\ Turn \in 1 .. Len(script) /\ Mine.head \in Nat /\ Mine.head >= 1 /\ Len(Mine.body) \in Nat
             /\ Finish \in Nat /\ Finish <= Len(Wire)
             /\ Begin + Mine.head \in Nat /\ Begin + Mine.head <= Finish
             /\ Finish = (Begin + Mine.head) + Len(Mine.body) /\ Finish = Begin + Size(Turn)
             /\ Size(Turn) = Mine.head + Len(Mine.body)
             /\ MyBody = SubSeq(Wire, (Begin + Mine.head) + 1, Finish)
  <2>1. PICK i : i = Turn
    OBVIOUS
  <2>2. i \in 1 .. Len(script)
    BY <1>1, <1>2, <1>6, <2>1
  <2>3. /\ script[i].head \in Nat \ {0} /\ Len(script[i].body) \in Nat
    BY <2>2, RequestOf
  <2>4. /\ EndOf(i - 1) + script[i].head \in Nat /\ EndOf(i) \in Nat
        /\ EndOf(i - 1) + script[i].head <= EndOf(i) /\ EndOf(i) <= Len(Wire)
        /\ EndOf(i) = (EndOf(i - 1) + script[i].head) + Len(script[i].body)
        /\ Body(i) = SubSeq(Wire, (EndOf(i - 1) + script[i].head) + 1, EndOf(i))
    BY <2>2, BodyOf
  <2>5. EndOf(i) = EndOf(i - 1) + Size(i)
    BY <2>2, WireLaid
  <2>6. Size(i) = script[i].head + Len(script[i].body)
    BY DEF Size
  <2>7. Mine.head \in Nat /\ Mine.head >= 1 /\ Len(Mine.body) \in Nat
    BY <2>1, <2>3 DEF Mine
  <2> QED
    BY <1>4, <2>1, <2>2, <2>4, <2>5, <2>6, <2>7 DEF Mine, Finish, MyBody
<1>7. ASSUME ~(Turn <= Len(script))
      PROVE  Begin = Len(Wire)
  <2>1. Len(seen) = Len(script)
    BY <1>1, <1>2, <1>7
  <2> QED
    BY <2>1, WireLaid DEF Begin
<1> QED
  BY <1>1, <1>2, <1>3, <1>4, <1>5, <1>6, <1>7

\* The wire never changes, and the turn only with the requests handed over.
LEMMA SameWire ==
  ASSUME UNCHANGED script
  PROVE  /\ Wire' = Wire /\ \A i : EndOf(i)' = EndOf(i) /\ Body(i)' = Body(i)
<1>1. Wire' = Wire
  BY DEF Wire, Units
<1> QED
  BY <1>1 DEF EndOf, Body, Units

\* A step that hands nothing over.
LEMMA SameTurn ==
  ASSUME UNCHANGED <<script, seen>>
  PROVE  Wire' = Wire /\ Turn' = Turn /\ Mine' = Mine /\ Begin' = Begin /\ Finish' = Finish /\ MyBody' = MyBody
<1>1. Wire' = Wire
  BY SameWire
<1> QED
  BY <1>1 DEF Turn, Mine, Begin, Finish, MyBody, EndOf, Body, Units
-----------------------------------------------------------------------------
(* The parts of the invariant that many steps leave as they are.           *)

\* recv returns units that are on the wire.
LEMMA Arrived ==
  ASSUME LengthFramed, Typed, NEW n \in Sizes, n <= Available
  PROVE  n \in Nat /\ n >= 1 /\ taken \in Nat /\ taken + n \in Nat /\ taken + n <= Len(Wire)
<1>1. taken \in Nat /\ Len(Wire) \in Nat /\ taken <= Len(Wire)
  BY TurnOf DEF Typed
<1>2. PICK w : w = Len(Wire)
  OBVIOUS
<1> DEFINE coming == {m \in (taken + 1) .. w : \A k \in (taken + 1) .. m : ~Held(k)}
<1>3. Available = Cardinality(coming)
  BY <1>2 DEF Available
<1>4. coming \subseteq (taken + 1) .. w
  OBVIOUS
<1>5. IsFiniteSet((taken + 1) .. w) /\ Cardinality((taken + 1) .. w) = w - taken
  <2>1. taken + 1 \in Int /\ w \in Int
    BY <1>1, <1>2
  <2>2. PICK a : a = taken + 1 /\ a \in Int
    BY <2>1
  <2>3. IsFiniteSet(a .. w) /\ Cardinality(a .. w) = IF a > w THEN 0 ELSE w - a + 1
    BY <2>1, <2>2, FS_Interval
  <2>4. (IF a > w THEN 0 ELSE w - a + 1) = w - taken
    BY <1>1, <1>2, <2>2
  <2> QED
    BY <2>2, <2>3, <2>4
<1>6. IsFiniteSet(coming) /\ Cardinality(coming) <= w - taken /\ Cardinality(coming) \in Nat
  <2> HIDE DEF coming
  <2> QED
    BY <1>4, <1>5, FS_Subset, FS_CardinalityType
<1>7. cap \in Nat /\ cap >= 1 /\ Stage \in Nat /\ Stage >= 1
  BY Capacities DEF Typed
<1>8. Max({cap, Stage}) \in Nat
  <2>1. PICK x \in {cap, Stage} : \A y \in {cap, Stage} : x >= y
    <3>1. cap >= Stage \/ Stage >= cap
      BY <1>7
    <3>2. cap >= cap /\ Stage >= Stage
      BY <1>7
    <3> QED
      BY <3>1, <3>2
  <2>2. Max({cap, Stage}) \in {cap, Stage}
    BY <2>1 DEF Max
  <2> QED
    BY <1>7, <2>2
<1>9. n \in Nat /\ n >= 1
  BY <1>8 DEF Sizes
<1>10. n <= Cardinality(coming)
  BY <1>3
<1> HIDE DEF coming
<1>11. taken + n <= w
  BY <1>1, <1>2, <1>6, <1>9, <1>10
<1> QED
  BY <1>1, <1>2, <1>9, <1>11

\* A step that neither answers nor hands a request over.
LEMMA Kept ==
  ASSUME IInv, UNCHANGED <<script, cap, seen, out, continue_sent>>,
         pc # "gone", pc' # "gone", pc' \in Places, taken' \in Nat, taken' <= Len(Wire)
  PROVE  Typed' /\ Sent' /\ Served'
<1>1. Wire' = Wire /\ Turn' = Turn /\ \A i : Body(i)' = Body(i)
  BY SameWire, SameTurn
<1>2. Typed'
  BY <1>1 DEF IInv, Typed
<1>3. Paired' /\ Continued(Turn)' = Continued(Turn) /\ \A i : Answered(i)' = Answered(i)
  BY <1>1 DEF IInv, Sent, Paired, Continued, Answered
<1>4. Sent'
  BY <1>1, <1>3 DEF IInv, Sent
<1>5. Served'
  BY <1>1 DEF IInv, Served
<1> QED
  BY <1>2, <1>4, <1>5

\* A final answer to the request whose turn it is.
LEMMA Answering ==
  ASSUME LengthFramed, IInv, pc # "gone", NEW s \in FinalStatus, out' = Append(out, [req |-> Turn, status |-> s])
  PROVE  /\ out' \in Seq(Replies) /\ Paired' /\ Len(out) \in Nat /\ Len(out') = Len(out) + 1
         /\ \A k \in 1 .. Len(out) : out'[k] = out[k]
         /\ out'[Len(out) + 1] = [req |-> Turn, status |-> s]
<1>1. PICK r, o, p, n, m : /\ r = [req |-> Turn, status |-> s] /\ o = out /\ p = out' /\ n = Len(out) /\ m = Len(seen)
  OBVIOUS
<1>2. m \in Nat /\ Turn = m + 1
  BY <1>1, TurnOf DEF IInv, Turn
<1>3. r \in Replies
  BY <1>1, <1>2 DEF Replies
<1>4. o \in Seq(Replies) /\ n \in Nat
  BY <1>1, LenProperties DEF IInv, Typed
<1>5. p \in Seq(Replies) /\ Len(p) = n + 1 /\ p[n + 1] = r /\ \A k \in 1 .. n : p[k] = o[k]
  BY <1>1, <1>3, <1>4, AppendProperties
<1>6. \A j, k \in {x \in 1 .. n : o[x].status \in FinalStatus} : j < k => o[j].req < o[k].req
  BY <1>1 DEF IInv, Sent, Paired
<1>7. \A k \in 1 .. n : /\ o[k].status \in {100, 200} /\ (o[k].status \in FinalStatus => o[k].req <= m)
                        /\ o[k].req \in Nat
  <2>1. \A k \in 1 .. n : o[k] \in Replies
    BY <1>1, <1>4, ElementOfSeq
  <2> QED
    BY <1>1, <2>1 DEF IInv, Sent, Replies
<1>8. ASSUME NEW j \in 1 .. n + 1, NEW k \in 1 .. n + 1, p[j].status \in FinalStatus, p[k].status \in FinalStatus, j < k
      PROVE  p[j].req < p[k].req
  <2>1. j \in 1 .. n /\ p[j] = o[j]
    BY <1>4, <1>5, <1>8
  <2>2. CASE k = n + 1
    <3>1. p[k].req = m + 1
      BY <1>1, <1>2, <1>5, <2>2
    <3> QED
      BY <1>2, <1>7, <1>8, <2>1, <3>1
  <2>3. CASE k # n + 1
    <3>1. k \in 1 .. n /\ p[k] = o[k]
      BY <1>4, <1>5, <2>3
    <3> QED
      BY <1>6, <1>8, <2>1, <3>1
  <2> QED
    BY <2>2, <2>3
<1>9. \A k \in 1 .. (Len(p) - 1) : p[k].status \in {100, 200}
  <2>1. Len(p) - 1 = n
    BY <1>4, <1>5
  <2> QED
    BY <1>5, <1>7, <2>1
<1>10. Paired'
  BY <1>1, <1>5, <1>8, <1>9 DEF Paired
<1> QED
  BY <1>1, <1>4, <1>5, <1>10

\* The connection is given up, in silence or with a final answer to the request whose turn it is.
LEMMA Gone ==
  ASSUME LengthFramed, IInv, pc # "gone", pc' = "gone", UNCHANGED <<script, cap, taken, seen>>,
         out' = out \/ \E s \in FinalStatus : out' = Append(out, [req |-> Turn, status |-> s])
  PROVE  IInv'
<1>1. Wire' = Wire /\ \A i : Body(i)' = Body(i)
  BY SameWire
<1>2. out' \in Seq(Replies) /\ Paired'
  <2>1. CASE out' = out
    BY <2>1 DEF IInv, Typed, Sent, Paired
  <2>2. CASE \E s \in FinalStatus : out' = Append(out, [req |-> Turn, status |-> s])
    BY <2>2, Answering
  <2> QED
    BY <2>1, <2>2
<1>3. Typed'
  BY <1>1, <1>2 DEF IInv, Typed, Places
<1>4. Sent'
  BY <1>2 DEF Sent
<1>5. Served'
  BY <1>1 DEF IInv, Served
<1>6. Placed'
  BY DEF Placed
<1> QED
  BY <1>3, <1>4, <1>5, <1>6 DEF IInv

\* The request whose turn it is goes to the handler.
LEMMA HandedOver ==
  ASSUME LengthFramed, IInv, Ready, Handled, UNCHANGED script
  PROVE  /\ seen' \in Seq(Handed) /\ Len(seen') = Turn /\ Turn <= Len(script) /\ cur = Turn /\ Served'
<1>1. PICK r, o, p, n : r = [req |-> cur, body |-> req.body] /\ o = seen /\ p = seen' /\ n = Len(seen)
  OBVIOUS
<1>2. n \in Nat /\ Turn = n + 1 /\ Turn \in Nat
  BY <1>1, TurnOf DEF IInv, Turn
<1>3. /\ cur = Turn /\ req.body \in Seq(Cells) /\ Turn <= Len(script)
      /\ (Mine.declared => req.body = MyBody)
  BY DEF Ready, IInv, Placed
<1>4. r \in Handed
  BY <1>1, <1>2, <1>3 DEF Handed
<1>5. o \in Seq(Handed)
  BY <1>1 DEF IInv, Typed
<1>6. p \in Seq(Handed) /\ Len(p) = n + 1 /\ p[n + 1] = r /\ \A k \in 1 .. n : p[k] = o[k]
  <2>1. p = Append(o, r)
    BY <1>1 DEF Handled
  <2> QED
    BY <1>1, <1>4, <1>5, <2>1, AppendProperties
<1>7. ASSUME NEW k \in 1 .. n + 1
      PROVE  p[k].req = k /\ (script[k].declared => p[k].body = Body(k))
  <2>1. CASE k = n + 1
    BY <1>1, <1>2, <1>3, <1>6, <2>1 DEF Mine, MyBody
  <2>2. CASE k # n + 1
    <3>1. k \in 1 .. n /\ p[k] = o[k]
      BY <1>2, <1>6, <2>2
    <3> QED
      BY <1>1, <3>1 DEF IInv, Served
  <2> QED
    BY <2>1, <2>2
<1>8. \A k : Body(k)' = Body(k)
  BY SameWire
<1>9. Served'
  BY <1>1, <1>6, <1>7, <1>8 DEF Served
<1> QED
  BY <1>1, <1>2, <1>3, <1>6, <1>9
-----------------------------------------------------------------------------
(* The buffer and the parser, in the loops that read requests.             *)

\* What is in the buffer begins with the request whose turn it is.
LEMMA AtFront ==
  ASSUME LengthFramed, IInv, pc \in {"sniff", "magic", "parse", "fill"}
  PROVE  /\ rb \in Seq(Cells) /\ Len(rb) \in Nat /\ Len(rb) = taken - Begin /\ taken \in Nat /\ Begin <= taken
         /\ Turn <= Len(script) => Window(rb, Turn)
         /\ rb # << >> => Turn \in 1 .. Len(script) /\ rb[1].req = Turn
<1>1. PICK a, t, w, i, b : a = Begin /\ t = taken /\ w = Wire /\ i = Turn /\ b = rb
  OBVIOUS
<1>2. a <= t /\ b = SubSeq(w, a + 1, t) /\ t \in Nat /\ t <= Len(w)
  BY <1>1 DEF IInv, Placed, Typed
<1>3. a \in Nat /\ w \in Seq(Cells) /\ a = EndOf(i - 1) /\ Len(w) \in Nat
  BY <1>1, TurnOf DEF IInv
<1>4. b \in Seq(Cells) /\ Len(b) = t - a /\ Len(b) \in Nat
  BY <1>2, <1>3, SliceOf, LenProperties
<1>5. ASSUME i <= Len(script)
      PROVE  Window(b, i)
  <2>1. i \in 1 .. Len(script)
    BY <1>1, <1>5, TurnOf DEF IInv
  <2>2. EndOf(i - 1) <= t /\ t <= Len(Wire) /\ b = SubSeq(Wire, EndOf(i - 1) + 1, t)
    BY <1>1, <1>2, <1>3
  <2> QED
    BY <1>2, <2>1, <2>2, BufferOf
<1>6. ASSUME b # << >>
      PROVE  i \in 1 .. Len(script) /\ b[1].req = i
  <2>1. Len(b) >= 1
    BY <1>4, <1>6, EmptySeq
  <2>2. i <= Len(script)
    <3>1. ASSUME ~(i <= Len(script))
          PROVE  FALSE
      <4>1. a = Len(w)
        BY <1>1, <3>1, TurnOf DEF IInv
      <4> QED
        BY <1>2, <1>3, <1>4, <2>1, <4>1
    <3> QED
      BY <3>1
  <2>3. i \in 1 .. Len(script) /\ Size(i) \in Nat /\ Size(i) >= 1
    <3>1. Mine.head \in Nat /\ Mine.head >= 1 /\ Len(Mine.body) \in Nat /\ Size(i) = Mine.head + Len(Mine.body)
      BY <1>1, <2>2, TurnOf DEF IInv
    <3>2. i \in 1 .. Len(script)
      BY <1>1, <2>2, TurnOf DEF IInv
    <3> QED
      BY <3>1, <3>2
  <2>4. UnitAt(b[1], i, 1)
    <3>1. 1 \in 1 .. Len(b) /\ 1 <= Size(i)
      BY <1>4, <2>1, <2>3
    <3> QED
      BY <1>5, <2>2, <3>1 DEF Window
  <2> QED
    BY <2>3, <2>4 DEF UnitAt
<1> QED
  BY <1>1, <1>2, <1>4, <1>5, <1>6

\* What the parser can say of the buffer.
LEMMA AtParse ==
  ASSUME LengthFramed, IInv, pc = "parse"
  PROVE  /\ rb # << >> => Start(rb) = 1
         /\ P.result = "incomplete" =>
              \/ P.req = 0 /\ (Turn <= Len(script) => taken < Begin + Mine.head)
              \/ /\ P.req = Turn /\ Turn \in 1 .. Len(script) /\ P.offset = Mine.head
                 /\ Begin + Mine.head <= taken /\ taken < Finish
         /\ P.result = "ok" => /\ P.req = Turn /\ Turn \in 1 .. Len(script) /\ P.offset = Mine.head
                               /\ P.consumed = Size(Turn) /\ Finish <= taken
         /\ P.result = "error" => rb # << >>
<1>1. PICK p, b, i, n, h, z : p = P /\ b = rb /\ i = Turn /\ n = Len(rb) /\ h = Mine.head /\ z = Size(Turn)
  OBVIOUS
<1>p. pc \in {"sniff", "magic", "parse", "fill"}
  OBVIOUS
<1>2. b \in Seq(Cells) /\ n \in Nat /\ n = taken - Begin /\ taken \in Nat /\ Begin <= taken
  BY <1>1, <1>p, AtFront
<1>3. CASE rb = << >>
  <2>1. p.result = "incomplete" /\ p.req = 0
    BY <1>1, <1>3, ParseNothing DEF P
  <2>2. taken = Begin /\ Begin \in Nat
    <3>1. n = 0
      BY <1>1, <1>3
    <3>2. Begin \in Nat
      BY TurnOf DEF IInv
    <3> QED
      BY <1>2, <3>1, <3>2
  <2>3. Turn <= Len(script) => taken < Begin + Mine.head
    <3>1. Turn <= Len(script) => Mine.head \in Nat /\ Mine.head >= 1
      BY TurnOf DEF IInv
    <3> QED
      BY <2>2, <3>1
  <2> QED
    BY <1>1, <1>3, <2>1, <2>3
<1>4. CASE rb # << >>
  <2>1. i \in 1 .. Len(script) /\ Window(b, i)
    <3>1. Turn \in 1 .. Len(script)
      BY <1>4, <1>p, AtFront
    <3>2. Turn <= Len(script)
      BY <3>1
    <3> QED
      BY <1>1, <1>p, <3>1, <3>2, AtFront
  <2>2. i <= Len(script)
    BY <2>1
  <2>3. Framed(script[i])
    BY <1>1, <2>2 DEF IInv, Placed, Mine
  <2>4. /\ h = script[i].head /\ h \in Nat /\ z \in Nat /\ Begin \in Nat /\ Finish = Begin + z /\ Begin + h = Begin + Mine.head
    <3>1. Mine.head \in Nat /\ Begin \in Nat /\ Finish = Begin + Size(Turn)
      BY <1>1, <2>2, TurnOf DEF IInv
    <3>2. Size(i) \in Nat
      BY <2>1, <2>2, RequestOf
    <3> QED
      BY <1>1, <3>1, <3>2 DEF Mine
  <2>5. p = http_request_parse_adv(b)
    BY <1>1 DEF P
  <2>6. /\ Start(b) = 1
        /\ n < h => p.result = "incomplete" /\ p.req = 0
        /\ n >= h => \/ p.result = "error"
                     \/ p.result = "incomplete" /\ p.req = i /\ p.offset = h /\ n < z
                     \/ p.result = "ok" /\ p.req = i /\ p.offset = h /\ p.consumed = z /\ n >= z
    BY <1>1, <1>4, <2>1, <2>2, <2>3, <2>4, <2>5, ParseOf
  <2>7. n < h \/ n >= h
    BY <1>2, <2>4
  <2>8. /\ n < h => taken < Begin + h
        /\ n >= h => Begin + h <= taken
        /\ n < z => taken < Finish
        /\ n >= z => Finish <= taken
    BY <1>2, <2>4
  <2>9. /\ p.result = "incomplete" =>
              \/ p.req = 0 /\ taken < Begin + h
              \/ p.req = i /\ p.offset = h /\ Begin + h <= taken /\ taken < Finish
        /\ p.result = "ok" => p.req = i /\ p.offset = h /\ p.consumed = z /\ Finish <= taken
    BY <2>6, <2>7, <2>8
  <2> QED
    BY <1>1, <1>4, <2>1, <2>4, <2>6, <2>9
<1> QED
  BY <1>3, <1>4
-----------------------------------------------------------------------------
(* The steps that read from the socket.                                    *)

\* fill_more appends what it reads to the buffer.
LEMMA FillMore ==
  ASSUME LengthFramed, IInv, NEW n \in Sizes, fill_more(n)
  PROVE  IInv'
<1>1. /\ pc \in {"sniff", "magic", "fill"} /\ pc' = (IF pc = "fill" THEN "parse" ELSE pc)
      /\ n <= Available /\ rb' = rb \o SubSeq(Wire, taken + 1, taken + n) /\ taken' = taken + n
      /\ UNCHANGED <<script, cap, seen, out, continue_sent>>
  BY DEF fill_more, WantsBytes
<1>2. n \in Nat /\ taken \in Nat /\ taken' \in Nat /\ taken' <= Len(Wire) /\ taken <= taken' /\ n >= 1
  BY <1>1, Arrived DEF IInv
<1>3. Typed' /\ Sent' /\ Served'
  BY <1>1, <1>2, Kept DEF Places
<1>4. Wire' = Wire /\ Turn' = Turn /\ Mine' = Mine /\ Begin' = Begin /\ Finish' = Finish
  BY <1>1, SameTurn
<1>5. Begin <= taken /\ rb = SubSeq(Wire, Begin + 1, taken)
  BY <1>1 DEF IInv, Placed
<1>6. Begin \in Nat /\ Wire \in Seq(Cells)
  BY TurnOf DEF IInv
<1>7. rb' = SubSeq(Wire, Begin + 1, taken') /\ Begin <= taken'
  <2>1. PICK w, a, b, c : w = Wire /\ a = Begin /\ b = taken /\ c = taken'
    OBVIOUS
  <2>2. SubSeq(w, a + 1, b) \o SubSeq(w, b + 1, c) = SubSeq(w, a + 1, c)
    BY <1>2, <1>5, <1>6, <2>1, SliceJoin
  <2>3. a <= c
    BY <1>2, <1>5, <1>6, <2>1
  <2> QED
    BY <1>1, <1>5, <2>1, <2>2, <2>3
<1>8. pc' \in {"sniff", "magic"} => seen = << >>
  BY <1>1 DEF IInv, Placed
<1>9. pc' = "magic" => taken' >= 1 /\ Mine.proto = "pri"
  <2>1. pc' = "magic" => taken >= 1 /\ Mine.proto = "pri"
    BY <1>1 DEF IInv, Placed
  <2> QED
    BY <1>2, <2>1
<1>10. pc' = "parse" /\ Turn <= Len(script) => Framed(Mine)
  BY <1>1 DEF IInv, Placed
<1>11. pc' \in {"sniff", "magic", "parse"}
  BY <1>1
<1>12. Placed'
  BY <1>1, <1>4, <1>7, <1>8, <1>9, <1>10, <1>11 DEF Placed
<1> QED
  BY <1>3, <1>12 DEF IInv

\* A recv that times out.
LEMMA FillMoreStalls ==
  ASSUME LengthFramed, IInv, fill_more_stalls
  PROVE  IInv'
<1>1. /\ pc \in {"sniff", "magic", "parse", "fill"} /\ pc # "gone" /\ pc' = "gone" /\ UNCHANGED <<script, cap, taken, seen>>
  BY DEF fill_more_stalls, WantsBytes, Leave
<1>2. CASE rb = << >>
  <2>1. out' = out
    BY <1>2 DEF fill_more_stalls, StallSilent
  <2> QED
    BY <1>1, <2>1, Gone
<1>3. CASE rb # << >>
  <2>1. out' = Append(out, [req |-> Turn, status |-> TimeoutStatus])
    BY <1>1, <1>3, AtFront DEF fill_more_stalls, StallSilent, Send, FrontRequest
  <2>2. TimeoutStatus \in FinalStatus
    BY DEF TimeoutStatus, FinalStatus
  <2> QED
    BY <1>1, <2>1, <2>2, Gone
<1> QED
  BY <1>2, <1>3

\* The numbers of a body that is being spilled.
LEMMA AtSpill ==
  ASSUME LengthFramed, IInv, pc = "spill"
  PROVE  /\ Turn \in 1 .. Len(script) /\ cur = Turn /\ Begin \in Nat /\ Finish \in Nat /\ Begin + Mine.head \in Nat
         /\ taken \in Nat /\ Begin <= Begin + Mine.head /\ Begin + Mine.head <= taken /\ taken < Finish /\ Finish <= Len(Wire)
         /\ rb \in Seq(Cells) /\ spilled \in Seq(Cells)
         /\ Len(spilled) \in Nat /\ Declared \in Nat
         /\ Len(spilled) = taken - (Begin + Mine.head) /\ Declared = Finish - (Begin + Mine.head)
<1>1. /\ Turn <= Len(script) /\ cur = Turn /\ Begin + Mine.head <= taken /\ taken < Finish
      /\ rb = SubSeq(Wire, Begin + 1, Begin + Mine.head)
      /\ spilled = SubSeq(Wire, (Begin + Mine.head) + 1, taken) /\ Framed(Mine)
  BY DEF IInv, Placed
<1>2. PICK w, a, h, t, c, l : /\ w = Wire /\ a = Begin /\ h = Mine.head /\ t = taken /\ c = Finish /\ l = Len(Mine.body)
  OBVIOUS
<1>3. /\ Turn \in 1 .. Len(script) /\ a \in Nat /\ c \in Nat /\ h \in Nat /\ a + h \in Nat /\ l \in Nat
      /\ c = (a + h) + l /\ w \in Seq(Cells) /\ c <= Len(w) /\ Len(w) \in Nat
  BY <1>1, <1>2, TurnOf DEF IInv
<1>4. t \in Nat /\ a + h <= t /\ t < c /\ t <= Len(w)
  BY <1>1, <1>2 DEF IInv, Typed
<1>5. spilled \in Seq(Cells) /\ Len(spilled) = t - (a + h) /\ Len(spilled) \in Nat
  <2>1. spilled = SubSeq(w, (a + h) + 1, t)
    BY <1>1, <1>2
  <2> QED
    BY <1>3, <1>4, <2>1, SliceOf, LenProperties
<1>6. rb \in Seq(Cells)
  <2>1. rb = SubSeq(w, a + 1, a + h)
    BY <1>1, <1>2
  <2>2. a <= a + h /\ a + h <= Len(w)
    BY <1>3, <1>4
  <2> QED
    BY <1>3, <2>1, <2>2, SliceOf
<1>7. Declared = l
  BY <1>1, <1>2 DEF Declared, Framed, Mine
<1>8. l = c - (a + h) /\ a <= a + h
  BY <1>3
<1> QED
  BY <1>1, <1>2, <1>3, <1>4, <1>5, <1>6, <1>7, <1>8

\* The spill file grows.
LEMMA Spilling ==
  ASSUME LengthFramed, IInv, NEW n \in Sizes, SpillGrows(n)
  PROVE  IInv'
<1>1. /\ pc = "spill" /\ pc' = pc /\ n <= Available /\ Len(spilled) + n < Declared
      /\ spilled' = spilled \o SubSeq(Wire, taken + 1, taken + n) /\ taken' = taken + n
      /\ UNCHANGED <<script, cap, seen, out, continue_sent, rb, cur>>
  BY DEF SpillGrows
<1>2. n \in Nat /\ taken \in Nat /\ taken' \in Nat /\ taken' <= Len(Wire) /\ taken <= taken' /\ n >= 1
  BY <1>1, Arrived DEF IInv
<1>3. Typed' /\ Sent' /\ Served'
  BY <1>1, <1>2, Kept DEF Places
<1>4. Wire' = Wire /\ Turn' = Turn /\ Mine' = Mine /\ Begin' = Begin /\ Finish' = Finish
  BY <1>1, SameTurn
<1>5. /\ Turn \in 1 .. Len(script) /\ Begin \in Nat /\ Finish \in Nat /\ Begin + Mine.head \in Nat
      /\ Begin + Mine.head <= taken /\ Len(spilled) = taken - (Begin + Mine.head)
      /\ Declared = Finish - (Begin + Mine.head)
  BY <1>1, AtSpill
<1>6. Begin + Mine.head <= taken' /\ taken' < Finish
  <2>1. PICK a, b, c, t : a = Begin + Mine.head /\ b = Finish /\ c = Declared /\ t = Len(spilled)
    OBVIOUS
  <2>2. a \in Nat /\ b \in Nat /\ a <= taken /\ t = taken - a /\ c = b - a /\ t + n < c
    BY <1>1, <1>5, <2>1
  <2>3. a <= taken + n /\ taken + n < b
    BY <1>2, <2>2
  <2> QED
    BY <1>1, <2>1, <2>3
<1>7. /\ spilled = SubSeq(Wire, (Begin + Mine.head) + 1, taken) /\ Prompted /\ Framed(Mine) /\ cur = Turn
      /\ rb = SubSeq(Wire, Begin + 1, Begin + Mine.head) /\ Turn <= Len(script)
  BY <1>1 DEF IInv, Placed
<1>8. spilled' = SubSeq(Wire, (Begin + Mine.head) + 1, taken')
  <2>1. PICK w, a, b, c : w = Wire /\ a = Begin + Mine.head /\ b = taken /\ c = taken'
    OBVIOUS
  <2>2. w \in Seq(Cells)
    BY <2>1, TurnOf DEF IInv
  <2>3. a \in Nat /\ b \in Nat /\ c \in Nat /\ a <= b /\ b <= c /\ c <= Len(w)
    BY <1>2, <1>5, <2>1
  <2>4. SubSeq(w, a + 1, b) \o SubSeq(w, b + 1, c) = SubSeq(w, a + 1, c)
    BY <2>2, <2>3, SliceJoin
  <2> QED
    BY <1>1, <1>7, <2>1, <2>4
<1>9. Prompted'
  BY <1>1, <1>4, <1>7 DEF Prompted
<1>10. Placed'
  BY <1>1, <1>4, <1>6, <1>7, <1>8, <1>9 DEF Placed
<1> QED
  BY <1>3, <1>10 DEF IInv

\* The spilled body is complete, and what came behind it is parked behind the header block.
LEMMA Spilled ==
  ASSUME LengthFramed, IInv, NEW n \in Sizes, SpillCompletes(n)
  PROVE  IInv'
<1>1. PICK take : take = Declared - Len(spilled)
  OBVIOUS
<1>2. /\ pc = "spill" /\ pc' \in {"ready", "overrun"} /\ n <= Available /\ n >= take
      /\ taken' = taken + n /\ rb' = rb \o SubSeq(Wire, taken + take + 1, taken + n)
      /\ req' = [freed |-> FALSE, consumed |-> Len(rb),
                 body |-> spilled \o SubSeq(Wire, taken + 1, taken + take)]
      /\ UNCHANGED <<script, cap, seen, out, continue_sent, cur>>
  BY <1>1 DEF SpillCompletes, Park
<1>3. n \in Nat /\ taken \in Nat /\ taken' \in Nat /\ taken' <= Len(Wire)
  BY <1>2, Arrived DEF IInv
<1>4. Typed' /\ Sent' /\ Served'
  BY <1>2, <1>3, Kept DEF Places
<1>5. Wire' = Wire /\ Turn' = Turn /\ Mine' = Mine /\ Begin' = Begin /\ Finish' = Finish /\ MyBody' = MyBody
  BY <1>2, SameTurn
<1>6. PICK w, a, c, b, s : w = Wire /\ a = Begin + Mine.head /\ c = Finish /\ b = rb /\ s = spilled
  OBVIOUS
<1>7. /\ Turn \in 1 .. Len(script) /\ cur = Turn /\ a \in Nat /\ c \in Nat /\ a <= taken /\ taken < c /\ c <= Len(w)
      /\ b \in Seq(Cells) /\ s \in Seq(Cells) /\ Len(s) = taken - a /\ Declared = c - a
  BY <1>2, <1>6, AtSpill
<1>8. take = c - taken /\ taken + take = c /\ take \in Nat /\ c <= taken'
  <2>1. take = Declared - Len(s)
    BY <1>1, <1>6
  <2>2. take = c - taken
    BY <1>3, <1>7, <2>1
  <2> QED
    BY <1>2, <1>3, <1>7, <2>2
<1>9. w \in Seq(Cells) /\ MyBody = SubSeq(w, a + 1, c)
  BY <1>6, <1>7, TurnOf DEF IInv
<1>10. s = SubSeq(w, a + 1, taken)
  BY <1>2, <1>6 DEF IInv, Placed
<1>11. req'.body = MyBody /\ req'.body \in Seq(Cells) /\ ~req'.freed /\ req'.consumed = Len(b)
  <2>1. req'.body = s \o SubSeq(w, taken + 1, c) /\ ~req'.freed /\ req'.consumed = Len(b)
    BY <1>2, <1>6, <1>8
  <2>2. SubSeq(w, a + 1, taken) \o SubSeq(w, taken + 1, c) = SubSeq(w, a + 1, c)
    <3>1. taken \in Nat /\ a \in Nat /\ c \in Nat /\ a <= taken /\ taken <= c /\ c <= Len(w)
      BY <1>3, <1>7
    <3> QED
      BY <1>9, <3>1, SliceJoin
  <2>3. SubSeq(w, a + 1, c) \in Seq(Cells)
    <3>1. a <= c
      BY <1>3, <1>7
    <3> QED
      BY <1>7, <1>9, <3>1, SliceOf
  <2> QED
    BY <1>9, <1>10, <2>1, <2>2, <2>3
<1>12. PICK r : r = SubSeq(w, c + 1, taken')
  OBVIOUS
<1>13. r \in Seq(Cells) /\ rb' = b \o r
  <2>1. r \in Seq(Cells)
    BY <1>3, <1>6, <1>7, <1>8, <1>9, <1>12, SliceOf
  <2> QED
    BY <1>2, <1>6, <1>8, <1>12, <2>1
<1>14. rb_discard(rb', Len(b)) = r
  <2>1. PICK x : x = b \o r
    OBVIOUS
  <2>2. SubSeq(x, Len(b) + 1, Len(x)) = r
    BY <1>7, <1>13, <2>1, Behind
  <2>3. Len(x) = Len(b) + Len(r) /\ Len(b) \in Nat /\ Len(r) \in Nat
    BY <1>7, <1>13, <2>1, ConcatProperties, LenProperties
  <2>4. ~(Len(b) > Len(x))
    BY <2>3
  <2> QED
    BY <1>13, <2>1, <2>2, <2>4 DEF rb_discard
<1>15. rb_discard(rb, req.consumed)' = SubSeq(Wire, Finish + 1, taken')
  <2>1. rb_discard(rb, req.consumed)' = rb_discard(rb', req'.consumed)
    BY DEF rb_discard
  <2> QED
    BY <1>6, <1>11, <1>12, <1>14, <2>1
<1>16. Framed(Mine) /\ Turn <= Len(script)
  BY <1>2 DEF IInv, Placed
<1>17. Finish <= taken'
  BY <1>6, <1>8
<1>18. Placed'
  BY <1>2, <1>5, <1>7, <1>11, <1>15, <1>16, <1>17 DEF Placed
<1> QED
  BY <1>4, <1>18 DEF IInv
-----------------------------------------------------------------------------
(* The sniff for the HTTP/2 preface and the parse loop.                    *)

\* The first request tells the preface from a request line by its first units.
LEMMA SniffTells ==
  ASSUME LengthFramed, IInv, pc \in {"sniff", "magic"}, rb # << >>
  PROVE  /\ taken >= 1 /\ Turn \in 1 .. Len(script)
         /\ rb[1].kind = "pri" <=> Mine.proto = "pri"
         /\ Framed(Mine) \/ (Preface(Mine) /\ (Len(rb) >= 2 => rb[2].kind = "magic"))
<1>1. PICK i, b, r, n : i = Turn /\ b = rb /\ r = Mine /\ n = Len(rb)
  OBVIOUS
<1>p. pc \in {"sniff", "magic", "parse", "fill"}
  OBVIOUS
<1>2. /\ b \in Seq(Cells) /\ n \in Nat /\ n = taken - Begin /\ taken \in Nat /\ i \in 1 .. Len(script)
  BY <1>1, <1>p, AtFront
<1>3. Window(b, i)
  <2>1. Turn <= Len(script)
    BY <1>1, <1>2
  <2> QED
    BY <1>1, <1>p, <2>1, AtFront
<1>4. n >= 1 /\ taken >= 1
  <2>1. n >= 1
    <3>1. b # << >> /\ n = Len(b)
      BY <1>1
    <3> QED
      BY <1>2, <3>1, EmptySeq
  <2>2. Begin \in Nat
    BY TurnOf DEF IInv
  <2> QED
    BY <1>2, <2>1, <2>2
<1>5. r = script[i]
  BY <1>1 DEF Mine
<1>6. r.head \in Nat /\ r.head >= 1 /\ Len(r.body) \in Nat /\ Size(i) = r.head + Len(r.body) /\ (Framed(r) \/ Preface(r))
  BY <1>2, <1>5, RequestOf DEF Size
<1>7. \A k \in 1 .. n : k <= r.head + Len(r.body) => b[k].kind = KindAt(r, k)
  BY <1>1, <1>3, <1>5, <1>6 DEF Window, UnitAt
<1>8. b[1].kind = KindAt(r, 1)
  <2>1. 1 \in 1 .. n /\ 1 <= r.head + Len(r.body)
    BY <1>2, <1>4, <1>6
  <2> QED
    BY <1>7, <2>1
<1>9. KindAt(r, 1) = IF r.proto = "pri" THEN "pri" ELSE "head"
  <2>1. ~(1 > r.head)
    BY <1>6
  <2> QED
    BY <2>1 DEF KindAt
<1>10. ASSUME Preface(r), n >= 2
       PROVE  b[2].kind = "magic"
  <2>1. r.head = 1 /\ r.body = <<"magic">>
    BY <1>10 DEF Preface
  <2>2. Len(r.body) = 1 /\ r.body[1] = "magic"
    BY <2>1
  <2>3. 2 \in 1 .. n /\ 2 <= r.head + Len(r.body) /\ 2 > r.head /\ 2 - r.head = 1
    BY <1>2, <1>10, <2>1, <2>2
  <2> QED
    BY <1>7, <2>2, <2>3 DEF KindAt
<1> QED
  BY <1>1, <1>2, <1>4, <1>6, <1>8, <1>9, <1>10

\* The sniff ends in the parse loop or in the HTTP/2 engine.
LEMMA SniffStep ==
  ASSUME LengthFramed, IInv, Sniff \/ SniffMagic
  PROVE  IInv'
<1>1. /\ pc \in {"sniff", "magic"} /\ Len(rb) > 0 /\ pc # "gone"
      /\ UNCHANGED <<script, cap, seen, out, continue_sent, taken, rb>>
  <2>1. CASE Sniff
    BY <2>1 DEF Sniff
  <2>2. CASE SniffMagic
    <3>1. Len(rb) \in Nat /\ Len(rb) >= 2
      <4>1. pc \in {"sniff", "magic", "parse", "fill"}
        BY <2>2 DEF SniffMagic
      <4> QED
        BY <2>2, <4>1, AtFront DEF SniffMagic, MagicUnits
    <3> QED
      BY <2>2, <3>1 DEF SniffMagic
  <2> QED
    BY <2>1, <2>2
<1>2. rb # << >>
  BY <1>1
<1>3. pc' \in {"magic", "parse", "h2"}
  BY DEF Sniff, SniffMagic
<1>4. taken \in Nat /\ taken <= Len(Wire)
  BY DEF IInv, Typed
<1>5. Typed' /\ Sent' /\ Served'
  BY <1>1, <1>3, <1>4, Kept DEF Places
<1>6. Wire' = Wire /\ Turn' = Turn /\ Mine' = Mine /\ Begin' = Begin /\ Finish' = Finish
  BY <1>1, SameTurn
<1>7. seen = << >> /\ Begin <= taken /\ rb = SubSeq(Wire, Begin + 1, taken)
  BY <1>1 DEF IInv, Placed
<1>8. pc' = "magic" => taken >= 1 /\ Mine.proto = "pri"
  <2>1. pc' = "magic" => rb[1].kind = "pri"
    BY <1>3 DEF Sniff, SniffMagic
  <2> QED
    BY <1>1, <1>2, <2>1, SniffTells
<1>9. pc' = "parse" => Framed(Mine)
  <2>1. CASE Sniff
    <3>1. pc' = "parse" => rb[1].kind # "pri"
      BY <2>1 DEF Sniff
    <3> QED
      BY <1>1, <1>2, <3>1, SniffTells DEF Preface
  <2>2. CASE SniffMagic
    <3>1. pc' = "parse" => rb[2].kind # "magic"
      BY <2>2 DEF SniffMagic
    <3>2. Len(rb) >= 2
      BY <2>2 DEF SniffMagic, MagicUnits
    <3> QED
      BY <1>1, <1>2, <3>1, <3>2, SniffTells
  <2> QED
    BY <2>1, <2>2
<1>10. Placed'
  BY <1>1, <1>3, <1>6, <1>7, <1>8, <1>9 DEF Placed
<1> QED
  BY <1>5, <1>10 DEF IInv

\* The client is told to go on.
LEMMA ContinueStep ==
  ASSUME LengthFramed, IInv, send_continue
  PROVE  IInv'
<1>1. /\ pc = "parse" /\ pc' = pc /\ P.result = "incomplete" /\ Expect = "continue" /\ cur' = P.req
      /\ out' = Append(out, [req |-> cur', status |-> 100]) /\ continue_sent' = TRUE
      /\ UNCHANGED <<script, cap, seen, taken, rb>>
  BY DEF send_continue, Incomplete, Send, Interim
<1>2. P.req # 0
  BY <1>1 DEF Expect
<1>3. P.req = Turn /\ Turn \in 1 .. Len(script)
  BY <1>1, <1>2, AtParse
<1>4. PICK r, o, p, n : r = [req |-> Turn, status |-> 100] /\ o = out /\ p = out' /\ n = Len(out)
  OBVIOUS
<1>5. r \in Replies
  <2>1. Turn \in Nat
    BY TurnOf DEF IInv
  <2> QED
    BY <1>4, <2>1 DEF Replies
<1>6. o \in Seq(Replies) /\ n \in Nat
  BY <1>4, LenProperties DEF IInv, Typed
<1>7. p \in Seq(Replies) /\ Len(p) = n + 1 /\ p[n + 1] = r /\ \A k \in 1 .. n : p[k] = o[k]
  BY <1>1, <1>3, <1>4, <1>5, <1>6, AppendProperties
<1>8. r.req = Turn /\ r.status = 100 /\ ~(100 \in FinalStatus)
  BY <1>4 DEF FinalStatus
<1>9. \A k \in 1 .. n : /\ o[k].status \in {100, 200} /\ (o[k].status \in FinalStatus => o[k].req <= Len(seen))
  BY <1>1, <1>4 DEF IInv, Sent
<1>10. \A j, k \in {x \in 1 .. n : o[x].status \in FinalStatus} : j < k => o[j].req < o[k].req
  BY <1>4 DEF IInv, Sent, Paired
<1>11. \A k \in 1 .. n + 1 : k \in 1 .. n \/ k = n + 1
  BY <1>6
<1>12. {x \in 1 .. n + 1 : p[x].status \in FinalStatus} = {x \in 1 .. n : o[x].status \in FinalStatus}
  <2>1. \A k \in 1 .. n : k \in 1 .. n + 1
    BY <1>6
  <2> QED
    BY <1>7, <1>8, <1>11, <2>1
<1>13. \A k \in 1 .. n + 1 : /\ p[k].status \in {100, 200} /\ (p[k].status \in FinalStatus => p[k].req <= Len(seen))
  BY <1>7, <1>8, <1>9, <1>11
<1>14. \A j, k \in {x \in 1 .. n + 1 : p[x].status \in FinalStatus} : j < k => p[j].req < p[k].req
  BY <1>7, <1>10, <1>12
<1>15. Paired'
  <2>1. \A k \in 1 .. (Len(p) - 1) : k \in 1 .. n + 1
    BY <1>6, <1>7
  <2> QED
    BY <1>4, <1>7, <1>13, <1>14, <2>1 DEF Paired
<1>16. ASSUME NEW i \in 1 .. Len(seen)
       PROVE  Answered(i)'
  <2>1. PICK k \in 1 .. n : o[k].req = i /\ o[k].status \in FinalStatus
    BY <1>1, <1>4 DEF IInv, Sent, Answered
  <2>2. k \in 1 .. Len(p) /\ p[k] = o[k]
    BY <1>6, <1>7
  <2> QED
    BY <1>4, <2>1, <2>2 DEF Answered
<1>17. Wire' = Wire /\ Turn' = Turn /\ Mine' = Mine /\ Begin' = Begin /\ Finish' = Finish
  BY <1>1, SameTurn
<1>18. Continued(Turn)'
  <2>1. n + 1 \in 1 .. Len(p)
    BY <1>6, <1>7
  <2>2. out'[n + 1] = [req |-> Turn', status |-> 100] /\ n + 1 \in 1 .. Len(out')
    BY <1>4, <1>7, <1>17, <2>1
  <2> QED
    BY <2>2 DEF Continued
<1>19. Sent'
  BY <1>1, <1>4, <1>7, <1>13, <1>15, <1>16, <1>18 DEF Sent
<1>20. Typed'
  BY <1>1, <1>4, <1>7, <1>17 DEF IInv, Typed
<1>21. Served'
  BY <1>1, SameWire DEF IInv, Served
<1>22. Placed'
  BY <1>1, <1>17 DEF IInv, Placed
<1> QED
  BY <1>19, <1>20, <1>21, <1>22 DEF IInv

\* The parse loop reads on, or finds no configuration.
LEMMA ReadStep ==
  ASSUME LengthFramed, IInv, ReadOn \/ NullConfig
  PROVE  IInv'
<1>1. /\ pc = "parse" /\ P.result = "incomplete" /\ pc' \in {"fill", "crashed"}
      /\ (pc' = "fill" => Expect = "none")
      /\ UNCHANGED <<script, cap, seen, out, continue_sent, taken, rb>>
  BY DEF ReadOn, NullConfig, Incomplete
<1>2. taken \in Nat /\ taken <= Len(Wire)
  BY DEF IInv, Typed
<1>3. Typed' /\ Sent' /\ Served'
  BY <1>1, <1>2, Kept DEF Places
<1>4. Wire' = Wire /\ Turn' = Turn /\ Mine' = Mine /\ Begin' = Begin /\ Finish' = Finish
  BY <1>1, SameTurn
<1>5. /\ Begin <= taken /\ rb = SubSeq(Wire, Begin + 1, taken) /\ (Turn <= Len(script) => Framed(Mine))
  BY <1>1 DEF IInv, Placed
<1>6. ASSUME Turn <= Len(script), pc' = "fill"
      PROVE  taken < Finish /\ (taken >= Begin + Mine.head => Prompted)
  <2>1. Begin + Mine.head \in Nat /\ Finish \in Nat /\ Begin + Mine.head <= Finish /\ Turn \in 1 .. Len(script)
    BY <1>6, TurnOf DEF IInv
  <2>2. CASE P.req = 0
    <3>1. taken < Begin + Mine.head
      BY <1>1, <1>6, <2>1, <2>2, AtParse
    <3> QED
      BY <1>2, <2>1, <3>1
  <2>3. CASE P.req # 0
    <3>1. P.req = Turn /\ taken < Finish
      BY <1>1, <2>3, AtParse
    <3>2. continue_sent \/ script[P.req].expect = "none"
      BY <1>1, <1>6, <2>3 DEF Expect
    <3> QED
      BY <3>1, <3>2 DEF Prompted, Mine
  <2> QED
    BY <2>2, <2>3
<1>7. Prompted' = Prompted
  BY <1>1, <1>4 DEF Prompted
<1>8. Placed'
  BY <1>1, <1>4, <1>5, <1>6, <1>7 DEF Placed
<1> QED
  BY <1>3, <1>8 DEF IInv

\* The request whose turn it is is refused.
LEMMA RefuseStep ==
  ASSUME LengthFramed, IInv,
         ExpectUnknown \/ ExpectTooLong \/ Oversized \/ SpillStartFails \/ Malformed
  PROVE  IInv'
<1>1. /\ pc = "parse" /\ pc # "gone" /\ pc' = "gone" /\ UNCHANGED <<script, cap, taken, seen>>
  BY DEF ExpectUnknown, ExpectTooLong, Oversized, SpillStartFails, Malformed, Incomplete, Leave
<1>p. pc \in {"sniff", "magic", "parse", "fill"}
  BY <1>1
<1>2. \E s \in FinalStatus : out' = Append(out, [req |-> cur', status |-> s])
  BY DEF ExpectUnknown, ExpectTooLong, Oversized, SpillStartFails, Malformed, Send, FinalStatus
<1>3. cur' = Turn
  <2>1. CASE ExpectUnknown \/ ExpectTooLong \/ SpillStartFails
    <3>1. cur' = P.req /\ P.result = "incomplete" /\ (Expect \in {"unknown", "continue"} \/ P.req # 0)
      BY <2>1 DEF ExpectUnknown, ExpectTooLong, SpillStartFails, Incomplete, MaySpill
    <3>2. P.req # 0
      BY <3>1 DEF Expect
    <3> QED
      BY <1>1, <3>1, <3>2, AtParse
  <2>2. CASE Oversized
    <3>1. Len(rb) >= cap /\ cur' = rb[Start(rb)].req
      BY <2>2 DEF Oversized, Full
    <3>2. cap \in Nat \ {0}
      BY DEF IInv, Typed
    <3>3. rb # << >>
      BY <3>1, <3>2
    <3> QED
      BY <1>1, <1>p, <3>1, <3>3, AtFront, AtParse
  <2>3. CASE Malformed
    <3>1. P.result = "error" /\ cur' = rb[1].req
      BY <2>3 DEF Malformed
    <3> QED
      BY <1>1, <1>p, <3>1, AtFront, AtParse
  <2> QED
    BY <2>1, <2>2, <2>3
<1> QED
  BY <1>1, <1>2, <1>3, Gone
\* A body longer than the buffer goes to a file from what has arrived of it on.
LEMMA SpillStep ==
  ASSUME LengthFramed, IInv, SpillStarts
  PROVE  IInv'
<1>1. /\ pc = "parse" /\ pc' = "spill" /\ P.result = "incomplete" /\ Expect = "none" /\ P.req # 0 /\ cur' = P.req
      /\ spilled' = SubSeq(rb, P.offset + 1, Len(rb)) /\ rb' = SubSeq(rb, 1, P.offset)
      /\ UNCHANGED <<script, cap, seen, out, continue_sent, taken>>
  BY DEF SpillStarts, Incomplete, MaySpill
<1>p. pc \in {"sniff", "magic", "parse", "fill"}
  BY <1>1
<1>2. taken \in Nat /\ taken <= Len(Wire)
  BY DEF IInv, Typed
<1>3. Typed' /\ Sent' /\ Served'
  BY <1>1, <1>2, Kept DEF Places
<1>4. Wire' = Wire /\ Turn' = Turn /\ Mine' = Mine /\ Begin' = Begin /\ Finish' = Finish
  BY <1>1, SameTurn
<1>5. /\ P.req = Turn /\ Turn \in 1 .. Len(script) /\ P.offset = Mine.head
      /\ Begin + Mine.head <= taken /\ taken < Finish
  BY <1>1, AtParse
<1>6. Turn <= Len(script)
  BY <1>5
<1>7. PICK w, a, h, t, n : w = Wire /\ a = Begin /\ h = Mine.head /\ t = taken /\ n = Len(rb)
  OBVIOUS
<1>8. /\ w \in Seq(Cells) /\ a \in Nat /\ h \in Nat
  BY <1>6, <1>7, TurnOf DEF IInv
<1>9. /\ t \in Nat /\ t <= Len(w) /\ a <= t /\ n \in Nat /\ n = t - a /\ a + h <= t
  BY <1>2, <1>5, <1>7, <1>p, AtFront
<1>10. rb = SubSeq(w, a + 1, t)
  BY <1>1, <1>7 DEF IInv, Placed
<1>11. spilled' = SubSeq(w, (a + h) + 1, t)
  <2>1. h <= n /\ a + n <= t /\ a + n = t
    BY <1>8, <1>9
  <2>2. SubSeq(SubSeq(w, a + 1, t), h + 1, n) = SubSeq(w, (a + h) + 1, a + n)
    BY <1>8, <1>9, <2>1, SliceCut
  <2> QED
    BY <1>1, <1>5, <1>7, <1>10, <2>1, <2>2
<1>12. rb' = SubSeq(w, a + 1, a + h)
  <2>1. PICK z : z = 0 /\ z \in Nat /\ z <= h /\ z + 1 = 1 /\ a + z = a
    BY <1>8
  <2>2. SubSeq(SubSeq(w, a + 1, t), z + 1, h) = SubSeq(w, (a + z) + 1, a + h)
    BY <1>8, <1>9, <2>1, SliceCut
  <2> QED
    BY <1>1, <1>5, <1>7, <1>10, <2>1, <2>2
<1>13. Prompted'
  <2>1. continue_sent \/ script[P.req].expect = "none"
    BY <1>1 DEF Expect
  <2> QED
    BY <1>1, <1>4, <1>5, <2>1 DEF Prompted, Mine
<1>14. Framed(Mine)
  BY <1>1, <1>6 DEF IInv, Placed
<1>15. Placed'
  BY <1>1, <1>4, <1>5, <1>6, <1>7, <1>11, <1>12, <1>13, <1>14 DEF Placed
<1> QED
  BY <1>3, <1>15 DEF IInv

\* A request that is complete in the buffer.
LEMMA PlainStep ==
  ASSUME LengthFramed, IInv, ParsedPlain
  PROVE  IInv'
<1>1. /\ pc = "parse" /\ pc' = "ready" /\ P.result = "ok" /\ cur' = P.req
      /\ req' = [freed |-> FALSE, consumed |-> P.consumed, body |-> SubSeq(rb, P.offset + 1, BodyEnd)]
      /\ UNCHANGED <<script, cap, seen, out, continue_sent, taken, rb>>
  BY DEF ParsedPlain, Parsed
<1>p. pc \in {"sniff", "magic", "parse", "fill"}
  BY <1>1
<1>2. taken \in Nat /\ taken <= Len(Wire)
  BY DEF IInv, Typed
<1>3. Typed' /\ Sent' /\ Served'
  BY <1>1, <1>2, Kept DEF Places
<1>4. Wire' = Wire /\ Turn' = Turn /\ Mine' = Mine /\ Begin' = Begin /\ Finish' = Finish /\ MyBody' = MyBody
  BY <1>1, SameTurn
<1>5. /\ P.req = Turn /\ Turn \in 1 .. Len(script) /\ P.offset = Mine.head
      /\ P.consumed = Size(Turn) /\ Finish <= taken
  BY <1>1, AtParse
<1>6. Turn <= Len(script)
  BY <1>5
<1>7. PICK w, a, h, t, n, z, c, b : /\ w = Wire /\ a = Begin /\ h = Mine.head /\ t = taken /\ n = Len(rb)
                                    /\ z = Size(Turn) /\ c = Finish /\ b = rb
  OBVIOUS
<1>8. /\ w \in Seq(Cells) /\ a \in Nat /\ h \in Nat /\ Len(Mine.body) \in Nat /\ z = h + Len(Mine.body)
      /\ c \in Nat /\ c = a + z /\ MyBody = SubSeq(w, (a + h) + 1, c)
  BY <1>6, <1>7, TurnOf DEF IInv
<1>9. /\ t \in Nat /\ t <= Len(w) /\ a <= t /\ n \in Nat /\ n = t - a /\ c <= t /\ b \in Seq(Cells)
  BY <1>2, <1>5, <1>7, <1>p, AtFront
<1>10. b = SubSeq(w, a + 1, t)
  BY <1>1, <1>7 DEF IInv, Placed
<1>11. z \in Nat /\ h <= z /\ z <= n /\ a + z <= t /\ a + n <= t /\ a + n = t /\ h <= n
  <2>1. PICK l : l = Len(Mine.body)
    OBVIOUS
  <2>2. /\ a \in Nat /\ h \in Nat /\ l \in Nat /\ z = h + l /\ c = a + z /\ t \in Nat /\ n = t - a /\ c <= t
    BY <1>8, <1>9, <2>1
  <2> QED
    BY <2>2
<1>12. req'.body = SubSeq(b, h + 1, IF Mine.declared THEN z ELSE n) /\ ~req'.freed /\ req'.consumed = z
  BY <1>1, <1>5, <1>7 DEF BodyEnd, Mine
<1>13. Mine.declared => req'.body = MyBody
  <2>1. SubSeq(SubSeq(w, a + 1, t), h + 1, z) = SubSeq(w, (a + h) + 1, a + z)
    BY <1>8, <1>9, <1>11, SliceCut
  <2> QED
    BY <1>8, <1>10, <1>12, <2>1
<1>14. req'.body \in Seq(Cells)
  <2>1. PICK y : y = IF Mine.declared THEN z ELSE n
    OBVIOUS
  <2>2. y \in Nat /\ h <= y /\ y <= Len(b)
    BY <1>7, <1>9, <1>11, <2>1
  <2> QED
    BY <1>8, <1>9, <1>12, <2>1, <2>2, SliceOf
<1>15. rb_discard(rb, req.consumed)' = SubSeq(w, c + 1, t)
  <2>1. rb_discard(rb, req.consumed)' = rb_discard(rb', req'.consumed)
    BY DEF rb_discard
  <2>2. rb_discard(b, z) = SubSeq(b, z + 1, n)
    <3>1. ~(z > n)
      BY <1>9, <1>11
    <3> QED
      BY <1>7, <3>1 DEF rb_discard
  <2>3. SubSeq(SubSeq(w, a + 1, t), z + 1, n) = SubSeq(w, (a + z) + 1, a + n)
    <3>1. /\ w \in Seq(Cells) /\ a \in Nat /\ t \in Nat /\ a <= t /\ t <= Len(w) /\ z \in Nat /\ n \in Nat
          /\ z <= n /\ a + n <= t
      BY <1>8, <1>9, <1>11
    <3> QED
      BY <3>1, SliceCut
  <2>4. a + z = c /\ a + n = t
    BY <1>8, <1>11
  <2> QED
    BY <1>1, <1>7, <1>10, <1>12, <2>1, <2>2, <2>3, <2>4
<1>16. Framed(Mine)
  BY <1>1, <1>6 DEF IInv, Placed
<1>17. Placed'
  BY <1>1, <1>4, <1>5, <1>6, <1>7, <1>12, <1>13, <1>14, <1>15, <1>16 DEF Placed
<1> QED
  BY <1>3, <1>17 DEF IInv

\* None of these requests is chunked.
LEMMA NotChunked ==
  ASSUME LengthFramed, IInv, Parsed
  PROVE  ~script[P.req].chunked
<1>1. P.req = Turn /\ Turn \in 1 .. Len(script) /\ pc = "parse"
  BY AtParse DEF Parsed
<1>2. Turn <= Len(script)
  BY <1>1
<1> QED
  BY <1>1, <1>2 DEF IInv, Placed, Framed, Mine

-----------------------------------------------------------------------------
(* From a complete request to its response.                                *)

\* The connection goes to the HTTP/2 engine, or the body does not unpack.
LEMMA LeaveStep ==
  ASSUME LengthFramed, IInv, UpgradeH2c \/ InflateFails
  PROVE  IInv'
<1>1. CASE UpgradeH2c
  <2>1. /\ pc = "ready" /\ pc' = "h2" /\ UNCHANGED <<script, cap, seen, out, continue_sent, taken>>
    BY <1>1 DEF UpgradeH2c, Ready
  <2>2. taken \in Nat /\ taken <= Len(Wire)
    BY DEF IInv, Typed
  <2>3. Typed' /\ Sent' /\ Served'
    BY <2>1, <2>2, Kept DEF Places
  <2>4. Placed'
    BY <2>1 DEF Placed
  <2> QED
    BY <2>3, <2>4 DEF IInv
<1>2. CASE InflateFails
  <2>1. /\ pc = "ready" /\ pc' = "gone" /\ UNCHANGED <<script, cap, taken, seen, cur>>
    BY <1>2 DEF InflateFails, Http1, Ready, Leave
  <2>2. cur' = Turn
    BY <2>1 DEF IInv, Placed
  <2>3. \E s \in FinalStatus : out' = Append(out, [req |-> cur', status |-> s])
    BY <1>2 DEF InflateFails, Send, FinalStatus
  <2> QED
    BY <2>1, <2>2, <2>3, Gone
<1> QED
  BY <1>1, <1>2

\* The handler takes the connection over.
LEMMA UpgradeStep ==
  ASSUME LengthFramed, IInv, handle_upgrade
  PROVE  IInv'
<1>1. /\ Ready /\ Handled /\ pc' = "gone" /\ pc = "ready" /\ cur' = cur /\ UNCHANGED <<script, cap, taken>>
      /\ out' = Append(out, [req |-> cur', status |-> 101])
  BY DEF handle_upgrade, Http1, Ready, Send
<1>2. seen' \in Seq(Handed) /\ Len(seen') = Turn /\ Turn <= Len(script) /\ cur = Turn /\ Served'
  BY <1>1, HandedOver
<1>3. out' \in Seq(Replies) /\ Paired'
  <2>1. 101 \in FinalStatus
    BY DEF FinalStatus
  <2> QED
    BY <1>1, <1>2, <2>1, Answering
<1>4. Typed'
  BY <1>1, <1>2, <1>3, SameWire DEF IInv, Typed, Places
<1>5. Sent' /\ Placed'
  BY <1>1, <1>3 DEF Sent, Placed
<1> QED
  BY <1>2, <1>4, <1>5 DEF IInv

\* The handler's response goes out and the next request moves to the front.
LEMMA RespondStep ==
  ASSUME LengthFramed, IInv, Respond
  PROVE  IInv'
<1>1. /\ Ready /\ Handled /\ pc' = (IF conn_keep_alive THEN "parse" ELSE "gone") /\ pc = "ready" /\ cur' = cur
      /\ UNCHANGED <<script, cap, taken>>
      /\ out' = Append(out, [req |-> cur', status |-> 200]) /\ continue_sent' = FALSE
      /\ rb' = (IF conn_keep_alive THEN rb_discard(rb, req.consumed) ELSE << >>)
  BY DEF Respond, Http1, Ready, Send, NextContinueSent
<1>2. seen' \in Seq(Handed) /\ Len(seen') = Turn /\ Turn <= Len(script) /\ cur = Turn /\ Served'
  BY <1>1, HandedOver
<1>3. PICK s : s = 200 /\ s \in FinalStatus
  BY DEF FinalStatus
<1>4. /\ out' \in Seq(Replies) /\ Paired' /\ Len(out) \in Nat /\ Len(out') = Len(out) + 1
      /\ \A k \in 1 .. Len(out) : out'[k] = out[k]
      /\ out'[Len(out) + 1] = [req |-> Turn, status |-> s]
  BY <1>1, <1>2, <1>3, Answering
<1>5. pc' \in {"parse", "gone"} /\ (pc' = "parse" => rb' = rb_discard(rb, req.consumed))
  BY <1>1
<1>6. Wire' = Wire /\ Len(seen) \in Nat /\ Turn = Len(seen) + 1
  BY <1>1, SameWire, TurnOf DEF IInv, Turn
<1>7. Typed'
  BY <1>1, <1>2, <1>4, <1>5, <1>6 DEF IInv, Typed, Places
<1>8. Sent'
  <2>1. PICK n, o, p, r, m : n = Len(out) /\ o = out /\ p = out' /\ r = [req |-> Turn, status |-> s] /\ m = Len(seen)
    OBVIOUS
  <2>2. n \in Nat /\ Len(p) = n + 1 /\ p[n + 1] = r /\ (\A k \in 1 .. n : p[k] = o[k]) /\ r.req = m + 1 /\ r.status = 200 /\ m \in Nat
    BY <1>3, <1>4, <1>6, <2>1
  <2>3. \A k \in 1 .. n : /\ o[k].status \in {100, 200} /\ (o[k].status \in FinalStatus => o[k].req <= m) /\ o[k].req \in Nat
    <3>1. \A k \in 1 .. n : o[k] \in Replies
      BY <2>1, ElementOfSeq DEF IInv, Typed
    <3> QED
      BY <1>1, <2>1, <3>1 DEF IInv, Sent, Replies
  <2>4. \A k \in 1 .. n + 1 : k \in 1 .. n \/ k = n + 1
    BY <2>2
  <2>5. ASSUME NEW k \in 1 .. n + 1
        PROVE  p[k].status \in {100, 200} /\ (p[k].status \in FinalStatus => p[k].req <= m + 1)
    <3>1. CASE k \in 1 .. n
      BY <2>2, <2>3, <3>1
    <3>2. CASE k = n + 1
      BY <2>2, <3>2
    <3> QED
      BY <2>4, <3>1, <3>2
  <2>6. ASSUME NEW i \in 1 .. m + 1
        PROVE  Answered(i)'
    <3>1. CASE i = m + 1
      <4>1. n + 1 \in 1 .. Len(p) /\ p[n + 1].req = i /\ p[n + 1].status \in FinalStatus
        BY <1>3, <2>2, <3>1
      <4> QED
        BY <2>1, <4>1 DEF Answered
    <3>2. CASE i # m + 1
      <4>1. i \in 1 .. m
        BY <2>2, <3>2
      <4>2. PICK k \in 1 .. n : o[k].req = i /\ o[k].status \in FinalStatus
        BY <1>1, <2>1, <4>1 DEF IInv, Sent, Answered
      <4>3. k \in 1 .. Len(p) /\ p[k] = o[k]
        BY <2>2
      <4> QED
        BY <2>1, <4>2, <4>3 DEF Answered
    <3> QED
      BY <3>1, <3>2
  <2>7. Len(seen') = m + 1
    BY <1>2, <1>6, <2>1
  <2> QED
    BY <1>1, <1>4, <2>1, <2>2, <2>5, <2>6, <2>7 DEF Sent
<1>9. ASSUME pc' = "parse"
      PROVE  Placed'
  <2>1. Begin' = Finish
    BY <1>1, <1>2, SameWire DEF Begin, Finish
  <2>2. Finish <= taken /\ rb_discard(rb, req.consumed) = SubSeq(Wire, Finish + 1, taken)
    BY <1>1 DEF IInv, Placed
  <2>3. ASSUME Turn' <= Len(script)
        PROVE  Framed(Mine')
    <3>1. Turn' = Len(seen') + 1
      BY DEF Turn
    <3>2. PICK i : i = Turn'
      OBVIOUS
    <3>3. Turn \in Nat /\ Turn >= 1 /\ Len(script) \in Nat
      BY TurnOf DEF IInv
    <3>4. i \in 1 .. Len(script) /\ i # 1
      BY <1>2, <2>3, <3>1, <3>2, <3>3
    <3>5. Framed(script[i])
      BY <3>4, RequestOf DEF IInv, Typed
    <3>6. Mine' = script[i]
      BY <1>1, <3>2 DEF Mine
    <3> QED
      BY <3>5, <3>6
  <2> QED
    BY <1>1, <1>5, <1>6, <1>9, <2>1, <2>2, <2>3 DEF Placed
<1>10. Placed'
  <2>1. CASE pc' = "gone"
    BY <2>1 DEF Placed
  <2> QED
    BY <1>5, <1>9, <2>1
<1> QED
  BY <1>2, <1>7, <1>8, <1>10 DEF IInv
-----------------------------------------------------------------------------
(***************************************************************************)
(* The theorems about clients that declare the lengths of their bodies.    *)
(***************************************************************************)

\* The invariant holds when a connection is accepted.
LEMMA InvInit == LengthFramed /\ Init => IInv
<1> SUFFICES ASSUME LengthFramed, Init PROVE IInv
  OBVIOUS
<1>1. /\ cap \in Caps /\ taken = 0 /\ rb = << >> /\ out = << >> /\ seen = << >>
      /\ continue_sent = FALSE /\ (ssl => script[1].proto # "pri")
      /\ pc \in {"parse", "sniff"} /\ (pc = "parse" => ssl)
  BY DEF Init
<1>2. Wire \in Seq(Cells) /\ Len(Wire) \in Nat /\ EndOf(0) = 0 /\ Len(script) \in Nat \ {0}
  BY <1>1, WireLaid, RequestOf
<1>3. Len(seen) = 0 /\ Len(out) = 0 /\ seen \in Seq(Handed) /\ out \in Seq(Replies)
  BY <1>1
<1>4. Typed
  BY <1>1, <1>2, <1>3, Capacities DEF Typed, Places
<1>5. Sent /\ Served
  BY <1>1, <1>3 DEF Sent, Served, Paired
<1>6. Turn = 1 /\ Begin = 0
  BY <1>2, <1>3 DEF Turn, Begin
<1>7. pc = "parse" => Framed(Mine)
  <2>1. 1 \in 1 .. Len(script)
    BY <1>2
  <2>2. Framed(script[1]) \/ Preface(script[1])
    BY <1>1, <2>1, RequestOf
  <2> QED
    BY <1>1, <1>6, <2>2 DEF Mine, Preface
<1>8. rb = SubSeq(Wire, Begin + 1, taken)
  <2>1. PICK w, z : w = Wire /\ z = 0 /\ z \in Nat /\ z <= z /\ z <= Len(w) /\ z - z = 0
    BY <1>2
  <2>2. SubSeq(w, z + 1, z) \in Seq(Cells) /\ Len(SubSeq(w, z + 1, z)) = z - z
    BY <1>2, <2>1, SliceOf
  <2>3. SubSeq(w, z + 1, z) = << >>
    BY <2>1, <2>2, EmptySeq
  <2> QED
    BY <1>1, <1>6, <2>1, <2>3
<1>9. Placed
  BY <1>1, <1>6, <1>7, <1>8 DEF Placed
<1> QED
  BY <1>4, <1>5, <1>9 DEF IInv

\* What the client sends is fixed.
LEMMA ScriptFixed == LengthFramed /\ [Next]_vars => LengthFramed'
<1>1. ASSUME [Next]_vars PROVE UNCHANGED script
  <2>1. CASE UNCHANGED vars \/ Over
    BY <2>1 DEF Over, vars
  <2>2. CASE Receive \/ Fail
    BY <2>2 DEF Receive, Fail, fill_more, SpillGrows, SpillCompletes, fill_more_stalls, SpillStalls,
                fill_more_fails, SpillPeerGone, SpillIoFails, Leave
  <2>3. CASE Decide
    BY <2>3 DEF Decide, Sniff, SniffMagic, NullConfig, ExpectUnknown, ExpectTooLong, send_continue, ReadOn,
                Oversized, SpillStarts, SpillStartFails, Malformed, ParsedPlain, ChunkedDone, ChunkedMore,
                ChunkedOversized, ChunkedMalformed, UpgradeH2c, InflateFails, handle_upgrade, Respond, Leave
  <2>4. CASE H2Returns
    BY <2>4 DEF H2Returns, Leave
  <2> QED
    BY <1>1, <2>1, <2>2, <2>3, <2>4 DEF Next
<1> QED
  BY <1>1 DEF LengthFramed

\* Every step keeps the invariant.
LEMMA InvStep == LengthFramed /\ IInv /\ [Next]_vars => IInv'
<1> SUFFICES ASSUME LengthFramed, IInv, [Next]_vars PROVE IInv'
  OBVIOUS
<1>1. CASE UNCHANGED vars \/ Over
  <2>1. /\ UNCHANGED <<script, cap, taken, pc, rb, cur, req, continue_sent, spilled, out, seen>>
    BY <1>1 DEF Over, vars
  <2>2. Wire' = Wire /\ Turn' = Turn /\ Mine' = Mine /\ Begin' = Begin /\ Finish' = Finish /\ MyBody' = MyBody
    BY <2>1, SameTurn
  <2>3. \A i : Body(i)' = Body(i)
    BY <2>1, SameWire
  <2>4. Typed' /\ Served'
    BY <2>1, <2>2, <2>3 DEF IInv, Typed, Served
  <2>5. Paired' = Paired /\ Continued(Turn)' = Continued(Turn) /\ \A i : Answered(i)' = Answered(i)
    BY <2>1, <2>2 DEF Paired, Continued, Answered
  <2>6. Sent'
    BY <2>1, <2>5 DEF IInv, Sent
  <2>7. Prompted' = Prompted /\ rb_discard(rb, req.consumed)' = rb_discard(rb, req.consumed)
    BY <2>1, <2>2 DEF Prompted, rb_discard
  <2>8. Placed'
    BY <2>1, <2>2, <2>7 DEF IInv, Placed
  <2> QED
    BY <2>4, <2>6, <2>8 DEF IInv
<1>2. CASE Receive
  <2>1. ASSUME NEW n \in Sizes, fill_more(n) \/ SpillGrows(n) \/ SpillCompletes(n)
        PROVE  IInv'
    BY <2>1, FillMore, Spilling, Spilled
  <2>2. CASE SpillStalls
    <3>1. /\ pc = "spill" /\ pc' = "gone" /\ UNCHANGED <<script, cap, taken, seen, cur>>
          /\ out' = Append(out, [req |-> cur', status |-> TimeoutStatus])
      BY <2>2 DEF SpillStalls, Leave, Send
    <3>2. TimeoutStatus \in FinalStatus
      BY DEF TimeoutStatus, FinalStatus
    <3>3. cur = Turn
      BY <3>1, AtSpill
    <3> QED
      BY <3>1, <3>2, <3>3, Gone
  <2> QED
    BY <1>2, <2>1, <2>2, FillMoreStalls DEF Receive
<1>3. CASE Fail
  <2>1. CASE SpillIoFails
    <3>1. /\ pc = "spill" /\ pc' = "gone" /\ UNCHANGED <<script, cap, taken, seen, cur>>
          /\ out' = Append(out, [req |-> cur', status |-> 500])
      BY <2>1 DEF SpillIoFails, Leave, Send
    <3>2. 500 \in FinalStatus
      BY DEF FinalStatus
    <3>3. cur = Turn
      BY <3>1, AtSpill
    <3> QED
      BY <3>1, <3>2, <3>3, Gone
  <2>2. CASE fill_more_fails \/ SpillPeerGone
    <3>1. /\ pc # "gone" /\ pc' = "gone" /\ UNCHANGED <<script, cap, taken, seen, out>>
      BY <2>2 DEF fill_more_fails, SpillPeerGone, WantsBytes, Leave
    <3> QED
      BY <3>1, Gone
  <2> QED
    BY <1>3, <2>1, <2>2 DEF Fail
<1>4. CASE Decide
  <2>1. CASE Sniff \/ SniffMagic
    BY <2>1, SniffStep
  <2>2. CASE NullConfig \/ ReadOn
    BY <2>2, ReadStep
  <2>3. CASE ExpectUnknown \/ ExpectTooLong \/ Oversized \/ SpillStartFails \/ Malformed
    BY <2>3, RefuseStep
  <2>4. CASE ChunkedDone \/ ChunkedMore \/ ChunkedOversized \/ ChunkedMalformed
    BY <2>4, NotChunked DEF ChunkedDone, ChunkedMore, ChunkedOversized, ChunkedMalformed
  <2>5. CASE UpgradeH2c \/ InflateFails
    BY <2>5, LeaveStep
  <2> QED
    BY <1>4, <2>1, <2>2, <2>3, <2>4, <2>5, ContinueStep, SpillStep, PlainStep, UpgradeStep, RespondStep DEF Decide
<1>5. CASE H2Returns
  <2>1. pc = "h2" /\ pc' = "gone" /\ UNCHANGED <<script, cap, taken, seen, out>>
    BY <1>5 DEF H2Returns, Leave
  <2> QED
    BY <2>1, Gone
<1> QED
  BY <1>1, <1>2, <1>3, <1>4, <1>5 DEF Next

\* Whatever a client that declares its lengths sends, however its bytes are cut and
\* whatever fails, serve_connection takes the requests in turn and never loses its
\* place on the wire.
THEOREM ConnectionInvariant == LengthFramed /\ Spec => [](LengthFramed /\ IInv)
<1>1. LengthFramed /\ Init => IInv
  BY InvInit
<1>2. LengthFramed /\ IInv /\ [Next]_vars => LengthFramed' /\ IInv'
  BY InvStep, ScriptFixed
<1> QED
  BY <1>1, <1>2, PTL DEF Spec
\* Responses pair up with requests: one final answer each, in their order, and
\* nothing behind an answer that ends the connection.
THEOREM ConnectionOneAnswerEach == LengthFramed /\ Spec => []OneAnswerEach
<1>1. IInv => OneAnswerEach
  BY DEF IInv, Sent, Paired, OneAnswerEach
<1> QED
  BY <1>1, ConnectionInvariant, PTL


\* The handler sees the requests in order and every declared body as it was sent,
\* from the buffer or from the spill file, whatever is pipelined behind it and
\* wherever the segments end; up to a surplus that the buffer does not hold, behind
\* which nothing is served any more.
THEOREM ConnectionBodyIntact == LengthFramed /\ Spec => []BodyIntact
<1>1. ASSUME LengthFramed, IInv PROVE BodyIntact
  <2>1. \A k \in 1 .. Len(seen) : seen[k].req = k /\ (script[k].declared => seen[k].body = Body(k))
    BY <1>1 DEF IInv, Served
  <2> QED
    BY <2>1 DEF BodyIntact
<1> QED
  BY <1>1, ConnectionInvariant, PTL

\* While the server waits, a part of the request whose turn it is is missing, and the
\* client that has sent its header block has been told to go on.
LEMMA WhatIsAwaited ==
  ASSUME LengthFramed, IInv, Waiting, Turn <= Len(script)
  PROVE  taken < Finish /\ (taken >= Begin + Mine.head => Prompted)
<1>1. CASE pc \in {"fill", "spill"}
  BY <1>1 DEF IInv, Placed
<1>2. CASE pc \in {"sniff", "magic"}
  <2>p. pc \in {"sniff", "magic", "parse", "fill"}
    BY <1>2
  <2>1. PICK n, a, h, l : n = Len(rb) /\ a = Begin /\ h = Mine.head /\ l = Len(Mine.body)
    OBVIOUS
  <2>2. n \in Nat /\ n = taken - a /\ taken \in Nat
    BY <2>p, <2>1, AtFront
  <2>3. a \in Nat /\ h \in Nat /\ h >= 1 /\ l \in Nat /\ Finish = (a + h) + l /\ Turn \in 1 .. Len(script)
    BY <2>1, TurnOf DEF IInv
  <2>4. (pc = "sniff" => n = 0) /\ (pc = "magic" => n < 2)
    BY <1>2, <2>1 DEF Waiting, WantsBytes, MagicUnits
  <2>5. CASE pc = "sniff"
    <3>1. taken < a + h /\ taken < (a + h) + l
      BY <2>2, <2>3, <2>4, <2>5
    <3> QED
      BY <2>1, <2>2, <2>3, <3>1
  <2>6. CASE pc = "magic"
    <3>1. Mine.proto = "pri" /\ Mine = script[Turn]
      BY <2>6 DEF IInv, Placed, Mine
    <3>2. Framed(Mine) \/ Preface(Mine)
      BY <2>3, <3>1, RequestOf
    <3>3. CASE Framed(Mine)
      <4>1. h >= 2
        BY <2>1, <3>1, <3>3 DEF Framed, MagicUnits
      <4>2. taken < a + h /\ taken < (a + h) + l
        BY <2>2, <2>3, <2>4, <2>6, <4>1
      <4> QED
        BY <2>1, <2>2, <2>3, <4>2
    <3>4. CASE Preface(Mine)
      <4>1. h = 1 /\ Mine.body = <<"magic">> /\ Prompted
        BY <2>1, <3>4 DEF Preface, Prompted
      <4>2. l = 1
        BY <2>1, <4>1
      <4>3. taken < (a + h) + l
        BY <2>2, <2>3, <2>4, <2>6, <4>1, <4>2
      <4> QED
        BY <2>3, <4>1, <4>3
    <3> QED
      BY <3>2, <3>3, <3>4
  <2> QED
    BY <1>2, <2>5, <2>6
<1> QED
  BY <1>1, <1>2 DEF Waiting, WantsBytes

\* Pipelined requests are served from the buffer: the server waits for bytes only
\* when every request that has arrived in full has been answered.
THEOREM ConnectionNoStuckRequest == LengthFramed /\ Spec => []NoStuckRequest
<1>1. ASSUME LengthFramed, IInv, Waiting, NEW i \in 1 .. Len(script), taken >= EndOf(i)
      PROVE  Answered(i)
  <2>1. Turn \in Nat /\ Turn - 1 = Len(seen) /\ Len(seen) \in Nat /\ Len(script) \in Nat /\ taken \in Nat
    BY <1>1, TurnOf DEF IInv, Typed
  <2>2. pc # "gone"
    BY <1>1 DEF Waiting, WantsBytes
  <2>3. CASE i < Turn
    <3>1. i \in 1 .. Len(seen)
      BY <2>1, <2>3
    <3> QED
      BY <1>1, <2>2, <3>1 DEF IInv, Sent
  <2>4. CASE ~(i < Turn)
    <3>1. Turn <= Len(script) /\ i \in 0 .. Len(script) /\ Turn \in 0 .. i
      BY <2>1, <2>4
    <3>2. EndOf(Turn) <= EndOf(i) /\ EndOf(i) \in Nat
      BY <1>1, <3>1, WireLaid
    <3>3. taken < Finish /\ Finish \in Nat
      BY <1>1, <3>1, WhatIsAwaited, TurnOf DEF IInv
    <3>4. Finish <= taken
      BY <1>1, <2>1, <3>2, <3>3 DEF Finish
    <3> QED
      BY <2>1, <3>3, <3>4
  <2> QED
    BY <2>3, <2>4
<1>2. LengthFramed /\ IInv => NoStuckRequest
  BY <1>1 DEF NoStuckRequest
<1> QED
  BY <1>2, ConnectionInvariant, PTL

\* The server does not wait for a body that the client holds back until it hears
\* "100 Continue".
THEOREM ConnectionNoStandoff == LengthFramed /\ Spec => []NoStandoff
<1>1. ASSUME LengthFramed, IInv, Waiting, NEW i \in 1 .. Len(script), taken >= HeadEnd(i)
      PROVE  ~Holding(i)
  <2>1. Turn \in Nat /\ Turn - 1 = Len(seen) /\ Len(seen) \in Nat /\ Len(script) \in Nat /\ taken \in Nat
    BY <1>1, TurnOf DEF IInv, Typed
  <2>2. pc # "gone"
    BY <1>1 DEF Waiting, WantsBytes
  <2>3. CASE i < Turn
    <3>1. i \in 1 .. Len(seen)
      BY <2>1, <2>3
    <3>2. Answered(i)
      BY <1>1, <2>2, <3>1 DEF IInv, Sent
    <3> QED
      BY <3>2 DEF Holding
  <2>4. CASE ~(i < Turn)
    <3>1. Turn <= Len(script)
      BY <2>1, <2>4
    <3>2. PICK e, h, l, d : e = EndOf(i) /\ h = script[i].head /\ l = Len(script[i].body) /\ d = EndOf(i - 1)
      OBVIOUS
    <3>3. h \in Nat /\ h >= 1 /\ l \in Nat /\ d \in Nat /\ e = (d + h) + l
      <4>1. script[i].head \in Nat \ {0} /\ Len(script[i].body) \in Nat
        BY <1>1, RequestOf
      <4>2. /\ EndOf(i - 1) \in Nat
            /\ EndOf(i) = (EndOf(i - 1) + script[i].head) + Len(script[i].body)
        BY <1>1, BodyOf
      <4>3. h \in Nat /\ h >= 1
        BY <3>2, <4>1
      <4> QED
        BY <3>2, <4>1, <4>2, <4>3
    <3>4. HeadEnd(i) = e - l
      BY <3>2 DEF HeadEnd
    <3>5. HeadEnd(i) = d + h /\ taken >= d + h
      BY <1>1, <3>3, <3>4
    <3>6. taken < Finish /\ Finish \in Nat /\ (taken >= Begin + Mine.head => Prompted)
      BY <1>1, <3>1, WhatIsAwaited, TurnOf DEF IInv
    <3>7. CASE i = Turn
      <4>1. d = Begin /\ h = Mine.head
        BY <1>1, <3>2, <3>7, TurnOf DEF IInv, Mine
      <4>2. Prompted
        BY <3>5, <3>6, <4>1
      <4>3. continue_sent => Continued(i)
        BY <1>1, <2>2, <3>7 DEF IInv, Sent
      <4> QED
        BY <3>7, <4>2, <4>3 DEF Prompted, Holding, Mine
    <3>8. CASE i # Turn
      <4>1. i - 1 \in 0 .. Len(script) /\ Turn \in 0 .. i - 1
        BY <2>1, <2>4, <3>8
      <4>2. EndOf(Turn) <= EndOf(i - 1)
        BY <1>1, <4>1, WireLaid
      <4>3. Finish <= d
        BY <3>2, <4>2 DEF Finish
      <4> QED
        BY <2>1, <3>3, <3>5, <3>6, <4>3
    <3> QED
      BY <3>7, <3>8
  <2> QED
    BY <2>3, <2>4
<1>2. LengthFramed /\ IInv => NoStandoff
  BY <1>1 DEF NoStandoff
<1> QED
  BY <1>2, ConnectionInvariant, PTL

=============================================================================
