-------------------------- MODULE HttpClientProofs --------------------------
(***************************************************************************)
(* Safety of the HTTP client and of the proxy's client for any methods,    *)
(* hosts, answers, caps and numbers of calls and redirects.                *)
(***************************************************************************)
EXTENDS HttpClient, SequenceTheorems, WellFoundedInduction, TLAPS

Resting == {"none", "idle", "send", "write", "done"}
Reading == {"head", "chunked", "sized", "eof", "whole"}

Units    == [kind : {"start", "blank", "data", "size", "crlf", "trailer", "empty"}, of : Nat, arg : Nat]
Requests == [call : Nat, hop : Nat, method : Methods \cup {"GET"}]
Replies  == [call : Nat, hop : Nat, ans : Answers]

Flags ==
  /\ proxied \in BOOLEAN /\ sock \in BOOLEAN /\ armed \in BOOLEAN /\ reused \in BOOLEAN
  /\ deadline \in BOOLEAN
  /\ touched \in BOOLEAN /\ stale \in BOOLEAN /\ heard \in BOOLEAN

Shapes ==
  /\ pc \in Resting \cup Reading
  /\ rbuf \in Seq(Units) /\ wire \in Seq(Units)
  /\ call \in Nat /\ hops \in Nat /\ tries \in Nat /\ pos \in Nat
  /\ method \in Methods \cup {"GET"}
  /\ peer \in {"up", "closed"}
  /\ asked \in Seq(Requests) /\ answers \in Seq(Replies)

\* Every variable has its type.
TypeOK == Flags /\ Shapes

\* A second attempt goes over a new connection and is not followed by a third.
Attempts ==
  /\ pc \in {"none", "idle"} => tries = 0
  /\ pc = "send" => tries \in {0, 1} /\ (tries = 1 => ~sock /\ idempotent(method))
  /\ pc = "write" => tries \in {0, 1} /\ (tries = 1 => ~reused /\ idempotent(method))
  /\ pc \in Reading => tries \in {1, 2} /\ (tries = 2 => ~reused /\ idempotent(method))
  /\ pc = "done" => tries \in {0, 1, 2} /\ (tries = 2 => idempotent(method))
  /\ ~heard

\* Without a connection nothing is on its way; a request needs one.
Linked ==
  /\ ~sock => wire = << >> /\ asked = << >> /\ peer = "closed"
  /\ pc \in Reading \cup {"write"} => sock

\* The request was sent and the peer has not answered it.
Asked ==
  /\ pc = "head" /\ peer = "up" /\ rbuf = << >> /\ wire = << >> /\ ~touched
  /\ asked = <<[call |-> call, hop |-> hops, method |-> method]>>

\* The peer will not answer it: an old connection had ended, or something is wrong.
Dropped ==
  /\ pc = "head" /\ peer = "closed" /\ rbuf = << >> /\ wire = << >> /\ asked = << >>
  /\ ~touched /\ (reused \/ faults # {})

\* The units of the latest answer, if it answers the current request.
Latest == answers[Len(answers)]
Frame  == Latest.ans.frame
Sent   == UnitsOf(Len(answers), Frame, method)

\* The buffer and the wire hold a prefix of the answer, all of it unless it was cut.
Answered ==
  /\ asked = << >> /\ answers # << >>
  /\ Latest.call = call /\ Latest.hop = hops
  /\ Bad(Latest.ans) => faults # {}
  /\ Len(rbuf) + Len(wire) <= Len(Sent)
  /\ Len(rbuf) + Len(wire) < Len(Sent) => faults # {}
  /\ \A i \in 1 .. Len(rbuf) : rbuf[i] = Sent[i]
  /\ \A i \in 1 .. Len(wire) : wire[i] = Sent[Len(rbuf) + i]

\* How far chunk_feed is in a well formed and in a malformed chunked body.
ChunksRead(n) ==
  \/ pos = 2 /\ phase = <<0, 0>> /\ body = << >>
  \/ pos = 3 /\ phase = <<1, 2>> /\ body = << >>
  \/ pos = 4 /\ phase = <<1, 1>> /\ body = <<Unit("data", n, 1)>>
  \/ pos = 5 /\ phase = <<2, 0>> /\ body = Data(n)
  \/ pos = 6 /\ phase = <<0, 0>> /\ body = Data(n)
  \/ pos = 7 /\ phase = <<3, 0>> /\ body = Data(n)
  \/ pos = 8 /\ phase = <<3, 0>> /\ body = Data(n)

BadChunksRead ==
  \/ pos = 2 /\ phase = <<0, 0>>
  \/ pos = 3 /\ phase = <<1, 1>>
  \/ pos = 4 /\ phase = <<2, 0>>
  \/ pos = 5 /\ phase = <<4, 0>>

\* What the reader has made of the part of the answer that it has taken.
Progress ==
  /\ pc = "head" => phase = <<0, 0>> /\ body = << >>
  /\ pc \in Reading \ {"head"} => Len(rbuf) >= 2 /\ Frame # "headless"
  /\ pc \in {"chunked", "sized", "eof"} => method # "HEAD"
  /\ pc = "chunked" => /\ pos <= Len(rbuf)
                       /\ \/ Frame = "chunked" /\ ChunksRead(Len(answers))
                          \/ Frame = "badchunk" /\ BadChunksRead
  /\ pc = "sized" => Frame = "sized" /\ pos = 2 /\ body = << >>
  /\ pc = "eof" => Frame = "eof" /\ pos = 2 /\ body = << >>
  /\ pc = "whole" => /\ pos = Len(rbuf) /\ wire = << >>
                     /\ IF Frame = "eof" THEN IsPrefix(body, Payload(Len(answers), Frame, method))
                        ELSE body = Payload(Len(answers), Frame, method)

\* While no connection was opened over old units, the client and its peer agree
\* on where in the exchange they are.
InStep ==
  ~stale =>
    /\ pc \in Resting /\ sock => rbuf = << >> /\ wire = << >> /\ asked = << >>
    /\ pc = "write" /\ peer = "closed" => reused \/ faults # {}
    /\ pc \in Reading => Asked \/ Dropped \/ (Answered /\ (rbuf # << >> => touched))
    /\ pc \in Reading => Progress
    /\ pc = "done" /\ ~res.ok /\ idempotent(method) => faults # {}
    /\ PairedResult

IInv == TypeOK /\ Attempts /\ Linked /\ InStep
-----------------------------------------------------------------------------
USE DEF config, request, attempt, reader, link

\* find_head_sep is the place of the first blank line, 0 if there is none.
LEMMA FindHeadSep ==
  ASSUME rbuf \in Seq(Units)
  PROVE  /\ find_head_sep \in Nat
         /\ (\A i \in 1 .. Len(rbuf) : rbuf[i].kind # "blank") => find_head_sep = 0
         /\ (Len(rbuf) >= 2 /\ rbuf[1].kind # "blank" /\ rbuf[2].kind = "blank") => find_head_sep = 2
<1> DEFINE I == {i \in 1 .. Len(rbuf) : rbuf[i].kind = "blank"}
<1>1. find_head_sep = IF I # {} THEN Min(I) ELSE 0
  BY DEF find_head_sep, SelectInSeq
<1>2. (\A i \in 1 .. Len(rbuf) : rbuf[i].kind # "blank") => find_head_sep = 0
  BY <1>1
<1>3. ASSUME Len(rbuf) >= 2, rbuf[1].kind # "blank", rbuf[2].kind = "blank"
      PROVE  find_head_sep = 2
  <2>1. 2 \in I /\ \A y \in I : 2 <= y
    BY <1>3
  <2>2. \A x \in I : (\A y \in I : x <= y) => x = 2
    BY <2>1
  <2> QED
    BY <1>1, <2>1, <2>2 DEF Min
<1>4. find_head_sep \in Nat
  <2>1. CASE I = {}
    BY <1>1, <2>1
  <2>2. CASE I # {}
    <3>1. I \in SUBSET Nat /\ I # {}
      BY <2>2
    <3>2. \E x \in I : \A y \in I : x <= y
      <4>1. PICK x \in I : \A y \in I : <<y, x>> \notin OpToRel(<, Nat)
        BY <3>1, NatLessThanWellFounded, WFMin
      <4>2. \A y \in I : ~(y < x)
        <5>1. \A y \in Nat : y < x => <<y, x>> \in OpToRel(<, Nat)
          BY <3>1 DEF OpToRel
        <5> QED
          BY <3>1, <4>1, <5>1
      <4>3. \A y \in Nat : ~(y < x) => x <= y
        BY <3>1
      <4> QED
        BY <3>1, <4>2, <4>3
    <3>3. Min(I) \in I
      BY <3>2 DEF Min
    <3> QED
      BY <1>1, <2>2, <3>1, <3>3
  <2> QED
    BY <2>1, <2>2
<1> QED
  BY <1>2, <1>3, <1>4

\* The units of the peer's bodies.
LEMMA FramedUnits ==
  ASSUME NEW n \in Nat, NEW f \in Frames, NEW F, F = Framed(n, f)
  PROVE  /\ F \in Seq(Units)
         /\ \A i \in 1 .. Len(F) : F[i].kind # "blank"
         /\ f \in {"none", "headless"} => Len(F) = 0
         /\ f \in {"sized", "eof", "huge"} =>
              Len(F) = 2 /\ F[1] = Unit("data", n, 1) /\ F[2] = Unit("data", n, 2)
         /\ f = "badchunk" =>
              Len(F) = 3 /\ F[1] = Unit("size", n, 1) /\ F[2] = Unit("data", n, 1) /\ F[3] = Unit("data", n, 2)
         /\ f = "chunked" =>
              /\ Len(F) = 7 /\ F[1] = Unit("size", n, 2)
              /\ F[2] = Unit("data", n, 1) /\ F[3] = Unit("data", n, 2)
              /\ F[4] = Unit("crlf", n, 0) /\ F[5] = Unit("size", n, 0)
              /\ F[6] = Unit("trailer", n, 0) /\ F[7] = Unit("empty", n, 0)
<1> DEFINE rest == <<Unit("crlf", n, 0), Unit("size", n, 0), Unit("trailer", n, 0), Unit("empty", n, 0)>>
<1>1. \A kind \in {"data", "size", "crlf", "trailer", "empty"}, k \in Nat :
        Unit(kind, n, k) \in Units /\ Unit(kind, n, k).kind # "blank"
  BY DEF Unit, Units
<1>2. /\ Data(n) \in Seq(Units) /\ Len(Data(n)) = 2
      /\ Data(n)[1] = Unit("data", n, 1) /\ Data(n)[2] = Unit("data", n, 2)
  BY <1>1 DEF Data
<1>3. ASSUME NEW k \in Nat, NEW G, G = <<Unit("size", n, k)>> \o Data(n)
      PROVE  /\ G \in Seq(Units) /\ Len(G) = 3 /\ G[1] = Unit("size", n, k)
             /\ G[2] = Unit("data", n, 1) /\ G[3] = Unit("data", n, 2)
  <2> DEFINE s == <<Unit("size", n, k)>>
  <2>1. s \in Seq(Units) /\ Len(s) = 1 /\ s[1] = Unit("size", n, k)
    BY <1>1
  <2> HIDE DEF s
  <2>2. /\ G \in Seq(Units) /\ Len(G) = Len(s) + Len(Data(n))
        /\ \A i \in 1 .. Len(s) : G[i] = s[i]
        /\ \A i \in 1 .. Len(Data(n)) : G[Len(s) + i] = Data(n)[i]
    <3>1. G = s \o Data(n) /\ s \in Seq(Units) /\ Data(n) \in Seq(Units)
      BY <1>2, <1>3, <2>1 DEF s
    <3> QED
      BY <3>1, SMT
  <2>3. G[1] = s[1] /\ G[1 + 1] = Data(n)[1] /\ G[1 + 2] = Data(n)[2]
    BY <1>2, <2>1, <2>2
  <2> QED
    BY <1>2, <2>1, <2>2, <2>3
<1>4. CASE f \in {"none", "headless"}
  <2>1. F = << >>
    BY <1>4 DEF Framed
  <2> QED
    BY <1>4, <2>1
<1>5. CASE f \in {"sized", "eof", "huge"}
  <2>1. F = Data(n)
    BY <1>5 DEF Framed
  <2>2. \A i \in 1 .. 2 : i = 1 \/ i = 2
    OBVIOUS
  <2>3. \A i \in 1 .. Len(F) : F[i].kind # "blank"
    BY <1>1, <1>2, <2>1, <2>2
  <2> QED
    BY <1>2, <1>5, <2>1, <2>3
<1>6. CASE f = "badchunk"
  <2>1. F = <<Unit("size", n, 1)>> \o Data(n)
    BY <1>6 DEF Framed
  <2>2. /\ F \in Seq(Units) /\ Len(F) = 3 /\ F[1] = Unit("size", n, 1)
        /\ F[2] = Unit("data", n, 1) /\ F[3] = Unit("data", n, 2)
    BY <1>3, <2>1
  <2>3. \A i \in 1 .. Len(F) : i = 1 \/ i = 2 \/ i = 3
    BY <2>2
  <2> QED
    BY <1>1, <1>6, <2>2, <2>3
<1>7. CASE f = "chunked"
  <2> DEFINE G == <<Unit("size", n, 2)>> \o Data(n)
  <2>1. F = G \o rest
    BY <1>7 DEF Framed
  <2>2. /\ G \in Seq(Units) /\ Len(G) = 3 /\ G[1] = Unit("size", n, 2)
        /\ G[2] = Unit("data", n, 1) /\ G[3] = Unit("data", n, 2)
    BY <1>3
  <2>3. /\ rest \in Seq(Units) /\ Len(rest) = 4
        /\ rest[1] = Unit("crlf", n, 0) /\ rest[2] = Unit("size", n, 0)
        /\ rest[3] = Unit("trailer", n, 0) /\ rest[4] = Unit("empty", n, 0)
    BY <1>1
  <2> HIDE DEF G, rest
  <2>4. /\ F \in Seq(Units) /\ Len(F) = Len(G) + Len(rest)
        /\ \A i \in 1 .. Len(G) : F[i] = G[i]
        /\ \A i \in 1 .. Len(rest) : F[Len(G) + i] = rest[i]
    <3>1. G \in Seq(Units) /\ rest \in Seq(Units)
      BY <2>2, <2>3
    <3> QED
      BY <2>1, <3>1, SMT
  <2>5. /\ F[1] = G[1] /\ F[2] = G[2] /\ F[3] = G[3]
        /\ F[3 + 1] = rest[1] /\ F[3 + 2] = rest[2] /\ F[3 + 3] = rest[3] /\ F[3 + 4] = rest[4]
    BY <2>2, <2>3, <2>4
  <2>6. /\ F \in Seq(Units) /\ Len(F) = 7 /\ F[1] = Unit("size", n, 2)
        /\ F[2] = Unit("data", n, 1) /\ F[3] = Unit("data", n, 2)
        /\ F[4] = Unit("crlf", n, 0) /\ F[5] = Unit("size", n, 0)
        /\ F[6] = Unit("trailer", n, 0) /\ F[7] = Unit("empty", n, 0)
    BY <2>2, <2>3, <2>4, <2>5
  <2>7. \A i \in 1 .. Len(F) : i = 1 \/ i = 2 \/ i = 3 \/ i = 4 \/ i = 5 \/ i = 6 \/ i = 7
    BY <2>6
  <2> QED
    BY <1>1, <1>7, <2>6, <2>7
<1> QED
  BY <1>4, <1>5, <1>6, <1>7 DEF Frames

\* The units of the peer's answers.
LEMMA AnswerUnits ==
  ASSUME NEW n \in Nat, NEW f \in Frames, NEW m, NEW U, U = UnitsOf(n, f, m)
  PROVE  /\ U \in Seq(Units) /\ Len(U) >= 2
         /\ f = "headless" => Len(U) = HeadCap + 1 /\ \A i \in 1 .. Len(U) : U[i].kind # "blank"
         /\ f # "headless" =>
              /\ U[1].kind = "start" /\ U[2].kind = "blank" /\ U[2].of = n
              /\ \A i \in 1 .. Len(U) : U[i].kind = "blank" => i = 2
              /\ m = "HEAD" \/ f = "none" => Len(U) = 2
         /\ m # "HEAD" /\ f \in {"sized", "eof", "huge"} =>
              Len(U) = 4 /\ U[3] = Unit("data", n, 1) /\ U[4] = Unit("data", n, 2)
         /\ m # "HEAD" /\ f = "badchunk" =>
              Len(U) = 5 /\ U[3] = Unit("size", n, 1) /\ U[4] = Unit("data", n, 1) /\ U[5] = Unit("data", n, 2)
         /\ m # "HEAD" /\ f = "chunked" =>
              /\ Len(U) = 9 /\ U[3] = Unit("size", n, 2)
              /\ U[4] = Unit("data", n, 1) /\ U[5] = Unit("data", n, 2)
              /\ U[6] = Unit("crlf", n, 0) /\ U[7] = Unit("size", n, 0)
              /\ U[8] = Unit("trailer", n, 0) /\ U[9] = Unit("empty", n, 0)
<1> DEFINE H == <<Unit("start", n, 0), Unit("blank", n, 0)>>
           B == IF m = "HEAD" THEN << >> ELSE Framed(n, f)
<1>1. CASE f = "headless"
  <2>1. U = [i \in 1 .. HeadCap + 1 |-> Unit("data", n, i)]
    BY <1>1 DEF UnitsOf
  <2>2. HeadCap \in Nat /\ HeadCap + 1 \in Nat /\ HeadCap >= 2
    BY ClientConstants
  <2>3. \A i \in 1 .. HeadCap + 1 : Unit("data", n, i) \in Units /\ Unit("data", n, i).kind = "data"
    BY <2>2 DEF Unit, Units
  <2>4. U \in Seq(Units) /\ Len(U) = HeadCap + 1 /\ \A i \in 1 .. Len(U) : U[i].kind = "data"
    BY <2>1, <2>2, <2>3
  <2>5. Len(U) >= 2 /\ \A i \in 1 .. Len(U) : U[i].kind # "blank"
    <3>1. Len(U) >= 2
      BY <2>2, <2>4
    <3> QED
      BY <2>4, <3>1
  <2> QED
    BY <1>1, <2>4, <2>5
<1>2. CASE f # "headless"
  <2>1. U = H \o B
    BY <1>2 DEF UnitsOf
  <2>2. /\ H \in Seq(Units) /\ Len(H) = 2
        /\ H[1].kind = "start" /\ H[2].kind = "blank" /\ H[2].of = n
    BY DEF Unit, Units
  <2>3. /\ B \in Seq(Units) /\ Len(B) \in Nat /\ \A i \in 1 .. Len(B) : B[i].kind # "blank"
        /\ m = "HEAD" \/ f = "none" => Len(B) = 0
        /\ m # "HEAD" => B = Framed(n, f)
    BY <1>2, FramedUnits
  <2> HIDE DEF H, B
  <2>4. /\ U \in Seq(Units) /\ Len(U) = 2 + Len(B)
        /\ U[1] = H[1] /\ U[2] = H[2]
        /\ \A i \in 1 .. Len(B) : U[2 + i] = B[i]
    <3>1. /\ U \in Seq(Units) /\ Len(U) = Len(H) + Len(B)
          /\ \A i \in 1 .. Len(H) : U[i] = H[i]
          /\ \A i \in 1 .. Len(B) : U[Len(H) + i] = B[i]
      <4>1. H \in Seq(Units) /\ B \in Seq(Units)
        BY <2>2, <2>3
      <4> QED
        BY <2>1, <4>1, SMT
    <3> QED
      BY <2>2, <3>1
  <2>5. \A i \in 1 .. Len(U) : U[i].kind = "blank" => i = 2
    <3> SUFFICES ASSUME NEW i \in 1 .. Len(U), U[i].kind = "blank", i # 2 PROVE FALSE
      OBVIOUS
    <3>1. CASE i = 1
      BY <2>2, <2>4, <3>1
    <3>2. CASE i # 1
      <4>1. i - 2 \in 1 .. Len(B) /\ 2 + (i - 2) = i
        BY <2>3, <2>4, <3>2
      <4>2. U[i] = B[i - 2]
        BY <2>4, <4>1
      <4> QED
        BY <2>3, <4>1, <4>2
    <3> QED
      BY <3>1, <3>2
  <2>6. ASSUME m # "HEAD", f \in {"sized", "eof", "huge"}
        PROVE  Len(U) = 4 /\ U[2 + 1] = Unit("data", n, 1) /\ U[2 + 2] = Unit("data", n, 2)
    <3>1. Len(B) = 2 /\ B[1] = Unit("data", n, 1) /\ B[2] = Unit("data", n, 2)
      BY <2>3, <2>6, FramedUnits
    <3> QED
      BY <2>4, <3>1
  <2>7. ASSUME m # "HEAD", f = "badchunk"
        PROVE  /\ Len(U) = 5 /\ U[2 + 1] = Unit("size", n, 1)
               /\ U[2 + 2] = Unit("data", n, 1) /\ U[2 + 3] = Unit("data", n, 2)
    <3>1. Len(B) = 3 /\ B[1] = Unit("size", n, 1) /\ B[2] = Unit("data", n, 1) /\ B[3] = Unit("data", n, 2)
      BY <2>3, <2>7, FramedUnits
    <3> QED
      BY <2>4, <3>1
  <2>8. ASSUME m # "HEAD", f = "chunked"
        PROVE  /\ Len(U) = 9 /\ U[2 + 1] = Unit("size", n, 2)
               /\ U[2 + 2] = Unit("data", n, 1) /\ U[2 + 3] = Unit("data", n, 2)
               /\ U[2 + 4] = Unit("crlf", n, 0) /\ U[2 + 5] = Unit("size", n, 0)
               /\ U[2 + 6] = Unit("trailer", n, 0) /\ U[2 + 7] = Unit("empty", n, 0)
    <3>1. /\ Len(B) = 7 /\ B[1] = Unit("size", n, 2)
          /\ B[2] = Unit("data", n, 1) /\ B[3] = Unit("data", n, 2)
          /\ B[4] = Unit("crlf", n, 0) /\ B[5] = Unit("size", n, 0)
          /\ B[6] = Unit("trailer", n, 0) /\ B[7] = Unit("empty", n, 0)
      BY <2>3, <2>8, FramedUnits
    <3> QED
      BY <2>4, <3>1
  <2> QED
    BY <1>2, <2>2, <2>3, <2>4, <2>5, <2>6, <2>7, <2>8
<1> QED
  BY <1>1, <1>2
-----------------------------------------------------------------------------
\* The units a peer's reply puts on the wire.
LEMMA ReplyUnits ==
  ASSUME TypeOK, NEW a \in Answers, Replying(a)
  PROVE  /\ Reply(a) \in Seq(Units) /\ Len(Reply(a)) \in Nat
         /\ \A n \in 1 .. Len(Reply(a)) - 1 : SubSeq(Reply(a), 1, n) \in Seq(Units)
         /\ answers' \in Seq(Replies) /\ Len(answers') = Len(answers) + 1
<1>1. answers' \in Seq(Replies) /\ Len(answers') = Len(answers) + 1 /\ Len(answers') \in Nat
  <2>1. Head(asked) \in Requests /\ asked # << >>
    BY DEF TypeOK, Shapes, Replying
  <2>2. [call |-> Head(asked).call, hop |-> Head(asked).hop, ans |-> a] \in Replies
    BY <2>1 DEF Requests, Replies
  <2> QED
    BY <2>2 DEF TypeOK, Shapes, Replying
<1>2. a.frame \in Frames
  BY AnswerShape
<1>3. Reply(a) \in Seq(Units) /\ Len(Reply(a)) >= 2
  BY <1>1, <1>2, AnswerUnits DEF Reply
<1>4. ASSUME NEW r \in Seq(Units), NEW n \in 1 .. Len(r) - 1
      PROVE  SubSeq(r, 1, n) \in Seq(Units)
  BY <1>4
<1> QED
  BY <1>1, <1>3, <1>4
USE DEF Resting, Reading

\* A connection that is kept or closed.
LEMMA KeptOrClosed ==
  ASSUME TypeOK, Linked, Closed \/ UNCHANGED link
  PROVE  /\ wire' \in Seq(Units) /\ asked' \in Seq(Requests) /\ peer' \in {"up", "closed"}
         /\ ~sock' => wire' = << >> /\ asked' = << >> /\ peer' = "closed"
<1>1. CASE Closed
  <2>1. wire' = << >> /\ asked' = << >> /\ peer' = "closed"
    BY <1>1 DEF Closed
  <2> QED
    BY <2>1
<1>2. CASE UNCHANGED link
  <2>1. UNCHANGED <<sock, wire, peer, asked>>
    BY <1>2
  <2> QED
    BY <2>1 DEF TypeOK, Shapes, Linked
<1> QED
  BY <1>1, <1>2

\* The steps of the peer keep the types and the attempts.
LEMMA PeerBasics ==
  ASSUME TypeOK, Attempts, Linked, Peer
  PROVE  TypeOK' /\ Attempts' /\ Linked'
<1>1. ASSUME NEW a \in Answers, PeerAnswers(a)
      PROVE  TypeOK' /\ Attempts' /\ Linked'
  <2>1. Flags'
    BY <1>1, Zenon DEF TypeOK, Flags, PeerAnswers, Replying
  <2>2. Reply(a) \in Seq(Units) /\ answers' \in Seq(Replies)
    BY <1>1, ReplyUnits DEF PeerAnswers
  <2>3. Shapes'
    BY <1>1, <2>2 DEF TypeOK, Shapes, PeerAnswers, Replying
  <2>4. Attempts' /\ Linked'
    BY <1>1 DEF Attempts, Linked, PeerAnswers, Replying
  <2> QED
    BY <2>1, <2>3, <2>4 DEF TypeOK
<1>2. ASSUME NEW a \in Answers, PeerCuts(a)
      PROVE  TypeOK' /\ Attempts' /\ Linked'
  <2>1. Flags'
    BY <1>2, Zenon DEF TypeOK, Flags, PeerCuts, Replying
  <2>2. PICK n \in 1 .. Len(Reply(a)) - 1 : wire' = wire \o SubSeq(Reply(a), 1, n)
    BY <1>2 DEF PeerCuts
  <2>3. SubSeq(Reply(a), 1, n) \in Seq(Units) /\ answers' \in Seq(Replies)
    BY <1>2, ReplyUnits DEF PeerCuts
  <2>4. wire' \in Seq(Units)
    BY <2>2, <2>3 DEF TypeOK, Shapes
  <2>5. Shapes'
    BY <1>2, <2>3, <2>4 DEF TypeOK, Shapes, PeerCuts, Replying
  <2>6. Attempts' /\ Linked'
    BY <1>2 DEF Attempts, Linked, PeerCuts, Replying
  <2> QED
    BY <2>1, <2>5, <2>6 DEF TypeOK
<1>3. CASE PeerCloses
  <2>1. Flags'
    BY <1>3, Zenon DEF TypeOK, Flags, PeerCloses
  <2>2. Shapes'
    BY <1>3 DEF TypeOK, Shapes, PeerCloses
  <2>3. Attempts' /\ Linked'
    BY <1>3 DEF Attempts, Linked, PeerCloses
  <2> QED
    BY <2>1, <2>2, <2>3 DEF TypeOK
<1> QED
  BY <1>1, <1>2, <1>3 DEF Peer

\* So do the calls.
LEMMA CallerBasics ==
  ASSUME TypeOK, Attempts, Linked, Caller
  PROVE  TypeOK' /\ Attempts' /\ Linked'
<1>1. ASSUME NEW h \in Bases, http_client_open(h)
      PROVE  TypeOK' /\ Attempts' /\ Linked'
  <2>1. Flags'
    BY <1>1, Zenon DEF TypeOK, Flags, http_client_open
  <2>2. Shapes'
    BY <1>1 DEF TypeOK, Shapes, http_client_open
  <2>3. Attempts' /\ Linked'
    BY <1>1 DEF Attempts, Linked, http_client_open
  <2> QED
    BY <2>1, <2>2, <2>3 DEF TypeOK
<1>2. ASSUME NEW m \in Methods, NEW h \in Hosts, http_client_req(m, h)
      PROVE  TypeOK' /\ Attempts' /\ Linked'
  <2>1. Flags'
    BY <1>2, Zenon DEF TypeOK, Flags, http_client_req, Hop, resolve_target, Closed
  <2>2. Shapes'
    <3>1. Closed \/ UNCHANGED link
      BY <1>2, Zenon DEF http_client_req, resolve_target
    <3>2. wire' \in Seq(Units) /\ asked' \in Seq(Requests) /\ peer' \in {"up", "closed"}
      BY <3>1, KeptOrClosed
    <3> QED
      BY <1>2, <3>2 DEF TypeOK, Shapes, http_client_req, Begin, Hop
  <2>3. Attempts' /\ Linked'
    BY <1>2 DEF Attempts, Linked, http_client_req, Hop, resolve_target, Closed
  <2> QED
    BY <2>1, <2>2, <2>3 DEF TypeOK
<1>3. ASSUME NEW m \in Methods, NEW h \in Upstreams, http_reverse_proxy(m, h)
      PROVE  TypeOK' /\ Attempts' /\ Linked'
  <2>1. Flags'
    BY <1>3, Zenon DEF TypeOK, Flags, http_reverse_proxy, Hop
  <2>2. Shapes'
    BY <1>3 DEF TypeOK, Shapes, http_reverse_proxy, Begin, Hop
  <2>3. Attempts' /\ Linked'
    BY <1>3 DEF Attempts, Linked, http_reverse_proxy, Hop
  <2> QED
    BY <2>1, <2>2, <2>3 DEF TypeOK
<1>4. CASE http_client_close
  <2>1. Flags'
    BY <1>4, Zenon DEF TypeOK, Flags, http_client_close, Freed, Closed
  <2>2. Shapes'
    BY <1>4 DEF TypeOK, Shapes, http_client_close, Freed, Closed
  <2>3. Attempts' /\ Linked'
    BY <1>4 DEF Attempts, Linked, http_client_close, Freed, Closed
  <2> QED
    BY <2>1, <2>2, <2>3 DEF TypeOK
<1>5. ASSUME NEW d \in BOOLEAN, http_client_set_timeout(d)
      PROVE  TypeOK' /\ Attempts' /\ Linked'
  <2>1. Flags'
    BY <1>5, Zenon DEF TypeOK, Flags, http_client_set_timeout
  <2> QED
    BY <1>5, <2>1 DEF TypeOK, Shapes, Attempts, Linked, http_client_set_timeout
<1>6. ASSUME NEW n \in 0 .. Redirects, http_client_set_redirects(n)
      PROVE  TypeOK' /\ Attempts' /\ Linked'
  <2>1. Flags'
    BY <1>6, Zenon DEF TypeOK, Flags, http_client_set_redirects
  <2> QED
    BY <1>6, <2>1 DEF TypeOK, Shapes, Attempts, Linked, http_client_set_redirects
<1> QED
  BY <1>1, <1>2, <1>3, <1>4, <1>5, <1>6 DEF Caller

\* So do the steps up to the request on the wire.
LEMMA SendBasics ==
  ASSUME TypeOK, Attempts, Linked, Connect \/ ConnectFails \/ Reuse \/ Send \/ SendFails
  PROVE  TypeOK' /\ Attempts' /\ Linked'
<1>1. CASE Connect \/ ConnectFails \/ Reuse
  <2>1. Flags'
    BY <1>1, Zenon DEF TypeOK, Flags, Connect, ConnectFails, Reuse
  <2>2. Shapes'
    BY <1>1 DEF TypeOK, Shapes, Connect, ConnectFails, Reuse, Return
  <2>3. Attempts' /\ Linked'
    BY <1>1 DEF Attempts, Linked, Connect, ConnectFails, Reuse, Return
  <2> QED
    BY <2>1, <2>2, <2>3 DEF TypeOK
<1>2. CASE Send
  <2>1. Flags'
    BY <1>2, Zenon DEF TypeOK, Flags, Send, Armed
  <2>2. [call |-> call, hop |-> hops, method |-> method] \in Requests
    BY DEF TypeOK, Shapes, Requests
  <2>3. Shapes'
    BY <1>2, <2>2 DEF TypeOK, Shapes, Send
  <2>4. Attempts' /\ Linked'
    BY <1>2 DEF Attempts, Linked, Send
  <2> QED
    BY <2>1, <2>3, <2>4 DEF TypeOK
<1>3. CASE SendFails
  <2>1. Flags'
    BY <1>3, Zenon DEF TypeOK, Flags, SendFails, Closed
  <2>2. Shapes'
    BY <1>3 DEF TypeOK, Shapes, SendFails, Closed, Return
  <2>3. Attempts' /\ Linked'
    BY <1>3 DEF Attempts, Linked, SendFails, Closed, Return
  <2> QED
    BY <2>1, <2>2, <2>3 DEF TypeOK
<1> QED
  BY <1>1, <1>2, <1>3

\* An attempt that fails while reading is repeated only over a new connection.
LEMMA FailBasics ==
  ASSUME TypeOK, Attempts, Linked, RefillEof \/ RefillTimesOut \/ ReadRejects
  PROVE  TypeOK' /\ Attempts' /\ Linked'
<1>1. /\ pc \in Reading /\ ReadFails
      /\ UNCHANGED <<config, armed, rbuf, request, attempt, reader, answers, stale>>
  BY DEF RefillEof, RefillTimesOut, ReadRejects, Waiting, Unreadable, TypeOK, Shapes
<1>2. Flags'
  <2>1. heard' \in BOOLEAN
    BY <1>1, Zenon DEF TypeOK, Flags, ReadFails, AgainOrNot
  <2> QED
    BY <1>1, <2>1, Zenon DEF TypeOK, Flags, ReadFails, Closed
<1>3. Shapes'
  BY <1>1 DEF TypeOK, Shapes, ReadFails, AgainOrNot, Return, Closed
<1>4. Attempts' /\ Linked'
  BY <1>1 DEF TypeOK, Flags, Attempts, Linked, ReadFails, AgainOrNot, MayResend, Return, Closed
<1> QED
  BY <1>2, <1>3, <1>4 DEF TypeOK
\* So do the steps that read a response.
LEMMA ReadBasics ==
  ASSUME TypeOK, Attempts, Linked, RefillGets \/ HeadRead \/ chunk_feed \/ BodyRead
  PROVE  TypeOK' /\ Attempts' /\ Linked'
<1>1. CASE RefillGets
  <2>1. Flags'
    BY <1>1, Zenon DEF TypeOK, Flags, RefillGets
  <2>2. PICK n \in 1 .. Len(wire) : /\ rbuf' = rbuf \o SubSeq(wire, 1, n)
                                    /\ wire' = SubSeq(wire, n + 1, Len(wire))
    BY <1>1 DEF RefillGets
  <2>3. /\ SubSeq(wire, 1, n) \in Seq(Units) /\ wire' \in Seq(Units) /\ wire # << >>
    BY <2>2 DEF TypeOK, Shapes
  <2>4. rbuf' \in Seq(Units)
    BY <2>2, <2>3 DEF TypeOK, Shapes
  <2>5. Shapes'
    BY <1>1, <2>3, <2>4 DEF TypeOK, Shapes, RefillGets
  <2>6. Attempts' /\ Linked'
    BY <1>1, <2>3 DEF TypeOK, Flags, Attempts, Linked, RefillGets
  <2> QED
    BY <2>1, <2>5, <2>6 DEF TypeOK
<1>2. CASE HeadRead
  <2>1. Flags'
    BY <1>2, Zenon DEF TypeOK, Flags, HeadRead
  <2>2. pc = "head" /\ pc' \in Reading
    BY <1>2 DEF HeadRead
  <2>3. pos' \in Nat
    BY <1>2, FindHeadSep DEF TypeOK, Shapes, HeadRead
  <2>4. UNCHANGED <<config, armed, rbuf, request, attempt, phase, body, res, link, answers, stale, heard, faults>>
    BY <1>2 DEF HeadRead
  <2>5. Shapes'
    BY <2>2, <2>3, <2>4 DEF TypeOK, Shapes
  <2>6. Attempts' /\ Linked'
    BY <2>2, <2>4 DEF Attempts, Linked
  <2> QED
    BY <2>1, <2>5, <2>6 DEF TypeOK
<1>3. CASE chunk_feed
  <2>1. Flags'
    BY <1>3, Zenon DEF TypeOK, Flags, chunk_feed
  <2>2. pc = "chunked" /\ pc' \in {"whole", "chunked"} /\ pos' = pos + 1
    BY <1>3 DEF chunk_feed
  <2>3. UNCHANGED <<config, armed, rbuf, request, attempt, res, link, answers, stale, heard, faults>>
    BY <1>3 DEF chunk_feed
  <2>4. Shapes'
    BY <2>2, <2>3 DEF TypeOK, Shapes
  <2>5. Attempts' /\ Linked'
    BY <2>2, <2>3 DEF Attempts, Linked
  <2> QED
    BY <2>1, <2>4, <2>5 DEF TypeOK
<1>4. CASE BodyRead
  <2>1. Flags'
    BY <1>4, Zenon DEF TypeOK, Flags, BodyRead
  <2>2. pc \in {"sized", "eof"} /\ pc' = "whole" /\ pos' \in Nat
    BY <1>4 DEF BodyRead, TypeOK, Shapes
  <2>3. UNCHANGED <<config, armed, rbuf, request, attempt, phase, res, link, answers, stale, heard, faults>>
    BY <1>4 DEF BodyRead
  <2>4. Shapes'
    BY <2>2, <2>3 DEF TypeOK, Shapes
  <2>5. Attempts' /\ Linked'
    BY <2>2, <2>3 DEF Attempts, Linked
  <2> QED
    BY <2>1, <2>4, <2>5 DEF TypeOK
<1> QED
  BY <1>1, <1>2, <1>3, <1>4

\* So do the steps that end a hop or a call.
LEMMA EndBasics ==
  ASSUME TypeOK, Attempts, Linked,
         \/ ResponseWhole \/ RedirectedNowhere \/ Returns
         \/ \E h \in Hosts : Redirected(h)
  PROVE  TypeOK' /\ Attempts' /\ Linked'
<1>1. SubSeq(rbuf, pos + 1, Len(rbuf)) \in Seq(Units)
  <2>1. \A i \in pos + 1 .. Len(rbuf) : rbuf[i] \in Units
    BY DEF TypeOK, Shapes
  <2>2. pos + 1 \in Int /\ Len(rbuf) \in Int
    BY DEF TypeOK, Shapes
  <2> QED
    BY <2>1, <2>2, SubSeqProperties
<1>2. CASE ResponseWhole \/ RedirectedNowhere
  <2>1. Closed \/ UNCHANGED link
    BY <1>2, Zenon DEF ResponseWhole, RedirectedNowhere
  <2>2. Flags'
    BY <1>2, <2>1, Zenon DEF TypeOK, Flags, ResponseWhole, RedirectedNowhere, Discard, Closed
  <2>3. /\ wire' \in Seq(Units) /\ asked' \in Seq(Requests) /\ peer' \in {"up", "closed"}
        /\ ~sock' => wire' = << >> /\ asked' = << >> /\ peer' = "closed"
    BY <2>1, KeptOrClosed
  <2>4. /\ rbuf' \in Seq(Units) /\ pc = "whole" /\ pc' = "done"
        /\ UNCHANGED <<config, request, attempt, reader, answers, stale, heard>>
    BY <1>1, <1>2 DEF ResponseWhole, RedirectedNowhere, Discard, Return
  <2>5. Shapes'
    BY <2>3, <2>4 DEF TypeOK, Shapes
  <2>6. Attempts' /\ Linked'
    BY <2>3, <2>4 DEF Attempts, Linked
  <2> QED
    BY <2>2, <2>5, <2>6 DEF TypeOK
<1>3. CASE Returns
  <2>1. Flags'
    BY <1>3, Zenon DEF TypeOK, Flags, Returns, Freed, Closed
  <2>2. Shapes'
    <3>1. Closed \/ UNCHANGED link
      BY <1>3, Zenon DEF Returns, Freed
    <3>2. wire' \in Seq(Units) /\ asked' \in Seq(Requests) /\ peer' \in {"up", "closed"}
      BY <3>1, KeptOrClosed
    <3>3. /\ rbuf' = rbuf \/ rbuf' = << >>
          /\ answers' = answers \/ answers' = << >>
          /\ pc' \in {"idle", "none"}
          /\ tries' = 0 /\ pos' = 0 /\ UNCHANGED request
      BY <1>3 DEF Returns, Freed
    <3>4. rbuf' \in Seq(Units) /\ answers' \in Seq(Replies)
      <4>1. << >> \in Seq(Units) /\ << >> \in Seq(Replies)
        BY EmptySeq
      <4> QED
        BY <3>3, <4>1, Zenon DEF TypeOK, Shapes
    <3>5. call' = call /\ hops' = hops /\ method' = method
      BY <3>3
    <3> QED
      BY <3>2, <3>3, <3>4, <3>5 DEF TypeOK, Shapes
  <2>3. Attempts' /\ Linked'
    BY <1>3 DEF Attempts, Linked, Returns, Freed, Closed
  <2> QED
    BY <2>1, <2>2, <2>3 DEF TypeOK
<1>4. ASSUME NEW h \in Hosts, Redirected(h)
      PROVE  TypeOK' /\ Attempts' /\ Linked'
  <2>1. Closed \/ UNCHANGED link
    BY <1>4, Zenon DEF Redirected, resolve_target
  <2>2. Flags'
    BY <1>4, <2>1, Zenon DEF TypeOK, Flags, Redirected, Discard, Closed, Hop
  <2>3. /\ wire' \in Seq(Units) /\ asked' \in Seq(Requests) /\ peer' \in {"up", "closed"}
        /\ ~sock' => wire' = << >> /\ asked' = << >> /\ peer' = "closed"
    BY <2>1, KeptOrClosed
  <2>4. /\ rbuf' \in Seq(Units) /\ pc' = "send" /\ tries' = 0 /\ ~heard' /\ hops' = hops + 1
        /\ method' \in {method, "GET"}
        /\ UNCHANGED <<proxied, limit, deadline, call, reused, touched, reader, res, answers, stale, faults>>
    BY <1>1, <1>4 DEF Redirected, Discard, Hop, NextMethod
  <2>5. Shapes'
    BY <2>3, <2>4 DEF TypeOK, Shapes
  <2>6. Attempts' /\ Linked'
    BY <2>3, <2>4 DEF Attempts, Linked
  <2> QED
    BY <2>2, <2>5, <2>6 DEF TypeOK
<1> QED
  BY <1>2, <1>3, <1>4

\* Every step keeps the types, the attempts and the link.
LEMMA NextBasics ==
  ASSUME TypeOK, Attempts, Linked, [Next]_vars
  PROVE  TypeOK' /\ Attempts' /\ Linked'
<1>1. CASE UNCHANGED vars
  BY <1>1 DEF vars, TypeOK, Flags, Shapes, Attempts, Linked
<1>2. CASE Send \/ ClientStep
  BY <1>2, SendBasics, FailBasics, ReadBasics, EndBasics DEF ClientStep
<1> QED
  BY <1>1, <1>2, PeerBasics, CallerBasics DEF Next
-----------------------------------------------------------------------------
\* The latest answer is one of Answers.
LEMMA LatestShape ==
  ASSUME TypeOK, answers # << >>
  PROVE  Len(answers) \in Nat /\ Latest \in Replies /\ Latest.ans \in Answers /\ Frame \in Frames
<1>1. Len(answers) \in Nat /\ Latest \in Replies
  BY DEF TypeOK, Shapes, Latest
<1>2. Latest.ans \in Answers
  BY <1>1 DEF Replies
<1> QED
  BY <1>1, <1>2, AnswerShape DEF Frame

\* Once the head of the latest answer is in the buffer, the client finds it there.
LEMMA HeadFound ==
  ASSUME TypeOK, Answered
  PROVE  /\ HeadArrived <=> Len(rbuf) >= 2 /\ Frame # "headless"
         /\ HeadArrived => /\ find_head_sep = 2 /\ rbuf[1].kind = "start"
                           /\ rbuf[find_head_sep].of = Len(answers) /\ Answer = Latest.ans
<1>1. Len(answers) \in Nat /\ Frame \in Frames
  BY LatestShape DEF Answered
<1>2. rbuf \in Seq(Units) /\ Len(rbuf) \in Nat /\ wire \in Seq(Units) /\ Len(wire) \in Nat
  BY DEF TypeOK, Shapes
<1>3. Sent \in Seq(Units) /\ Len(Sent) \in Nat /\ Len(rbuf) <= Len(Sent)
  <2>1. Sent \in Seq(Units)
    BY <1>1, AnswerUnits DEF Sent
  <2>2. Len(Sent) \in Nat
    BY <2>1
  <2> QED
    BY <1>2, <2>1, <2>2 DEF Answered
<1>4. \A i \in 1 .. Len(rbuf) : rbuf[i] = Sent[i] /\ i \in 1 .. Len(Sent)
  BY <1>2, <1>3 DEF Answered
<1>5. CASE Frame = "headless"
  <2>1. \A i \in 1 .. Len(Sent) : Sent[i].kind # "blank"
    BY <1>1, <1>5, AnswerUnits DEF Sent
  <2>2. \A i \in 1 .. Len(rbuf) : rbuf[i].kind # "blank"
    BY <1>4, <2>1
  <2> QED
    BY <1>2, <1>5, <2>2, FindHeadSep DEF HeadArrived
<1>6. CASE Frame # "headless"
  <2>1. /\ Sent[1].kind = "start" /\ Sent[2].kind = "blank" /\ Sent[2].of = Len(answers)
        /\ \A i \in 1 .. Len(Sent) : Sent[i].kind = "blank" => i = 2
    BY <1>1, <1>6, AnswerUnits DEF Sent
  <2>2. CASE Len(rbuf) >= 2
    <3>1. 1 \in 1 .. Len(rbuf) /\ 2 \in 1 .. Len(rbuf)
      BY <1>2, <2>2
    <3>2. rbuf[1].kind = "start" /\ rbuf[2].kind = "blank" /\ rbuf[2].of = Len(answers)
      BY <1>4, <2>1, <3>1
    <3>3. find_head_sep = 2
      BY <1>2, <2>2, <3>2, FindHeadSep
    <3>4. Answer = Latest.ans
      BY <3>2, <3>3 DEF Answer, Latest
    <3> QED
      BY <1>6, <2>2, <3>2, <3>3, <3>4 DEF HeadArrived
  <2>3. CASE ~(Len(rbuf) >= 2)
    <3>1. \A i \in 1 .. Len(rbuf) : i # 2
      BY <1>2, <2>3
    <3>2. \A i \in 1 .. Len(rbuf) : rbuf[i].kind # "blank"
      BY <1>4, <2>1, <3>1
    <3>3. find_head_sep = 0
      BY <1>2, <3>2, FindHeadSep
    <3> QED
      BY <2>3, <3>3 DEF HeadArrived
  <2> QED
    BY <2>2, <2>3
<1> QED
  BY <1>5, <1>6

\* While the client rests, no request of it is open, so the peer does not answer.
LEMMA AnswersOnlyWhenAsked ==
  ASSUME TypeOK, InStep, ~stale, sock, asked # << >>
  PROVE  Asked
<1>1. pc \in Reading
  BY DEF InStep, TypeOK, Shapes
<1> QED
  BY <1>1 DEF InStep, Dropped, Answered

\* The peer's answer, whole or cut, is the answer to the open request.
LEMMA ReplyInStep ==
  ASSUME TypeOK, Asked, NEW a \in Answers, Replying(a),
         NEW k \in 1 .. Len(Reply(a)), wire' = wire \o SubSeq(Reply(a), 1, k), asked' = << >>,
         Bad(a) \/ k < Len(Reply(a)) => faults' # {}
  PROVE  Answered' /\ rbuf' = << >>
<1>1. /\ Head(asked) = [call |-> call, hop |-> hops, method |-> method]
      /\ rbuf' = rbuf /\ rbuf = << >> /\ wire = << >>
      /\ UNCHANGED <<call, hops, method>>
  BY DEF Asked, Replying
<1>2. /\ answers' \in Seq(Replies) /\ answers' # << >> /\ Reply(a) \in Seq(Units)
      /\ Len(answers') \in Nat
  BY ReplyUnits DEF TypeOK, Shapes
<1>3. answers'[Len(answers')] = [call |-> call, hop |-> hops, ans |-> a]
  BY <1>1 DEF TypeOK, Shapes, Replying
<1>4. Latest' = [call |-> call, hop |-> hops, ans |-> a]
  BY <1>3 DEF Latest
<1>5. Sent' = Reply(a) /\ Frame' = a.frame
  BY <1>1, <1>4 DEF Sent, Reply, Frame
<1>6. /\ SubSeq(Reply(a), 1, k) \in Seq(Units) /\ Len(SubSeq(Reply(a), 1, k)) = k
      /\ \A i \in 1 .. k : SubSeq(Reply(a), 1, k)[i] = Reply(a)[i]
  BY <1>2
<1>7. wire' = SubSeq(Reply(a), 1, k)
  BY <1>1, <1>6
<1>8. Len(wire') = k /\ Len(rbuf') = 0 /\ \A i \in 1 .. k : wire'[i] = Reply(a)[i]
  BY <1>1, <1>6, <1>7
<1>9. k \in Nat /\ k <= Len(Reply(a)) /\ Len(Reply(a)) \in Nat
  BY <1>2
<1>10. /\ Latest'.call = call' /\ Latest'.hop = hops'
       /\ Bad(Latest'.ans) => faults' # {}
  BY <1>1, <1>4
<1>11. /\ Len(rbuf') + Len(wire') <= Len(Sent')
       /\ Len(rbuf') + Len(wire') < Len(Sent') => faults' # {}
  BY <1>5, <1>8, <1>9
<1>12. /\ \A i \in 1 .. Len(rbuf') : rbuf'[i] = Sent'[i]
       /\ \A i \in 1 .. Len(wire') : wire'[i] = Sent'[Len(rbuf') + i]
  BY <1>5, <1>8, <1>9
<1> QED
  BY <1>1, <1>2, <1>10, <1>11, <1>12 DEF Answered
\* The steps of the peer keep the exchange in step.
LEMMA PeerInStep ==
  ASSUME IInv, Peer
  PROVE  InStep'
<1> SUFFICES ASSUME ~stale' PROVE InStep'
  BY DEF InStep
<1>1. ~stale
  BY DEF Peer, PeerAnswers, PeerCuts, PeerCloses, Replying
<1>2. ASSUME NEW a \in Answers, PeerAnswers(a) \/ PeerCuts(a)
      PROVE  InStep'
  <2>1. Replying(a) /\ Asked
    BY <1>1, <1>2, AnswersOnlyWhenAsked DEF IInv, PeerAnswers, PeerCuts, Replying
  <2>2. Reply(a) \in Seq(Units) /\ Len(Reply(a)) \in Nat
    BY <2>1, ReplyUnits DEF IInv
  <2>3. Answered' /\ rbuf' = << >>
    <3>1. CASE PeerAnswers(a)
      <4>1. SubSeq(Reply(a), 1, Len(Reply(a))) = Reply(a)
        BY <2>2
      <4>2. /\ wire' = wire \o SubSeq(Reply(a), 1, Len(Reply(a))) /\ Len(Reply(a)) \in 1 .. Len(Reply(a))
            /\ asked' = << >>
        <5>1. Len(Reply(a)) >= 2
          BY <2>1, ReplyUnits, AnswerShape, AnswerUnits DEF IInv, Reply
        <5>2. asked' = << >>
          BY <2>1, <3>1 DEF Asked, PeerAnswers
        <5> QED
          BY <2>2, <3>1, <4>1, <5>1, <5>2 DEF PeerAnswers
      <4>3. Bad(a) => faults' # {}
        BY <3>1 DEF PeerAnswers
      <4> QED
        BY <2>1, <2>2, <4>2, <4>3, ReplyInStep DEF IInv
    <3>2. CASE PeerCuts(a)
      <4>1. PICK n \in 1 .. Len(Reply(a)) - 1 : wire' = wire \o SubSeq(Reply(a), 1, n)
        BY <3>2 DEF PeerCuts
      <4>2. n \in 1 .. Len(Reply(a)) /\ asked' = << >> /\ faults' # {}
        BY <2>2, <3>2 DEF PeerCuts
      <4> QED
        BY <2>1, <4>1, <4>2, ReplyInStep DEF IInv
    <3> QED
      BY <1>2, <3>1, <3>2
  <2>4. pc' = "head" /\ pc = "head" /\ Progress'
    BY <1>1, <2>1 DEF Asked, Replying, Progress, IInv, InStep
  <2> QED
    BY <2>3, <2>4 DEF InStep, PairedResult
<1>3. CASE PeerCloses
  <2>1. /\ UNCHANGED <<pc, rbuf, request, attempt, reader, res, sock, wire, answers>>
        /\ asked' = << >> /\ peer' = "closed" /\ sock /\ peer = "up" /\ faults \subseteq faults'
    BY <1>3 DEF PeerCloses
  <2>2. CASE pc \in Reading
    <3>1. Progress'
      BY <1>1, <2>1, <2>2 DEF IInv, InStep, Progress, Frame, Latest, ChunksRead, BadChunksRead
    <3>2. CASE Asked
      BY <1>3, <2>1, <3>1, <3>2 DEF PeerCloses, Asked, Dropped, InStep, PairedResult
    <3>3. CASE Dropped
      BY <2>1, <3>3 DEF Dropped
    <3>4. CASE Answered /\ (rbuf # << >> => touched)
      <4>1. Answered'
        BY <2>1, <3>4 DEF Answered, Latest, Frame, Sent
      <4> QED
        BY <2>1, <2>2, <3>1, <3>4, <4>1 DEF InStep, PairedResult
    <3> QED
      BY <1>1, <2>2, <3>2, <3>3, <3>4 DEF IInv, InStep
  <2>3. CASE pc \in Resting
    <3>1. PairedResult'
      BY <1>1, <2>1 DEF IInv, InStep, PairedResult
    <3>2. pc' = "write" /\ peer' = "closed" => reused' \/ faults' # {}
      BY <1>3 DEF PeerCloses
    <3> QED
      BY <1>1, <2>1, <2>3, <3>1, <3>2 DEF IInv, InStep
  <2> QED
    BY <2>2, <2>3 DEF IInv, TypeOK, Shapes
<1> QED
  BY <1>2, <1>3 DEF Peer
\* Between two attempts only an open connection says anything about the buffer.
LEMMA RestingInStep ==
  ASSUME pc' \in {"none", "idle", "send"},
         ~stale' /\ sock' => rbuf' = << >> /\ wire' = << >> /\ asked' = << >>
  PROVE  InStep'
BY DEF InStep, PairedResult

\* Calls begin and clients go in step.
LEMMA CallerInStep ==
  ASSUME IInv, Caller
  PROVE  InStep'
<1>1. ASSUME NEW h \in Bases, http_client_open(h) PROVE InStep'
  BY <1>1, RestingInStep DEF IInv, InStep, http_client_open
<1>2. ASSUME NEW m \in Methods, NEW h \in Hosts, http_client_req(m, h) PROVE InStep'
  <2>1. pc = "idle" /\ pc' = "send" /\ stale' = stale /\ rbuf' = rbuf
    BY <1>2 DEF http_client_req, Hop
  <2>2. Closed \/ UNCHANGED link
    BY <1>2, Zenon DEF http_client_req, resolve_target
  <2>3. sock' => UNCHANGED link
    BY <2>2, Zenon DEF Closed
  <2>4. sock' => UNCHANGED <<sock, wire, asked>>
    BY <2>3
  <2> QED
    BY <2>1, <2>4, RestingInStep DEF IInv, InStep
<1>3. ASSUME NEW m \in Methods, NEW h \in Upstreams, http_reverse_proxy(m, h) PROVE InStep'
  BY <1>3, RestingInStep DEF IInv, InStep, http_reverse_proxy, Hop
<1>4. CASE http_client_close
  BY <1>4, RestingInStep DEF http_client_close, Freed, Closed
<1>5. ASSUME NEW d, http_client_set_timeout(d) \/ http_client_set_redirects(d) PROVE InStep'
  BY <1>5, RestingInStep DEF IInv, InStep, http_client_set_timeout, http_client_set_redirects
<1> QED
  BY <1>1, <1>2, <1>3, <1>4, <1>5 DEF Caller

\* So do the steps up to the request on the wire.
LEMMA SendInStep ==
  ASSUME IInv, Connect \/ ConnectFails \/ Reuse \/ Send \/ SendFails
  PROVE  InStep'
<1> SUFFICES ASSUME ~stale' PROVE InStep'
  BY DEF InStep
<1>1. CASE Connect
  <2>1. /\ rbuf' = << >> /\ wire' = << >> /\ asked' = << >> /\ pc' = "write" /\ peer' = "up"
    BY <1>1 DEF IInv, Linked, Connect
  <2> QED
    BY <2>1 DEF InStep, PairedResult
<1>2. CASE ConnectFails
  <2>1. /\ pc' = "done" /\ res' = NoResult /\ faults' # {} /\ ~sock'
    BY <1>2 DEF ConnectFails, Return
  <2> QED
    BY <2>1 DEF InStep, PairedResult, NoResult
<1>3. CASE Reuse
  <2>1. /\ pc' = "write" /\ pc = "send" /\ reused' /\ sock
        /\ UNCHANGED <<rbuf, wire, asked, stale>>
    BY <1>3 DEF Reuse
  <2> QED
    BY <2>1 DEF IInv, InStep, PairedResult
<1>4. CASE Send
  <2>1. /\ pc = "write" /\ sock /\ pc' = "head" /\ ~touched' /\ phase' = <<0, 0>> /\ body' = << >>
        /\ UNCHANGED <<rbuf, request, reused, wire, peer, faults, stale>>
        /\ rbuf = << >> /\ wire = << >> /\ asked = << >>
    BY <1>4 DEF IInv, Linked, InStep, Send
  <2>2. Progress'
    BY <2>1 DEF Progress
  <2>3. CASE peer = "closed"
    <3>1. asked' = << >> /\ (reused \/ faults # {})
      BY <1>4, <2>1, <2>3 DEF IInv, InStep, Send
    <3>2. Dropped'
      BY <2>1, <2>3, <3>1 DEF Dropped
    <3> QED
      BY <2>1, <2>2, <3>2 DEF InStep, PairedResult
  <2>4. CASE peer # "closed"
    <3>1. peer = "up"
      BY <2>4 DEF IInv, TypeOK, Shapes
    <3>2. asked' = <<[call |-> call, hop |-> hops, method |-> method]>>
      BY <1>4, <2>1, <2>4 DEF Send
    <3>3. Asked'
      BY <2>1, <3>1, <3>2 DEF Asked
    <3> QED
      BY <2>1, <2>2, <3>3 DEF InStep, PairedResult
  <2> QED
    BY <2>3, <2>4
<1>5. CASE SendFails
  <2>1. ~sock' /\ ~stale /\ pc = "write" /\ peer = "closed" /\ UNCHANGED <<faults, method>>
    BY <1>5 DEF SendFails, Closed
  <2>2. CASE reused /\ idempotent(method)
    <3>1. pc' = "send"
      BY <1>5, <2>2 DEF SendFails
    <3> QED
      BY <2>1, <3>1, RestingInStep
  <2>3. CASE ~(reused /\ idempotent(method))
    <3>1. pc' = "done" /\ res' = NoResult
      BY <1>5, <2>3 DEF SendFails, Return
    <3>2. idempotent(method) => faults # {}
      BY <2>1, <2>3 DEF IInv, InStep
    <3> QED
      BY <2>1, <3>1, <3>2 DEF InStep, PairedResult, NoResult, idempotent
  <2> QED
    BY <2>2, <2>3
<1> QED
  BY <1>1, <1>2, <1>3, <1>4, <1>5

\* Why an attempt can fail while an answer is read: without a fault, only on an
\* old connection that ended before anything of the answer arrived.
LEMMA FailureExplained ==
  ASSUME IInv, ~stale, RefillEof \/ RefillTimesOut \/ ReadRejects
  PROVE  faults' # {} \/ (reused /\ ~touched)
<1> SUFFICES ASSUME faults' = {} PROVE reused /\ ~touched
  OBVIOUS
<1>1. /\ pc \in Reading /\ faults = {} /\ (RefillEof \/ ReadRejects)
      /\ Progress /\ TypeOK
  BY DEF RefillEof, RefillTimesOut, ReadRejects, Waiting, Unreadable, IInv, InStep, TypeOK, Shapes
<1>2. CASE Asked
  <2>1. ~HeadArrived
    BY <1>1, <1>2, FindHeadSep DEF Asked, HeadArrived, TypeOK, Shapes
  <2> QED
    BY <1>1, <1>2, <2>1, ClientConstants DEF Asked, RefillEof, ReadRejects, Unreadable
<1>3. CASE Dropped
  BY <1>1, <1>3 DEF Dropped
<1>4. CASE Answered
  <2>1. /\ ~Bad(Latest.ans) /\ Len(rbuf) + Len(wire) = Len(Sent)
        /\ Len(answers) \in Nat /\ Frame \in Frames
        /\ Len(rbuf) \in Nat /\ Len(wire) \in Nat
    <3>1. Len(answers) \in Nat /\ Frame \in Frames /\ Len(rbuf) \in Nat /\ Len(wire) \in Nat
      BY <1>1, <1>4, LatestShape DEF Answered, TypeOK, Shapes
    <3>2. Sent \in Seq(Units)
      BY <3>1, AnswerUnits DEF Sent
    <3>3. Len(Sent) \in Nat
      BY <3>2
    <3> QED
      BY <1>1, <1>4, <3>1, <3>3 DEF Answered
  <2>2. Frame \notin {"headless", "huge", "badchunk"}
    BY <2>1 DEF Bad, Frame
  <2>3. Len(Sent) >= 2
    BY <2>1, AnswerUnits DEF Sent
  <2>4. CASE RefillEof
    <3>1. wire = << >> /\ Waiting /\ pc # "eof" /\ Len(rbuf) = Len(Sent)
      BY <2>1, <2>4 DEF RefillEof
    <3>2. HeadArrived
      BY <1>1, <1>4, <2>2, <2>3, <3>1, HeadFound
    <3>3. CASE pc = "chunked"
      <4>1. Frame = "chunked" /\ method # "HEAD" /\ pos \in 2 .. 8 /\ pos = Len(rbuf)
        BY <1>1, <2>2, <3>1, <3>3 DEF Progress, ChunksRead, Waiting
      <4>2. Len(Sent) = 9
        BY <2>1, <4>1, AnswerUnits DEF Sent
      <4> QED
        BY <3>1, <4>1, <4>2
    <3>4. CASE pc = "sized"
      <4>1. Frame = "sized" /\ method # "HEAD" /\ pos = 2 /\ Len(rbuf) - pos < 2
        BY <1>1, <3>1, <3>4 DEF Progress, Waiting
      <4>2. Len(Sent) = 4
        BY <2>1, <4>1, AnswerUnits DEF Sent
      <4> QED
        BY <3>1, <4>1, <4>2
    <3> QED
      BY <1>1, <3>1, <3>2, <3>3, <3>4 DEF Waiting
  <2>5. CASE ReadRejects
    <3>1. CASE pc = "head" /\ ~HeadArrived /\ Len(rbuf) > HeadCap
      <4>1. Len(rbuf) >= 2
        BY <2>1, <3>1, ClientConstants
      <4> QED
        BY <1>1, <1>4, <2>2, <3>1, <4>1, HeadFound
    <3>2. CASE pc = "head" /\ HeadArrived
      BY <1>1, <1>4, <2>2, <2>5, <3>2, HeadFound DEF ReadRejects, Unreadable, Frame
    <3>3. CASE pc = "chunked" /\ phase[1] = 4
      BY <1>1, <2>2, <3>3 DEF Progress, ChunksRead
    <3> QED
      BY <2>5, <3>1, <3>2, <3>3 DEF ReadRejects, Unreadable
  <2> QED
    BY <1>1, <2>4, <2>5
<1> QED
  BY <1>1, <1>2, <1>3, <1>4 DEF IInv, InStep

\* So a failed attempt is repeated or the call fails for a reason.
LEMMA FailInStep ==
  ASSUME IInv, RefillEof \/ RefillTimesOut \/ ReadRejects
  PROVE  InStep'
<1> SUFFICES ASSUME ~stale' PROVE InStep'
  BY DEF InStep
<1>1. ~stale /\ ReadFails /\ ~sock' /\ UNCHANGED <<reused, touched, method>>
  BY DEF RefillEof, RefillTimesOut, ReadRejects, ReadFails, Closed
<1>2. CASE MayResend
  <2>1. pc' = "send"
    BY <1>1, <1>2 DEF ReadFails, AgainOrNot
  <2> QED
    BY <1>1, <2>1, RestingInStep
<1>3. CASE ~MayResend
  <2>1. pc' = "done" /\ res' = NoResult
    BY <1>1, <1>3 DEF ReadFails, AgainOrNot, Return
  <2>2. idempotent(method) => faults' # {}
    BY <1>1, <1>3, FailureExplained DEF MayResend
  <2> QED
    BY <1>1, <2>1, <2>2 DEF InStep, PairedResult, NoResult, idempotent
<1> QED
  BY <1>2, <1>3

\* Past the first unit of an answer, what is read is the latest answer's.
LEMMA AnswerAtHand ==
  ASSUME IInv, ~stale, pc \in Reading, pc # "head" \/ rbuf # << >> \/ wire # << >>
  PROVE  /\ TypeOK /\ Progress /\ Answered /\ (rbuf # << >> => touched)
         /\ Len(rbuf) \in Nat /\ Len(wire) \in Nat /\ Len(answers) \in Nat /\ Frame \in Frames
         /\ Sent \in Seq(Units) /\ Len(Sent) \in Nat
<1>1. TypeOK /\ Progress /\ Answered /\ (rbuf # << >> => touched)
  BY DEF IInv, InStep, Asked, Dropped
<1>2. Len(rbuf) \in Nat /\ Len(wire) \in Nat /\ Len(answers) \in Nat /\ Frame \in Frames
  BY <1>1, LatestShape DEF Answered, TypeOK, Shapes
<1>3. Sent \in Seq(Units)
  BY <1>2, AnswerUnits DEF Sent
<1> QED
  BY <1>1, <1>2, <1>3

\* All units of an answer of k units that has at least k in the buffer are there.
LEMMA Exhausted ==
  ASSUME NEW a \in Nat, NEW b \in Nat, NEW k \in Nat, a >= k, a + b <= k
  PROVE  a = k /\ b = 0
OBVIOUS

\* Two units appended or cut out.
LEMMA Pair ==
  /\ \A a, b : Append(<<a>>, b) = <<a, b>>
  /\ \A s \in Seq(Units) : Len(s) = 3 => SubSeq(s, 3, 3) = <<s[3]>>
  /\ \A s \in Seq(Units) : Len(s) = 4 => SubSeq(s, 3, 4) = <<s[3], s[4]>>
<1>1. ASSUME NEW a, NEW b PROVE Append(<<a>>, b) = <<a, b>>
  <2>1. /\ <<a>> \in Seq({a, b}) /\ Append(<<a>>, b) \in Seq({a, b}) /\ <<a, b>> \in Seq({a, b})
        /\ Len(Append(<<a>>, b)) = 2 /\ Append(<<a>>, b)[1] = a /\ Append(<<a>>, b)[2] = b
    OBVIOUS
  <2>2. \A i \in 1 .. 2 : Append(<<a>>, b)[i] = <<a, b>>[i]
    BY <2>1
  <2> QED
    BY <2>1, <2>2, SeqEqual
<1>2. ASSUME NEW s \in Seq(Units), Len(s) = 3 PROVE SubSeq(s, 3, 3) = <<s[3]>>
  <2>1. /\ SubSeq(s, 3, 3) \in Seq(Units) /\ Len(SubSeq(s, 3, 3)) = 1 /\ SubSeq(s, 3, 3)[1] = s[3]
        /\ s[3] \in Units
    BY <1>2
  <2>2. <<s[3]>> \in Seq(Units) /\ \A i \in 1 .. 1 : SubSeq(s, 3, 3)[i] = <<s[3]>>[i]
    BY <2>1
  <2> QED
    BY <2>1, <2>2, SeqEqual
<1>3. ASSUME NEW s \in Seq(Units), Len(s) = 4 PROVE SubSeq(s, 3, 4) = <<s[3], s[4]>>
  <2>1. /\ SubSeq(s, 3, 4) \in Seq(Units) /\ Len(SubSeq(s, 3, 4)) = 2
        /\ SubSeq(s, 3, 4)[1] = s[3] /\ SubSeq(s, 3, 4)[2] = s[4]
        /\ s[3] \in Units /\ s[4] \in Units
    <3>0. \A i \in 1 .. Len(s) : s[i] \in Units
      OBVIOUS
    <3>1. \A i \in 3 .. 4 : s[i] \in Units
      BY <1>3, <3>0
    <3>2. /\ SubSeq(s, 3, 4) \in Seq(Units) /\ Len(SubSeq(s, 3, 4)) = 2
          /\ \A i \in 1 .. 2 : SubSeq(s, 3, 4)[i] = s[3 + i - 1]
      BY <3>1, SubSeqProperties
    <3> QED
      BY <3>1, <3>2
  <2>2. <<s[3], s[4]>> \in Seq(Units) /\ \A i \in 1 .. 2 : SubSeq(s, 3, 4)[i] = <<s[3], s[4]>>[i]
    BY <2>1
  <2> QED
    BY <2>1, <2>2, SeqEqual
<1> QED
  BY <1>1, <1>2, <1>3

\* A step of the reader that leaves buffer and connection alone.
LEMMA ReaderStep ==
  ASSUME Answered, rbuf # << >> => touched, pc' \in Reading, Progress',
         UNCHANGED <<rbuf, request, touched, link, answers, faults>>
  PROVE  InStep'
<1>1. Answered'
  BY DEF Answered, Latest, Frame, Sent
<1>2. rbuf' # << >> => touched'
  OBVIOUS
<1> QED
  BY <1>1, <1>2 DEF InStep, PairedResult

\* refill moves units of the answer from the wire to the buffer.
LEMMA RefillInStep ==
  ASSUME IInv, RefillGets
  PROVE  InStep'
<1> SUFFICES ASSUME ~stale' PROVE InStep'
  BY DEF InStep
<1>1. PICK n \in 1 .. Len(wire) : /\ rbuf' = rbuf \o SubSeq(wire, 1, n)
                                  /\ wire' = SubSeq(wire, n + 1, Len(wire))
  BY DEF RefillGets
<1>2. /\ ~stale /\ pc \in Reading \ {"whole"} /\ wire # << >>
      /\ UNCHANGED <<pc, request, reader, asked, answers, faults>>
      /\ touched' = (touched \/ pc = "head")
  <2>1. wire \in Seq(Units)
    BY DEF IInv, TypeOK, Shapes
  <2>2. wire # << >>
    BY <1>1, <2>1
  <2> QED
    BY <2>2 DEF RefillGets, Waiting, IInv, TypeOK, Shapes
<1>3. /\ TypeOK /\ Progress /\ Answered /\ (rbuf # << >> => touched)
      /\ Len(rbuf) \in Nat /\ Len(wire) \in Nat /\ Len(answers) \in Nat /\ Frame \in Frames
      /\ Sent \in Seq(Units) /\ Len(Sent) \in Nat
  BY <1>2, AnswerAtHand
<1>4. /\ rbuf \in Seq(Units) /\ wire \in Seq(Units)
  BY <1>3 DEF TypeOK, Shapes
<1>5. /\ Len(rbuf') = Len(rbuf) + n /\ Len(wire') = Len(wire) - n /\ n \in Nat
      /\ \A i \in 1 .. Len(rbuf) : rbuf'[i] = rbuf[i]
      /\ \A i \in 1 .. n : rbuf'[Len(rbuf) + i] = wire[i]
      /\ \A i \in 1 .. Len(wire') : wire'[i] = wire[n + i]
  <2> DEFINE t == SubSeq(wire, 1, n)
  <2>1. t \in Seq(Units) /\ Len(t) = n /\ \A i \in 1 .. n : t[i] = wire[i]
    BY <1>4
  <2> HIDE DEF t
  <2>2. /\ Len(rbuf') = Len(rbuf) + Len(t)
        /\ \A i \in 1 .. Len(rbuf) : rbuf'[i] = rbuf[i]
        /\ \A i \in 1 .. Len(t) : rbuf'[Len(rbuf) + i] = t[i]
    <3>1. rbuf' = rbuf \o t
      BY <1>1 DEF t
    <3>2. t \in Seq(Units) /\ rbuf \in Seq(Units)
      BY <1>4, <2>1
    <3> QED
      BY <3>1, <3>2, SMT
  <2>3. Len(wire') = Len(wire) - n /\ \A i \in 1 .. Len(wire') : wire'[i] = wire[n + i]
    BY <1>1, <1>4
  <2> QED
    BY <2>1, <2>2, <2>3
<1>6. Sent' = Sent /\ Latest' = Latest /\ Frame' = Frame
  BY <1>2 DEF Sent, Latest, Frame
<1>7. Answered'
  <2>1. /\ asked' = << >> /\ answers' # << >> /\ Latest'.call = call' /\ Latest'.hop = hops'
        /\ Bad(Latest'.ans) => faults' # {}
    BY <1>2, <1>3, <1>6 DEF Answered
  <2>2. Len(rbuf') + Len(wire') = Len(rbuf) + Len(wire)
    BY <1>3, <1>5
  <2>3. /\ Len(rbuf') + Len(wire') <= Len(Sent')
        /\ Len(rbuf') + Len(wire') < Len(Sent') => faults' # {}
    BY <1>2, <1>3, <1>6, <2>2 DEF Answered
  <2>4. ASSUME NEW i \in 1 .. Len(rbuf') PROVE rbuf'[i] = Sent'[i]
    <3>1. CASE i <= Len(rbuf)
      BY <1>3, <1>5, <1>6, <3>1 DEF Answered
    <3>2. CASE i > Len(rbuf)
      <4>1. i - Len(rbuf) \in 1 .. n /\ i - Len(rbuf) \in 1 .. Len(wire) /\ Len(rbuf) + (i - Len(rbuf)) = i
        BY <1>3, <1>5, <3>2
      <4>2. rbuf'[i] = wire[i - Len(rbuf)]
        BY <1>5, <4>1
      <4>3. wire[i - Len(rbuf)] = Sent[i]
        BY <1>3, <4>1 DEF Answered
      <4> QED
        BY <1>6, <4>2, <4>3
    <3> QED
      BY <1>3, <1>5, <3>1, <3>2
  <2>5. ASSUME NEW i \in 1 .. Len(wire') PROVE wire'[i] = Sent'[Len(rbuf') + i]
    <3>1. n + i \in 1 .. Len(wire) /\ Len(rbuf) + (n + i) = Len(rbuf') + i
      BY <1>3, <1>5
    <3>2. wire[n + i] = Sent[Len(rbuf) + (n + i)]
      BY <1>3, <3>1 DEF Answered
    <3> QED
      BY <1>5, <1>6, <3>1, <3>2
  <2> QED
    BY <2>1, <2>3, <2>4, <2>5 DEF Answered
<1>8. Progress'
  <2>1. Len(rbuf') \in Nat /\ Len(rbuf') >= Len(rbuf)
    BY <1>3, <1>5
  <2>2. pos \in Nat
    BY <1>3 DEF TypeOK, Shapes
  <2>3. \A k \in {2, pos} : Len(rbuf) >= k => Len(rbuf') >= k
    BY <1>3, <2>1, <2>2
  <2> QED
    BY <1>2, <1>3, <1>6, <2>2, <2>3, <2>1 DEF Progress, ChunksRead, BadChunksRead
<1>9. touched'
  <2>1. pc # "head" => rbuf # << >>
    BY <1>2, <1>3, <1>4 DEF Progress
  <2> QED
    BY <1>2, <1>3, <2>1
<1> QED
  BY <1>2, <1>7, <1>8, <1>9 DEF InStep, PairedResult

\* The head of the answer decides how its body is read.
LEMMA HeadInStep ==
  ASSUME IInv, HeadRead
  PROVE  InStep'
<1> SUFFICES ASSUME ~stale' PROVE InStep'
  BY DEF InStep
<1>1. /\ ~stale /\ pc = "head" /\ HeadArrived /\ ~Unreadable
      /\ UNCHANGED <<rbuf, request, touched, phase, body, link, answers, faults>>
  BY DEF HeadRead
<1>2. rbuf # << >>
  BY <1>1, FindHeadSep DEF HeadArrived, IInv, TypeOK, Shapes
<1>3. /\ TypeOK /\ Progress /\ Answered /\ (rbuf # << >> => touched)
      /\ Len(rbuf) \in Nat /\ Len(wire) \in Nat /\ Len(answers) \in Nat /\ Frame \in Frames
      /\ Sent \in Seq(Units) /\ Len(Sent) \in Nat
  BY <1>1, <1>2, AnswerAtHand
<1>4. /\ Len(rbuf) >= 2 /\ Frame # "headless" /\ find_head_sep = 2
      /\ Answer = Latest.ans /\ Answer.frame = Frame
  BY <1>1, <1>3, HeadFound DEF Frame
<1>5. pos' = 2 /\ phase' = <<0, 0>> /\ body' = << >> /\ Frame' = Frame
  BY <1>1, <1>3, <1>4 DEF HeadRead, Progress, Frame, Latest
<1>6. CASE method = "HEAD" \/ Frame = "none"
  <2>1. pc' = "whole"
    BY <1>4, <1>6 DEF HeadRead
  <2>2. Len(Sent) = 2
    BY <1>3, <1>4, <1>6, AnswerUnits DEF Sent
  <2>3. Len(rbuf) + Len(wire) <= 2
    BY <1>3, <2>2 DEF Answered
  <2>4. Len(rbuf) = 2 /\ Len(wire) = 0
    <3>1. Len(rbuf) \in Nat /\ Len(wire) \in Nat /\ Len(rbuf) >= 2
      BY <1>3, <1>4
    <3> QED
      BY <2>3, <3>1, Exhausted
  <2>5. pos' = Len(rbuf') /\ wire' = << >>
    BY <1>1, <1>3, <1>5, <2>4 DEF TypeOK, Shapes
  <2>6. Payload(Len(answers'), Frame', method') = << >> /\ IsPrefix(<< >>, << >>)
    BY <1>1, <1>5, <1>6 DEF Payload, IsPrefix
  <2>7. Progress'
    BY <1>1, <1>4, <1>5, <2>1, <2>5, <2>6 DEF Progress
  <2> QED
    BY <1>1, <1>3, <2>1, <2>7, ReaderStep
<1>7. CASE ~(method = "HEAD" \/ Frame = "none")
  <2>1. Frame # "huge"
    BY <1>1, <1>4, <1>7 DEF Unreadable
  <2>2. \/ Frame \in {"chunked", "badchunk"} /\ pc' = "chunked"
        \/ Frame = "eof" /\ pc' = "eof"
        \/ Frame = "sized" /\ pc' = "sized"
    BY <1>3, <1>4, <1>7, <2>1 DEF HeadRead, Frames
  <2>3. Len(rbuf') >= 2 /\ pos' <= Len(rbuf') /\ method' # "HEAD"
    BY <1>1, <1>4, <1>5, <1>7
  <2>4. ChunksRead(Len(answers))' /\ BadChunksRead'
    BY <1>5 DEF ChunksRead, BadChunksRead
  <2>5. Progress'
    BY <1>4, <1>5, <2>2, <2>3, <2>4 DEF Progress
  <2> QED
    BY <1>1, <1>3, <2>2, <2>5, ReaderStep
<1> QED
  BY <1>6, <1>7

\* chunk_feed takes the next unit of the body.
LEMMA ChunkInStep ==
  ASSUME IInv, chunk_feed
  PROVE  InStep'
<1> SUFFICES ASSUME ~stale' PROVE InStep'
  BY DEF InStep
<1>1. /\ ~stale /\ pc = "chunked" /\ pc \in Reading /\ phase[1] # 4 /\ pos < Len(rbuf)
      /\ UNCHANGED <<rbuf, request, touched, link, answers, faults>>
      /\ phase' = ChunkStep(phase, rbuf[pos + 1]) /\ pos' = pos + 1
      /\ body' = IF phase[1] = 1 THEN Append(body, rbuf[pos + 1]) ELSE body
      /\ pc' = IF phase'[1] = 5 THEN "whole" ELSE "chunked"
  BY DEF chunk_feed
<1>2. /\ TypeOK /\ Progress /\ Answered /\ (rbuf # << >> => touched)
      /\ Len(rbuf) \in Nat /\ Len(wire) \in Nat /\ Len(answers) \in Nat /\ Frame \in Frames
      /\ Sent \in Seq(Units) /\ Len(Sent) \in Nat
  BY <1>1, AnswerAtHand
<1>3. Frame' = Frame /\ Len(answers') = Len(answers)
  BY <1>1 DEF Frame, Latest
<1>4. /\ Len(rbuf) >= 2 /\ Frame # "headless" /\ method # "HEAD"
      /\ \/ Frame = "chunked" /\ ChunksRead(Len(answers))
         \/ Frame = "badchunk" /\ BadChunksRead
  BY <1>1, <1>2 DEF Progress
<1>5. pos \in Nat /\ pos + 1 \in 1 .. Len(rbuf)
  BY <1>1, <1>2 DEF TypeOK, Shapes
<1>6. rbuf[pos + 1] = Sent[pos + 1] /\ Len(rbuf) + Len(wire) <= Len(Sent)
  BY <1>2, <1>5 DEF Answered
<1> SUFFICES pc' \in Reading /\ Progress'
  BY <1>1, <1>2, ReaderStep
<1>7. CASE Frame = "badchunk"
  <2>1. /\ Sent[3] = Unit("size", Len(answers), 1) /\ Sent[5] = Unit("data", Len(answers), 2)
    BY <1>2, <1>4, <1>7, AnswerUnits DEF Sent
  <2>2. \/ pos = 2 /\ phase = <<0, 0>>
        \/ pos = 3 /\ phase = <<1, 1>>
        \/ pos = 4 /\ phase = <<2, 0>>
    BY <1>1, <1>4, <1>7 DEF BadChunksRead
  <2>3. BadChunksRead' /\ phase'[1] # 5
    <3>1. CASE pos = 2 /\ phase = <<0, 0>>
      <4>0. rbuf[pos + 1].kind = "size" /\ rbuf[pos + 1].arg = 1
        BY <1>6, <2>1, <3>1 DEF Unit
      <4>1. phase' = <<1, 1>> /\ pos' = 3
        BY <1>1, <3>1, <4>0 DEF ChunkStep
      <4> QED
        BY <4>1 DEF BadChunksRead
    <3>2. CASE pos = 3 /\ phase = <<1, 1>>
      <4>1. phase' = <<2, 0>> /\ pos' = 4
        BY <1>1, <3>2 DEF ChunkStep
      <4> QED
        BY <4>1 DEF BadChunksRead
    <3>3. CASE pos = 4 /\ phase = <<2, 0>>
      <4>1. phase' = <<4, 0>> /\ pos' = 5
        BY <1>1, <1>6, <2>1, <3>3 DEF ChunkStep, Unit
      <4> QED
        BY <4>1 DEF BadChunksRead
    <3> QED
      BY <2>2, <3>1, <3>2, <3>3
  <2>4. pc' = "chunked" /\ pos' <= Len(rbuf')
    BY <1>1, <1>2, <1>5, <2>3
  <2> QED
    BY <1>1, <1>3, <1>4, <1>7, <2>3, <2>4 DEF Progress
<1>8. CASE Frame = "chunked"
  <2> PICK n \in Nat : n = Len(answers)
    BY <1>2
  <2>1. /\ Len(Sent) = 9 /\ Sent[3] = Unit("size", n, 2)
        /\ Sent[4] = Unit("data", n, 1) /\ Sent[5] = Unit("data", n, 2)
        /\ Sent[6] = Unit("crlf", n, 0) /\ Sent[7] = Unit("size", n, 0)
        /\ Sent[8] = Unit("trailer", n, 0) /\ Sent[9] = Unit("empty", n, 0)
    BY <1>2, <1>4, <1>8, AnswerUnits DEF Sent
  <2>2. ChunksRead(n)
    BY <1>4, <1>8
  <2>3. \/ pc' = "chunked" /\ ChunksRead(n)'
        \/ pc' = "whole" /\ pos' = 9 /\ body' = Data(n)
    <3>1. CASE pos = 2 /\ phase = <<0, 0>> /\ body = << >>
      <4>0. rbuf[pos + 1].kind = "size" /\ rbuf[pos + 1].arg = 2
        BY <1>6, <2>1, <3>1, SMTT(30) DEF Unit
      <4>1. phase' = <<1, 2>> /\ pos' = 3 /\ body' = << >> /\ pc' = "chunked"
        BY <1>1, <3>1, <4>0 DEF ChunkStep
      <4> QED
        BY <4>1 DEF ChunksRead
    <3>2. CASE pos = 3 /\ phase = <<1, 2>> /\ body = << >>
      <4>1. phase' = <<1, 1>> /\ pos' = 4 /\ pc' = "chunked"
        BY <1>1, <1>6, <2>1, <3>2 DEF ChunkStep
      <4>2. body' = <<Unit("data", n, 1)>>
        BY <1>1, <1>6, <2>1, <3>2
      <4> QED
        BY <4>1, <4>2 DEF ChunksRead
    <3>3. CASE pos = 4 /\ phase = <<1, 1>> /\ body = <<Unit("data", n, 1)>>
      <4>1. phase' = <<2, 0>> /\ pos' = 5 /\ pc' = "chunked"
        BY <1>1, <1>6, <2>1, <3>3 DEF ChunkStep
      <4>2. body' = Append(body, Unit("data", n, 2)) /\ body = <<Unit("data", n, 1)>>
        BY <1>1, <1>6, <2>1, <3>3
      <4>3. body' = Data(n)
        BY <4>2, Pair DEF Data
      <4> QED
        BY <4>1, <4>3 DEF ChunksRead
    <3>4. CASE pos = 5 /\ phase = <<2, 0>> /\ body = Data(n)
      <4>0. rbuf[pos + 1].kind = "crlf"
        BY <1>6, <2>1, <3>4 DEF Unit
      <4>1. phase' = <<0, 0>> /\ pos' = 6 /\ body' = Data(n) /\ pc' = "chunked"
        BY <1>1, <3>4, <4>0 DEF ChunkStep
      <4> QED
        BY <4>1 DEF ChunksRead
    <3>5. CASE pos = 6 /\ phase = <<0, 0>> /\ body = Data(n)
      <4>0. rbuf[pos + 1].kind = "size" /\ rbuf[pos + 1].arg = 0
        BY <1>6, <2>1, <3>5, SMTT(30) DEF Unit
      <4>1. phase' = <<3, 0>> /\ pos' = 7 /\ body' = Data(n) /\ pc' = "chunked"
        BY <1>1, <3>5, <4>0 DEF ChunkStep
      <4> QED
        BY <4>1 DEF ChunksRead
    <3>6. CASE pos = 7 /\ phase = <<3, 0>> /\ body = Data(n)
      <4>0. rbuf[pos + 1].kind = "trailer"
        BY <1>6, <2>1, <3>6 DEF Unit
      <4>1. phase' = <<3, 0>> /\ pos' = 8 /\ body' = Data(n) /\ pc' = "chunked"
        BY <1>1, <3>6, <4>0 DEF ChunkStep
      <4> QED
        BY <4>1 DEF ChunksRead
    <3>7. CASE pos = 8 /\ phase = <<3, 0>> /\ body = Data(n)
      BY <1>1, <1>6, <2>1, <3>7 DEF ChunkStep, Unit
    <3> QED
      BY <2>2, <3>1, <3>2, <3>3, <3>4, <3>5, <3>6, <3>7 DEF ChunksRead
  <2>4. CASE pc' = "chunked" /\ ChunksRead(n)'
    <3>1. pos' <= Len(rbuf')
      BY <1>1, <1>2, <1>5
    <3>2. ChunksRead(Len(answers))'
      BY <1>3, <2>4
    <3> QED
      BY <1>1, <1>3, <1>4, <1>8, <2>4, <3>1, <3>2 DEF Progress
  <2>5. CASE pc' = "whole" /\ pos' = 9 /\ body' = Data(n)
    <3>1. Len(rbuf) = 9 /\ Len(wire) = 0
      <4>1. pos + 1 = 9 /\ Len(rbuf) \in Nat /\ Len(wire) \in Nat /\ Len(rbuf) + Len(wire) <= 9
        BY <1>1, <1>2, <1>6, <2>1, <2>5
      <4>2. Len(rbuf) >= 9
        BY <1>1, <1>5, <4>1
      <4> QED
        BY <4>1, <4>2, Exhausted
    <3>2. pos' = Len(rbuf') /\ wire' = << >>
      BY <1>1, <1>2, <2>5, <3>1 DEF TypeOK, Shapes
    <3>3. body' = Payload(Len(answers'), Frame', method')
      BY <1>1, <1>3, <1>4, <1>8, <2>5 DEF Payload
    <3> QED
      BY <1>1, <1>3, <1>4, <1>8, <2>5, <3>2, <3>3 DEF Progress
  <2> QED
    BY <2>3, <2>4, <2>5
<1> QED
  BY <1>4, <1>7, <1>8

\* A body with a length is there in full; one without ends with the connection.
LEMMA BodyInStep ==
  ASSUME IInv, BodyRead
  PROVE  InStep'
<1> SUFFICES ASSUME ~stale' PROVE InStep'
  BY DEF InStep
<1>1. /\ ~stale /\ pc \in {"sized", "eof"} /\ pc \in Reading /\ pc' = "whole"
      /\ UNCHANGED <<rbuf, request, touched, link, answers, faults>>
      /\ body' = SubSeq(rbuf, pos + 1, pos')
  BY DEF BodyRead
<1>2. /\ TypeOK /\ Progress /\ Answered /\ (rbuf # << >> => touched)
      /\ Len(rbuf) \in Nat /\ Len(wire) \in Nat /\ Len(answers) \in Nat /\ Frame \in Frames
      /\ Sent \in Seq(Units) /\ Len(Sent) \in Nat
  BY <1>1, AnswerAtHand
<1>3. Frame' = Frame /\ Len(answers') = Len(answers)
  BY <1>1 DEF Frame, Latest
<1>4. Len(rbuf) >= 2 /\ Frame # "headless" /\ method # "HEAD" /\ pos = 2 /\ Frame = pc
  BY <1>1, <1>2 DEF Progress
<1>5. PICK n \in Nat : n = Len(answers)
  BY <1>2
<1>6. Len(Sent) = 4 /\ Sent[3] = Unit("data", n, 1) /\ Sent[4] = Unit("data", n, 2)
  BY <1>1, <1>2, <1>4, <1>5, AnswerUnits DEF Sent
<1>7. /\ Len(rbuf) + Len(wire) <= 4 /\ rbuf \in Seq(Units)
      /\ \A i \in 1 .. Len(rbuf) : rbuf[i] = Sent[i]
  BY <1>2, <1>6 DEF Answered, TypeOK, Shapes
<1>8. Payload(n, Frame, method) = Data(n) /\ Len(Data(n)) = 2
      /\ Data(n)[1] = Unit("data", n, 1) /\ Data(n)[2] = Unit("data", n, 2)
  BY <1>1, <1>4 DEF Payload, Data
<1> SUFFICES Progress'
  BY <1>1, <1>2, ReaderStep
<1>9. CASE pc = "sized"
  <2>1. Len(rbuf) >= 4 /\ pos' = 4
    BY <1>2, <1>4, <1>9 DEF BodyRead, Waiting
  <2>2. Len(rbuf) = 4 /\ Len(wire) = 0
    BY <1>2, <1>7, <2>1, Exhausted
  <2>3. pos' = Len(rbuf') /\ wire' = << >>
    BY <1>1, <1>2, <2>1, <2>2 DEF TypeOK, Shapes
  <2>4. rbuf[3] = Unit("data", n, 1) /\ rbuf[4] = Unit("data", n, 2)
    BY <1>6, <1>7, <2>2
  <2>5. body' = SubSeq(rbuf, 3, 4)
    BY <1>1, <1>4, <2>1
  <2>6. SubSeq(rbuf, 3, 4) = <<rbuf[3], rbuf[4]>>
    BY <1>7, <2>2, Pair
  <2>7. body' = Payload(Len(answers'), Frame', method')
    BY <1>1, <1>3, <1>5, <1>8, <2>4, <2>5, <2>6 DEF Data
  <2> QED
    BY <1>1, <1>3, <1>4, <1>9, <2>3, <2>7 DEF Progress
<1>10. CASE pc = "eof"
  <2>1. pos' = Len(rbuf') /\ pos' = Len(rbuf) /\ wire' = << >> /\ Len(rbuf) <= 4
    BY <1>1, <1>2, <1>7, <1>10 DEF BodyRead
  <2>2. body' = SubSeq(rbuf, 3, Len(rbuf))
    BY <1>1, <1>4, <2>1
  <2>3. Len(rbuf) = 2 \/ Len(rbuf) = 3 \/ Len(rbuf) = 4
    BY <1>2, <1>4, <2>1
  <2>4. IsPrefix(body', Data(n))
    <3>1. CASE Len(rbuf) = 2
      <4>1. body' = << >>
        BY <1>7, <2>2, <3>1
      <4> QED
        BY <4>1, <1>8 DEF IsPrefix, Data
    <3>2. CASE Len(rbuf) = 3
      <4>1. rbuf[3] = Unit("data", n, 1)
        BY <1>6, <1>7, <3>2
      <4>2. body' = <<rbuf[3]>>
        BY <1>7, <2>2, <3>2, Pair
      <4> QED
        BY <4>1, <4>2 DEF IsPrefix, Data
    <3>3. CASE Len(rbuf) = 4
      <4>1. rbuf[3] = Unit("data", n, 1) /\ rbuf[4] = Unit("data", n, 2)
        BY <1>6, <1>7, <3>3
      <4>2. body' = <<rbuf[3], rbuf[4]>>
        BY <1>7, <2>2, <3>3, Pair
      <4>3. body' = Data(n)
        BY <4>1, <4>2 DEF Data
      <4> QED
        BY <4>3, <1>8 DEF IsPrefix
    <3> QED
      BY <2>3, <3>1, <3>2, <3>3
  <2>5. IsPrefix(body', Payload(Len(answers'), Frame', method'))
    BY <1>1, <1>3, <1>5, <1>8, <2>4
  <2> QED
    BY <1>1, <1>3, <1>4, <1>10, <2>1, <2>5 DEF Progress
<1> QED
  BY <1>1, <1>9, <1>10

\* When the response is whole, its result is right and nothing is left over.
LEMMA WholeResponse ==
  ASSUME IInv, ~stale, pc = "whole", Discard
  PROVE  /\ rbuf' = << >> /\ wire = << >> /\ asked = << >>
         /\ rbuf[find_head_sep].of = Len(answers)
         /\ Latest.call = call /\ Latest.hop = hops
         /\ IF Frame = "eof" THEN IsPrefix(body, Payload(Len(answers), Frame, method))
            ELSE body = Payload(Len(answers), Frame, method)
<1>1. /\ TypeOK /\ Progress /\ Answered /\ Len(rbuf) \in Nat /\ rbuf \in Seq(Units)
  BY AnswerAtHand DEF TypeOK, Shapes
<1>2. /\ Len(rbuf) >= 2 /\ Frame # "headless" /\ pos = Len(rbuf) /\ wire = << >>
      /\ IF Frame = "eof" THEN IsPrefix(body, Payload(Len(answers), Frame, method))
         ELSE body = Payload(Len(answers), Frame, method)
  BY <1>1 DEF Progress
<1>3. rbuf' = << >>
  BY <1>1, <1>2 DEF Discard
<1>4. HeadArrived /\ rbuf[find_head_sep].of = Len(answers)
  BY <1>1, <1>2, HeadFound
<1> QED
  BY <1>1, <1>2, <1>3, <1>4 DEF Answered

\* The response goes to the caller, or a redirect is followed, in step.
LEMMA EndInStep ==
  ASSUME IInv, ResponseWhole \/ RedirectedNowhere \/ Returns \/ \E h \in Hosts : Redirected(h)
  PROVE  InStep'
<1>1. CASE ResponseWhole
  <2> SUFFICES ASSUME ~stale' PROVE InStep'
    BY DEF InStep
  <2>1. /\ ~stale /\ pc = "whole" /\ Discard /\ pc' = "done"
        /\ res' = [ok |-> TRUE, of |-> rbuf[find_head_sep].of, body |-> body]
        /\ UNCHANGED <<request, answers>>
    BY <1>1 DEF ResponseWhole, Return
  <2>2. Closed \/ UNCHANGED link
    BY <1>1, Zenon DEF ResponseWhole
  <2>3. rbuf' = << >> /\ wire' = << >> /\ asked' = << >>
    BY <2>1, <2>2, WholeResponse DEF Closed
  <2>4. res'.ok /\ res'.of = Len(answers) /\ res'.body = body
    BY <2>1, WholeResponse
  <2>5. PairedResult'
    BY <2>1, <2>4, WholeResponse DEF PairedResult, Latest, Frame
  <2> QED
    BY <2>1, <2>3, <2>4, <2>5 DEF InStep
<1>2. CASE RedirectedNowhere
  <2> SUFFICES ASSUME ~stale' PROVE InStep'
    BY DEF InStep
  <2>1. /\ ~stale /\ pc = "whole" /\ Discard /\ pc' = "done" /\ res' = NoResult /\ faults' # {}
    BY <1>2 DEF RedirectedNowhere, Return
  <2>2. Closed \/ UNCHANGED link
    BY <1>2, Zenon DEF RedirectedNowhere
  <2>3. rbuf' = << >> /\ wire' = << >> /\ asked' = << >>
    BY <2>1, <2>2, WholeResponse DEF Closed
  <2> QED
    BY <2>1, <2>3 DEF InStep, PairedResult, NoResult
<1>3. CASE Returns
  <2>1. CASE proxied
    BY <1>3, <2>1, RestingInStep DEF Returns, Freed, Closed
  <2>2. CASE ~proxied
    BY <1>3, <2>2, RestingInStep DEF Returns, IInv, InStep
  <2> QED
    BY <2>1, <2>2
<1>4. ASSUME NEW h \in Hosts, Redirected(h) PROVE InStep'
  <2>1. stale' = stale /\ pc = "whole" /\ Discard /\ pc' = "send"
    BY <1>4 DEF Redirected, Hop
  <2>2. Closed \/ UNCHANGED link
    BY <1>4, Zenon DEF Redirected, resolve_target
  <2>3. ~stale => rbuf' = << >> /\ wire' = << >> /\ asked' = << >>
    BY <2>1, <2>2, WholeResponse DEF Closed
  <2> QED
    BY <2>1, <2>3, RestingInStep
<1> QED
  BY <1>1, <1>2, <1>3, <1>4

\* No client is open at first.
LEMMA InitIInv == Init => IInv
<1> SUFFICES ASSUME Init PROVE IInv
  OBVIOUS
<1>1. Flags
  BY Zenon DEF Init, Flags
<1>2. Shapes /\ Attempts /\ Linked /\ InStep
  BY DEF Init, Shapes, Attempts, Linked, InStep, PairedResult
<1> QED
  BY <1>1, <1>2 DEF IInv, TypeOK

\* Every step of the caller, the client and the peer keeps the invariant.
LEMMA NextIInv == IInv /\ [Next]_vars => IInv'
<1> SUFFICES ASSUME IInv, [Next]_vars PROVE IInv'
  OBVIOUS
<1>1. CASE Next
  <2>1. TypeOK' /\ Attempts' /\ Linked'
    BY <1>1, NextBasics DEF IInv
  <2>2. ASSUME Send \/ ClientStep PROVE InStep'
    BY <2>2, SendInStep, FailInStep, RefillInStep, HeadInStep, ChunkInStep, BodyInStep, EndInStep
       DEF ClientStep
  <2>3. InStep'
    BY <1>1, <2>2, PeerInStep, CallerInStep DEF Next
  <2> QED
    BY <2>1, <2>3 DEF IInv
<1>2. CASE UNCHANGED vars
  <2>1. Flags' /\ Shapes' /\ Attempts' /\ Linked'
    BY <1>2 DEF vars, IInv, TypeOK, Flags, Shapes, Attempts, Linked
  <2>2. PairedResult' = PairedResult /\ Progress' = Progress
    BY <1>2 DEF vars, PairedResult, Progress, ChunksRead, BadChunksRead, Latest, Frame
  <2>3. Asked' = Asked /\ Dropped' = Dropped /\ Answered' = Answered
    BY <1>2 DEF vars, Asked, Dropped, Answered, Latest, Frame, Sent
  <2>4. InStep'
    BY <1>2, <2>2, <2>3 DEF vars, IInv, InStep
  <2> QED
    BY <2>1, <2>4 DEF IInv, TypeOK
<1> QED
  BY <1>1, <1>2

\* The inductive invariant: the client and its peer agree on where they are in the
\* exchange unless the client opened a connection over old units (do_request).
THEOREM ClientInvariant == Spec => []IInv
BY InitIInv, NextIInv, PTL DEF Spec

\* Every variable keeps its type (http_client.c, struct Http_Client and the locals
\* of do_request and read_response).
THEOREM ClientTypeOK == Spec => []TypeOK
<1>1. IInv => TypeOK
  BY DEF IInv
<1> QED
  BY <1>1, ClientInvariant, PTL

\* do_request (http_client.c:447) sends a request twice at most, and the second
\* time only if its method is idempotent and nothing of an answer was read.
THEOREM ClientSafeResend == Spec => []SafeResend
<1>1. IInv => SafeResend
  BY DEF IInv, TypeOK, Shapes, Attempts, SafeResend
<1> QED
  BY <1>1, ClientInvariant, PTL

\* An idempotent call fails only if something went wrong with its peer during the
\* call; the end of a kept connection never surfaces (include/http_client.h:14).
THEOREM ClientTransparent == Spec => []Transparent
<1>1. IInv => Transparent
  BY DEF IInv, InStep, Transparent
<1> QED
  BY <1>1, ClientInvariant, PTL

\* Every call gets the whole answer to its own request, whatever was cut, late or
\* split, while no connection is opened over old bytes (include/http_client.h:15-17).
THEOREM ClientAnswersPair == Spec => []AnswersPair
<1>1. IInv => AnswersPair
  BY DEF IInv, InStep, AnswersPair
<1> QED
  BY <1>1, ClientInvariant, PTL
=============================================================================
