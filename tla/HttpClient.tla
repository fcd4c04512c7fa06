----------------------------- MODULE HttpClient -----------------------------
(***************************************************************************)
(* The persistent client of src/http/http_client.c and the reverse proxy   *)
(* of src/http/proxy.c that relays through a client of its own per         *)
(* request.                                                                *)
(*                                                                         *)
(* The wire carries units: the start of a head, the blank line that ends   *)
(* it, body bytes and the pieces of chunked framing.  The peer answers     *)
(* requests in order, splits its answers anywhere, closes, cuts an answer  *)
(* short or stays silent.                                                  *)
(***************************************************************************)
EXTENDS Naturals, Sequences, FiniteSets, SequencesExt

CONSTANTS Methods,   \* of the calls
          Hosts,     \* authorities of targets and redirects
          Bases,     \* bases clients are opened with, NoHost for none
          Upstreams, \* bases of proxy mounts
          Answers,   \* what a peer may answer: [frame, dies, code, location]
          Redirects, \* hops a client follows
          HeadCap,   \* CLIENT_HEAD_CAP, in units
          MaxCalls,  \* bound on the calls
          MaxAnswers \* bound on the answers one client gets; then its peers are silent

ASSUME ClientConstants == Redirects \in Nat /\ HeadCap \in Nat \ {0, 1} /\ {MaxCalls, MaxAnswers} \subseteq Nat

\* How an answer is delimited: no body, a length, chunks, the close; or in a way
\* a client has to reject.
Frames == {"none", "sized", "chunked", "eof", "badchunk", "huge", "headless"}

\* Where its Location header leads, if it has one.
Locations == {"none", "http", "other"}

ASSUME AnswerShape == Answers \subseteq [frame : Frames, dies : BOOLEAN, code : Nat, location : Locations]

VARIABLES pc,       \* where the client is, see ClientStep
          proxied,  \* the client is the proxy's
          host,     \* the client's base
          limit,    \* hops it follows
          deadline, \* timeout_ms is not 0
          sock,     \* it holds a connection
          armed,    \* the connection has a receive deadline
          rbuf,     \* units read and not consumed
          call, method, hops,      \* the call, and the hop it is at
          tries, reused, touched,  \* attempts of this hop; the current attempt
          phase,    \* of the Chunk_Reader, with the payload it still expects
          pos,      \* units of rbuf the response has taken
          body,     \* payload so far
          res,      \* result of the last call
          wire,     \* units on their way to the client
          peer,     \* "up" or "closed"
          asked,    \* requests the peer has not answered
          answers,  \* what it has answered so far
          stale,    \* this client opened a connection with old units in rbuf
          heard,    \* units were read in an attempt of this hop that was repeated
          faults    \* what went wrong outside the client during this call

config  == <<proxied, host, limit, deadline>>
request == <<call, method, hops>>
attempt == <<tries, reused, touched>>
reader  == <<phase, pos, body>>
link    == <<sock, wire, peer, asked>>
vars == <<pc, config, armed, rbuf, request, attempt, reader, res, link, answers, stale, heard, faults>>

NoHost   == ""
NoResult == [ok |-> FALSE, of |-> 0, body |-> << >>]

\* Methods that may be sent again.
idempotent(m) == m \in {"GET", "HEAD", "OPTIONS"}

-----------------------------------------------------------------------------
(* The peer.                                                               *)

Unit(kind, of, arg) == [kind |-> kind, of |-> of, arg |-> arg]
Data(n) == <<Unit("data", n, 1), Unit("data", n, 2)>>

Framed(n, frame) ==
  CASE frame \in {"sized", "eof", "huge"} -> Data(n)
    [] frame = "chunked" -> <<Unit("size", n, 2)>> \o Data(n) \o
                            <<Unit("crlf", n, 0), Unit("size", n, 0),
                              Unit("trailer", n, 0), Unit("empty", n, 0)>>
    [] frame = "badchunk" -> <<Unit("size", n, 1)>> \o Data(n)
    [] OTHER -> << >>

\* The units of answer n to a request with method m.
UnitsOf(n, frame, m) ==
  IF frame = "headless" THEN [i \in 1 .. HeadCap + 1 |-> Unit("data", n, i)]
  ELSE <<Unit("start", n, 0), Unit("blank", n, 0)>> \o
       (IF m = "HEAD" THEN << >> ELSE Framed(n, frame))

\* The peer closes after an answer that says so or is delimited by the close.
Ends(a) == a.dies \/ a.frame = "eof"

Bad(a) == a.frame \in {"headless", "huge", "badchunk"}

Replying(a) ==
  /\ sock /\ peer = "up" /\ asked # << >> /\ Len(answers) < MaxAnswers
  /\ answers' = Append(answers, [call |-> Head(asked).call, hop |-> Head(asked).hop, ans |-> a])
  /\ UNCHANGED <<pc, config, armed, rbuf, request, attempt, reader, res, sock, stale, heard>>

Reply(a) == UnitsOf(Len(answers'), a.frame, Head(asked).method)

PeerAnswers(a) ==
  /\ Replying(a)
  /\ wire' = wire \o Reply(a) /\ asked' = Tail(asked)
  /\ peer' = IF Ends(a) THEN "closed" ELSE "up"
  /\ faults' = IF Bad(a) THEN faults \cup {"bad"} ELSE faults

\* The connection breaks in the middle of an answer.
PeerCuts(a) ==
  /\ Replying(a)
  /\ \E n \in 1 .. Len(Reply(a)) - 1 : wire' = wire \o SubSeq(Reply(a), 1, n)
  /\ asked' = << >> /\ peer' = "closed" /\ faults' = faults \cup {"cut"}

\* The peer closes without an answer: an old connection at any time, a new one
\* only if something is wrong with it.
PeerCloses ==
  /\ sock /\ peer = "up"
  /\ peer' = "closed" /\ asked' = << >>
  /\ faults' = IF pc \in {"idle", "send"} \/ reused THEN faults ELSE faults \cup {"close"}
  /\ UNCHANGED <<pc, config, armed, rbuf, request, attempt, reader, res, sock, wire, answers,
                 stale, heard>>

-----------------------------------------------------------------------------
(* Opening, closing, calling.                                              *)

Init ==
  /\ pc = "none" /\ proxied = FALSE /\ host = NoHost /\ limit = Redirects /\ deadline = TRUE
  /\ sock = FALSE /\ armed = FALSE /\ rbuf = << >>
  /\ call = 0 /\ method = "GET" /\ hops = 0
  /\ tries = 0 /\ reused = FALSE /\ touched = FALSE
  /\ phase = <<0, 0>> /\ pos = 0 /\ body = << >> /\ res = NoResult
  /\ wire = << >> /\ peer = "closed" /\ asked = << >> /\ answers = << >>
  /\ stale = FALSE /\ heard = FALSE /\ faults = {}

\* A client with a base or without one.
http_client_open(h) ==
  /\ pc = "none" /\ pc' = "idle" /\ host' = h /\ limit' = Redirects /\ deadline' = TRUE
  /\ UNCHANGED <<proxied, armed, rbuf, request, attempt, reader, res, link, answers, stale, heard,
                 faults>>

\* Read at the next attempt, or when the next redirect arrives.
http_client_set_timeout(d) ==
  /\ pc = "idle" /\ deadline' = d
  /\ UNCHANGED <<pc, proxied, host, limit, armed, rbuf, request, attempt, reader, res, link, answers,
                 stale, heard, faults>>

http_client_set_redirects(n) ==
  /\ pc = "idle" /\ limit' = n
  /\ UNCHANGED <<pc, proxied, host, deadline, armed, rbuf, request, attempt, reader, res, link, answers,
                 stale, heard, faults>>

\* What net_close of the client's socket leaves; the buffer is not touched.
Closed == sock' = FALSE /\ wire' = << >> /\ peer' = "closed" /\ asked' = << >>

\* The client with its buffer is freed.
Freed == /\ Closed /\ rbuf' = << >> /\ armed' = FALSE /\ host' = NoHost /\ pc' = "none"
         /\ answers' = << >> /\ res' = NoResult /\ stale' = FALSE

http_client_close ==
  /\ pc = "idle" /\ Freed
  /\ UNCHANGED <<proxied, limit, deadline, request, attempt, reader, heard, faults>>

\* A target with another authority closes the connection and becomes the base.
resolve_target(h, dead) ==
  /\ host' = h
  /\ IF dead \/ host \notin {NoHost, h} THEN Closed ELSE UNCHANGED link

\* A new hop: nothing sent yet.
Hop == pc' = "send" /\ tries' = 0 /\ heard' = FALSE

Begin(m) == call' = call + 1 /\ method' = m /\ hops' = 0 /\ res' = NoResult /\ faults' = {}

http_client_req(m, h) ==
  /\ pc = "idle" /\ call < MaxCalls
  /\ Begin(m) /\ resolve_target(h, FALSE) /\ Hop
  /\ UNCHANGED <<proxied, limit, deadline, armed, rbuf, reused, touched, reader, answers, stale>>

\* The proxy's own client: no redirects, the default deadline, a HEAD goes out as
\* a GET.
http_reverse_proxy(m, h) ==
  /\ pc = "none" /\ call < MaxCalls
  /\ proxied' = TRUE /\ host' = h /\ limit' = 0 /\ deadline' = TRUE
  /\ Begin(IF m = "HEAD" THEN "GET" ELSE m) /\ Hop
  /\ UNCHANGED <<armed, rbuf, reused, touched, reader, link, answers, stale>>

\* do_request has a verdict.
Return(r) == res' = r /\ pc' = "done"

\* The caller gets it; the proxy answers 502 or relays it, and frees its client.
\* What do_request kept on its stack is gone.
Returns ==
  /\ pc = "done" /\ proxied' = FALSE
  /\ IF proxied THEN Freed
     ELSE pc' = "idle" /\ UNCHANGED <<link, host, armed, rbuf, res, answers, stale>>
  /\ tries' = 0 /\ reused' = FALSE /\ touched' = FALSE /\ heard' = FALSE
  /\ phase' = <<0, 0>> /\ pos' = 0 /\ body' = << >> /\ faults' = {}
  /\ UNCHANGED <<limit, deadline, request>>

-----------------------------------------------------------------------------
(* One attempt of do_request.                                              *)

Connect ==
  /\ pc = "send" /\ ~sock
  /\ sock' = TRUE /\ peer' = "up" /\ reused' = FALSE /\ pc' = "write"
  /\ stale' = (stale \/ rbuf # << >>)
  /\ UNCHANGED <<config, armed, rbuf, request, tries, touched, reader, res, wire, asked, answers,
                 heard, faults>>

ConnectFails ==
  /\ pc = "send" /\ ~sock
  /\ Return(NoResult) /\ faults' = faults \cup {"connect"}
  /\ UNCHANGED <<config, armed, rbuf, request, attempt, reader, link, answers, stale, heard>>

Reuse ==
  /\ pc = "send" /\ sock /\ reused' = TRUE /\ pc' = "write"
  /\ UNCHANGED <<config, armed, rbuf, request, tries, touched, reader, res, link, answers, stale,
                 heard, faults>>

\* The deadline armed on new connections only.
Armed_WhenNew == deadline /\ (~reused \/ armed)

\* Every attempt arms the deadline, if there is one: a timeout of 0 is none.
Armed == deadline

\* The kernel takes the request, whether the peer is still there or not.  Until the
\* peer has read enough for that the call is blocked: the deadline is SO_RCVTIMEO,
\* which does not end a send.
Send ==
  /\ pc = "write" /\ pc' = "head" /\ tries' = tries + 1 /\ armed' = Armed
  /\ asked' = IF peer = "closed" THEN asked
              ELSE Append(asked, [call |-> call, hop |-> hops, method |-> method])
  /\ touched' = FALSE /\ pos' = 0 /\ body' = << >> /\ phase' = <<0, 0>>
  /\ UNCHANGED <<config, rbuf, request, reused, res, sock, wire, peer, answers, stale, heard, faults>>

SendFails ==
  /\ pc = "write" /\ peer = "closed" /\ tries' = tries + 1 /\ Closed
  /\ IF reused /\ idempotent(method) THEN pc' = "send" /\ UNCHANGED res ELSE Return(NoResult)
  /\ UNCHANGED <<config, armed, rbuf, request, reused, touched, reader, answers, stale, heard, faults>>

-----------------------------------------------------------------------------
(* read_response.  The cap on the body is met by "huge" alone: the peer    *)
(* announces more than CLIENT_MAX_BODY.                                    *)

find_head_sep == SelectInSeq(rbuf, LAMBDA u : u.kind = "blank")

HeadArrived == find_head_sep # 0

\* The answer that the first head in the buffer is the head of.
Answer == answers[rbuf[find_head_sep].of].ans

\* The body to read has a declared length of two units.
Waiting ==
  CASE pc = "head"    -> ~HeadArrived /\ Len(rbuf) <= HeadCap
    [] pc = "chunked" -> phase[1] \notin {4, 5} /\ pos = Len(rbuf)
    [] pc = "sized"   -> Len(rbuf) - pos < 2
    [] OTHER          -> pc = "eof"

\* A retry that does not ask whether anything came back.
MayResend_Touched == reused /\ idempotent(method)

\* do_request tries again: the connection was an old one, the method allows it
\* and no unit arrived while the head was awaited.
MayResend == reused /\ idempotent(method) /\ ~touched

AgainOrNot ==
  IF MayResend THEN pc' = "send" /\ heard' = (heard \/ touched) /\ UNCHANGED res
  ELSE Return(NoResult) /\ UNCHANGED heard

\* A failed read that leaves the connection open.
ReadFails_KeepsSocket == UNCHANGED link /\ AgainOrNot

\* The connection is closed, the buffer keeps what was read, and the attempt is
\* repeated or given up.
ReadFails == Closed /\ AgainOrNot

\* refill returns with the first n units on the wire.
RefillGets ==
  /\ Waiting
  /\ \E n \in 1 .. Len(wire) : rbuf' = rbuf \o SubSeq(wire, 1, n)
                               /\ wire' = SubSeq(wire, n + 1, Len(wire))
  /\ touched' = (touched \/ pc = "head")
  /\ UNCHANGED <<pc, config, armed, request, tries, reused, reader, res, sock, peer, asked, answers,
                 stale, heard, faults>>

\* refill sees the end of the connection where that is not the end of the body.
RefillEof ==
  /\ Waiting /\ pc # "eof" /\ wire = << >> /\ peer = "closed" /\ ReadFails
  /\ UNCHANGED <<config, armed, rbuf, request, attempt, reader, answers, stale, faults>>

\* The deadline passes, even if an answer is on its way.
RefillTimesOut ==
  /\ Waiting /\ armed /\ ReadFails /\ faults' = faults \cup {"timeout"}
  /\ UNCHANGED <<config, armed, rbuf, request, attempt, reader, answers, stale>>

\* No blank line within the cap, a status line that does not parse, a length
\* over the cap, or a chunk that breaks the framing.
Unreadable ==
  \/ pc = "head" /\ ~HeadArrived /\ Len(rbuf) > HeadCap
  \/ pc = "head" /\ HeadArrived /\ (rbuf[1].kind # "start" \/ (Answer.frame = "huge" /\ method # "HEAD"))
  \/ pc = "chunked" /\ phase[1] = 4

ReadRejects ==
  /\ Unreadable /\ ReadFails
  /\ UNCHANGED <<config, armed, rbuf, request, attempt, reader, answers, stale, faults>>

\* The head decides how the body is read; without one the response is whole.
HeadRead ==
  /\ pc = "head" /\ HeadArrived /\ ~Unreadable
  /\ pos' = find_head_sep
  /\ pc' = IF method = "HEAD" \/ Answer.frame = "none" THEN "whole"
           ELSE CASE Answer.frame \in {"chunked", "badchunk"} -> "chunked"
                  [] Answer.frame = "eof"                     -> "eof"
                  [] OTHER                                    -> "sized"
  /\ UNCHANGED <<config, armed, rbuf, request, attempt, phase, body, res, link, answers, stale, heard,
                 faults>>

\* A reader that is done after the last chunk and leaves the trailers.
ChunkStep_NoTrailers(ph, u) ==
  CASE ph[1] = 0 -> IF u.kind # "size" THEN <<4, 0>> ELSE IF u.arg = 0 THEN <<5, 0>> ELSE <<1, u.arg>>
    [] ph[1] = 1 -> IF ph[2] = 1 THEN <<2, 0>> ELSE <<1, ph[2] - 1>>
    [] ph[1] = 2 -> IF u.kind = "crlf" THEN <<0, 0>> ELSE <<4, 0>>
    [] OTHER -> ph

\* One unit of chunk_feed: phases 0 size line, 1 payload, 2 its line end,
\* 3 trailers; 4 stands for malformed and 5 for done.
ChunkStep(ph, u) ==
  CASE ph[1] = 0 -> IF u.kind # "size" THEN <<4, 0>> ELSE IF u.arg = 0 THEN <<3, 0>> ELSE <<1, u.arg>>
    [] ph[1] = 1 -> IF ph[2] = 1 THEN <<2, 0>> ELSE <<1, ph[2] - 1>>
    [] ph[1] = 2 -> IF u.kind = "crlf" THEN <<0, 0>> ELSE <<4, 0>>
    [] ph[1] = 3 -> IF u.kind \in {"empty", "blank"} THEN <<5, 0>> ELSE ph
    [] OTHER -> ph

chunk_feed ==
  /\ pc = "chunked" /\ phase[1] # 4 /\ pos < Len(rbuf)
  /\ phase' = ChunkStep(phase, rbuf[pos + 1])
  /\ body' = IF phase[1] = 1 THEN Append(body, rbuf[pos + 1]) ELSE body
  /\ pos' = pos + 1
  /\ pc' = IF phase'[1] = 5 THEN "whole" ELSE "chunked"
  /\ UNCHANGED <<config, armed, rbuf, request, attempt, res, link, answers, stale, heard, faults>>

\* The declared units are there, or the connection that delimits them has ended.
BodyRead ==
  /\ \/ pc = "sized" /\ ~Waiting
     \/ pc = "eof" /\ wire = << >> /\ peer = "closed"
  /\ pos' = IF pc = "sized" THEN pos + 2 ELSE Len(rbuf)
  /\ body' = SubSeq(rbuf, pos + 1, pos')
  /\ pc' = "whole"
  /\ UNCHANGED <<config, armed, rbuf, request, attempt, phase, res, link, answers, stale, heard, faults>>

-----------------------------------------------------------------------------
(* The response is whole: discard it, keep or close the connection, follow *)
(* a redirect.                                                             *)

conn_dead == Answer.dies \/ (Answer.frame = "eof" /\ method # "HEAD")

redirect_code(c) == c \in {301, 302, 303, 307, 308}

Follows == redirect_code(Answer.code) /\ hops < limit /\ Answer.location # "none"

\* The method of the next hop.
NextMethod(m, code) == IF code = 303 \/ (code \notin {307, 308} /\ m = "POST") THEN "GET" ELSE m

\* A kept connection loses its deadline.
Discard ==
  /\ rbuf' = SubSeq(rbuf, pos + 1, Len(rbuf))
  /\ armed' = (armed /\ conn_dead)

ResponseWhole ==
  /\ pc = "whole" /\ ~Follows
  /\ Return([ok |-> TRUE, of |-> rbuf[find_head_sep].of, body |-> body])
  /\ Discard /\ IF conn_dead THEN Closed ELSE UNCHANGED link
  /\ UNCHANGED <<config, request, attempt, reader, answers, stale, heard, faults>>

\* The next hop starts where the Location says.
Redirected(h) ==
  /\ pc = "whole" /\ Follows /\ Answer.location = "http"
  /\ Discard /\ resolve_target(h, conn_dead)
  /\ method' = NextMethod(method, Answer.code) /\ hops' = hops + 1 /\ Hop
  /\ UNCHANGED <<proxied, limit, deadline, call, reused, touched, reader, res, answers, stale, faults>>

\* The Location is no http URL.
RedirectedNowhere ==
  /\ pc = "whole" /\ Follows /\ Answer.location = "other"
  /\ Discard /\ IF conn_dead THEN Closed ELSE UNCHANGED link
  /\ Return(NoResult) /\ faults' = faults \cup {"bad"}
  /\ UNCHANGED <<config, request, attempt, reader, answers, stale, heard>>

-----------------------------------------------------------------------------
Peer == PeerCloses \/ \E a \in Answers : PeerAnswers(a) \/ PeerCuts(a)

Caller ==
  \/ \E h \in Bases : http_client_open(h)
  \/ \E m \in Methods, h \in Hosts : http_client_req(m, h)
  \/ \E m \in Methods, h \in Upstreams : http_reverse_proxy(m, h)
  \/ \E d \in BOOLEAN : http_client_set_timeout(d)
  \/ \E n \in 0 .. Redirects : http_client_set_redirects(n)
  \/ http_client_close

\* What a call does without waiting for its peer to read.
ClientStep ==
  \/ Connect \/ ConnectFails \/ Reuse \/ SendFails
  \/ RefillGets \/ RefillEof \/ RefillTimesOut
  \/ HeadRead \/ chunk_feed \/ BodyRead \/ ReadRejects
  \/ ResponseWhole \/ RedirectedNowhere \/ Returns
  \/ \E h \in Hosts : Redirected(h)

Next == Peer \/ Caller \/ Send \/ ClientStep

Spec == Init /\ [][Next]_vars

\* A thread that is in a call goes on with it; recv returns at its deadline.  That a
\* send ends is up to the peer.
FairSpec == Spec /\ WF_vars(ClientStep)

-----------------------------------------------------------------------------
\* The body bytes that a peer puts into answer n to a request with method m.
Payload(n, frame, m) == IF m = "HEAD" \/ frame = "none" THEN << >> ELSE Data(n)

\* The answer a call ended with answers the request of its last hop, and its body
\* is what the peer framed.  Only a body that ends with the connection can be
\* short, since nothing tells a cut from its end.
PairedResult ==
  (pc = "done" /\ res.ok) =>
    /\ answers[res.of].call = call /\ answers[res.of].hop = hops
    /\ LET frame == answers[res.of].ans.frame
           sent  == Payload(res.of, frame, method)
       IN  IF frame = "eof" THEN IsPrefix(res.body, sent) ELSE res.body = sent

\* include/http_client.h:15-17: body framing "is read back exactly, which is what
\* keeps the socket in sync for reuse".  While no connection is opened with old
\* bytes in the buffer, every call gets the whole answer to its own request,
\* across reuse, retries, redirects, cuts, late answers and any segmentation.
AnswersPair == ~stale => PairedResult

\* http_client.c:447 and include/http_client.h:52-54: a request is sent again once
\* at most, only if its method is idempotent, and never when a part of its answer
\* has been read.
SafeResend ==
  /\ tries <= 2 /\ (tries = 2 => idempotent(method))
  /\ ~stale => ~heard

\* include/http_client.h:14: the client "transparently reconnects when the server
\* drops" the connection.  An idempotent call fails only if something went wrong
\* with its peer during the call: the end of an old connection, the leftovers of
\* an earlier answer or a redirect never surface as an error.
Transparent ==
  (pc = "done" /\ ~res.ok /\ idempotent(method) /\ ~stale) => faults # {}

\* The peers read what they are sent, or close.  The client does not see to that.
PeerReads == (pc = "write") ~> (pc # "write")

\* do_request (http_client.c:724-726) arms the deadline for every attempt: a call of
\* a client whose timeout is not 0 returns whatever the peer answers or does not
\* answer, on old connections too, and follows a bounded number of redirects, if
\* the peer reads the request.
CallReturns ==
  PeerReads => ((pc = "send" /\ deadline) ~> (pc \in {"idle", "none"}))

\* include/http_client.h:15-17 without the proviso: also after a response was cut
\* short or came with surplus bytes, the next call gets the answer to its request.
InSync == PairedResult
=============================================================================
