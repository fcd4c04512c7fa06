----------------------------- MODULE Connection -----------------------------
(***************************************************************************)
(* One HTTP/1.1 connection: serve_connection of src/http/server.c, with    *)
(* the request parser and the chunked decoder of src/http/request.c and    *)
(* the read buffer of src/utils/buffer.c.                                  *)
(*                                                                         *)
(* The bytes of a connection are abstracted to units.  A request is a      *)
(* header block of request.head units followed by the units of its body;   *)
(* a unit records the request it belongs to, its place in it and its kind. *)
(* A recv returns any non-empty run of the units still to come, so every   *)
(* split of the stream into segments is explored.                          *)
(*                                                                         *)
(* The units of a chunked body are "size" (the hexadecimal size of a chunk *)
(* of one data unit), "zero" (the size of the last chunk), "nl" (CRLF),    *)
(* "data", and others for trailer lines and for what is not a number.  A   *)
(* body with a declared length is made of "data" units.                    *)
(***************************************************************************)
EXTENDS Naturals, Sequences, FiniteSets, SequencesExt

CONSTANTS Scripts,   \* the sequences of requests a client may send
          Configs,   \* the server configurations: subset of {"null", "ram", "dir"}
          Caps,      \* the values of max_body, in units
          Stage      \* the size of the spill arm's stage buffer, in units

ASSUME Capacities == Caps \subseteq Nat \ {0} /\ Stage \in Nat \ {0}

VARIABLES script,    \* what the client sends; fixed by Init
          cfg,       \* "null": cfg == NULL, "ram": no body_dir, "dir": body_dir
          cap,       \* max_body, the capacity of the read buffer
          ssl,       \* whether the connection is TLS (with ALPN http/1.1)
          taken,     \* how many units of the script recv has returned
          pc,        \* where serve_connection is
          rb,        \* the units in the read buffer
          cur,       \* the request that is being assembled or served, or 0
          req,       \* what is known of it once it is ready to dispatch
          continue_sent,
          route_timeout_active,
          spill_fd,  \* a spill file is open for writing
          spilled,   \* the body units written to it
          files,     \* spill files that exist in body_dir
          out,       \* the responses sent, in order
          seen       \* the requests handed to the handler, in order

vars == <<script, cfg, cap, ssl, taken, pc, rb, cur, req, continue_sent, route_timeout_active,
          spill_fd, spilled, files, out, seen>>

\* The client's side of the connection: every unit of the script, in order.
Units(i) ==
  LET r == script[i]
  IN  [k \in 1 .. (r.head + Len(r.body)) |->
        [req |-> i, pos |-> k,
         kind |-> IF k > r.head THEN r.body[k - r.head]
                  ELSE IF k = 1 /\ r.proto = "pri" THEN "pri" ELSE "head"]]

Wire == FlattenSeq([i \in 1 .. Len(script) |-> Units(i)])

Body(i) == SubSeq(Units(i), script[i].head + 1, script[i].head + Len(script[i].body))

FinalStatus == {101, 200, 400, 408, 413, 417, 500, 504}

Answered(i) == \E k \in 1 .. Len(out) : out[k].req = i /\ out[k].status \in FinalStatus

Continued(i) == \E k \in 1 .. Len(out) : out[k] = [req |-> i, status |-> 100]

\* A client that said "Expect: 100-continue" holds its body until it has read an
\* answer to that request.
Holding(i) ==
  /\ script[i].expect = "continue"
  /\ ~Continued(i) /\ ~Answered(i)

Held(n) == LET u == Wire[n]
           IN  u.pos > script[u.req].head /\ Holding(u.req)

\* The units recv could return now.
Available ==
  LET coming == {n \in (taken + 1) .. Len(Wire) : \A m \in (taken + 1) .. n : ~Held(m)}
  IN  Cardinality(coming)

\* A segment may end at unit n.  A request marked whole is cut at most behind its
\* header block and at the places it names.
SegmentEnd(n) ==
  LET u == Wire[n]
      r == script[u.req]
  IN  r.whole => u.pos \in {r.head, r.head + Len(r.body)} \cup r.cuts

-----------------------------------------------------------------------------
(***************************************************************************)
(* http_request_parse_adv over the buffer.                                 *)
(***************************************************************************)
IsNl(b, n) == b[n].kind = "nl"

\* The first unit from r on that is not a line end.
SkipNl(b, r) ==
  LET text == {n \in r .. Len(b) : ~IsNl(b, n)}
  IN  IF text = {} THEN Len(b) + 1 ELSE Min(text)

\* sv_trim drops line ends in front of the request line.  (A header block of
\* nothing but line ends, which the parser would accept, is in no script.)
Start(b) == SkipNl(b, 1)

\* find_header_end: the blank line is the end of some request's header block,
\* or two line ends in a row.  0 when none has arrived.  (The blank line is one
\* unit, so no segment ends inside it, where the code would look at the byte behind
\* the last one that has arrived.)
find_header_end(b) ==
  LET ends == {n \in 1 .. Len(b) :
                 \/ b[n].pos = script[b[n].req].head
                 \/ n > 1 /\ IsNl(b, n) /\ IsNl(b, n - 1)}
  IN  IF ends = {} THEN 0 ELSE Min(ends)

\* The units up to the blank line are one whole header block.
WholeHead(b, end) ==
  LET f == Start(b)
  IN  /\ f <= end
      /\ b[f].pos = 1
      /\ end - f + 1 = script[b[f].req].head
      /\ script[b[f].req].wellformed

http_request_parse_adv(b) ==
  LET end == find_header_end(b)
      i   == b[Start(b)].req
      r   == script[i]
  IN  IF end = 0
        THEN [result |-> "incomplete", req |-> 0, offset |-> 0, consumed |-> 0]
      ELSE IF ~WholeHead(b, end)
        THEN [result |-> "error", req |-> 0, offset |-> 0, consumed |-> 0]
      ELSE IF r.length > Len(b) - end
        THEN [result |-> "incomplete", req |-> i, offset |-> end, consumed |-> 0]
      ELSE [result |-> "ok", req |-> i, offset |-> end, consumed |-> end + r.length]

(***************************************************************************)
(* http_request_decode_chunked.  The payloads are slid over the framing in *)
(* place: the writing cursor never overtakes the reading one, so what is   *)
(* read in this pass is what had arrived, but what a later pass reads is   *)
(* the buffer this one leaves behind.                                      *)
(***************************************************************************)
Step(res, next, payload) == [res |-> res, next |-> next, payload |-> payload]

\* One chunk of b, whose size line is at r: the decoder's verdict on it.
OneChunk(b, r) ==
  IF r > Len(b) THEN Step("more", r, << >>)
  ELSE IF b[r].kind \notin {"size", "zero"} \/ r + 1 > Len(b) \/ ~IsNl(b, r + 1)
    THEN Step("bad", r, << >>)
  ELSE IF b[r].kind = "zero"
    THEN IF r + 2 > Len(b) THEN Step("done", r + 2, << >>)
         ELSE IF IsNl(b, r + 2) THEN Step("done", r + 3, << >>)
         ELSE IF r + 3 <= Len(b) /\ IsNl(b, r + 3) THEN Step("done", r + 4, << >>)
         ELSE Step("more", r, << >>)
  ELSE IF r + 2 > Len(b) THEN Step("more", r, << >>)
  ELSE IF r + 3 > Len(b) \/ ~IsNl(b, r + 3) THEN Step("bad", r, <<b[r + 2]>>)
  ELSE Step("next", r + 4, <<b[r + 2]>>)

Unfold_SamePlace(first, rest) == IF rest = << >> THEN first ELSE rest
Unfold(first, rest) == first \o rest

\* The decoder's verdict on the chunks of b from r on: the one on the chunk it stops
\* at, with the payloads of all of them.
Decode(b, r) ==
  LET NextAt(n) == SkipNl(b, OneChunk(b, n).next)
      Stop[n \in 1 .. (Len(b) + 1)] ==
        IF OneChunk(b, n).res # "next" THEN n ELSE Stop[NextAt(n)]
      Slid[n \in 1 .. (Len(b) + 1)] ==
        IF OneChunk(b, n).res # "next" THEN OneChunk(b, n).payload
        ELSE Unfold(OneChunk(b, n).payload, Slid[NextAt(n)])
      last == OneChunk(b, Stop[SkipNl(b, r)])
  IN  Step(last.res, last.next, Slid[SkipNl(b, r)])

InPlace(b, payload) == payload \o SubSeq(b, Len(payload) + 1, Len(b))

-----------------------------------------------------------------------------
Send(status) == out' = Append(out, [req |-> cur', status |-> status])

NoRequest == [freed |-> FALSE, body |-> << >>, consumed |-> 0]

Leave ==
  /\ pc' = "gone"
  /\ rb' = << >>
  /\ UNCHANGED <<script, cfg, cap, ssl, taken, req, continue_sent, route_timeout_active, seen>>

Init ==
  /\ script \in Scripts
  /\ cfg \in Configs
  /\ cap \in Caps
  /\ ssl \in BOOLEAN
  /\ ssl => script[1].proto # "pri"    \* prior knowledge is for plaintext
  /\ taken = 0
  /\ pc = IF ssl THEN "parse" ELSE "sniff"
  /\ rb = << >>
  /\ cur = 0
  /\ req = NoRequest
  /\ continue_sent = FALSE
  /\ route_timeout_active = FALSE
  /\ spill_fd = FALSE
  /\ spilled = << >>
  /\ files = 0
  /\ out = << >>
  /\ seen = << >>

(***************************************************************************)
(* fill_more, called from the sniffing loops and from the parse loop.      *)
(***************************************************************************)
MagicUnits == 2   \* the 24 octets of the HTTP/2 preface

WantsBytes == \/ pc = "sniff" /\ Len(rb) = 0
              \/ pc = "magic" /\ Len(rb) < MagicUnits
              \/ pc = "fill"

\* The space behind the units in the buffer: a recv is asked for no more.
rb_write_head == cap - Len(rb)

fill_more(n) ==
  /\ WantsBytes
  /\ n <= Available
  /\ n <= rb_write_head
  /\ n = rb_write_head \/ SegmentEnd(taken + n)
  /\ rb' = rb \o SubSeq(Wire, taken + 1, taken + n)
  /\ taken' = taken + n
  /\ pc' = IF pc = "fill" THEN "parse" ELSE pc
  /\ UNCHANGED <<script, cfg, cap, ssl, cur, req, continue_sent, route_timeout_active,
                 spill_fd, spilled, files, out, seen>>

\* The request a timeout is about: the one at the front of the buffer.
FrontRequest == IF rb = << >> THEN 0 ELSE rb[1].req

TimeoutStatus == IF route_timeout_active THEN 504 ELSE 408

StallSilent_Never == FALSE
StallSilent == rb = << >>

fill_more_stalls_Retry ==
  /\ WantsBytes
  /\ UNCHANGED vars
fill_more_stalls ==
  /\ WantsBytes
  /\ cur' = FrontRequest
  /\ IF StallSilent THEN UNCHANGED out ELSE Send(TimeoutStatus)
  /\ Leave
  /\ UNCHANGED <<spill_fd, spilled, files>>

\* The peer closed, the socket failed or a signal interrupted the recv.
fill_more_fails ==
  /\ WantsBytes
  /\ Leave
  /\ UNCHANGED <<cur, spill_fd, spilled, files, out>>

(***************************************************************************)
(* The plaintext sniff for the HTTP/2 preface.                             *)
(***************************************************************************)
Sniff ==
  /\ pc = "sniff"
  /\ Len(rb) > 0
  /\ pc' = IF rb[1].kind = "pri" THEN "magic" ELSE "parse"
  /\ UNCHANGED <<script, cfg, cap, ssl, taken, rb, cur, req, continue_sent, route_timeout_active,
                 spill_fd, spilled, files, out, seen>>

SniffMagic ==
  /\ pc = "magic"
  /\ Len(rb) >= MagicUnits
  /\ pc' = IF rb[2].kind = "magic" THEN "h2" ELSE "parse"
  /\ UNCHANGED <<script, cfg, cap, ssl, taken, rb, cur, req, continue_sent, route_timeout_active,
                 spill_fd, spilled, files, out, seen>>

(***************************************************************************)
(* The parse loop.  P is what the parser says of the buffer.               *)
(***************************************************************************)
P == http_request_parse_adv(rb)

Expect == IF P.req = 0 \/ continue_sent THEN "none" ELSE script[P.req].expect

TooLong == script[P.req].length > cap

Full == Len(rb) >= cap

Incomplete == pc = "parse" /\ P.result = "incomplete"

\* A request on a NULL configuration dereferences it in both places below.
NullConfig ==
  /\ Incomplete
  /\ cfg = "null"
  /\ Expect = "continue" \/ (Expect = "none" /\ Full)
  /\ pc' = "crashed"
  /\ UNCHANGED <<script, cfg, cap, ssl, taken, rb, cur, req, continue_sent, route_timeout_active,
                 spill_fd, spilled, files, out, seen>>

ExpectUnknown ==
  /\ Incomplete
  /\ Expect = "unknown"
  /\ cur' = P.req
  /\ Send(417)
  /\ Leave
  /\ UNCHANGED <<spill_fd, spilled, files>>

ExpectTooLong ==
  /\ Incomplete
  /\ cfg = "ram"
  /\ Expect = "continue"
  /\ TooLong
  /\ cur' = P.req
  /\ Send(413)
  /\ Leave
  /\ UNCHANGED <<spill_fd, spilled, files>>

\* The pass goes on after the 100; the rest of it is the next step.
Interim == TRUE

send_continue ==
  /\ Incomplete
  /\ cfg # "null"
  /\ Expect = "continue"
  /\ ~(cfg = "ram" /\ TooLong)
  /\ cur' = P.req
  /\ Send(100)
  /\ continue_sent' = Interim
  /\ UNCHANGED <<script, cfg, cap, ssl, taken, pc, rb, req, route_timeout_active,
                 spill_fd, spilled, files, seen>>

ReadOn ==
  /\ Incomplete
  /\ Expect = "none"
  /\ ~Full
  /\ pc' = "fill"
  /\ UNCHANGED <<script, cfg, cap, ssl, taken, rb, cur, req, continue_sent, route_timeout_active,
                 spill_fd, spilled, files, out, seen>>

\* A full buffer that holds the start of a body longer than it spills.
MaySpill ==
  /\ cfg = "dir"
  /\ P.req # 0
  /\ TooLong
  /\ Len(rb) > P.offset

Oversized ==
  /\ Incomplete
  /\ cfg # "null"
  /\ Expect = "none"
  /\ Full
  /\ ~MaySpill
  /\ cur' = rb[Start(rb)].req
  /\ Send(413)
  /\ Leave
  /\ UNCHANGED <<spill_fd, spilled, files>>

SpillStarts ==
  /\ Incomplete
  /\ Expect = "none"
  /\ Full
  /\ MaySpill
  /\ cur' = P.req
  /\ spill_fd' = TRUE
  /\ files' = files + 1
  /\ spilled' = SubSeq(rb, P.offset + 1, Len(rb))
  /\ rb' = SubSeq(rb, 1, P.offset)
  /\ pc' = "spill"
  /\ UNCHANGED <<script, cfg, cap, ssl, taken, req, continue_sent, route_timeout_active, out, seen>>

\* body_dir cannot be opened, or the first write fails and the file is removed.
SpillStartFails ==
  /\ Incomplete
  /\ Expect = "none"
  /\ Full
  /\ MaySpill
  /\ cur' = P.req
  /\ Send(500)
  /\ Leave
  /\ UNCHANGED <<spill_fd, spilled, files>>

(***************************************************************************)
(* The spill arm: the declared body streams from the socket to the file.   *)
(***************************************************************************)
Declared == script[cur].length

Abandon_KeepsFile == files' = files /\ spill_fd' = FALSE
Abandon == files' = files - 1 /\ spill_fd' = FALSE

SpillGrows(n) ==
  /\ pc = "spill"
  /\ n <= Available /\ n <= Stage
  /\ Len(spilled) + n < Declared
  /\ spilled' = spilled \o SubSeq(Wire, taken + 1, taken + n)
  /\ taken' = taken + n
  /\ UNCHANGED <<script, cfg, cap, ssl, pc, rb, cur, req, continue_sent, route_timeout_active,
                 spill_fd, files, out, seen>>

\* Units past the declared body are parked behind the header block.  Nothing looks
\* at the capacity: what happens once more is written than there is room for is
\* undefined, and not followed any further.
Park_Dropped(rest) == rb
Park(rest) == rb \o rest

SpillCompletes(n) ==
  LET take == Declared - Len(spilled)
  IN  /\ pc = "spill"
      /\ n <= Available /\ n <= Stage
      /\ n >= take
      /\ spilled' = << >>
      /\ taken' = taken + n
      /\ rb' = Park(SubSeq(Wire, taken + take + 1, taken + n))
      /\ spill_fd' = FALSE
      /\ req' = [freed |-> FALSE, consumed |-> Len(rb),
                 body |-> spilled \o SubSeq(Wire, taken + 1, taken + take)]
      /\ pc' = IF Len(rb') > cap THEN "overrun" ELSE "ready"
      /\ UNCHANGED <<script, cfg, cap, ssl, cur, continue_sent, route_timeout_active, files, out, seen>>

SpillStalls ==
  /\ pc = "spill"
  /\ UNCHANGED cur
  /\ Send(TimeoutStatus)
  /\ Leave
  /\ Abandon
  /\ UNCHANGED spilled

SpillPeerGone ==
  /\ pc = "spill"
  /\ Leave
  /\ Abandon
  /\ UNCHANGED <<cur, spilled, out>>

\* A write or the mmap of the finished file fails.
SpillIoFails ==
  /\ pc = "spill"
  /\ Available > 0
  /\ UNCHANGED cur
  /\ Send(500)
  /\ Leave
  /\ Abandon
  /\ UNCHANGED spilled

(***************************************************************************)
(* A request the parser accepts or refuses.                                *)
(***************************************************************************)
Malformed ==
  /\ pc = "parse"
  /\ P.result = "error"
  /\ cur' = rb[1].req
  /\ Send(400)
  /\ Leave
  /\ UNCHANGED <<spill_fd, spilled, files>>

Parsed == pc = "parse" /\ P.result = "ok"

Payload == SubSeq(rb, P.offset + 1, Len(rb))

\* Without a declared length the body is all that has arrived.
BodyEnd_AllArrived == Len(rb)
BodyEnd == IF script[P.req].declared THEN P.consumed ELSE Len(rb)

ParsedPlain ==
  /\ Parsed
  /\ ~script[P.req].chunked
  /\ cur' = P.req
  /\ req' = [freed |-> FALSE, consumed |-> P.consumed,
             body |-> SubSeq(rb, P.offset + 1, BodyEnd)]
  /\ pc' = "ready"
  /\ UNCHANGED <<script, cfg, cap, ssl, taken, rb, continue_sent, route_timeout_active,
                 spill_fd, spilled, files, out, seen>>

\* A declared length next to chunked framing is refused outright.
D == IF script[P.req].declared THEN Step("bad", 1, << >>) ELSE Decode(rb, P.offset + 1)

ChunkedConsumed == D.next - 1

ChunkedDone ==
  /\ Parsed
  /\ script[P.req].chunked
  /\ D.res = "done"
  /\ cur' = P.req
  /\ req' = [freed |-> FALSE, consumed |-> ChunkedConsumed, body |-> D.payload]
  /\ rb' = SubSeq(rb, 1, P.offset) \o InPlace(Payload, D.payload)
  /\ pc' = "ready"
  /\ UNCHANGED <<script, cfg, cap, ssl, taken, continue_sent, route_timeout_active,
                 spill_fd, spilled, files, out, seen>>

ChunkedMore ==
  /\ Parsed
  /\ script[P.req].chunked
  /\ D.res = "more"
  /\ ~Full
  /\ rb' = SubSeq(rb, 1, P.offset) \o InPlace(Payload, D.payload)
  /\ pc' = "fill"
  /\ UNCHANGED <<script, cfg, cap, ssl, taken, cur, req, continue_sent, route_timeout_active,
                 spill_fd, spilled, files, out, seen>>

ChunkedOversized ==
  /\ Parsed
  /\ script[P.req].chunked
  /\ D.res = "more"
  /\ Full
  /\ cur' = P.req
  /\ Send(413)
  /\ Leave
  /\ UNCHANGED <<spill_fd, spilled, files>>

\* The 400 goes out and the inner loop is left with pr == REQ_OK: the request,
\* its headers freed, goes on to be dispatched.
ChunkedMalformed ==
  /\ Parsed
  /\ script[P.req].chunked
  /\ D.res = "bad"
  /\ cur' = P.req
  /\ Send(400)
  /\ req' = [freed |-> TRUE, consumed |-> P.consumed, body |-> InPlace(Payload, D.payload)]
  /\ rb' = SubSeq(rb, 1, P.offset) \o InPlace(Payload, D.payload)
  /\ pc' = "ready"
  /\ UNCHANGED <<script, cfg, cap, ssl, taken, continue_sent, route_timeout_active,
                 spill_fd, spilled, files, seen>>

-----------------------------------------------------------------------------
(***************************************************************************)
(* From a complete request to its response.                                *)
(***************************************************************************)
Ready == pc = "ready"

\* http_request_free unlinks the file behind a spilled body.
FreeRequest == files' = 0

UpgradeH2c ==
  /\ Ready
  /\ ~ssl /\ ~req.freed
  /\ script[cur].proto = "h2c"
  /\ pc' = "h2"
  /\ UNCHANGED <<script, cfg, cap, ssl, taken, rb, cur, req, continue_sent, route_timeout_active,
                 spill_fd, spilled, files, out, seen>>

\* h2_serve returns; the request it was given as stream 1 is freed only now.
H2Returns ==
  /\ pc = "h2"
  /\ Leave
  /\ FreeRequest
  /\ UNCHANGED <<cur, spill_fd, spilled, out>>

Http1 == Ready /\ (ssl \/ req.freed \/ script[cur].proto # "h2c")

Encoded == IF req.freed THEN "no" ELSE script[cur].gzip

InflateFails ==
  /\ Http1
  /\ Encoded \in {"corrupt", "bomb"}
  /\ UNCHANGED cur
  /\ Send(IF Encoded = "corrupt" THEN 400 ELSE 413)
  /\ Leave
  /\ FreeRequest
  /\ UNCHANGED <<spill_fd, spilled>>

conn_keep_alive == IF req.freed THEN script[cur].http11 ELSE script[cur].keep

Handled == seen' = Append(seen, [req |-> cur, body |-> req.body])

\* The handler took the connection over: the head goes out and, on a plaintext
\* connection, the socket and the units behind the request go to the protocol.
handle_upgrade ==
  /\ Http1
  /\ Encoded \in {"no", "valid"}
  /\ script[cur].proto = "upgrade"
  /\ Handled
  /\ UNCHANGED cur
  /\ Send(101)
  /\ pc' = "gone"
  /\ rb' = << >>
  /\ FreeRequest
  /\ UNCHANGED <<script, cfg, cap, ssl, taken, req, continue_sent, route_timeout_active,
                 spill_fd, spilled>>

rb_discard(b, n) == IF n > Len(b) THEN << >> ELSE SubSeq(b, n + 1, Len(b))

\* The next request starts without a 100 of its own.
NextContinueSent_Kept == continue_sent
NextContinueSent == FALSE

Respond ==
  /\ Http1
  /\ Encoded \in {"no", "valid"}
  /\ script[cur].proto # "upgrade"
  /\ Handled
  /\ cur' = cur
  /\ Send(200)
  /\ route_timeout_active' = script[cur].slow
  /\ FreeRequest
  /\ rb' = IF conn_keep_alive THEN rb_discard(rb, req.consumed) ELSE << >>
  /\ pc' = IF conn_keep_alive THEN "parse" ELSE "gone"
  /\ continue_sent' = NextContinueSent
  /\ req' = NoRequest
  /\ UNCHANGED <<script, cfg, cap, ssl, taken, spill_fd, spilled>>

\* The worker has left serve_connection, or what it does is no longer defined.
Over ==
  /\ pc \in {"gone", "crashed", "overrun"}
  /\ UNCHANGED vars

Sizes == 1 .. Max({cap, Stage})

Receive == \/ \E n \in Sizes : fill_more(n) \/ SpillGrows(n) \/ SpillCompletes(n)
           \/ fill_more_stalls \/ SpillStalls

Fail == fill_more_fails \/ SpillPeerGone \/ SpillIoFails

Decide == \/ Sniff \/ SniffMagic
          \/ NullConfig \/ ExpectUnknown \/ ExpectTooLong \/ send_continue
          \/ ReadOn \/ Oversized \/ SpillStarts \/ SpillStartFails
          \/ Malformed \/ ParsedPlain
          \/ ChunkedDone \/ ChunkedMore \/ ChunkedOversized \/ ChunkedMalformed
          \/ UpgradeH2c \/ InflateFails \/ handle_upgrade \/ Respond

Next == Receive \/ Fail \/ Decide \/ H2Returns \/ Over

Spec == Init /\ [][Next]_vars

\* The worker thread runs; a recv that no unit ends is ended by SO_RCVTIMEO.
\* Nothing says that the peer ever closes.
FairSpec == Spec /\ WF_vars(Receive) /\ WF_vars(Decide)
-----------------------------------------------------------------------------
(***************************************************************************)
(* Properties.                                                             *)
(***************************************************************************)
Unit == [req : Nat, pos : Nat, kind : STRING]

\* Every variable has the shape the C declarations give it.
TypeOK ==
  /\ pc \in {"sniff", "magic", "parse", "fill", "spill", "ready", "gone", "h2", "crashed",
            "overrun"}
  /\ taken \in 0 .. Len(Wire)
  /\ \A n \in 1 .. Len(rb) : rb[n] \in Unit
  /\ cur \in 0 .. Len(script)
  /\ continue_sent \in BOOLEAN /\ route_timeout_active \in BOOLEAN /\ spill_fd \in BOOLEAN
  /\ files \in Nat
  /\ \A k \in 1 .. Len(out) : out[k].status \in FinalStatus \cup {100}

\* The segments of a chunked body end where the decoder can resume: behind the header
\* block or behind the first size line, while nothing has been slid over the framing.
Resumable(i) ==
  script[i].chunked => script[i].whole /\ script[i].cuts \subseteq {script[i].head + 2}

\* A chunked body was refused with a 400.  Its request is dispatched nevertheless
\* (ChunkedMalformed), and what has arrived of its body is read as a request.
Refused(i) == script[i].chunked /\ \E k \in 1 .. Len(out) : out[k] = [req |-> i, status |-> 400]

Readable(i) == Resumable(i) /\ ~Refused(i)

\* The client can pair responses with requests: the final responses answer
\* different requests in the order they were sent, and a response the server
\* gives up the connection with is the last thing it sends.  (A chunked body that is
\* refused, server.c:731, or that the decoder cannot resume is the exception.)
OneAnswerEach ==
  /\ \A j, k \in {n \in 1 .. Len(out) : out[n].status \in FinalStatus} :
       j < k => out[j].req < out[k].req \/ (out[j].req = out[k].req /\ ~Readable(out[j].req))
  /\ \A k \in 1 .. (Len(out) - 1) : out[k].status \in {100, 200} \/ ~Readable(out[k].req)

DataOf(i) == SelectSeq(Body(i), LAMBDA u : u.kind = "data")

\* The handler sees each request once, in order, and a declared body exactly as the
\* client sent it, however it was split, whether it stayed in RAM or went through
\* the spill file, and whatever was pipelined behind it.
BodyIntact ==
  /\ \A j, k \in 1 .. Len(seen) : j < k => seen[j].req < seen[k].req
  /\ \A k \in 1 .. Len(seen) :
       script[seen[k].req].declared => seen[k].body = Body(seen[k].req)

\* The handler sees a chunked body as the data the client put into its chunks,
\* although http_request_decode_chunked is run again over what it left behind each
\* time it found the body incomplete (include/request.h:126-129).
ChunkedIntact ==
  \A k \in 1 .. Len(seen) :
    script[seen[k].req].chunked => seen[k].body = DataOf(seen[k].req)

\* The handler sees a chunked body as the data of its chunks when its segments end
\* where the decoder can resume and the server does not refuse it.
ResumedIntact ==
  \A k \in 1 .. Len(seen) :
    script[seen[k].req].chunked /\ Readable(seen[k].req) => seen[k].body = DataOf(seen[k].req)

\* At most one spill file exists, open only while a body is being written to it,
\* and none is left behind when the connection is over, however it ended.
NoFileLeft ==
  /\ files <= 1
  /\ spill_fd => files = 1 /\ pc = "spill"
  /\ pc = "gone" => files = 0

EndOf(i) == LET ends == {n \in 1 .. Len(Wire) : Wire[n].req <= i} IN Cardinality(ends)
HeadEnd(i) == EndOf(i) - Len(script[i].body)

Waiting == WantsBytes \/ pc = "spill"

\* The server never waits for more bytes while a request that has arrived in
\* full has no answer: pipelined bytes are used before the next recv.  (The sniff for
\* the HTTP/2 preface may; so may the decoder, over chunks it cannot resume.)
NoStuckRequest ==
  Waiting /\ pc # "magic" =>
    \A i \in 1 .. Len(script) : taken >= EndOf(i) /\ Resumable(i) => Answered(i)

\* Server and client do not wait for each other: when the server waits for
\* bytes, no client whose header block has arrived is holding its body back
\* for a 100 Continue.  (A client that would send a chunked body is not sent one.)
NoStandoff ==
  Waiting => \A i \in 1 .. Len(script) :
               taken >= HeadEnd(i) /\ ~script[i].chunked => ~Holding(i)

\* A worker is never pinned: the connection ends or is handed to HTTP/2, however
\* the client frames and splits what it sends.  (Without a configuration the
\* worker may crash, and nothing is said of one that overran its buffer.)
ConnectionEnds == cfg # "null" => <>(pc \in {"gone", "h2", "overrun"})

=============================================================================
