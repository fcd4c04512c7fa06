------------------------------ MODULE WebSocket -----------------------------
(***************************************************************************)
(* src/http/ws.c: the upgrade, reading frames out of a fixed buffer that   *)
(* starts with what the client pipelined, and the loop that answers pings  *)
(* and closes.                                                             *)
(*                                                                         *)
(* A frame travels as units: one for its two fixed bytes, those of its     *)
(* extended length, one for the mask and one per unit of payload.          *)
(***************************************************************************)
EXTENDS Naturals, Sequences, FiniteSets, FiniteSetsExt, SequencesExt

CONSTANTS Frames,    \* what a client may send: [op, fin, len, bad]
          Staging,   \* default capacity of the read buffer
          Slack,     \* room it gets behind a longer leftover
          PayloadCap,\* the application's buffer
          MaxFrames  \* bound on the frames sent

VARIABLES pc,     \* "upgrade", "fixed", "length", "payload", "got", "refused", "ended"
          cap,    \* capacity of the read buffer
          rb,     \* units in it
          wire,   \* units on their way
          sent,   \* frames sent so far
          frame,  \* the frame just read: its number and payload, or the one being read
          seen,   \* messages the application got
          out,    \* frames the server sent
          ret     \* how the loop ended: "none", "clean", "stopped", "broken", "rejected", "lost"

vars == <<pc, cap, rb, wire, sent, frame, seen, out, ret>>

Control  == {"close", "ping", "pong"}
Ext(len) == IF len < 2 THEN 0 ELSE len - 1
Hdr(f)   == 1 + Ext(f.len)
Size(f)  == Hdr(f) + 1 + f.len

\* The units of the n-th frame sent.
UnitsOf(n, f) == [i \in 1 .. Size(f) |-> <<n, i>>]
PayloadOf(n, f) == [i \in 1 .. f.len |-> <<n, Hdr(f) + 1 + i>>]

NoFrame == [of |-> 0, data |-> << >>]

-----------------------------------------------------------------------------
Init ==
  /\ pc = "upgrade" /\ cap = 0 /\ rb = << >> /\ wire = << >> /\ sent = << >>
  /\ frame = NoFrame /\ seen = << >> /\ out = << >> /\ ret = "none"

\* The client, before and after the upgrade.
Sends(f) ==
  /\ Len(sent) < MaxFrames
  /\ sent' = Append(sent, f) /\ wire' = wire \o UnitsOf(Len(sent'), f)
  /\ UNCHANGED <<pc, cap, rb, frame, seen, out, ret>>

\* One of the conditions on the handshake fails and the handler replies 400.
UpgradeRefused ==
  /\ pc = "upgrade" /\ pc' = "refused"
  /\ UNCHANGED <<cap, rb, wire, sent, frame, seen, out, ret>>

\* Capacity of the buffer for n leftover units.
ws_trampoline(n) == Max({n + Slack, Staging})

\* The first n units were read along with the request.
http_ws_upgrade(n) ==
  /\ pc = "upgrade" /\ pc' = "fixed" /\ n <= Len(wire)
  /\ cap' = ws_trampoline(n)
  /\ rb' = SubSeq(wire, 1, n) /\ wire' = SubSeq(wire, n + 1, Len(wire))
  /\ UNCHANGED <<sent, frame, seen, out, ret>>

-----------------------------------------------------------------------------
(* http_ws_read_frame.  The frame at the front is read from its own units. *)

FrontFrame == sent[rb[1][1]]

\* One more than the frame has.
Need_OneMore ==
  CASE pc = "fixed"   -> 1
    [] pc = "length"  -> Hdr(FrontFrame)
    [] pc = "payload" -> Size(FrontFrame) + 1
    [] OTHER          -> 0

\* Units the next step needs: the fixed part, the length, the whole frame.
Need ==
  CASE pc = "fixed"   -> 1
    [] pc = "length"  -> Hdr(FrontFrame)
    [] pc = "payload" -> Size(FrontFrame)
    [] OTHER          -> 0

Short == pc \in {"fixed", "length", "payload"} /\ Len(rb) < Need

Ends(why) == pc' = "ended" /\ ret' = why

\* ws_ensure blocks in recv, which fills at most the room in the buffer.
Receives ==
  /\ Short
  /\ \E n \in 1 .. Min({Len(wire), cap - Len(rb)}) :
       rb' = rb \o SubSeq(wire, 1, n) /\ wire' = SubSeq(wire, n + 1, Len(wire))
  /\ UNCHANGED <<pc, cap, sent, frame, seen, out, ret>>

\* The client is silent for too long or gone.
ReceiveFails ==
  /\ Short /\ wire = << >> /\ Ends("lost")
  /\ UNCHANGED <<cap, rb, wire, sent, frame, seen, out>>

BufferFull ==
  /\ Short /\ Len(rb) >= cap /\ Ends("rejected")
  /\ UNCHANGED <<cap, rb, wire, sent, frame, seen, out>>

\* Reserved bits and opcodes, unmasked frames, fragmented or long control frames.
Forbidden(f) == f.bad \/ (f.op \in Control /\ (~f.fin \/ f.len > 1))

TooLong(f) == f.len > PayloadCap

FixedRead ==
  /\ pc = "fixed" /\ ~Short
  /\ IF Forbidden(FrontFrame) THEN Ends("rejected") ELSE pc' = "length" /\ UNCHANGED ret
  /\ UNCHANGED <<cap, rb, wire, sent, frame, seen, out>>

LengthRead ==
  /\ pc = "length" /\ ~Short
  /\ IF TooLong(FrontFrame) THEN Ends("rejected") ELSE pc' = "payload" /\ UNCHANGED ret
  /\ UNCHANGED <<cap, rb, wire, sent, frame, seen, out>>

PayloadRead ==
  /\ pc = "payload" /\ ~Short /\ pc' = "got"
  /\ frame' = [of |-> rb[1][1], data |-> SubSeq(rb, Hdr(FrontFrame) + 2, Size(FrontFrame))]
  /\ rb' = SubSeq(rb, Size(FrontFrame) + 1, Len(rb))
  /\ UNCHANGED <<cap, wire, sent, seen, out, ret>>

-----------------------------------------------------------------------------
(* http_ws_loop.                                                           *)

Op == sent[frame.of].op

\* A send, header and payload; the loop ignores its result.
http_ws_send(op, data) == out' = Append(out, [op |-> op, data |-> data])

LoopCloses ==
  /\ pc = "got" /\ Op = "close" /\ http_ws_send("close", << >>) /\ Ends("clean")
  /\ UNCHANGED <<cap, rb, wire, sent, frame, seen>>

\* The pong sent without the ping's payload.
PongData_Empty == << >>

PongData == frame.data

LoopPongs ==
  /\ pc = "got" /\ Op = "ping" /\ http_ws_send("pong", PongData) /\ pc' = "fixed"
  /\ UNCHANGED <<cap, rb, wire, sent, frame, seen, ret>>

LoopIgnores ==
  /\ pc = "got" /\ Op = "pong" /\ pc' = "fixed"
  /\ UNCHANGED <<cap, rb, wire, sent, frame, seen, out, ret>>

\* on_message goes on or stops the loop.
LoopDelivers ==
  /\ pc = "got" /\ Op \notin Control /\ seen' = Append(seen, frame)
  /\ (pc' = "fixed" /\ UNCHANGED ret) \/ Ends("stopped")
  /\ UNCHANGED <<cap, rb, wire, sent, frame, out>>

Next ==
  \/ \E f \in Frames : Sends(f)
  \/ \E n \in 0 .. Len(wire) : http_ws_upgrade(n)
  \/ UpgradeRefused \/ Receives \/ ReceiveFails \/ BufferFull
  \/ FixedRead \/ LengthRead \/ PayloadRead
  \/ LoopCloses \/ LoopPongs \/ LoopIgnores \/ LoopDelivers

Spec == Init /\ [][Next]_vars

-----------------------------------------------------------------------------
\* The elements of s at the places in S, in order.
Pick(s, S) ==
  LET pick[n \in 0 .. Len(s)] ==
        IF n = 0 THEN << >> ELSE IF n \in S THEN Append(pick[n - 1], s[n]) ELSE pick[n - 1]
  IN  pick[Len(s)]

\* How many frames the loop is done with: it may have the last one read still in hand.
Handled == IF pc = "got" THEN frame.of - 1 ELSE frame.of

\* include/ws.h:54-67, 86-90: however the stream is split, pipelined behind the
\* handshake or squeezed into the buffer, the application gets the data frames
\* whole and in order, none is left out and none comes twice; each ping is answered
\* once, in order and with its payload; a close is answered with one close and is
\* the last frame handled, no other frame that is handled is, and nothing that has
\* to be refused is handled.  What a refused client is told is left open here.
ConversationFaithful ==
  LET all    == [n \in 1 .. Handled |-> [of |-> n, data |-> PayloadOf(n, sent[n])]]
      pings  == Pick(all, {n \in 1 .. Handled : sent[n].op = "ping"})
      pongs  == Pick(out, {i \in 1 .. Len(out) : out[i].op = "pong"})
      closes == Pick(out, {i \in 1 .. Len(out) : out[i].op = "close"})
  IN  /\ seen = Pick(all, {n \in 1 .. Handled : sent[n].op \notin Control})
      /\ Len(pongs) = Len(pings) /\ \A i \in 1 .. Len(pings) : pongs[i].data = pings[i].data
      /\ ret # "rejected" => Len(closes) = (IF ret = "clean" THEN 1 ELSE 0)
      /\ \A n \in 1 .. Handled : /\ ~Forbidden(sent[n]) /\ ~TooLong(sent[n])
                                 /\ sent[n].op = "close" => ret = "clean" /\ n = Handled

\* ws.c:238-330: the reader gives up on a client only for a frame the protocol
\* forbids, one over the application's buffer or one that the whole staging
\* buffer cannot hold; what is pipelined ahead of a frame never crowds it out.
GoodFramesRead ==
  ret = "rejected" => Forbidden(FrontFrame) \/ TooLong(FrontFrame) \/ Size(FrontFrame) > Staging
=============================================================================
