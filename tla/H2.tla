--------------------------------- MODULE H2 ---------------------------------
(***************************************************************************)
(* One HTTP/2 connection: h2_serve of src/http/h2.c.  The worker thread    *)
(* reads a frame, processes it, dispatches the requests that are complete, *)
(* pumps what the flow-control windows allow of the responses and sweeps   *)
(* the streams that are over.                                              *)
(*                                                                         *)
(* A client sends frames of its set in any order.                          *)
(* Lengths and windows are counted in units.  A header block is abstracted *)
(* to the verdict of h2_request_from_block on it.                          *)
(***************************************************************************)
EXTENDS Integers, Sequences, FiniteSets, SequencesExt

CONSTANTS Clients,     \* kinds of client: the .frames each may send, how many at
                       \* .most (a bound), the .entries by which it may reach h2_serve
                       \* and the .responses of the handler: [left, how]
          Ids,         \* the stream ids the client uses
          InitWindow,  \* H2_INITIAL_WINDOW
          MaxWindow,   \* 2^31 - 1
          MaxFrame,    \* H2_MAX_FRAME_SIZE
          MaxStreams,  \* H2_MAX_CONCURRENT_STREAMS
          MaxBody,     \* c.max_body
          BlockCap     \* H2_HEADER_BLOCK_CAP

ASSUME Sizes ==
  /\ {InitWindow, MaxWindow, MaxFrame, MaxStreams, MaxBody, BlockCap} \subseteq Nat
  /\ InitWindow <= MaxWindow /\ MaxFrame > 0 /\ MaxStreams > 0
  /\ Ids \subseteq Nat \ {0} /\ 1 \in Ids

\* A frame as h2_frame_peek and the head of its handler see it: .ok says that its
\* length is right, .inc is a window or an increment, .err what a SETTINGS is
\* refused with.
FrameShape ==
  [type : {"data", "headers", "cont", "priority", "rst", "settings", "push", "ping", "goaway", "window",
           "unknown"},
   id : Ids \cup {0}, len : Nat, ok : BOOLEAN, ack : BOOLEAN, es : BOOLEAN, eh : BOOLEAN,
   block : {"request", "malformed", "undecodable"}, cl : Nat \cup {-1}, zip : {"no", "corrupt", "bomb"},
   inc : Nat \cup {-1}, err : {"none", "protocol", "frame_size"}, last : Nat]

ASSUME ClientShape ==
  \A k \in DOMAIN Clients :
    /\ Clients[k].frames \subseteq FrameShape /\ Clients[k].most \in Nat
    /\ Clients[k].entries \subseteq
         [how : {"prior", "tls", "upgrade"}, window : Nat, preface : BOOLEAN, undecodable : BOOLEAN,
          body : Nat]
    /\ Clients[k].responses \subseteq [left : Nat, how : {"body", "queue", "fn"}]

VARIABLES client,  \* the kind of client, fixed by Init
          c,       \* the H2_Conn
          pc,      \* where h2_serve is
          at,      \* the loop index of h2_pump and h2_sweep
          frames,  \* frames read so far
          sent,    \* per stream: the HEADERS, DATA and RST_STREAM frames sent
          seen,    \* the requests handed to the handler, in order
          promised,\* per stream: the length of the handler's response, or -1
          peer     \* the client's side: its credit, what it sent and got

vars == <<client, c, pc, at, frames, sent, seen, promised, peer>>

NoBlock == [stream |-> 0, es |-> FALSE, abort |-> FALSE, size |-> 0, head |-> << >>]

\* A new H2_Stream: the windows are those h2_request_from_block sets.
Stream(id, es, cl, zip, init) ==
  [id |-> id, remote_ended |-> es, dispatched |-> FALSE, response_ready |-> FALSE,
   headers_sent |-> FALSE, local_ended |-> FALSE, reset |-> FALSE, body_too_big |-> FALSE,
   content_length |-> cl, zip |-> zip, body |-> 0, req_bytes |-> 0,
   recv_window |-> InitWindow, send_window |-> init,
   status |-> "none", left |-> 0, how |-> "body"]

\* The request of an h2c upgrade is stream 1, complete.
h2_add_upgrade_stream(e) ==
  [Stream(1, TRUE, e.body, "no", e.window) EXCEPT !.body = e.body, !.req_bytes = e.body]

\* HTTP2-Settings that do not decode end the connection before it starts.
Init ==
  /\ client \in DOMAIN Clients
  /\ \E e \in Clients[client].entries :
      /\ c = [streams |-> IF e.how = "upgrade" THEN <<h2_add_upgrade_stream(e)>> ELSE << >>,
              last_stream_id |-> IF e.how = "upgrade" THEN 1 ELSE 0,
              got_client_settings |-> FALSE,
              client_goaway |-> -1,
              conn_recv_window |-> InitWindow, conn_send_window |-> InitWindow,
              client_init_window |-> e.window,
              error |-> IF e.window > MaxWindow THEN "flow_control" ELSE "no_error",
              hb |-> NoBlock,
              magic |-> IF e.preface THEN 0 ELSE 3]
      /\ pc = IF e.window > MaxWindow \/ e.undecodable THEN "out" ELSE "dispatch"
      /\ peer = [conn |-> InitWindow, init |-> e.window, more |-> [i \in Ids |-> 0],
                 got |-> [i \in Ids |-> 0],
                 up |-> InitWindow, ups |-> [i \in Ids |-> InitWindow],
                 uploaded |-> [i \in Ids |-> IF i = 1 /\ e.how = "upgrade" THEN e.body ELSE 0],
                 ended |-> IF e.how = "upgrade" THEN {1} ELSE {},
                 used |-> IF e.how = "upgrade" THEN {1} ELSE {}, faulty |-> FALSE]
      /\ at = 1
      /\ frames = 0
      /\ sent = [i \in Ids |-> << >>]
      /\ seen = << >>
      /\ promised = [i \in Ids |-> -1]

-----------------------------------------------------------------------------
h2_find_stream(id) ==
  LET found == {i \in 1 .. Len(c.streams) : c.streams[i].id = id}
  IN  IF found = {} THEN 0 ELSE CHOOSE i \in found : TRUE

Told(id, t, n, code, es) ==
  sent' = [sent EXCEPT ![id] = Append(@, [t |-> t, n |-> n, code |-> code, es |-> es])]

h2_send_stream_error(id, code) == Told(id, "rst", 0, code, FALSE)

h2_conn_error(code) == c' = [c EXCEPT !.error = code]

Ignored == UNCHANGED <<c, sent>>

\* A frame longer than the limit ends the connection before it is read.
h2_frame_peek(f) == f.len > MaxFrame

\* What h2_frame_peek, h2_process_frame and the head of every handler refuse
\* before they look at a stream: the connection error, or "none".
FrameFault(f) ==
  IF h2_frame_peek(f) THEN "frame_size"
  ELSE IF \/ ~c.got_client_settings /\ (f.type # "settings" \/ f.ack)
          \/ c.hb.stream # 0 /\ (f.type # "cont" \/ f.id # c.hb.stream)
          \/ f.type = "cont" /\ c.hb.stream = 0
          \/ f.type = "push"
          \/ f.type = "settings" /\ f.id # 0
    THEN "protocol"
  ELSE IF /\ ~f.ok
          /\ f.type \in {"rst", "ping", "goaway", "window"} \/ (f.type = "settings" /\ f.ack)
    THEN "frame_size"
  ELSE IF \/ f.type \in {"data", "headers", "priority", "rst"} /\ f.id = 0
          \/ f.type \in {"ping", "goaway"} /\ f.id # 0
          \/ f.type \in {"data", "headers"} /\ ~f.ok
    THEN "protocol"
  ELSE "none"

(***************************************************************************)
(* DATA.                                                                   *)
(***************************************************************************)
\* The client's credit after it sent f and read the WINDOW_UPDATEs in reply.
Upload(f, connBack, streamBack) ==
  peer' = [peer EXCEPT
             !.up = @ - f.len + (IF connBack THEN f.len ELSE 0),
             !.ups[f.id] = @ - f.len + (IF streamBack THEN f.len ELSE 0),
             !.uploaded[f.id] = IF f.id \in peer.ended THEN @ ELSE @ + f.len,
             !.ended = IF f.es THEN @ \cup {f.id} ELSE @,
             !.faulty = @ \/ f.len > peer.up \/ f.len > peer.ups[f.id]]

\* The error a DATA frame is answered with on a stream that exists.
DataVerdict(s, f) ==
  IF f.len > s.recv_window THEN "flow_control"
  ELSE IF s.remote_ended THEN "stream_closed"
  ELSE IF f.es /\ s.content_length >= 0 /\ s.req_bytes + f.len # s.content_length
    THEN "protocol"
  ELSE "none"

\* The body is kept up to max_body; a longer one is only counted.
Collect_Truncates(s, n) ==
  [s EXCEPT !.req_bytes = @ + n, !.body = Min({@ + n, MaxBody})]
Collect(s, n) ==
  LET big == s.body + n > MaxBody
  IN  [s EXCEPT !.req_bytes = @ + n,
                !.body_too_big = @ \/ big,
                !.body = IF s.body_too_big \/ big THEN @ ELSE @ + n]

Received_NotReset(s, f) ==
  IF s.remote_ended THEN s
  ELSE [Collect(s, f.len) EXCEPT !.remote_ended = f.es, !.recv_window = @ - f.len]
Received(s, f) ==
  LET v == DataVerdict(s, f)
      w == [s EXCEPT !.recv_window = @ - f.len]
  IN  IF s.reset THEN s
      ELSE IF v \in {"flow_control", "stream_closed"} THEN [w EXCEPT !.reset = TRUE]
      ELSE [Collect(w, f.len) EXCEPT !.remote_ended = f.es, !.reset = (v = "protocol")]

h2_on_data(f) ==
  LET i == h2_find_stream(f.id)
      drawn == [c EXCEPT !.conn_recv_window = @ - f.len]
  IN  /\ f.type = "data"
      /\ \/ /\ f.len > c.conn_recv_window
            /\ h2_conn_error("flow_control")
            /\ Upload(f, FALSE, FALSE)
            /\ UNCHANGED sent
         \/ /\ f.len <= c.conn_recv_window
            /\ i = 0
            /\ Upload(f, TRUE, FALSE)
            /\ IF f.id > c.last_stream_id
                 THEN c' = [drawn EXCEPT !.error = "protocol"] /\ UNCHANGED sent
                 ELSE c' = drawn /\ h2_send_stream_error(f.id, "stream_closed")
         \/ /\ f.len <= c.conn_recv_window
            /\ i # 0
            /\ Upload(f, TRUE, f.len <= c.streams[i].recv_window)
            /\ c' = [drawn EXCEPT !.streams[i] = Received(@, f)]
            /\ LET v == DataVerdict(c.streams[i], f)
               IN  IF v = "none" THEN UNCHANGED sent ELSE h2_send_stream_error(f.id, v)

(***************************************************************************)
(* HEADERS and CONTINUATION.                                               *)
(***************************************************************************)
Admitted(b, h) ==
  [b EXCEPT !.last_stream_id = h.id,
            !.streams = Append(@, Stream(h.id, h.es, h.cl, h.zip, b.client_init_window))]

\* Beyond the limit the new stream is freed again, but its id is used up.
Refused(b, h) == [b EXCEPT !.last_stream_id = h.id]

\* Decoding and validating a block ends in one of three ways: a request, a
\* malformed one ("malformed", the -2) or a connection error ("undecodable").
h2_request_from_block(h) == h.block

\* A block in full: its first frame h, with the header state b already reset.
h2_on_header_block_finish(b, h) ==
  \/ /\ h.id % 2 = 0
     /\ c' = [b EXCEPT !.error = "protocol"]
     /\ UNCHANGED sent
  \/ /\ h.id % 2 = 1
     /\ c.client_goaway >= 0 /\ h.id > c.client_goaway
     /\ c' = b
     /\ h2_send_stream_error(h.id, "refused")
  \/ /\ h.id % 2 = 1
     /\ ~(c.client_goaway >= 0 /\ h.id > c.client_goaway)
     /\ h.id <= c.last_stream_id \/ h2_find_stream(h.id) # 0
     /\ c' = [b EXCEPT !.error = "protocol"]
     /\ UNCHANGED sent
  \/ /\ h.id % 2 = 1
     /\ ~(c.client_goaway >= 0 /\ h.id > c.client_goaway)
     /\ h.id > c.last_stream_id /\ h2_find_stream(h.id) = 0
     /\ \/ /\ h2_request_from_block(h) = "undecodable"
           /\ c' = [b EXCEPT !.error = "compression"]
           /\ UNCHANGED sent
        \/ /\ h2_request_from_block(h) = "malformed"
           /\ c' = b
           /\ h2_send_stream_error(h.id, "protocol")
        \/ /\ h2_request_from_block(h) = "request"
           /\ Len(c.streams) < MaxStreams
           /\ c' = Admitted(b, h)
           /\ UNCHANGED sent
        \/ /\ h2_request_from_block(h) = "request"
           /\ Len(c.streams) >= MaxStreams
           /\ c' = Refused(b, h)
           /\ h2_send_stream_error(h.id, "refused")

\* A client that opens an id twice is at fault.
Opens(f) == peer' = [peer EXCEPT !.used = @ \cup {f.id},
                                 !.faulty = @ \/ f.id \in peer.used,
                                 !.ended = IF f.es THEN @ \cup {f.id} ELSE @]

h2_on_headers_start(f) ==
  /\ f.type = "headers"
  /\ Opens(f)
  /\ \/ /\ f.eh
        /\ h2_on_header_block_finish(c, f)
     \/ /\ ~f.eh
        /\ c' = [c EXCEPT !.hb = [stream |-> f.id, es |-> f.es, abort |-> FALSE,
                                  size |-> f.len, head |-> f]]
        /\ UNCHANGED sent

h2_on_cont(f) ==
  LET over == c.hb.abort \/ c.hb.size + f.len > BlockCap
      done == [c EXCEPT !.hb = NoBlock]
  IN  /\ f.type = "cont"
      /\ UNCHANGED peer
      /\ \/ /\ ~over /\ f.eh
            /\ h2_on_header_block_finish(done, c.hb.head)
         \/ /\ ~over /\ ~f.eh
            /\ c' = [c EXCEPT !.hb.size = @ + f.len]
            /\ UNCHANGED sent
         \/ /\ over
            /\ c' = IF f.eh THEN done ELSE [c EXCEPT !.hb.abort = TRUE]
            /\ IF c.hb.abort THEN UNCHANGED sent ELSE h2_send_stream_error(f.id, "cancel")

(***************************************************************************)
(* The other frames.                                                       *)
(***************************************************************************)
h2_on_priority(f) ==
  /\ f.type = "priority"
  /\ \/ f.ok /\ Ignored
     \/ ~f.ok /\ h2_find_stream(f.id) = 0 /\ h2_conn_error("protocol") /\ UNCHANGED sent
     \/ ~f.ok /\ h2_find_stream(f.id) # 0 /\ h2_send_stream_error(f.id, "frame_size")
        /\ UNCHANGED c
  /\ peer' = [peer EXCEPT !.faulty = @ \/ ~f.ok]

h2_on_rst(f) ==
  LET i == h2_find_stream(f.id)
  IN  /\ f.type = "rst"
      /\ c' = IF i # 0 THEN [c EXCEPT !.streams[i].reset = TRUE]
              ELSE IF f.id > c.last_stream_id THEN [c EXCEPT !.error = "protocol"] ELSE c
      /\ UNCHANGED <<sent, peer>>

\* A new initial window moves the window of every open stream by the difference.
Shift_NewStreams(s, delta) == s
Shift(s, delta) == [s EXCEPT !.send_window = @ + delta]

\* f.inc is the SETTINGS_INITIAL_WINDOW_SIZE, or -1; f.err what another
\* parameter or the length of the payload is refused with.
h2_apply_settings(f) ==
  LET delta == f.inc - c.client_init_window
      moved == [i \in 1 .. Len(c.streams) |-> Shift(c.streams[i], delta)]
      over  == f.inc > MaxWindow \/ \E i \in 1 .. Len(moved) : moved[i].send_window > MaxWindow
      seenSettings == [c EXCEPT !.got_client_settings = TRUE]
  IN  c' = IF f.err # "none" THEN [seenSettings EXCEPT !.error = f.err]
           ELSE IF f.inc < 0 THEN seenSettings
           ELSE IF over THEN [seenSettings EXCEPT !.error = "flow_control"]
           ELSE [seenSettings EXCEPT !.client_init_window = f.inc, !.streams = moved]

h2_on_settings(f) ==
  /\ f.type = "settings"
  /\ IF f.ack THEN UNCHANGED <<c, peer>>
     ELSE /\ h2_apply_settings(f)
          /\ peer' = IF f.inc < 0 THEN peer ELSE [peer EXCEPT !.init = f.inc]
  /\ UNCHANGED sent

h2_on_goaway(f) ==
  /\ f.type = "goaway"
  /\ c' = [c EXCEPT !.client_goaway = f.last]
  /\ UNCHANGED <<sent, peer>>

\* PING is answered, an unknown type is skipped; neither touches a stream.
h2_on_ping(f) ==
  /\ f.type \in {"ping", "unknown"}
  /\ UNCHANGED <<c, sent, peer>>

h2_on_window(f) ==
  LET i == h2_find_stream(f.id)
      w == c.streams[i].send_window + f.inc
  IN  /\ f.type = "window"
      /\ peer' = IF f.id = 0 THEN [peer EXCEPT !.conn = @ + f.inc]
                 ELSE [peer EXCEPT !.more[f.id] = @ + f.inc, !.faulty = @ \/ f.inc = 0]
      /\ \/ /\ f.inc = 0 /\ f.id = 0
            /\ h2_conn_error("protocol")
            /\ UNCHANGED sent
         \/ /\ f.inc = 0 /\ f.id # 0
            /\ h2_send_stream_error(f.id, "protocol")
            /\ UNCHANGED c
         \/ /\ f.inc > 0 /\ f.id = 0
            /\ c' = [c EXCEPT !.conn_send_window = @ + f.inc,
                              !.error = IF c.conn_send_window + f.inc > MaxWindow
                                        THEN "flow_control" ELSE @]
            /\ UNCHANGED sent
         \/ /\ f.inc > 0 /\ f.id # 0 /\ i = 0
            /\ IF f.id > c.last_stream_id THEN h2_conn_error("protocol") ELSE UNCHANGED c
            /\ UNCHANGED sent
         \/ /\ f.inc > 0 /\ f.id # 0 /\ i # 0
            /\ c' = [c EXCEPT !.streams[i].send_window = w,
                              !.streams[i].reset = @ \/ w > MaxWindow]
            /\ IF w > MaxWindow THEN h2_send_stream_error(f.id, "flow_control")
               ELSE UNCHANGED sent

\* One frame out of the read buffer.
h2_process_frame(f) ==
  /\ pc = "read"
  /\ c.magic = 3
  /\ frames < Clients[client].most
  /\ frames' = frames + 1
  /\ \/ /\ FrameFault(f) # "none"
        /\ h2_conn_error(FrameFault(f))
        /\ UNCHANGED <<sent, peer>>
     \/ /\ FrameFault(f) = "none"
        /\ \/ h2_on_data(f) \/ h2_on_headers_start(f) \/ h2_on_cont(f)
           \/ h2_on_priority(f) \/ h2_on_rst(f) \/ h2_on_settings(f)
           \/ h2_on_ping(f) \/ h2_on_goaway(f) \/ h2_on_window(f)
  /\ pc' = IF c'.error # "no_error" THEN "out" ELSE "dispatch"
  /\ UNCHANGED <<client, at, seen, promised>>

\* The 24 octets of a preface in front of the first frame, in units: 1 is less
\* than a frame header, 2 is at least one and is taken for a frame.
PrefaceArrives(n) ==
  /\ pc = "read"
  /\ c.magic + n <= 3
  /\ c' = [c EXCEPT !.magic = @ + n,
                    !.error = IF c.magic + n = 2 THEN "frame_size" ELSE @]
  /\ pc' = IF c.magic + n = 2 THEN "out" ELSE "read"
  /\ UNCHANGED <<client, at, frames, sent, seen, promised, peer>>

-----------------------------------------------------------------------------
(***************************************************************************)
(* h2_dispatch_ready, h2_pump and h2_sweep.                                *)
(***************************************************************************)
Complete(s) == ~s.dispatched /\ ~s.reset /\ s.remote_ended

FirstComplete(i) ==
  /\ pc = "dispatch"
  /\ Complete(c.streams[i])
  /\ \A j \in 1 .. (i - 1) : ~Complete(c.streams[j])

TooBig(s) == s.body_too_big \/ s.content_length > MaxBody

Answer(i, status, left, how) ==
  c' = [c EXCEPT !.streams[i] = [@ EXCEPT !.dispatched = TRUE, !.response_ready = TRUE,
                                          !.status = status, !.left = left, !.how = how]]

\* The request never reaches the handler: it is too large, its gzip body is
\* corrupt or it inflates past the limit.
h2_direct_error(i) ==
  LET s == c.streams[i]
  IN  /\ FirstComplete(i)
      /\ TooBig(s) \/ s.zip \in {"corrupt", "bomb"}
      /\ Answer(i, IF ~TooBig(s) /\ s.zip = "corrupt" THEN "400" ELSE "413", 1, "body")
      /\ promised' = [promised EXCEPT ![s.id] = 1]
      /\ UNCHANGED <<client, pc, at, frames, sent, seen, peer>>

h2_dispatch(i) ==
  LET s == c.streams[i]
  IN  /\ FirstComplete(i)
      /\ ~TooBig(s) /\ s.zip = "no"
      /\ \E r \in Clients[client].responses :
           /\ Answer(i, "200", r.left, r.how)
           /\ promised' = [promised EXCEPT ![s.id] = r.left]
      /\ seen' = Append(seen, [id |-> s.id, body |-> s.body])
      /\ UNCHANGED <<client, pc, at, frames, sent, peer>>

DispatchDone ==
  /\ pc = "dispatch"
  /\ \A i \in 1 .. Len(c.streams) : ~Complete(c.streams[i])
  /\ pc' = "pump"
  /\ at' = 1
  /\ UNCHANGED <<client, c, frames, sent, seen, promised, peer>>

Pumpable(s) == ~s.reset /\ ~s.local_ended /\ s.response_ready

Current == c.streams[at]

Pumping == pc = "pump" /\ at <= Len(c.streams) /\ Pumpable(Current)

\* No body, and not a streamed one: the HEADERS end the stream.
HeadersEnd == Current.how = "body" /\ Current.left = 0

PumpHeaders ==
  /\ Pumping
  /\ ~Current.headers_sent
  /\ Told(Current.id, "headers", 0, Current.status, HeadersEnd)
  /\ c' = [c EXCEPT !.streams[at] = [@ EXCEPT !.headers_sent = TRUE,
                                              !.local_ended = HeadersEnd,
                                              !.response_ready = ~HeadersEnd]]
  /\ UNCHANGED <<client, pc, at, frames, seen, promised, peer>>

Room(s) == Min({s.send_window, c.conn_send_window})

\* The lengths h2_next_data may return; a stream_fn may give less than is asked
\* of it, and has to be called with room left to say that it has no more.
h2_next_data(s) ==
  IF s.left = 0 THEN IF s.how = "fn" /\ Room(s) <= 0 THEN {} ELSE {0}
  ELSE IF Room(s) <= 0 THEN {}
  ELSE LET most == Min({s.left, Room(s), MaxFrame})
       IN  IF s.how = "fn" THEN 1 .. most ELSE {most}

Blocked(s) == s.headers_sent /\ h2_next_data(s) = {}

Eof_BeforeLast(n) == Current.left - n <= 1
Eof(n) == IF Current.how = "fn" THEN n = 0 ELSE n = Current.left

h2_send_data(n) ==
  /\ Pumping
  /\ Current.headers_sent
  /\ n \in h2_next_data(Current)
  /\ Told(Current.id, "data", n, "none", Eof(n))
  /\ c' = [c EXCEPT !.conn_send_window = @ - n,
                    !.streams[at] = [Current EXCEPT !.send_window = @ - n, !.left = @ - n,
                                                    !.local_ended = Eof(n),
                                                    !.response_ready = ~Eof(n)]]
  /\ peer' = [peer EXCEPT !.conn = @ - n, !.more[Current.id] = @ - n, !.got[Current.id] = @ + n]
  /\ UNCHANGED <<client, pc, at, frames, seen, promised>>

\* A write fails: the connection is over.
PumpFails ==
  /\ Pumping
  /\ ~Blocked(Current)
  /\ h2_conn_error("internal")
  /\ pc' = "out"
  /\ UNCHANGED <<client, at, frames, sent, seen, promised, peer>>

\* On to the next stream: this one has nothing to send, or no room to send it.
GoesOn_Always == TRUE
GoesOn == ~Pumpable(Current) \/ Blocked(Current)

Following(i) == i + 1

PumpNext ==
  /\ pc = "pump"
  /\ at <= Len(c.streams)
  /\ GoesOn
  /\ at' = Following(at)
  /\ UNCHANGED <<client, c, pc, frames, sent, seen, promised, peer>>

\* The last stream takes the place of one that is freed.
h2_free_stream(ss, i) == Front([ss EXCEPT ![i] = Last(ss)])

Swept(s) == s.reset \/ (s.local_ended /\ s.remote_ended)

\* The pump is through; the sweep goes from the last stream to the first.
PumpDone ==
  /\ pc = "pump"
  /\ at > Len(c.streams)
  /\ pc' = "sweep" /\ at' = Len(c.streams)
  /\ UNCHANGED <<client, c, frames, sent, seen, promised, peer>>

h2_sweep ==
  /\ pc = "sweep" /\ at > 0
  /\ c' = IF Swept(c.streams[at]) THEN [c EXCEPT !.streams = h2_free_stream(@, at)] ELSE c
  /\ at' = at - 1
  /\ UNCHANGED <<client, pc, frames, sent, seen, promised, peer>>

SweepDone ==
  /\ pc = "sweep" /\ at = 0
  /\ pc' = "read"
  /\ UNCHANGED <<client, c, at, frames, sent, seen, promised, peer>>

(***************************************************************************)
(* The ways out of the loop, and the GOAWAY.                               *)
(***************************************************************************)
Drained_LastServed == c.streams = << >> /\ c.last_stream_id = c.client_goaway
Drained == c.streams = << >>

h2_client_goaway_done ==
  /\ pc = "read"
  /\ c.client_goaway >= 0
  /\ Drained
  /\ pc' = "out"
  /\ UNCHANGED <<client, c, at, frames, sent, seen, promised, peer>>

\* The peer is gone, or idle for longer than the receive timeout.
h2_fill_fails ==
  /\ pc = "read"
  /\ pc' = "out"
  /\ UNCHANGED <<client, c, at, frames, sent, seen, promised, peer>>

h2_send_goaway ==
  /\ pc = "out"
  /\ pc' = "closed"
  /\ c' = [c EXCEPT !.streams = << >>]
  /\ UNCHANGED <<client, at, frames, sent, seen, promised, peer>>

Over == pc = "closed" /\ UNCHANGED vars

Reads == \E f \in Clients[client].frames : h2_process_frame(f)

Serves == \/ \E i \in 1 .. Len(c.streams) : h2_direct_error(i) \/ h2_dispatch(i)
          \/ DispatchDone
          \/ PumpHeaders \/ \E n \in 0 .. MaxFrame : h2_send_data(n)
          \/ PumpFails \/ PumpNext \/ PumpDone \/ h2_sweep \/ SweepDone

Leaves == h2_client_goaway_done \/ h2_fill_fails \/ h2_send_goaway

Next == Reads \/ (\E n \in 1 .. 3 : PrefaceArrives(n)) \/ Serves \/ Leaves \/ Over

Spec == Init /\ [][Next]_vars

\* The worker runs; nothing says that the client ever sends or goes away.
FairSpec == Spec /\ WF_vars(Serves) /\ WF_vars(h2_client_goaway_done) /\ WF_vars(h2_send_goaway)
-----------------------------------------------------------------------------
(***************************************************************************)
(* Properties.                                                             *)
(***************************************************************************)
StreamType ==
  [id : Ids, remote_ended : BOOLEAN, dispatched : BOOLEAN, response_ready : BOOLEAN,
   headers_sent : BOOLEAN, local_ended : BOOLEAN, reset : BOOLEAN, body_too_big : BOOLEAN,
   content_length : Int, zip : {"no", "corrupt", "bomb"}, body : Nat,
   req_bytes : Nat, recv_window : Int, send_window : Int,
   status : {"none", "200", "400", "413"}, left : Nat, how : {"body", "queue", "fn"}]

\* The connection and its streams have the shape of H2_Conn and H2_Stream, the
\* streams are of different ids and no more than H2_MAX_CONCURRENT_STREAMS.
TypeOK ==
  /\ pc \in {"dispatch", "pump", "sweep", "read", "out", "closed"}
  /\ \A i \in 1 .. Len(c.streams) : c.streams[i] \in StreamType
  /\ \A i, j \in 1 .. Len(c.streams) : i # j => c.streams[i].id # c.streams[j].id
  /\ Len(c.streams) <= MaxStreams
  /\ c.conn_recv_window \in 0 .. InitWindow
  /\ c.client_goaway \in Nat \cup {-1} /\ c.magic \in 0 .. 3
  /\ at \in Nat /\ frames \in 0 .. Clients[client].most

NewFrames(id) == {k \in 1 .. Len(sent'[id]) : k > Len(sent[id])}

\* The server never sends DATA past what the client granted: neither past the
\* connection's credit, nor past the stream's, which moves with every
\* WINDOW_UPDATE and with every change of SETTINGS_INITIAL_WINDOW_SIZE.
NeverOverdraws ==
  [][\A id \in Ids : \A k \in NewFrames(id) :
       sent'[id][k].n > 0 => /\ sent'[id][k].n <= peer.conn
                             /\ sent'[id][k].n <= peer.init + peer.more[id]]_vars

\* What goes out on a stream is one response: HEADERS, then DATA, with
\* END_STREAM on the last frame only and on none before the whole body is out,
\* however often the windows made the pump stop and resume.
ResponsesWhole ==
  \A id \in Ids : \A k \in 1 .. Len(sent[id]) :
    LET f == sent[id][k]
    IN  /\ f.t = "headers" => \A j \in 1 .. k - 1 : sent[id][j].t = "rst"
        /\ f.t = "data" => \E j \in 1 .. k - 1 : sent[id][j].t = "headers"
        /\ f.es => /\ \A j \in k + 1 .. Len(sent[id]) : sent[id][j].t = "rst"
                   /\ peer.got[id] = promised[id]

\* A stream the server reset is over for a client that follows the protocol:
\* nothing of a response goes out behind the RST_STREAM, whether the reset came
\* from a refusal, a malformed block or DATA the server could not accept.
NothingAfterReset ==
  ~peer.faulty => \A id \in Ids : \A k \in 1 .. (Len(sent[id]) - 1) :
                    sent[id][k].t = "rst" => sent[id][k + 1].t = "rst"

SeenIds == {seen[k].id : k \in 1 .. Len(seen)}

\* The handler sees each request once and, of a client that follows the protocol,
\* with its whole body: as long as the DATA the client sent, never cut at max_body
\* and never before END_STREAM.
WholeBody ==
  /\ \A j, k \in 1 .. Len(seen) : j # k => seen[j].id # seen[k].id
  /\ ~peer.faulty => \A k \in 1 .. Len(seen) : seen[k].body = peer.uploaded[seen[k].id]

\* Before the server waits for the client it has done all it can: no complete
\* request is undispatched, no response has something to send and room to send
\* it, and no stream that is over still counts against the limit.
NoIdleCredit ==
  pc = "read" => \A i \in 1 .. Len(c.streams) :
    LET s == c.streams[i]
    IN  ~Complete(s) /\ ~Swept(s) /\ (s.response_ready => Blocked(s))

\* After the client's GOAWAY the connection ends once its streams are served.
GoawayEnds == <>[](c.client_goaway >= 0 /\ c.streams = << >>) => <>(pc = "closed")

\* A client that stays within the credit the server gave it is not told that it
\* broke the flow control.
UploadWithinCredit ==
  ~peer.faulty => /\ c.error # "flow_control"
                  /\ \A id \in Ids : \A k \in 1 .. Len(sent[id]) :
                       sent[id][k].code # "flow_control"
=============================================================================
