------------------------------ MODULE H2Proofs ------------------------------
(***************************************************************************)
(* Safety of an HTTP/2 connection for any clients, windows, limits and     *)
(* responses: what h2_serve sends stays within the client's credit, what   *)
(* the handler sees is what the client sent, and what the client gets is   *)
(* what the handler said.                                                  *)
(***************************************************************************)
EXTENDS H2, SequenceTheorems, TLAPS

\* Error codes and, of a HEADERS frame, the status.
Codes ==
  {"no_error", "none", "flow_control", "protocol", "frame_size", "stream_closed", "refused", "cancel",
   "compression", "internal", "200", "400", "413"}

Blocks == [stream : Ids \cup {0}, es : BOOLEAN, abort : BOOLEAN, size : Nat, head : FrameShape \cup {<< >>}]

ConnType ==
  [streams : Seq(StreamType), last_stream_id : Nat, got_client_settings : BOOLEAN, client_goaway : Int,
   conn_recv_window : Int, conn_send_window : Int, client_init_window : Nat, error : Codes,
   hb : Blocks, magic : Nat]

PeerType ==
  [conn : Int, init : Nat, more : [Ids -> Int], got : [Ids -> Int], up : Int, ups : [Ids -> Int],
   uploaded : [Ids -> Nat], ended : SUBSET Ids, used : SUBSET Ids, faulty : BOOLEAN]

SeenType == [id : Ids, body : Nat]

SentType == [t : {"headers", "data", "rst"}, n : Nat, code : Codes, es : BOOLEAN]

\* h2_serve is in its loop, and no error has been found.
Running == pc \in {"dispatch", "pump", "sweep", "read"}

\* Every variable has its type.
Types ==
  /\ client \in DOMAIN Clients
  /\ c \in ConnType
  /\ pc \in {"dispatch", "pump", "sweep", "read", "out", "closed"} /\ at \in Nat
  /\ frames \in Nat
  /\ sent \in [Ids -> Seq(SentType)]
  /\ seen \in Seq(SeenType)
  /\ promised \in [Ids -> Int]
  /\ peer \in PeerType
  /\ Running => c.error = "no_error"
  /\ c.hb.stream # 0 => c.hb.head \in FrameShape /\ c.hb.head.id = c.hb.stream

Indices == 1 .. Len(c.streams)

\* Streams have different ids, and none is opened below the last one.
Distinct ==
  /\ \A i, j \in Indices : i # j => c.streams[i].id # c.streams[j].id
  /\ \A i \in Indices : c.streams[i].id <= c.last_stream_id

\* The server's windows are the client's credit.
Credit ==
  /\ c.conn_send_window = peer.conn /\ c.client_init_window = peer.init
  /\ \A i \in Indices : c.streams[i].send_window = peer.init + peer.more[c.streams[i].id]
  /\ \A id \in Ids : id > c.last_stream_id => peer.more[id] = 0

\* The streams of requests the handler has seen are marked.
Marked ==
  \A k \in 1 .. Len(seen) :
    /\ seen[k].id <= c.last_stream_id
    /\ \A i \in Indices : c.streams[i].id = seen[k].id => c.streams[i].dispatched

\* A stream's body is what the client has uploaded so far.
Uploads ==
  ~peer.faulty =>
    /\ \A i \in Indices : ~c.streams[i].reset =>
         /\ c.streams[i].remote_ended <=> c.streams[i].id \in peer.ended
         /\ ~c.streams[i].body_too_big => c.streams[i].body = peer.uploaded[c.streams[i].id]
    /\ \A id \in Ids : id > c.last_stream_id =>
         peer.uploaded[id] = 0 /\ (id \in peer.ended => id \in peer.used)
    /\ c.hb.stream > c.last_stream_id => (c.hb.head.es <=> c.hb.stream \in peer.ended)

\* A stream that was told RST_STREAM is marked, gone or never comes to be.
Resets ==
  ~peer.faulty =>
    /\ \A i \in Indices : c.streams[i].id \in peer.used /\ c.streams[i].id # c.hb.stream
    /\ c.hb.stream # 0 => c.hb.stream \in peer.used
    /\ \A i \in Indices : ~c.streams[i].reset =>
         \A k \in 1 .. Len(sent[c.streams[i].id]) : sent[c.streams[i].id][k].t # "rst"
    /\ \A id \in Ids : id > c.last_stream_id /\ id \notin peer.used => sent[id] = << >>
    /\ c.hb.stream > c.last_stream_id /\ ~c.hb.abort => sent[c.hb.stream] = << >>

\* The frames q of a stream s, and how much of its response is out.
Answering(s, q, got, all) ==
  /\ ~s.headers_sent => got = 0 /\ \A k \in 1 .. Len(q) : q[k].t = "rst"
  /\ s.headers_sent => \E k \in 1 .. Len(q) : q[k].t = "headers"
  /\ ~s.local_ended => \A k \in 1 .. Len(q) : ~q[k].es
  /\ s.response_ready => ~s.local_ended /\ all = s.left + got
  /\ s.headers_sent \/ s.response_ready \/ s.local_ended => s.dispatched

Responses ==
  /\ \A i \in Indices :
       Answering(c.streams[i], sent[c.streams[i].id], peer.got[c.streams[i].id], promised[c.streams[i].id])
  /\ \A id \in Ids : id > c.last_stream_id =>
       peer.got[id] = 0 /\ \A k \in 1 .. Len(sent[id]) : sent[id][k].t = "rst"

\* How far the passes over the streams have come.
Passes ==
  /\ pc \in {"pump", "sweep", "read"} => \A i \in Indices : ~Complete(c.streams[i])
  /\ pc = "pump" => at > 0 /\ \A i \in Indices : i < at /\ Pumpable(c.streams[i]) => Blocked(c.streams[i])
  /\ pc \in {"sweep", "read"} => \A i \in Indices : Pumpable(c.streams[i]) => Blocked(c.streams[i])
  /\ pc = "sweep" => at <= Len(c.streams) /\ \A i \in Indices : i > at => ~Swept(c.streams[i])
  /\ pc = "read" => \A i \in Indices : ~Swept(c.streams[i])

Ledger == Distinct /\ Credit /\ Marked /\ Uploads /\ Resets /\ Responses

\* What holds while the loop runs.
Loop == Ledger /\ Passes

\* What was sent and seen stays right, whatever becomes of the connection.
Record ==
  /\ WholeBody /\ NothingAfterReset /\ ResponsesWhole
  /\ ~peer.faulty => \A k \in 1 .. Len(seen) : seen[k].id \in peer.ended
  /\ \A id \in Ids : \A k \in 1 .. Len(sent[id]) : sent[id][k].t = "rst" => ~sent[id][k].es

IInv == Types /\ Record /\ (Running => Loop)
-----------------------------------------------------------------------------
\* Assignments to fields keep the type of a record.
LEMMA ConnUpdates ==
  ASSUME NEW d \in ConnType
  PROVE  /\ \A x \in Codes : [d EXCEPT !.error = x] \in ConnType
         /\ \A x \in Seq(StreamType) : [d EXCEPT !.streams = x] \in ConnType
         /\ \A x \in Int : [d EXCEPT !.conn_recv_window = x] \in ConnType
         /\ \A x \in Int, y \in Codes : [d EXCEPT !.conn_send_window = x, !.error = y] \in ConnType
         /\ \A x \in Int, y \in Seq(StreamType) : [d EXCEPT !.conn_send_window = x, !.streams = y] \in ConnType
         /\ \A x \in Nat, y \in Seq(StreamType) : [d EXCEPT !.last_stream_id = x, !.streams = y] \in ConnType
         /\ \A x \in Nat, y \in Seq(StreamType) : [d EXCEPT !.client_init_window = x, !.streams = y] \in ConnType
         /\ \A x \in Nat : [d EXCEPT !.last_stream_id = x] \in ConnType
         /\ [d EXCEPT !.got_client_settings = TRUE] \in ConnType
         /\ \A x \in Int : [d EXCEPT !.client_goaway = x] \in ConnType
         /\ \A x \in Blocks : [d EXCEPT !.hb = x] \in ConnType
         /\ \A x \in Nat, y \in Codes : [d EXCEPT !.magic = x, !.error = y] \in ConnType
BY Zenon DEF ConnType

\* So do the client's notes when it grants credit, uploads or opens a stream.
LEMMA PeerUpdates ==
  ASSUME NEW p \in PeerType
  PROVE  /\ \A x \in BOOLEAN : [p EXCEPT !.faulty = x] \in PeerType
         /\ \A x \in Nat : [p EXCEPT !.init = x] \in PeerType
         /\ \A x \in Int : [p EXCEPT !.conn = x] \in PeerType
         /\ \A x \in [Ids -> Int], y \in BOOLEAN : [p EXCEPT !.more = x, !.faulty = y] \in PeerType
         /\ \A x \in Int, y \in [Ids -> Int], z \in [Ids -> Int] :
              [p EXCEPT !.conn = x, !.more = y, !.got = z] \in PeerType
         /\ \A x \in SUBSET Ids, y \in BOOLEAN, z \in SUBSET Ids :
              [p EXCEPT !.used = x, !.faulty = y, !.ended = z] \in PeerType
         /\ \A u \in Int, v \in [Ids -> Int], x \in [Ids -> Nat], y \in SUBSET Ids, z \in BOOLEAN :
              [p EXCEPT !.up = u, !.ups = v, !.uploaded = x, !.ended = y, !.faulty = z] \in PeerType
BY Zenon DEF PeerType

\* So does a stream, for every assignment of the handlers and the pump.
LEMMA StreamUpdates ==
  ASSUME NEW s \in StreamType
  PROVE  /\ [s EXCEPT !.reset = TRUE] \in StreamType
         /\ \A x \in Int : [s EXCEPT !.recv_window = x] \in StreamType
         /\ \A x \in Int : [s EXCEPT !.send_window = x] \in StreamType
         /\ \A x \in Int, y \in BOOLEAN : [s EXCEPT !.send_window = x, !.reset = y] \in StreamType
         /\ \A x \in BOOLEAN, y \in BOOLEAN : [s EXCEPT !.remote_ended = x, !.reset = y] \in StreamType
         /\ \A x \in Nat, y \in BOOLEAN, z \in Nat :
              [s EXCEPT !.req_bytes = x, !.body_too_big = y, !.body = z] \in StreamType
         /\ \A x \in {"none", "200", "400", "413"}, y \in Nat, z \in {"body", "queue", "fn"} :
              [s EXCEPT !.dispatched = TRUE, !.response_ready = TRUE, !.status = x, !.left = y, !.how = z]
                \in StreamType
         /\ \A x \in BOOLEAN, y \in BOOLEAN :
              [s EXCEPT !.headers_sent = TRUE, !.local_ended = x, !.response_ready = y] \in StreamType
         /\ \A u \in Int, v \in Nat, x \in BOOLEAN, y \in BOOLEAN :
              [s EXCEPT !.send_window = u, !.left = v, !.local_ended = x, !.response_ready = y] \in StreamType
BY ZenonT(60) DEF StreamType

\* A stream as Stream makes it: nothing received, dispatched or sent yet.
LEMMA NewStream ==
  ASSUME NEW id \in Ids, NEW es \in BOOLEAN, NEW cl \in Int, NEW zip \in {"no", "corrupt", "bomb"},
         NEW w \in Int, NEW s, s = Stream(id, es, cl, zip, w)
  PROVE  /\ s \in StreamType /\ s.id = id /\ (s.remote_ended <=> es) /\ s.send_window = w /\ s.body = 0
         /\ ~s.dispatched /\ ~s.response_ready /\ ~s.headers_sent /\ ~s.local_ended /\ ~s.reset
         /\ ~s.body_too_big /\ s.left = 0
<1>1. s \in StreamType
  BY Sizes DEF Stream, StreamType
<1> QED
  BY <1>1 DEF Stream

\* What a DATA frame makes of its stream.
LEMMA ReceivedShape ==
  ASSUME NEW s \in StreamType, NEW f \in FrameShape, NEW r, r = Received(s, f)
  PROVE  /\ r \in StreamType
         /\ r.id = s.id /\ r.send_window = s.send_window /\ r.left = s.left
         /\ (r.dispatched <=> s.dispatched) /\ (r.response_ready <=> s.response_ready)
         /\ (r.headers_sent <=> s.headers_sent) /\ (r.local_ended <=> s.local_ended)
         /\ s.reset => r.reset
         /\ DataVerdict(s, f) # "none" => r.reset
         /\ ~r.reset => /\ ~s.remote_ended /\ (r.remote_ended <=> f.es)
                        /\ ~r.body_too_big => ~s.body_too_big /\ r.body = s.body + f.len
<1> DEFINE v == DataVerdict(s, f)
           w == [s EXCEPT !.recv_window = @ - f.len]
           q == Collect(w, f.len)
<1>1. v \in {"flow_control", "stream_closed", "protocol", "none"} /\ (v = "none" => ~s.remote_ended)
      /\ (v = "protocol" => ~s.remote_ended)
  BY DEF DataVerdict
<1>2. f.len \in Nat /\ s.recv_window \in Int
  BY DEF FrameShape, StreamType
<1>3. w \in StreamType
  <2>1. s.recv_window - f.len \in Int
    BY <1>2
  <2> QED
    BY <2>1, StreamUpdates
<1>4. /\ w.id = s.id /\ w.send_window = s.send_window /\ w.left = s.left /\ w.body = s.body
      /\ (w.dispatched <=> s.dispatched) /\ (w.response_ready <=> s.response_ready)
      /\ (w.headers_sent <=> s.headers_sent) /\ (w.local_ended <=> s.local_ended)
      /\ (w.body_too_big <=> s.body_too_big)
  BY DEF StreamType
<1> HIDE DEF w
<1>5. q \in StreamType
  <2>1. /\ w.req_bytes + f.len \in Nat /\ w.body \in Nat /\ w.body + f.len \in Nat
    BY <1>2, <1>3 DEF StreamType
  <2>2. (w.body_too_big \/ w.body + f.len > MaxBody) \in BOOLEAN
    OBVIOUS
  <2>3. (IF w.body_too_big \/ w.body + f.len > MaxBody THEN w.body ELSE w.body + f.len) \in Nat
    BY <2>1
  <2> QED
    BY <1>3, <2>1, <2>2, <2>3, StreamUpdates DEF Collect
<1>6. /\ q.id = w.id /\ q.send_window = w.send_window /\ q.left = w.left
      /\ (q.dispatched <=> w.dispatched) /\ (q.response_ready <=> w.response_ready)
      /\ (q.headers_sent <=> w.headers_sent) /\ (q.local_ended <=> w.local_ended)
      /\ ~q.body_too_big => ~w.body_too_big /\ q.body = w.body + f.len
  BY <1>3, Zenon DEF Collect, StreamType
<1> HIDE DEF q, v
<1>7. CASE s.reset
  BY <1>7 DEF Received
<1>8. CASE ~s.reset /\ v \in {"flow_control", "stream_closed"}
  <2>1. r = [w EXCEPT !.reset = TRUE]
    BY <1>8 DEF Received, v, w
  <2>2. r \in StreamType
    BY <1>3, <2>1, StreamUpdates
  <2> QED
    BY <1>3, <1>4, <1>8, <2>1, <2>2 DEF StreamType
<1>9. CASE ~s.reset /\ v \in {"protocol", "none"}
  <2>1. r = [q EXCEPT !.remote_ended = f.es, !.reset = (v = "protocol")]
    BY <1>9, Zenon DEF Received, v, w, q
  <2>2. f.es \in BOOLEAN /\ (v = "protocol") \in BOOLEAN
    BY DEF FrameShape
  <2>3. r \in StreamType
    <3>1. \A x \in BOOLEAN, y \in BOOLEAN : [q EXCEPT !.remote_ended = x, !.reset = y] \in StreamType
      BY <1>5, StreamUpdates
    <3>2. PICK p \in BOOLEAN : p = (v = "protocol")
      BY <2>2, Zenon
    <3>3. r = [q EXCEPT !.remote_ended = f.es, !.reset = p]
      BY <2>1, <3>2, Zenon
    <3> QED
      BY <2>2, <3>1, <3>3, Zenon
  <2>4. /\ r.id = q.id /\ r.send_window = q.send_window /\ r.left = q.left /\ r.body = q.body
        /\ (r.dispatched <=> q.dispatched) /\ (r.response_ready <=> q.response_ready)
        /\ (r.headers_sent <=> q.headers_sent) /\ (r.local_ended <=> q.local_ended)
        /\ (r.body_too_big <=> q.body_too_big)
    BY <1>5, <2>1 DEF StreamType
  <2>5. (r.remote_ended <=> f.es) /\ (r.reset <=> v = "protocol")
    BY <1>5, <2>1, <2>2, Zenon DEF StreamType
  <2> QED
    BY <1>1, <1>4, <1>6, <1>9, <2>3, <2>4, <2>5 DEF v
<1> QED
  BY <1>1, <1>7, <1>8, <1>9

\* h2_find_stream is the index of the stream, 0 if there is none.
LEMMA FindStream ==
  ASSUME NEW id, NEW i, i = h2_find_stream(id)
  PROVE  \/ i = 0 /\ \A j \in Indices : c.streams[j].id # id
         \/ i \in Indices /\ c.streams[i].id = id /\ (c \in ConnType => i # 0)
<1> DEFINE found == {j \in 1 .. Len(c.streams) : c.streams[j].id = id}
<1>1. CASE found = {}
  BY <1>1 DEF h2_find_stream, Indices
<1>2. CASE found # {}
  <2>1. i \in found
    BY <1>2 DEF h2_find_stream
  <2>2. c \in ConnType => i # 0
    BY <2>1 DEF ConnType
  <2> QED
    BY <2>1, <2>2 DEF Indices
<1> QED
  BY <1>1, <1>2

\* One stream of the connection is replaced.
LEMMA Replaced ==
  ASSUME Types, NEW i \in Indices, NEW x \in StreamType, c'.streams = [c.streams EXCEPT ![i] = x]
  PROVE  /\ c'.streams \in Seq(StreamType) /\ Indices' = Indices
         /\ c'.streams[i] = x /\ \A j \in Indices : j # i => c'.streams[j] = c.streams[j]
<1>1. c.streams \in Seq(StreamType)
  BY DEF Types, ConnType
<1>2. c'.streams \in Seq(StreamType) /\ Len(c'.streams) = Len(c.streams)
  BY <1>1 DEF Indices
<1> QED
  BY <1>1, <1>2 DEF Indices

\* A frame for a stream goes behind the others.
LEMMA ToldShape ==
  ASSUME sent \in [Ids -> Seq(SentType)], NEW id \in Ids, NEW t \in {"headers", "data", "rst"}, NEW n \in Nat,
         NEW code \in Codes, NEW es \in BOOLEAN, Told(id, t, n, code, es)
  PROVE  /\ sent' \in [Ids -> Seq(SentType)]
         /\ \A j \in Ids : j # id => sent'[j] = sent[j]
         /\ Len(sent[id]) \in Nat /\ Len(sent'[id]) = Len(sent[id]) + 1
         /\ \A k \in 1 .. Len(sent[id]) : sent'[id][k] = sent[id][k]
         /\ sent'[id][Len(sent[id]) + 1].t = t /\ sent'[id][Len(sent[id]) + 1].n = n
         /\ (sent'[id][Len(sent[id]) + 1].es <=> es)
<1> DEFINE r == [t |-> t, n |-> n, code |-> code, es |-> es]
<1>1. r \in SentType /\ r.t = t /\ r.n = n /\ (r.es <=> es)
  BY DEF SentType
<1>2. sent' = [sent EXCEPT ![id] = Append(sent[id], r)]
  BY DEF Told
<1> HIDE DEF r
<1>3. sent[id] \in Seq(SentType)
  OBVIOUS
<1>4. /\ Append(sent[id], r) \in Seq(SentType) /\ Len(Append(sent[id], r)) = Len(sent[id]) + 1
      /\ \A k \in 1 .. Len(sent[id]) : Append(sent[id], r)[k] = sent[id][k]
      /\ Append(sent[id], r)[Len(sent[id]) + 1] = r
  BY <1>1, <1>3, AppendProperties
<1>5. sent' \in [Ids -> Seq(SentType)] /\ sent'[id] = Append(sent[id], r)
      /\ \A j \in Ids : j # id => sent'[j] = sent[j]
  BY <1>2, <1>4
<1> QED
  BY <1>1, <1>3, <1>4, <1>5

\* An RST_STREAM changes neither what a stream's response is nor that nothing else
\* follows one, if it goes to a stream that has no other frames to come.
LEMMA RstShape ==
  ASSUME sent \in [Ids -> Seq(SentType)], NEW id \in Ids, NEW code \in Codes, h2_send_stream_error(id, code)
  PROVE  /\ sent' \in [Ids -> Seq(SentType)]
         /\ \A j \in Ids : j # id => sent'[j] = sent[j]
         /\ Len(sent[id]) \in Nat /\ Len(sent'[id]) = Len(sent[id]) + 1
         /\ \A k \in 1 .. Len(sent[id]) : sent'[id][k] = sent[id][k]
         /\ sent'[id][Len(sent[id]) + 1].t = "rst" /\ sent'[id][Len(sent[id]) + 1].n = 0
         /\ ~sent'[id][Len(sent[id]) + 1].es
<1>1. Told(id, "rst", 0, code, FALSE)
  BY DEF h2_send_stream_error
<1> QED
  BY <1>1, ToldShape

\* A step sends nothing, or one RST_STREAM.
Quiet == sent' = sent \/ \E id \in Ids, code \in Codes : h2_send_stream_error(id, code)

\* A quiet step leaves the frames sent before in their places.
LEMMA QuietShape ==
  ASSUME sent \in [Ids -> Seq(SentType)], Quiet, NEW id \in Ids
  PROVE  /\ sent' \in [Ids -> Seq(SentType)]
         /\ Len(sent[id]) \in Nat /\ Len(sent'[id]) \in Nat /\ Len(sent[id]) <= Len(sent'[id])
         /\ \A k \in 1 .. Len(sent[id]) : sent'[id][k] = sent[id][k]
         /\ \A k \in 1 .. Len(sent'[id]) : k > Len(sent[id]) =>
              sent'[id][k].t = "rst" /\ sent'[id][k].n = 0 /\ ~sent'[id][k].es
<1>0. sent[id] \in Seq(SentType)
  OBVIOUS
<1>1. CASE sent' = sent
  BY <1>0, <1>1
<1>2. ASSUME NEW i \in Ids, NEW code \in Codes, h2_send_stream_error(i, code)
      PROVE  /\ sent' \in [Ids -> Seq(SentType)]
             /\ Len(sent[id]) \in Nat /\ Len(sent'[id]) \in Nat /\ Len(sent[id]) <= Len(sent'[id])
             /\ \A k \in 1 .. Len(sent[id]) : sent'[id][k] = sent[id][k]
             /\ \A k \in 1 .. Len(sent'[id]) : k > Len(sent[id]) =>
                  sent'[id][k].t = "rst" /\ sent'[id][k].n = 0 /\ ~sent'[id][k].es
  <2>1. CASE i = id
    <3>1. /\ sent' \in [Ids -> Seq(SentType)]
          /\ Len(sent[id]) \in Nat /\ Len(sent'[id]) = Len(sent[id]) + 1
          /\ \A k \in 1 .. Len(sent[id]) : sent'[id][k] = sent[id][k]
          /\ sent'[id][Len(sent[id]) + 1].t = "rst" /\ sent'[id][Len(sent[id]) + 1].n = 0
          /\ ~sent'[id][Len(sent[id]) + 1].es
      BY <1>2, <2>1, RstShape
    <3>2. \A k \in 1 .. Len(sent'[id]) : k > Len(sent[id]) => k = Len(sent[id]) + 1
      BY <3>1
    <3> QED
      BY <3>1, <3>2
  <2>2. CASE i # id
    <3>1. sent' \in [Ids -> Seq(SentType)] /\ sent'[id] = sent[id]
      BY <1>2, <2>2, RstShape
    <3> QED
      BY <1>0, <3>1
  <2> QED
    BY <2>1, <2>2
<1> QED
  BY <1>1, <1>2 DEF Quiet

\* What the client knows of its requests does not change once it has ended them.
Settled ==
  /\ peer.faulty => peer'.faulty
  /\ peer.ended \subseteq peer'.ended
  /\ \A id \in peer.ended : peer'.uploaded[id] = peer.uploaded[id]

\* A quiet step keeps what holds of everything sent and seen.
LEMMA RecordKept ==
  ASSUME Types, Record, Quiet, Settled, seen' = seen, promised' = promised, peer'.got = peer.got
  PROVE  Record'
<1>1. ASSUME NEW id \in Ids
      PROVE  /\ sent' \in [Ids -> Seq(SentType)]
             /\ Len(sent[id]) \in Nat /\ Len(sent'[id]) \in Nat /\ Len(sent[id]) <= Len(sent'[id])
             /\ \A k \in 1 .. Len(sent[id]) : sent'[id][k] = sent[id][k]
             /\ \A k \in 1 .. Len(sent'[id]) : k > Len(sent[id]) =>
                  sent'[id][k].t = "rst" /\ sent'[id][k].n = 0 /\ ~sent'[id][k].es
  BY QuietShape DEF Types
<1>2. WholeBody' /\ (~peer'.faulty => \A k \in 1 .. Len(seen') : seen'[k].id \in peer'.ended)
  BY DEF Record, WholeBody, Settled
<1>3. NothingAfterReset'
  <2> SUFFICES ASSUME ~peer'.faulty, NEW id \in Ids, NEW k \in 1 .. (Len(sent'[id]) - 1), sent'[id][k].t = "rst"
               PROVE  sent'[id][k + 1].t = "rst"
    BY DEF NothingAfterReset
  <2>1. ~peer.faulty
    BY DEF Settled
  <2>2. k + 1 \in 1 .. Len(sent'[id]) /\ k \in 1 .. Len(sent'[id])
    BY <1>1
  <2>3. CASE k + 1 > Len(sent[id])
    BY <1>1, <2>2, <2>3
  <2>4. CASE k + 1 <= Len(sent[id])
    <3>1. k \in 1 .. Len(sent[id]) - 1 /\ k \in 1 .. Len(sent[id]) /\ k + 1 \in 1 .. Len(sent[id])
      BY <1>1, <2>2, <2>4
    <3> QED
      BY <1>1, <2>1, <3>1 DEF Record, NothingAfterReset
  <2> QED
    BY <1>1, <2>2, <2>3, <2>4
<1>4. ASSUME NEW id \in Ids, NEW k \in 1 .. Len(sent'[id])
      PROVE  /\ sent'[id][k].t = "headers" => \A j \in 1 .. k - 1 : sent'[id][j].t = "rst"
             /\ sent'[id][k].t = "data" => \E j \in 1 .. k - 1 : sent'[id][j].t = "headers"
             /\ sent'[id][k].es => /\ \A j \in k + 1 .. Len(sent'[id]) : sent'[id][j].t = "rst"
                                   /\ peer'.got[id] = promised'[id]
             /\ sent'[id][k].t = "rst" => ~sent'[id][k].es
  <2>1. CASE k > Len(sent[id])
    BY <1>1, <2>1
  <2>2. CASE k <= Len(sent[id])
    <3>1. k \in 1 .. Len(sent[id]) /\ sent'[id][k] = sent[id][k] /\ \A j \in 1 .. k - 1 : sent'[id][j] = sent[id][j]
      BY <1>1, <2>2
    <3>2. \A j \in k + 1 .. Len(sent'[id]) :
            \/ j \in k + 1 .. Len(sent[id]) /\ sent'[id][j] = sent[id][j]
            \/ sent'[id][j].t = "rst"
      BY <1>1, <3>1
    <3>3. /\ sent[id][k].t = "headers" => \A j \in 1 .. k - 1 : sent[id][j].t = "rst"
          /\ sent[id][k].t = "data" => \E j \in 1 .. k - 1 : sent[id][j].t = "headers"
          /\ sent[id][k].es => /\ \A j \in k + 1 .. Len(sent[id]) : sent[id][j].t = "rst"
                               /\ peer.got[id] = promised[id]
          /\ sent[id][k].t = "rst" => ~sent[id][k].es
      BY <3>1 DEF Record, ResponsesWhole
    <3> QED
      BY <3>1, <3>2, <3>3
  <2> QED
    BY <1>1, <2>1, <2>2
<1>5. ResponsesWhole' /\ \A id \in Ids : \A k \in 1 .. Len(sent'[id]) : sent'[id][k].t = "rst" => ~sent'[id][k].es
  BY <1>4 DEF ResponsesWhole
<1> QED
  BY <1>2, <1>3, <1>5 DEF Record

\* What the types of the connection's parts say.
LEMMA TypeFacts ==
  ASSUME Types
  PROVE  /\ Ids \subseteq Nat \ {0} /\ c.streams \in Seq(StreamType) /\ Len(c.streams) \in Nat
         /\ \A i \in Indices : c.streams[i] \in StreamType /\ c.streams[i].id \in Ids
         /\ \A k \in 1 .. Len(seen) : seen[k].id \in Ids
         /\ c.last_stream_id \in Nat /\ c.hb \in Blocks /\ c.hb.stream \in Nat
         /\ c.hb.stream # 0 => c.hb.stream \in Ids
         /\ c.conn_send_window \in Int /\ c.conn_recv_window \in Int /\ c.client_init_window \in Nat
         /\ peer.conn \in Int /\ peer.init \in Nat /\ peer.more \in [Ids -> Int] /\ peer.got \in [Ids -> Int]
         /\ peer.uploaded \in [Ids -> Nat] /\ peer.ended \subseteq Ids /\ peer.used \subseteq Ids
<1>1. Ids \subseteq Nat \ {0}
  BY Sizes
<1>2. c \in ConnType /\ peer \in PeerType /\ seen \in Seq(SeenType)
  BY DEF Types
<1>3. c.streams \in Seq(StreamType) /\ c.last_stream_id \in Nat /\ c.hb \in Blocks
      /\ c.conn_send_window \in Int /\ c.conn_recv_window \in Int /\ c.client_init_window \in Nat
  BY <1>2 DEF ConnType
<1>4. \A x \in StreamType : x.id \in Ids
  BY DEF StreamType
<1>5. \A i \in Indices : c.streams[i] \in StreamType
  BY <1>3 DEF Indices
<1>6. c.hb.stream \in Ids \cup {0}
  BY <1>3 DEF Blocks
<1>7. \A k \in 1 .. Len(seen) : seen[k].id \in Ids
  <2>1. \A x \in SeenType : x.id \in Ids
    BY DEF SeenType
  <2>2. \A k \in 1 .. Len(seen) : seen[k] \in SeenType
    BY <1>2
  <2> QED
    BY <2>1, <2>2
<1>8. /\ peer.conn \in Int /\ peer.init \in Nat /\ peer.more \in [Ids -> Int] /\ peer.got \in [Ids -> Int]
      /\ peer.uploaded \in [Ids -> Nat] /\ peer.ended \subseteq Ids /\ peer.used \subseteq Ids
  BY <1>2 DEF PeerType
<1>9. Len(c.streams) \in Nat
  BY <1>3
<1>10. c.hb.stream \in Nat /\ (c.hb.stream # 0 => c.hb.stream \in Ids)
  <2>1. CASE c.hb.stream = 0
    BY <2>1
  <2>2. CASE c.hb.stream # 0
    BY <1>1, <1>6, <2>2
  <2> QED
    BY <2>1, <2>2
<1> QED
  BY <1>1, <1>3, <1>4, <1>5, <1>7, <1>8, <1>9, <1>10
-----------------------------------------------------------------------------
(* The parts of Loop that a step keeps when the streams after it are those *)
(* before it in the fields that matter, or new.                            *)

New(x) ==
  /\ x \in StreamType /\ x.id > c.last_stream_id /\ x.id <= c'.last_stream_id
  /\ ~x.dispatched /\ ~x.response_ready /\ ~x.headers_sent /\ ~x.local_ended

LikeCredit(x, y) == x.id = y.id /\ x.send_window = y.send_window
LikeMark(x, y)   == x.id = y.id /\ (y.dispatched => x.dispatched)
LikeUpload(x, y) == /\ x.id = y.id /\ (y.reset => x.reset) /\ (x.remote_ended <=> y.remote_ended)
                    /\ (x.body_too_big <=> y.body_too_big) /\ x.body = y.body
LikeReset(x, y)  == x.id = y.id /\ (y.reset => x.reset)
LikeAnswer(x, y) == /\ x.id = y.id /\ (x.dispatched <=> y.dispatched) /\ (x.response_ready <=> y.response_ready)
                    /\ (x.headers_sent <=> y.headers_sent) /\ (x.local_ended <=> y.local_ended) /\ x.left = y.left

\* A step that moves no window keeps Credit; a new stream starts with the initial window.
LEMMA CreditKept ==
  ASSUME Types, Credit, c.last_stream_id <= c'.last_stream_id, c'.last_stream_id \in Nat,
         c'.conn_send_window = c.conn_send_window, c'.client_init_window = c.client_init_window,
         peer'.conn = peer.conn, peer'.init = peer.init, peer'.more = peer.more,
         \A i \in Indices' : \/ \E j \in Indices : LikeCredit(c'.streams[i], c.streams[j])
                             \/ New(c'.streams[i]) /\ c'.streams[i].send_window = c.client_init_window
  PROVE  Credit'
<1>1. ASSUME NEW id \in Ids, id > c'.last_stream_id PROVE peer'.more[id] = 0
  <2>1. id > c.last_stream_id
    BY <1>1, TypeFacts
  <2> QED
    BY <2>1 DEF Credit
<1>2. ASSUME NEW i \in Indices'
      PROVE  c'.streams[i].send_window = peer'.init + peer'.more[c'.streams[i].id]
  <2>1. CASE \E j \in Indices : LikeCredit(c'.streams[i], c.streams[j])
    BY <2>1 DEF Credit, LikeCredit
  <2>2. CASE New(c'.streams[i]) /\ c'.streams[i].send_window = c.client_init_window
    <3>1. c'.streams[i].id \in Ids /\ c'.streams[i].id > c.last_stream_id
      BY <2>2 DEF New, StreamType
    <3>2. peer.more[c'.streams[i].id] = 0
      BY <3>1 DEF Credit
    <3>3. peer.init \in Nat
      BY DEF Types, PeerType
    <3> QED
      BY <2>2, <3>2, <3>3 DEF Credit
  <2> QED
    BY <2>1, <2>2
<1> QED
  BY <1>1, <1>2 DEF Credit

\* A step that adds streams only above the last id keeps Marked.
LEMMA MarkedKept ==
  ASSUME Types, Marked, seen' = seen, c.last_stream_id <= c'.last_stream_id, c'.last_stream_id \in Nat,
         \A i \in Indices' : (\E j \in Indices : LikeMark(c'.streams[i], c.streams[j])) \/ New(c'.streams[i])
  PROVE  Marked'
<1> SUFFICES ASSUME NEW k \in 1 .. Len(seen)
             PROVE  /\ seen[k].id <= c'.last_stream_id
                    /\ \A i \in Indices' : c'.streams[i].id = seen[k].id => c'.streams[i].dispatched
  BY DEF Marked
<1>1. seen[k].id \in Nat /\ seen[k].id <= c.last_stream_id /\ c.last_stream_id \in Nat
  BY TypeFacts DEF Marked
<1>2. ASSUME NEW i \in Indices', c'.streams[i].id = seen[k].id PROVE c'.streams[i].dispatched
  <2>1. ~New(c'.streams[i])
    BY <1>1, <1>2 DEF New
  <2> QED
    BY <1>2, <2>1 DEF Marked, LikeMark
<1> QED
  BY <1>1, <1>2

\* A header block in progress is the one before, or there is none.
HeadKept == c'.hb.stream = 0 \/ (c'.hb.stream = c.hb.stream /\ c'.hb.head = c.hb.head /\ (c.hb.abort => c'.hb.abort))

\* The step is not about the upload on stream id.
Unaffected(id) == peer'.uploaded[id] = peer.uploaded[id] /\ (id \in peer'.ended <=> id \in peer.ended)

\* A step keeps Uploads if each stream it leaves is as before or agrees with the client again.
LEMMA UploadsKept ==
  ASSUME Types, Uploads, c.last_stream_id <= c'.last_stream_id, c'.last_stream_id \in Nat,
         peer.faulty => peer'.faulty, peer.used \subseteq peer'.used,
         ~peer'.faulty =>
           /\ \A i \in Indices' : ~c'.streams[i].reset =>
                \/ \E j \in Indices : LikeUpload(c'.streams[i], c.streams[j]) /\ Unaffected(c.streams[j].id)
                \/ /\ c'.streams[i].remote_ended <=> c'.streams[i].id \in peer'.ended
                   /\ ~c'.streams[i].body_too_big => c'.streams[i].body = peer'.uploaded[c'.streams[i].id]
           /\ \A id \in Ids : id > c'.last_stream_id =>
                Unaffected(id) \/ (id \in peer'.used /\ peer'.uploaded[id] = peer.uploaded[id])
           /\ c'.hb.stream > c'.last_stream_id =>
                \/ HeadKept /\ Unaffected(c.hb.stream)
                \/ c'.hb.head.es <=> c'.hb.stream \in peer'.ended
  PROVE  Uploads'
<1> SUFFICES ASSUME ~peer'.faulty PROVE Uploads'
  BY DEF Uploads
<1>0. ~peer.faulty /\ c.last_stream_id \in Nat /\ c.hb.stream \in Nat /\ Ids \subseteq Nat
  BY TypeFacts
<1>1. ASSUME NEW i \in Indices', ~c'.streams[i].reset
      PROVE  /\ c'.streams[i].remote_ended <=> c'.streams[i].id \in peer'.ended
             /\ ~c'.streams[i].body_too_big => c'.streams[i].body = peer'.uploaded[c'.streams[i].id]
  BY <1>0, <1>1 DEF Uploads, LikeUpload, Unaffected
<1>2. ASSUME NEW id \in Ids, id > c'.last_stream_id
      PROVE  peer'.uploaded[id] = 0 /\ (id \in peer'.ended => id \in peer'.used)
  <2>1. id > c.last_stream_id
    BY <1>0, <1>2
  <2> QED
    BY <1>0, <1>2, <2>1 DEF Uploads, Unaffected
<1>3. ASSUME c'.hb.stream > c'.last_stream_id PROVE c'.hb.head.es <=> c'.hb.stream \in peer'.ended
  <2> SUFFICES ASSUME HeadKept, Unaffected(c.hb.stream) PROVE c'.hb.head.es <=> c'.hb.stream \in peer'.ended
    BY <1>3
  <2>1. c'.hb.stream = c.hb.stream /\ c'.hb.head = c.hb.head /\ c.hb.stream > c.last_stream_id
    BY <1>0, <1>3 DEF HeadKept
  <2> QED
    BY <1>0, <2>1 DEF Uploads, Unaffected
<1> QED
  BY <1>1, <1>2, <1>3 DEF Uploads

\* Whatever is told RST_STREAM has nothing else to come.
LEMMA ResetsKept ==
  ASSUME Types, Resets, c.last_stream_id <= c'.last_stream_id, c'.last_stream_id \in Nat,
         c'.hb.stream \in Nat,
         peer.faulty => peer'.faulty, peer.used \subseteq peer'.used,
         ~peer'.faulty =>
           /\ \/ HeadKept
              \/ /\ c'.hb.stream \in peer'.used /\ \A i \in Indices' : c'.streams[i].id # c'.hb.stream
                 /\ c'.hb.stream > c'.last_stream_id => sent'[c'.hb.stream] = << >>
           /\ \A i \in Indices' :
                \/ \E j \in Indices : LikeReset(c'.streams[i], c.streams[j])
                \/ /\ c'.streams[i].id \in peer'.used /\ c'.streams[i].id # c'.hb.stream
                   /\ sent'[c'.streams[i].id] = << >>
           /\ \/ sent' = sent
              \/ \E id \in Ids, code \in Codes :
                   /\ h2_send_stream_error(id, code)
                   /\ \A i \in Indices' : c'.streams[i].id = id => c'.streams[i].reset
                   /\ id \in peer'.used \/ id <= c'.last_stream_id
                   /\ c'.hb.stream # id \/ c'.hb.abort
  PROVE  Resets'
<1> SUFFICES ASSUME ~peer'.faulty PROVE Resets'
  BY DEF Resets
<1>0. ~peer.faulty /\ c.last_stream_id \in Nat /\ c.hb.stream \in Nat /\ Ids \subseteq Nat \ {0}
  BY TypeFacts
<1>1. ASSUME NEW i \in Indices'
      PROVE  c'.streams[i].id \in peer'.used /\ c'.streams[i].id # c'.hb.stream
  <2>1. ASSUME NEW j \in Indices, LikeReset(c'.streams[i], c.streams[j])
        PROVE  c'.streams[i].id \in peer'.used /\ c'.streams[i].id # c'.hb.stream
    <3>1. c'.streams[i].id = c.streams[j].id /\ c.streams[j].id \in peer.used /\ c.streams[j].id # c.hb.stream
      BY <1>0, <2>1 DEF Resets, LikeReset
    <3>2. c'.streams[i].id \in Ids
      BY <3>1 DEF Types, PeerType
    <3>3. c'.streams[i].id # c'.hb.stream
      BY <1>0, <3>1, <3>2 DEF HeadKept
    <3> QED
      BY <3>1, <3>3
  <2> QED
    BY <2>1
<1>2. c'.hb.stream # 0 => c'.hb.stream \in peer'.used
  BY <1>0 DEF Resets, HeadKept
<1>3. ASSUME NEW i \in Indices', ~c'.streams[i].reset, NEW k \in 1 .. Len(sent'[c'.streams[i].id])
      PROVE  sent'[c'.streams[i].id][k].t # "rst"
  <2>1. CASE sent'[c'.streams[i].id] = << >>
    BY <1>3, <2>1
  <2>2. ASSUME NEW j \in Indices, LikeReset(c'.streams[i], c.streams[j])
        PROVE  sent'[c'.streams[i].id][k].t # "rst"
    <3>1. c'.streams[i].id = c.streams[j].id /\ ~c.streams[j].reset
      BY <1>3, <2>2 DEF LikeReset
    <3>2. c.streams[j].id \in Ids
      BY <1>0 DEF Resets, Types, PeerType
    <3>3. sent'[c.streams[j].id] = sent[c.streams[j].id]
      <4>1. ASSUME NEW id \in Ids, NEW code \in Codes, h2_send_stream_error(id, code),
                   \A m \in Indices' : c'.streams[m].id = id => c'.streams[m].reset
            PROVE  sent'[c.streams[j].id] = sent[c.streams[j].id]
        <5>1. c.streams[j].id # id
          BY <1>3, <3>1, <4>1
        <5> QED
          BY <3>2, <4>1, <5>1, RstShape DEF Types
      <4> QED
        BY <4>1
    <3> QED
      BY <1>0, <1>3, <3>1, <3>3 DEF Resets
  <2> QED
    BY <2>1, <2>2
<1>4. ASSUME NEW id \in Ids, id > c'.last_stream_id, id \notin peer'.used PROVE sent'[id] = << >>
  <2>1. id > c.last_stream_id /\ id \notin peer.used
    BY <1>0, <1>4
  <2>2. sent[id] = << >>
    BY <1>0, <2>1 DEF Resets
  <2>3. ASSUME NEW j \in Ids, NEW code \in Codes, h2_send_stream_error(j, code),
               j \in peer'.used \/ j <= c'.last_stream_id
        PROVE  sent'[id] = sent[id]
    <3>1. j # id
      BY <1>0, <1>4, <2>3
    <3> QED
      BY <2>3, <3>1, RstShape DEF Types
  <2> QED
    BY <2>2, <2>3
<1>5. c'.hb.stream > c'.last_stream_id /\ ~c'.hb.abort => sent'[c'.hb.stream] = << >>
  <2> SUFFICES ASSUME c'.hb.stream > c'.last_stream_id, ~c'.hb.abort, HeadKept
               PROVE  sent'[c'.hb.stream] = << >>
    OBVIOUS
  <2>1. c'.hb.stream = c.hb.stream /\ ~c.hb.abort /\ c.hb.stream > c.last_stream_id
    BY <1>0 DEF HeadKept
  <2>2. sent[c.hb.stream] = << >> /\ c.hb.stream \in Ids
    BY <1>0, <2>1 DEF Resets, Types, ConnType, Blocks
  <2>3. ASSUME NEW j \in Ids, NEW code \in Codes, h2_send_stream_error(j, code), c'.hb.stream # j
        PROVE  sent'[c.hb.stream] = sent[c.hb.stream]
    BY <2>1, <2>2, <2>3, RstShape DEF Types
  <2> QED
    BY <2>1, <2>2, <2>3
<1> QED
  BY <1>1, <1>2, <1>3, <1>4, <1>5 DEF Resets

\* A quiet step that answers nothing keeps Responses.
LEMMA ResponsesKept ==
  ASSUME Types, Responses, Record', Quiet, promised' = promised, peer'.got = peer.got,
         c.last_stream_id <= c'.last_stream_id, c'.last_stream_id \in Nat,
         \A i \in Indices' : (\E j \in Indices : LikeAnswer(c'.streams[i], c.streams[j])) \/ New(c'.streams[i])
  PROVE  Responses'
<1>0. c.last_stream_id \in Nat /\ Ids \subseteq Nat
  BY Sizes DEF Types, ConnType
<1>1. ASSUME NEW id \in Ids
      PROVE  /\ (\A k \in 1 .. Len(sent[id]) : sent[id][k].t = "rst") =>
                  \A k \in 1 .. Len(sent'[id]) : sent'[id][k].t = "rst"
             /\ (\A k \in 1 .. Len(sent[id]) : ~sent[id][k].es) => \A k \in 1 .. Len(sent'[id]) : ~sent'[id][k].es
             /\ (\E k \in 1 .. Len(sent[id]) : sent[id][k].t = "headers") =>
                  \E k \in 1 .. Len(sent'[id]) : sent'[id][k].t = "headers"
  <2>1. /\ Len(sent[id]) \in Nat /\ Len(sent'[id]) \in Nat /\ Len(sent[id]) <= Len(sent'[id])
        /\ \A k \in 1 .. Len(sent[id]) : sent'[id][k] = sent[id][k]
        /\ \A k \in 1 .. Len(sent'[id]) : k > Len(sent[id]) => sent'[id][k].t = "rst" /\ ~sent'[id][k].es
    BY QuietShape DEF Types
  <2>2. \A k \in 1 .. Len(sent'[id]) :
          \/ k \in 1 .. Len(sent[id]) /\ sent'[id][k] = sent[id][k]
          \/ sent'[id][k].t = "rst" /\ ~sent'[id][k].es
    BY <2>1
  <2>3. \A k \in 1 .. Len(sent[id]) : k \in 1 .. Len(sent'[id])
    BY <2>1
  <2> QED
    BY <2>1, <2>2, <2>3
<1>2. ASSUME NEW id \in Ids, id > c'.last_stream_id
      PROVE  peer'.got[id] = 0 /\ \A k \in 1 .. Len(sent'[id]) : sent'[id][k].t = "rst"
  <2>1. id > c.last_stream_id
    BY <1>0, <1>2
  <2> QED
    BY <1>1, <2>1 DEF Responses
<1>3. ASSUME NEW i \in Indices', NEW j \in Indices, LikeAnswer(c'.streams[i], c.streams[j])
      PROVE  Answering(c'.streams[i], sent'[c'.streams[i].id], peer'.got[c'.streams[i].id], promised'[c'.streams[i].id])
  <2>1. c.streams[j].id \in Ids
    BY TypeFacts
  <2>2. Answering(c.streams[j], sent[c.streams[j].id], peer.got[c.streams[j].id], promised[c.streams[j].id])
    BY DEF Responses
  <2>3. PICK id \in Ids : id = c.streams[j].id /\ id = c'.streams[i].id
    BY <1>3, <2>1 DEF LikeAnswer
  <2>4. Answering(c'.streams[i], sent[id], peer.got[id], promised[id])
    BY <1>3, <2>2, <2>3 DEF Answering, LikeAnswer
  <2>5. Answering(c'.streams[i], sent'[id], peer'.got[id], promised'[id])
    BY <1>1, <2>4 DEF Answering
  <2> QED
    BY <2>3, <2>5
<1>4. ASSUME NEW i \in Indices', New(c'.streams[i])
      PROVE  Answering(c'.streams[i], sent'[c'.streams[i].id], peer'.got[c'.streams[i].id], promised'[c'.streams[i].id])
  <2>1. c'.streams[i].id \in Ids /\ c'.streams[i].id > c.last_stream_id
    BY <1>4 DEF New, StreamType
  <2>2. peer.got[c'.streams[i].id] = 0 /\ \A k \in 1 .. Len(sent'[c'.streams[i].id]) : sent'[c'.streams[i].id][k].t = "rst"
    BY <1>1, <2>1 DEF Responses
  <2>3. \A k \in 1 .. Len(sent'[c'.streams[i].id]) : ~sent'[c'.streams[i].id][k].es
    BY <2>1, <2>2 DEF Record
  <2> QED
    BY <1>4, <2>2, <2>3 DEF Answering, New
<1> QED
  BY <1>2, <1>3, <1>4 DEF Responses
-----------------------------------------------------------------------------
(* Frames.                                                                 *)

\* What a handler leaves is right, unless it found an error.
Handled ==
  /\ c' \in ConnType /\ sent' \in [Ids -> Seq(SentType)] /\ peer' \in PeerType
  /\ c'.hb.stream # 0 => c'.hb.head \in FrameShape /\ c'.hb.head.id = c'.hb.stream
  /\ Record'
  /\ c'.error = "no_error" => Ledger'

\* The client's side of a step that is about no stream's response.
Aside ==
  /\ peer' \in PeerType /\ Settled
  /\ peer'.got = peer.got /\ peer.used \subseteq peer'.used
  /\ UNCHANGED <<seen, promised>>

\* A handler that ends in h2_conn_error.
LEMMA ErrorHandled ==
  ASSUME Types, Record, Aside, sent' = sent, c' \in ConnType, c'.error # "no_error",
         c'.hb = c.hb \/ c'.hb = NoBlock
  PROVE  Handled
<1>1. Record'
  BY RecordKept DEF Aside, Quiet
<1>2. c'.hb.stream # 0 => c'.hb.head \in FrameShape /\ c'.hb.head.id = c'.hb.stream
  BY DEF Types, NoBlock
<1> QED
  BY <1>1, <1>2 DEF Handled, Aside, Types

\* What a frame that is not refused is about.
LEMMA FrameAccepted ==
  ASSUME Types, NEW f \in FrameShape, FrameFault(f) = "none"
  PROVE  /\ f.type \in {"data", "headers", "priority", "rst"} => f.id \in Ids /\ c.hb.stream = 0
         /\ f.type = "cont" => f.id \in Ids /\ c.hb.stream = f.id
         /\ f.type # "cont" => c.hb.stream = 0
         /\ f.type = "settings" => f.id = 0
<1>1. f.id \in Ids \cup {0} /\ 0 \notin Ids
  BY Sizes DEF FrameShape
<1>2. /\ f.type \in {"data", "headers", "priority", "rst"} => f.id # 0
      /\ c.hb.stream # 0 => f.type = "cont" /\ f.id = c.hb.stream
      /\ f.type = "cont" => c.hb.stream # 0
      /\ f.type = "settings" => f.id = 0
  BY DEF FrameFault
<1> QED
  BY <1>1, <1>2

\* The streams after a handler are those before it but for some fields.
LEMMA AlikeHandled ==
  ASSUME Types, Record, Ledger, Aside, Quiet, c' \in ConnType,
         c'.hb \in {c.hb, NoBlock} \/ (c'.hb.stream # 0 => c'.hb.head \in FrameShape /\ c'.hb.head.id = c'.hb.stream),
         c'.error = "no_error" =>
           /\ c'.last_stream_id >= c.last_stream_id
           /\ Indices' = Indices /\ \A i \in Indices : LikeReset(c'.streams[i], c.streams[i])
           /\ \A i \in Indices : LikeAnswer(c'.streams[i], c.streams[i])
           /\ Credit' /\ Uploads' /\ Resets'
  PROVE  Handled
<1>1. Record' /\ sent' \in [Ids -> Seq(SentType)]
  BY RecordKept, QuietShape, Sizes DEF Aside, Types
<1>2. c'.hb.stream # 0 => c'.hb.head \in FrameShape /\ c'.hb.head.id = c'.hb.stream
  BY DEF Types, NoBlock
<1>3. ASSUME c'.error = "no_error" PROVE Ledger'
  <2>1. c'.last_stream_id \in Nat /\ c.last_stream_id \in Nat /\ c.last_stream_id <= c'.last_stream_id
    BY <1>3, TypeFacts DEF ConnType
  <2>2. Distinct'
    <3>1. \A i \in Indices' : i \in Indices /\ c'.streams[i].id = c.streams[i].id
      BY <1>3 DEF LikeReset
    <3>2. ASSUME NEW i \in Indices' PROVE c'.streams[i].id <= c'.last_stream_id
      <4>1. c.streams[i].id \in Nat /\ c.streams[i].id <= c.last_stream_id
        BY <3>1, TypeFacts DEF Ledger, Distinct
      <4> QED
        BY <2>1, <3>1, <4>1
    <3> QED
      BY <3>1, <3>2 DEF Ledger, Distinct
  <2>3. Marked'
    <3>1. \A i \in Indices' : \E j \in Indices : LikeMark(c'.streams[i], c.streams[j])
      BY <1>3 DEF LikeAnswer, LikeMark
    <3> QED
      BY <2>1, <3>1, MarkedKept DEF Ledger, Aside
  <2>4. Responses'
    <3>1. \A i \in Indices' : \E j \in Indices : LikeAnswer(c'.streams[i], c.streams[j])
      BY <1>3
    <3> QED
      BY <1>1, <2>1, <3>1, ResponsesKept DEF Ledger, Aside
  <2> QED
    BY <1>3, <2>2, <2>3, <2>4 DEF Ledger
<1> QED
  BY <1>1, <1>2, <1>3 DEF Handled, Aside

\* The frames that are about no header block and no upload.
LEMMA StreamsKept ==
  ASSUME Types, Record, Ledger, Aside, Quiet, c' \in ConnType,
         c'.error = "no_error" =>
           /\ c'.hb = c.hb /\ c'.last_stream_id = c.last_stream_id /\ Indices' = Indices /\ Credit'
           /\ \A i \in Indices : LikeUpload(c'.streams[i], c.streams[i]) /\ LikeAnswer(c'.streams[i], c.streams[i])
           /\ \/ peer'.faulty
              \/ /\ peer'.uploaded = peer.uploaded /\ peer'.ended = peer.ended /\ peer'.used = peer.used
                 /\ \/ sent' = sent
                    \/ \E id \in Ids, code \in Codes :
                         /\ h2_send_stream_error(id, code) /\ id <= c.last_stream_id /\ id # c.hb.stream
                         /\ \A i \in Indices : c.streams[i].id = id => c'.streams[i].reset,
         c'.hb \in {c.hb, NoBlock}
  PROVE  Handled
<1>1. ASSUME c'.error = "no_error" PROVE Uploads'
  <2>1. c.last_stream_id <= c'.last_stream_id /\ c'.last_stream_id \in Nat
    BY <1>1, TypeFacts
  <2>2. HeadKept
    BY <1>1 DEF HeadKept
  <2>3. peer.faulty => peer'.faulty
    BY DEF Aside, Settled
  <2>4. ~peer'.faulty => \A id : Unaffected(id)
    BY <1>1 DEF Unaffected
  <2>5. \A i \in Indices' : \E j \in Indices : LikeUpload(c'.streams[i], c.streams[j])
    BY <1>1
  <2>6. Uploads /\ peer.used \subseteq peer'.used
    BY DEF Ledger, Aside
  <2> QED
    BY <2>1, <2>2, <2>3, <2>4, <2>5, <2>6, UploadsKept
<1>2. ASSUME c'.error = "no_error" PROVE Resets'
  <2>1. c.last_stream_id <= c'.last_stream_id /\ c'.last_stream_id \in Nat /\ c'.hb.stream \in Nat
    BY <1>2, TypeFacts
  <2>2. HeadKept
    BY <1>2 DEF HeadKept
  <2>3. (peer.faulty => peer'.faulty) /\ Resets /\ peer.used \subseteq peer'.used
    BY DEF Aside, Settled, Ledger
  <2>4. \A i \in Indices' : \E j \in Indices : LikeReset(c'.streams[i], c.streams[j])
    BY <1>2 DEF LikeUpload, LikeReset
  <2>5. ~peer'.faulty =>
           \/ sent' = sent
           \/ \E id \in Ids, code \in Codes :
                   /\ h2_send_stream_error(id, code)
                   /\ \A i \in Indices' : c'.streams[i].id = id => c'.streams[i].reset
                   /\ id \in peer'.used \/ id <= c'.last_stream_id
                   /\ c'.hb.stream # id \/ c'.hb.abort
    BY <1>2 DEF LikeUpload
  <2> QED
    BY <2>1, <2>2, <2>3, <2>4, <2>5, ResetsKept
<1>3. c'.error = "no_error" => c'.last_stream_id >= c.last_stream_id
  BY TypeFacts
<1>4. c'.error = "no_error" => \A i \in Indices : LikeReset(c'.streams[i], c.streams[i])
  BY DEF LikeUpload, LikeReset
<1> QED
  BY <1>1, <1>2, <1>3, <1>4, AlikeHandled

\* A connection error leaves all else as it is.
LEMMA ConnError ==
  ASSUME Types, NEW code \in Codes, h2_conn_error(code)
  PROVE  c' \in ConnType /\ c'.error = code /\ c'.hb = c.hb
<1>1. c \in ConnType /\ c' = [c EXCEPT !.error = code]
  BY DEF Types, h2_conn_error
<1> QED
  BY <1>1, ConnUpdates, ZenonT(60) DEF ConnType

\* PRIORITY: a bad one is answered RST_STREAM, by a client that is then faulty.
LEMMA Priority ==
  ASSUME Types, Record, Ledger, UNCHANGED <<seen, promised>>,
         NEW f \in FrameShape, FrameFault(f) = "none", h2_on_priority(f)
  PROVE  Handled
<1>1. f.id \in Ids /\ c.hb.stream = 0 /\ f.type = "priority"
  BY FrameAccepted DEF h2_on_priority
<1>2. f.ok \in BOOLEAN /\ c \in ConnType /\ peer \in PeerType /\ peer.faulty \in BOOLEAN
  BY DEF FrameShape, Types, PeerType
<1>3. PICK b \in BOOLEAN : b = (peer.faulty \/ ~f.ok)
  BY <1>2, Zenon
<1>4. peer' = [peer EXCEPT !.faulty = b]
  BY <1>3, Zenon DEF h2_on_priority
<1>5. /\ peer' \in PeerType
      /\ (peer'.faulty <=> peer.faulty \/ ~f.ok)
      /\ peer'.got = peer.got /\ peer'.used = peer.used /\ peer'.ended = peer.ended
      /\ peer'.uploaded = peer.uploaded /\ peer'.conn = peer.conn /\ peer'.init = peer.init
      /\ peer'.more = peer.more
  <2>1. peer' \in PeerType
    BY <1>2, <1>4, PeerUpdates
  <2>2. peer'.faulty <=> peer.faulty \/ ~f.ok
    BY <1>2, <1>3, <1>4, Zenon DEF PeerType
  <2> QED
    BY <1>2, <1>4, <2>1, <2>2 DEF PeerType
<1>6. Aside
  BY <1>5 DEF Aside, Settled
<1>7. CASE h2_conn_error("protocol") /\ UNCHANGED sent
  BY <1>6, <1>7, ConnError, ErrorHandled DEF Codes
<1>8. ASSUME UNCHANGED c, UNCHANGED sent \/ (~f.ok /\ h2_send_stream_error(f.id, "frame_size")) PROVE Handled
  <2>1. Quiet
    BY <1>1, <1>8 DEF Quiet, Codes
  <2>2. Credit' /\ Indices' = Indices
    BY <1>5, <1>8 DEF Ledger, Credit, Indices
  <2>3. \A i \in Indices : LikeUpload(c'.streams[i], c.streams[i]) /\ LikeAnswer(c'.streams[i], c.streams[i])
    BY <1>8 DEF LikeUpload, LikeAnswer
  <2>4. peer'.faulty \/ sent' = sent
    BY <1>5, <1>8
  <2> QED
    BY <1>2, <1>5, <1>6, <1>8, <2>1, <2>2, <2>3, <2>4, StreamsKept
<1> QED
  BY <1>7, <1>8 DEF h2_on_priority, Ignored

\* A step that does not concern the client is one Aside allows.
LEMMA SameAside ==
  ASSUME Types, UNCHANGED <<peer, seen, promised>>
  PROVE  Aside
BY DEF Aside, Settled, Types

\* PING, and a SETTINGS that acknowledges: nothing changes.
LEMMA Ping ==
  ASSUME Types, Record, Ledger, UNCHANGED <<c, sent, peer, seen, promised>>
  PROVE  Handled
<1>1. Ledger' /\ Record'
  BY DEF Ledger, Distinct, Credit, Marked, Uploads, Resets, Responses, Indices,
         Record, WholeBody, NothingAfterReset, ResponsesWhole
<1> QED
  BY <1>1 DEF Handled, Types

\* A handler that touches neither the streams nor the windows.
LEMMA SameLedger ==
  ASSUME Types, Record, Ledger, UNCHANGED <<sent, peer, seen, promised>>, c' \in ConnType,
         c'.hb = c.hb, c'.last_stream_id = c.last_stream_id, c'.streams = c.streams,
         c'.conn_send_window = c.conn_send_window, c'.client_init_window = c.client_init_window
  PROVE  Handled
<1>1. Record'
  BY DEF Record, WholeBody, NothingAfterReset, ResponsesWhole
<1>2. Ledger'
  BY DEF Ledger, Distinct, Credit, Marked, Uploads, Resets, Responses, Indices
<1> QED
  BY <1>1, <1>2 DEF Handled, Types

\* GOAWAY notes the last stream the client takes.
LEMMA Goaway ==
  ASSUME Types, Record, Ledger, UNCHANGED <<seen, promised>>, NEW f \in FrameShape, h2_on_goaway(f)
  PROVE  Handled
<1>1. f.last \in Int /\ c \in ConnType /\ c' = [c EXCEPT !.client_goaway = f.last] /\ UNCHANGED <<sent, peer>>
  BY DEF FrameShape, Types, h2_on_goaway
<1>2. c' \in ConnType
  BY <1>1, ConnUpdates
<1>3. /\ c'.hb = c.hb /\ c'.last_stream_id = c.last_stream_id /\ c'.streams = c.streams
      /\ c'.conn_send_window = c.conn_send_window /\ c'.client_init_window = c.client_init_window
  BY <1>1 DEF ConnType
<1> QED
  BY <1>1, <1>2, <1>3, SameLedger

\* RST_STREAM marks the stream, if there is one.
LEMMA Rst ==
  ASSUME Types, Record, Ledger, UNCHANGED <<seen, promised>>,
         NEW f \in FrameShape, FrameFault(f) = "none", h2_on_rst(f)
  PROVE  Handled
<1>1. c \in ConnType /\ UNCHANGED <<sent, peer>> /\ Aside /\ Quiet
  BY SameAside DEF Types, h2_on_rst, Quiet
<1>2. PICK i : i = h2_find_stream(f.id)
  OBVIOUS
<1>3. CASE i # 0
  <2>1. i \in Indices
    BY <1>2, <1>3, FindStream
  <2>2. c' = [c EXCEPT !.streams = [c.streams EXCEPT ![i] = [c.streams[i] EXCEPT !.reset = TRUE]]]
    BY <1>2, <1>3 DEF h2_on_rst
  <2>3. PICK x : x = [c.streams[i] EXCEPT !.reset = TRUE]
    OBVIOUS
  <2>4. c.streams[i] \in StreamType
    BY <2>1, TypeFacts
  <2>5. x \in StreamType /\ LikeCredit(x, c.streams[i]) /\ LikeUpload(x, c.streams[i]) /\ LikeAnswer(x, c.streams[i])
    <3>1. x \in StreamType
      BY <2>3, <2>4, StreamUpdates
    <3>2. /\ x.id = c.streams[i].id /\ x.send_window = c.streams[i].send_window
          /\ (x.remote_ended <=> c.streams[i].remote_ended)
          /\ (x.body_too_big <=> c.streams[i].body_too_big) /\ x.body = c.streams[i].body /\ x.reset
          /\ (x.dispatched <=> c.streams[i].dispatched) /\ (x.response_ready <=> c.streams[i].response_ready)
          /\ (x.headers_sent <=> c.streams[i].headers_sent) /\ (x.local_ended <=> c.streams[i].local_ended)
          /\ x.left = c.streams[i].left
      BY <2>3, <2>4 DEF StreamType
    <3> QED
      BY <3>1, <3>2 DEF LikeCredit, LikeUpload, LikeAnswer
  <2>6. PICK y : y = [c.streams EXCEPT ![i] = x]
    OBVIOUS
  <2>7. c' = [c EXCEPT !.streams = y]
    BY <2>2, <2>3, <2>6
  <2>8. /\ c'.hb = c.hb /\ c'.last_stream_id = c.last_stream_id /\ c'.streams = y
        /\ c'.conn_send_window = c.conn_send_window /\ c'.client_init_window = c.client_init_window
    BY <1>1, <2>7 DEF ConnType
  <2>9. /\ c'.streams \in Seq(StreamType) /\ Indices' = Indices
        /\ c'.streams[i] = x /\ \A j \in Indices : j # i => c'.streams[j] = c.streams[j]
    BY <2>1, <2>5, <2>6, <2>8, Replaced
  <2>10. c' \in ConnType
    BY <1>1, <2>7, <2>8, <2>9, ConnUpdates
  <2>11. \A j \in Indices : LikeCredit(c'.streams[j], c.streams[j]) /\ LikeUpload(c'.streams[j], c.streams[j])
                            /\ LikeAnswer(c'.streams[j], c.streams[j])
    BY <2>5, <2>9 DEF LikeCredit, LikeUpload, LikeAnswer
  <2>12. Credit'
    <3>1. c.last_stream_id <= c'.last_stream_id /\ c'.last_stream_id \in Nat
      BY <2>8, TypeFacts
    <3> QED
      BY <1>1, <2>8, <2>9, <2>11, <3>1, CreditKept DEF Ledger
  <2> QED
    BY <1>1, <2>8, <2>9, <2>10, <2>11, <2>12, StreamsKept
<1>4. CASE i = 0 /\ f.id > c.last_stream_id
  <2>1. h2_conn_error("protocol")
    BY <1>2, <1>4 DEF h2_on_rst, h2_conn_error
  <2> QED
    BY <1>1, <2>1, ConnError, ErrorHandled DEF Codes
<1>5. CASE i = 0 /\ ~(f.id > c.last_stream_id)
  <2>1. c' = c
    BY <1>2, <1>5 DEF h2_on_rst
  <2> QED
    BY <1>1, <2>1, Ping
<1> QED
  BY <1>3, <1>4, <1>5

\* A changed initial window moves the windows of all streams, as it moves the client's credit.
LEMMA Moved ==
  ASSUME Types, Credit, NEW f \in FrameShape, NEW y, f.inc >= 0,
         y = [i \in 1 .. Len(c.streams) |-> Shift(c.streams[i], f.inc - c.client_init_window)]
  PROVE  /\ y \in Seq(StreamType) /\ Len(y) = Len(c.streams)
         /\ \A i \in Indices : /\ LikeUpload(y[i], c.streams[i]) /\ LikeAnswer(y[i], c.streams[i])
                               /\ y[i].send_window = f.inc + peer.more[c.streams[i].id]
<1>1. f.inc \in Nat /\ c.client_init_window \in Nat
  BY TypeFacts DEF FrameShape
<1>2. PICK delta \in Int : delta = f.inc - c.client_init_window
  BY <1>1
<1>3. \A i \in Indices : y[i] = [c.streams[i] EXCEPT !.send_window = @ + delta]
  BY <1>2 DEF Indices, Shift
<1>4. ASSUME NEW i \in Indices
      PROVE  /\ y[i] \in StreamType
             /\ LikeUpload(y[i], c.streams[i]) /\ LikeAnswer(y[i], c.streams[i])
             /\ y[i].send_window = c.streams[i].send_window + delta
  <2>1. PICK s \in StreamType : s = c.streams[i]
    BY TypeFacts
  <2>2. PICK w \in Int : w = s.send_window + delta
    BY <2>1 DEF StreamType
  <2>3. y[i] = [s EXCEPT !.send_window = w]
    BY <1>3, <2>1, <2>2
  <2>4. y[i] \in StreamType
    <3>1. \A x \in Int : [s EXCEPT !.send_window = x] \in StreamType
      BY StreamUpdates, Zenon
    <3> QED
      BY <2>3, <3>1, Zenon
  <2>5. /\ y[i].id = s.id /\ (y[i].reset <=> s.reset) /\ (y[i].remote_ended <=> s.remote_ended)
        /\ (y[i].body_too_big <=> s.body_too_big) /\ y[i].body = s.body
        /\ (y[i].dispatched <=> s.dispatched) /\ (y[i].response_ready <=> s.response_ready)
        /\ (y[i].headers_sent <=> s.headers_sent) /\ (y[i].local_ended <=> s.local_ended) /\ y[i].left = s.left
        /\ y[i].send_window = w
    BY <2>3 DEF StreamType
  <2> QED
    BY <2>1, <2>2, <2>4, <2>5 DEF LikeUpload, LikeAnswer
<1>5. y \in Seq(StreamType) /\ Len(y) = Len(c.streams)
  <2>1. Len(c.streams) \in Nat
    BY TypeFacts
  <2>2. y \in [1 .. Len(c.streams) -> StreamType]
    BY <1>4 DEF Indices
  <2> QED
    BY <2>1, <2>2
<1>6. ASSUME NEW i \in Indices PROVE y[i].send_window = f.inc + peer.more[c.streams[i].id]
  <2>1. c.streams[i].send_window = peer.init + peer.more[c.streams[i].id] /\ c.client_init_window = peer.init
    BY DEF Credit
  <2>2. PICK m \in Int : m = peer.more[c.streams[i].id]
    BY TypeFacts
  <2>3. y[i].send_window = c.client_init_window + m + delta
    BY <1>4, <2>1, <2>2
  <2> QED
    BY <1>1, <1>2, <2>2, <2>3, SMTT(30)
<1> QED
  BY <1>4, <1>5, <1>6

\* SETTINGS shifts every send window by the change of the initial one, and so the credit.
LEMMA Settings ==
  ASSUME Types, Record, Ledger, UNCHANGED <<seen, promised>>, NEW f \in FrameShape, h2_on_settings(f)
  PROVE  Handled
<1>1. CASE f.ack
  BY <1>1, Ping DEF h2_on_settings
<1>2. CASE ~f.ack
  <2> DEFINE y == [i \in 1 .. Len(c.streams) |-> Shift(c.streams[i], f.inc - c.client_init_window)]
             d == [c EXCEPT !.got_client_settings = TRUE]
  <2>1. sent' = sent /\ Quiet /\ peer' = (IF f.inc < 0 THEN peer ELSE [peer EXCEPT !.init = f.inc])
    BY <1>2 DEF h2_on_settings, Quiet
  <2>2. \/ f.err # "none" /\ c' = [d EXCEPT !.error = f.err]
        \/ f.inc < 0 /\ c' = d
        \/ f.inc >= 0 /\ c' = [d EXCEPT !.error = "flow_control"]
        \/ f.inc >= 0 /\ c' = [d EXCEPT !.client_init_window = f.inc, !.streams = y]
    <3>1. f.inc \in Int
      BY DEF FrameShape
    <3> QED
      BY <1>2, <3>1 DEF h2_on_settings, h2_apply_settings
  <2>3. PICK z : z = y
    OBVIOUS
  <2>4. c \in ConnType /\ peer \in PeerType /\ f.inc \in Nat \cup {-1} /\ f.err \in {"none", "protocol", "frame_size"}
    BY DEF Types, FrameShape
  <2>5. /\ d \in ConnType /\ d.hb = c.hb /\ d.last_stream_id = c.last_stream_id /\ d.streams = c.streams
        /\ d.conn_send_window = c.conn_send_window /\ d.client_init_window = c.client_init_window
        /\ d.error = c.error
    <3>1. d \in ConnType
      BY <2>4, ConnUpdates
    <3> QED
      BY <2>4, <3>1 DEF ConnType
  <2>6. PICK b \in ConnType : b = d
    BY <2>5
  <2>7. /\ peer' \in PeerType /\ peer'.faulty = peer.faulty /\ peer'.got = peer.got /\ peer'.used = peer.used
        /\ peer'.ended = peer.ended /\ peer'.uploaded = peer.uploaded /\ peer'.conn = peer.conn
        /\ peer'.more = peer.more /\ (f.inc >= 0 => peer'.init = f.inc)
    <3>1. CASE f.inc < 0
      BY <2>1, <2>4, <3>1
    <3>2. CASE f.inc >= 0
      <4>1. f.inc \in Nat /\ peer' = [peer EXCEPT !.init = f.inc]
        BY <2>1, <2>4, <3>2
      <4>2. peer' \in PeerType
        BY <2>4, <4>1, PeerUpdates
      <4> QED
        BY <2>4, <4>1, <4>2 DEF PeerType
    <3> QED
      BY <2>4, <3>1, <3>2
  <2>8. Aside
    BY <2>7 DEF Aside, Settled
  <2> HIDE DEF y, d
  <2>9. CASE f.err # "none" /\ c' = [d EXCEPT !.error = f.err]
    <3>1. f.err \in Codes /\ f.err # "no_error"
      BY <2>4, <2>9 DEF Codes
    <3>2. c' \in ConnType /\ c'.error = f.err /\ c'.hb = c.hb
      BY <2>5, <2>6, <2>9, <3>1, ConnUpdates, ZenonT(60) DEF ConnType
    <3> QED
      BY <2>1, <2>8, <3>1, <3>2, ErrorHandled
  <2>10. CASE f.inc < 0 /\ c' = d
    <3>1. peer' = peer
      BY <2>1, <2>10
    <3>2. /\ c'.hb = c.hb /\ c'.last_stream_id = c.last_stream_id /\ c'.streams = c.streams
          /\ c'.conn_send_window = c.conn_send_window /\ c'.client_init_window = c.client_init_window
          /\ c' \in ConnType
      BY <2>5, <2>10
    <3> QED
      BY <2>1, <3>1, <3>2, SameLedger
  <2>11. CASE f.inc >= 0 /\ c' = [d EXCEPT !.error = "flow_control"]
    <3>0. "flow_control" \in Codes /\ c' = [b EXCEPT !.error = "flow_control"] /\ b.hb = c.hb
      BY <2>5, <2>6, <2>11 DEF Codes
    <3>1. c' \in ConnType /\ c'.error = "flow_control" /\ c'.hb = c.hb
      BY <3>0, ConnUpdates, ZenonT(60) DEF ConnType
    <3> QED
      BY <2>1, <2>8, <3>1, ErrorHandled
  <2>12. CASE f.inc >= 0 /\ c' = [d EXCEPT !.client_init_window = f.inc, !.streams = y]
    <3>1. /\ z \in Seq(StreamType) /\ Len(z) = Len(c.streams)
          /\ \A i \in Indices : /\ LikeUpload(z[i], c.streams[i]) /\ LikeAnswer(z[i], c.streams[i])
                                /\ z[i].send_window = f.inc + peer.more[c.streams[i].id]
      BY <2>3, <2>12, Moved DEF Ledger, y
    <3>2. f.inc \in Nat
      BY <2>4, <2>12
    <3>3. c' = [b EXCEPT !.client_init_window = f.inc, !.streams = z]
      BY <2>3, <2>6, <2>12
    <3>4. c' \in ConnType
      BY <3>1, <3>2, <3>3, ConnUpdates
    <3>5. /\ c'.hb = c.hb /\ c'.last_stream_id = c.last_stream_id /\ c'.streams = z
          /\ c'.conn_send_window = c.conn_send_window /\ c'.client_init_window = f.inc
      BY <2>5, <2>6, <3>3 DEF ConnType
    <3>6. Indices' = Indices
      BY <3>1, <3>5 DEF Indices
    <3>7. Credit'
      <4>1. \A i \in Indices' : c'.streams[i].send_window = peer'.init + peer'.more[c'.streams[i].id]
        BY <2>7, <2>12, <3>1, <3>5, <3>6 DEF LikeUpload
      <4> QED
        BY <2>7, <2>12, <3>5, <4>1 DEF Ledger, Credit
    <3> QED
      BY <2>1, <2>7, <2>8, <3>1, <3>4, <3>5, <3>6, <3>7, StreamsKept
  <2> QED
    BY <2>2, <2>9, <2>10, <2>11, <2>12
<1> QED
  BY <1>1, <1>2

\* WINDOW_UPDATE.
LEMMA Window ==
  ASSUME Types, Record, Ledger, UNCHANGED <<seen, promised>>,
         NEW f \in FrameShape, FrameFault(f) = "none", h2_on_window(f)
  PROVE  Handled
<1>0. c.hb.stream = 0
  BY FrameAccepted DEF h2_on_window
<1>1. c \in ConnType /\ peer \in PeerType /\ f.inc \in Nat /\ f.id \in Ids \cup {0} /\ 0 \notin Ids
  BY Sizes DEF Types, h2_on_window, FrameShape
<1>2. PICK i : i = h2_find_stream(f.id)
  OBVIOUS
<1>3. ASSUME f.id = 0
      PROVE  /\ peer' \in PeerType /\ Aside /\ peer'.conn = peer.conn + f.inc
             /\ peer'.init = peer.init /\ peer'.more = peer.more /\ peer'.uploaded = peer.uploaded
             /\ peer'.ended = peer.ended /\ peer'.used = peer.used
  <2>1. PICK x \in Int : x = peer.conn + f.inc
    BY <1>1, TypeFacts
  <2>2. peer' = [peer EXCEPT !.conn = x]
    BY <1>3, <2>1 DEF h2_on_window
  <2>3. peer' \in PeerType
    BY <1>1, <2>2, PeerUpdates
  <2>4. /\ peer'.conn = x /\ peer'.init = peer.init /\ peer'.more = peer.more /\ peer'.uploaded = peer.uploaded
        /\ peer'.ended = peer.ended /\ peer'.used = peer.used /\ peer'.got = peer.got /\ peer'.faulty = peer.faulty
    BY <1>1, <2>2 DEF PeerType
  <2> QED
    BY <2>1, <2>3, <2>4 DEF Aside, Settled
<1>4. ASSUME f.id # 0
      PROVE  /\ peer' \in PeerType /\ Aside /\ peer'.conn = peer.conn
             /\ peer'.init = peer.init /\ peer'.more = [peer.more EXCEPT ![f.id] = @ + f.inc]
             /\ peer'.uploaded = peer.uploaded /\ peer'.ended = peer.ended /\ peer'.used = peer.used
             /\ peer'.faulty <=> peer.faulty \/ f.inc = 0
  <2>1. f.id \in Ids /\ peer.more \in [Ids -> Int] /\ peer.faulty \in BOOLEAN
    BY <1>1, <1>4 DEF PeerType
  <2>2. PICK x \in [Ids -> Int] : x = [peer.more EXCEPT ![f.id] = @ + f.inc]
    <3>1. peer.more[f.id] + f.inc \in Int
      BY <1>1, <2>1
    <3> QED
      BY <2>1, <3>1
  <2>3. PICK b \in BOOLEAN : b = (peer.faulty \/ f.inc = 0)
    BY <2>1, Zenon
  <2>4. peer' = [peer EXCEPT !.more = x, !.faulty = b]
    BY <1>4, <2>2, <2>3, Zenon DEF h2_on_window
  <2>5. peer' \in PeerType
    BY <1>1, <2>4, PeerUpdates
  <2>6. /\ peer'.conn = peer.conn /\ peer'.init = peer.init /\ peer'.more = x /\ peer'.uploaded = peer.uploaded
        /\ peer'.ended = peer.ended /\ peer'.used = peer.used /\ peer'.got = peer.got /\ peer'.faulty = b
    BY <1>1, <2>4 DEF PeerType
  <2>7. peer'.faulty <=> peer.faulty \/ f.inc = 0
    BY <2>3, <2>6, Zenon
  <2> QED
    BY <2>2, <2>5, <2>6, <2>7 DEF Aside, Settled
<1>5. CASE f.inc = 0 /\ f.id = 0 /\ h2_conn_error("protocol") /\ UNCHANGED sent
  BY <1>3, <1>5, ConnError, ErrorHandled DEF Codes
<1>6. CASE f.inc = 0 /\ f.id # 0 /\ h2_send_stream_error(f.id, "protocol") /\ UNCHANGED c
  <2>1. f.id \in Ids /\ Quiet
    BY <1>1, <1>6 DEF Quiet, Codes
  <2>2. \A id \in Ids : peer'.more[id] = peer.more[id]
    <3>1. peer.more \in [Ids -> Int]
      BY TypeFacts
    <3>2. peer.more[f.id] + f.inc = peer.more[f.id]
      BY <1>6, <2>1, <3>1
    <3> QED
      BY <1>4, <1>6, <2>1, <3>1, <3>2
  <2>3. Indices' = Indices
    BY <1>6 DEF Indices
  <2>4. Credit'
    <3>1. ASSUME NEW j \in Indices PROVE c.streams[j].send_window = peer'.init + peer'.more[c.streams[j].id]
      <4>1. c.streams[j].id \in Ids
        BY TypeFacts
      <4> QED
        BY <1>4, <1>6, <2>2, <4>1 DEF Ledger, Credit
    <3> QED
      BY <1>4, <1>6, <2>2, <2>3, <3>1 DEF Ledger, Credit
  <2>5. \A j \in Indices : LikeUpload(c'.streams[j], c.streams[j]) /\ LikeAnswer(c'.streams[j], c.streams[j])
    BY <1>6 DEF LikeUpload, LikeAnswer
  <2> QED
    BY <1>1, <1>4, <1>6, <2>1, <2>3, <2>4, <2>5, StreamsKept
<1>7. CASE /\ f.inc > 0 /\ f.id = 0 /\ UNCHANGED sent
           /\ c' = [c EXCEPT !.conn_send_window = @ + f.inc,
                             !.error = IF c.conn_send_window + f.inc > MaxWindow THEN "flow_control" ELSE @]
  <2>1. PICK w \in Int : w = c.conn_send_window + f.inc
    BY <1>1, TypeFacts
  <2>2. PICK e \in Codes : e = IF w > MaxWindow THEN "flow_control" ELSE c.error
    BY <1>1 DEF ConnType, Codes
  <2>3. c' = [c EXCEPT !.conn_send_window = w, !.error = e]
    BY <1>7, <2>1, <2>2
  <2>4. c' \in ConnType
    BY <1>1, <2>3, ConnUpdates
  <2>5. /\ c'.hb = c.hb /\ c'.last_stream_id = c.last_stream_id /\ c'.streams = c.streams
        /\ c'.conn_send_window = w /\ c'.client_init_window = c.client_init_window
    BY <1>1, <2>3 DEF ConnType
  <2>6. Indices' = Indices /\ Quiet
    BY <1>7, <2>5 DEF Indices, Quiet
  <2>7. Credit'
    BY <1>3, <1>7, <2>1, <2>5, <2>6 DEF Ledger, Credit
  <2>8. \A j \in Indices : LikeUpload(c'.streams[j], c.streams[j]) /\ LikeAnswer(c'.streams[j], c.streams[j])
    BY <2>5 DEF LikeUpload, LikeAnswer
  <2> QED
    BY <1>3, <1>7, <2>4, <2>5, <2>6, <2>7, <2>8, StreamsKept
<1>8. CASE f.inc > 0 /\ f.id # 0 /\ i = 0 /\ f.id > c.last_stream_id /\ h2_conn_error("protocol") /\ UNCHANGED sent
  BY <1>4, <1>8, ConnError, ErrorHandled DEF Codes
<1>9. CASE f.inc > 0 /\ f.id # 0 /\ i = 0 /\ ~(f.id > c.last_stream_id) /\ UNCHANGED <<c, sent>>
  <2>1. f.id \in Ids /\ peer.more \in [Ids -> Int]
    BY <1>1, <1>9, TypeFacts
  <2>2. \A id \in Ids : id # f.id => peer'.more[id] = peer.more[id]
    BY <1>4, <1>9, <2>1
  <2>3. Indices' = Indices /\ Quiet
    BY <1>9 DEF Indices, Quiet
  <2>4. Credit'
    <3>1. ASSUME NEW j \in Indices PROVE c.streams[j].send_window = peer'.init + peer'.more[c.streams[j].id]
      <4>1. c.streams[j].id \in Ids /\ c.streams[j].id # f.id
        BY <1>1, <1>2, <1>9, TypeFacts, FindStream
      <4> QED
        BY <1>4, <1>9, <2>2, <4>1 DEF Ledger, Credit
    <3> QED
      BY <1>4, <1>9, <2>2, <2>3, <3>1 DEF Ledger, Credit
  <2>5. \A j \in Indices : LikeUpload(c'.streams[j], c.streams[j]) /\ LikeAnswer(c'.streams[j], c.streams[j])
    BY <1>9 DEF LikeUpload, LikeAnswer
  <2> QED
    BY <1>1, <1>4, <1>9, <2>3, <2>4, <2>5, StreamsKept
<1> DEFINE win == c.streams[i].send_window + f.inc
<1>10. CASE /\ f.inc > 0 /\ f.id # 0 /\ i # 0
            /\ c' = [c EXCEPT !.streams[i].send_window = win, !.streams[i].reset = @ \/ win > MaxWindow]
            /\ IF win > MaxWindow THEN h2_send_stream_error(f.id, "flow_control") ELSE UNCHANGED sent
  <2>1. i \in Indices /\ c.streams[i].id = f.id /\ f.id \in Ids /\ peer.more \in [Ids -> Int]
    BY <1>1, <1>2, <1>10, FindStream, TypeFacts
  <2>2. PICK s \in StreamType : s = c.streams[i]
    BY <2>1, TypeFacts
  <2>3. PICK w \in Int : w = s.send_window + f.inc
    BY <1>1 DEF StreamType
  <2>4. s.reset \in BOOLEAN /\ MaxWindow \in Nat
    BY Sizes DEF StreamType
  <2>5. PICK b \in BOOLEAN : b = (s.reset \/ w > MaxWindow)
    BY <2>4, Zenon
  <2>6. PICK x : x = [s EXCEPT !.send_window = w, !.reset = b]
    OBVIOUS
  <2>7. PICK y : y = [c.streams EXCEPT ![i] = x]
    OBVIOUS
  <2>8. c' = [c EXCEPT !.streams = y]
    <3>1. c' = [c EXCEPT !.streams[i].send_window = w, !.streams[i].reset = @ \/ w > MaxWindow]
      BY <1>10, <2>2, <2>3
    <3>2. c' = [c EXCEPT !.streams = [c.streams EXCEPT ![i] =
                  [c.streams[i] EXCEPT !.send_window = w, !.reset = @ \/ w > MaxWindow]]]
      BY <3>1
    <3> QED
      BY <2>2, <2>5, <2>6, <2>7, <3>2, Zenon
  <2>9. x \in StreamType /\ LikeUpload(x, s) /\ LikeAnswer(x, s) /\ x.send_window = w /\ (w > MaxWindow => x.reset)
    <3>1. x \in StreamType
      BY <2>6, StreamUpdates, Zenon
    <3>2. /\ x.id = s.id /\ x.send_window = w /\ (x.remote_ended <=> s.remote_ended)
          /\ (x.body_too_big <=> s.body_too_big) /\ x.body = s.body
          /\ (x.dispatched <=> s.dispatched) /\ (x.response_ready <=> s.response_ready)
          /\ (x.headers_sent <=> s.headers_sent) /\ (x.local_ended <=> s.local_ended)
          /\ x.left = s.left /\ x.reset = b
      BY <2>6 DEF StreamType
    <3>3. (w > MaxWindow => x.reset) /\ (s.reset => x.reset)
      BY <2>4, <2>5, <3>2, Zenon
    <3> QED
      BY <3>1, <3>2, <3>3 DEF LikeUpload, LikeAnswer
  <2>10. /\ c'.hb = c.hb /\ c'.last_stream_id = c.last_stream_id /\ c'.streams = y
         /\ c'.conn_send_window = c.conn_send_window /\ c'.client_init_window = c.client_init_window
    BY <1>1, <2>8 DEF ConnType
  <2>11. /\ c'.streams \in Seq(StreamType) /\ Indices' = Indices
         /\ c'.streams[i] = x /\ \A j \in Indices : j # i => c'.streams[j] = c.streams[j]
    BY <2>1, <2>7, <2>9, <2>10, Replaced
  <2>12. c' \in ConnType
    BY <1>1, <2>8, <2>10, <2>11, ConnUpdates
  <2>13. \A j \in Indices : LikeUpload(c'.streams[j], c.streams[j]) /\ LikeAnswer(c'.streams[j], c.streams[j])
    BY <2>2, <2>9, <2>11 DEF LikeUpload, LikeAnswer
  <2>14. Credit'
    <3>0. peer'.init = peer.init
      BY <1>4, <1>10
    <3>1. peer'.more[f.id] = peer.more[f.id] + f.inc /\ \A id \in Ids : id # f.id => peer'.more[id] = peer.more[id]
      BY <1>4, <1>10, <2>1
    <3>2. ASSUME NEW j \in Indices PROVE c'.streams[j].send_window = peer'.init + peer'.more[c'.streams[j].id]
      <4>1. CASE j = i
        <5>1. x.id = f.id /\ s.send_window = peer.init + peer.more[f.id]
          BY <2>1, <2>2, <2>9 DEF Ledger, Credit, LikeUpload
        <5>2. peer.init \in Int /\ peer.more[f.id] \in Int
          BY <2>1, TypeFacts
        <5>3. w = peer.init + (peer.more[f.id] + f.inc)
          BY <1>1, <2>3, <5>1, <5>2
        <5> QED
          BY <2>9, <2>11, <3>0, <3>1, <4>1, <5>1, <5>3
      <4>2. CASE j # i
        <5>1. c.streams[j].id \in Ids /\ c.streams[j].id # f.id
          BY <2>1, <4>2, TypeFacts DEF Ledger, Distinct
        <5> QED
          BY <2>11, <3>0, <3>1, <4>2, <5>1 DEF Ledger, Credit
      <4> QED
        BY <4>1, <4>2
    <3>3. ASSUME NEW id \in Ids, id > c.last_stream_id PROVE peer'.more[id] = 0
      <4>1. f.id <= c.last_stream_id /\ f.id \in Nat /\ id \in Nat /\ c.last_stream_id \in Nat
        BY <2>1, TypeFacts DEF Ledger, Distinct
      <4>2. id # f.id
        BY <3>3, <4>1
      <4> QED
        BY <3>1, <3>3, <4>2 DEF Ledger, Credit
    <3> QED
      BY <1>4, <1>10, <2>10, <2>11, <3>2, <3>3 DEF Ledger, Credit
  <2>15. \/ sent' = sent
         \/ /\ h2_send_stream_error(f.id, "flow_control") /\ "flow_control" \in Codes
            /\ f.id <= c.last_stream_id /\ f.id # c.hb.stream
            /\ \A j \in Indices : c.streams[j].id = f.id => c'.streams[j].reset
    <3>1. CASE w > MaxWindow
      <4>1. h2_send_stream_error(f.id, "flow_control") /\ "flow_control" \in Codes
        BY <1>10, <2>2, <2>3, <3>1 DEF Codes
      <4>2. f.id <= c.last_stream_id /\ f.id # c.hb.stream
        BY <1>0, <1>10, <2>1 DEF Ledger, Distinct
      <4>3. \A j \in Indices : c.streams[j].id = f.id => c'.streams[j].reset
        BY <2>1, <2>9, <2>11, <3>1 DEF Ledger, Distinct
      <4> QED
        BY <4>1, <4>2, <4>3
    <3>2. CASE ~(w > MaxWindow)
      BY <1>10, <2>2, <2>3, <3>2
    <3> QED
      BY <3>1, <3>2
  <2>16. Quiet
    BY <2>1, <2>15 DEF Quiet
  <2> QED
    BY <1>4, <1>10, <2>1, <2>10, <2>11, <2>12, <2>13, <2>14, <2>15, <2>16, StreamsKept
<1> QED
  BY <1>2, <1>5, <1>6, <1>7, <1>8, <1>9, <1>10, Zenon DEF h2_on_window

\* What the client notes when it sends a DATA frame.
LEMMA UploadShape ==
  ASSUME Types, UNCHANGED <<seen, promised>>, NEW f \in FrameShape, f.id \in Ids,
         NEW conn \in BOOLEAN, NEW stream \in BOOLEAN, Upload(f, conn, stream)
  PROVE  /\ Aside /\ peer'.conn = peer.conn /\ peer'.init = peer.init /\ peer'.more = peer.more
         /\ peer'.used = peer.used
         /\ \A id \in Ids : id # f.id => Unaffected(id)
         /\ f.id \notin peer.ended => peer'.uploaded[f.id] = peer.uploaded[f.id] + f.len
         /\ f.id \notin peer.ended => (f.id \in peer'.ended <=> f.es)
<1>1. peer \in PeerType /\ f.len \in Nat /\ f.es \in BOOLEAN
  BY DEF Types, FrameShape
<1>2. /\ peer.up \in Int /\ peer.ups \in [Ids -> Int] /\ peer.uploaded \in [Ids -> Nat]
      /\ peer.ended \in SUBSET Ids /\ peer.faulty \in BOOLEAN
  BY <1>1 DEF PeerType
<1>3. PICK u \in Int : u = peer.up - f.len + (IF conn THEN f.len ELSE 0)
  BY <1>1, <1>2
<1>4. PICK v \in [Ids -> Int] : v = [peer.ups EXCEPT ![f.id] = @ - f.len + (IF stream THEN f.len ELSE 0)]
  <2>1. peer.ups[f.id] - f.len + (IF stream THEN f.len ELSE 0) \in Int
    BY <1>1, <1>2
  <2> QED
    BY <1>2, <2>1
<1>5. PICK x \in [Ids -> Nat] : x = [peer.uploaded EXCEPT ![f.id] = IF f.id \in peer.ended THEN @ ELSE @ + f.len]
  <2>1. (IF f.id \in peer.ended THEN peer.uploaded[f.id] ELSE peer.uploaded[f.id] + f.len) \in Nat
    BY <1>1, <1>2
  <2> QED
    BY <1>2, <2>1
<1>6. PICK y \in SUBSET Ids : y = IF f.es THEN peer.ended \cup {f.id} ELSE peer.ended
  BY <1>2
<1>7. PICK z \in BOOLEAN : z = (peer.faulty \/ f.len > peer.up \/ f.len > peer.ups[f.id])
  BY <1>2, Zenon
<1>8. peer' = [peer EXCEPT !.up = u, !.ups = v, !.uploaded = x, !.ended = y, !.faulty = z]
  <2>1. peer' = [peer EXCEPT
             !.up = peer.up - f.len + (IF conn THEN f.len ELSE 0),
             !.ups = [peer.ups EXCEPT ![f.id] = @ - f.len + (IF stream THEN f.len ELSE 0)],
             !.uploaded = [peer.uploaded EXCEPT ![f.id] = IF f.id \in peer.ended THEN @ ELSE @ + f.len],
             !.ended = IF f.es THEN peer.ended \cup {f.id} ELSE peer.ended,
             !.faulty = peer.faulty \/ f.len > peer.up \/ f.len > peer.ups[f.id]]
    BY DEF Upload
  <2> QED
    BY <1>3, <1>4, <1>5, <1>6, <1>7, <2>1, Zenon
<1>9. peer' \in PeerType
  BY <1>1, <1>8, PeerUpdates, Zenon
<1>10. /\ peer'.conn = peer.conn /\ peer'.init = peer.init /\ peer'.more = peer.more /\ peer'.got = peer.got
       /\ peer'.used = peer.used /\ peer'.uploaded = x /\ peer'.ended = y /\ peer'.faulty = z
  BY <1>1, <1>8 DEF PeerType
<1>11. peer.faulty => peer'.faulty
  BY <1>7, <1>10, Zenon
<1>12. \A id \in Ids : id # f.id => x[id] = peer.uploaded[id]
  BY <1>2, <1>5
<1>13. x[f.id] = IF f.id \in peer.ended THEN peer.uploaded[f.id] ELSE peer.uploaded[f.id] + f.len
  BY <1>2, <1>5
<1>14. \A id \in peer.ended : x[id] = peer.uploaded[id]
  BY <1>2, <1>12, <1>13
<1>15. peer.ended \subseteq y
  BY <1>6
<1>16. Aside
  BY <1>9, <1>10, <1>11, <1>14, <1>15 DEF Aside, Settled
<1> QED
  BY <1>6, <1>10, <1>12, <1>13, <1>16 DEF Unaffected

\* DATA: the body grows by what the client uploaded, or the stream is reset.
LEMMA Data ==
  ASSUME Types, Record, Ledger, UNCHANGED <<seen, promised>>,
         NEW f \in FrameShape, FrameFault(f) = "none", h2_on_data(f)
  PROVE  Handled
<1>0. c.hb.stream = 0 /\ f.id \in Ids /\ f.id \in Nat /\ c.last_stream_id \in Nat
  BY FrameAccepted, TypeFacts DEF h2_on_data
<1>1. c \in ConnType /\ f.len \in Nat
  BY DEF Types, FrameShape
<1>2. PICK i : i = h2_find_stream(f.id)
  OBVIOUS
<1>3. PICK d : d = [c EXCEPT !.conn_recv_window = @ - f.len]
  OBVIOUS
<1>4. /\ d \in ConnType /\ d.hb = c.hb /\ d.last_stream_id = c.last_stream_id /\ d.streams = c.streams
      /\ d.conn_send_window = c.conn_send_window /\ d.client_init_window = c.client_init_window
  <2>1. PICK w \in Int : w = c.conn_recv_window - f.len
    BY <1>1, TypeFacts
  <2>2. d = [c EXCEPT !.conn_recv_window = w]
    BY <1>3, <2>1
  <2>3. d \in ConnType
    BY <1>1, <2>2, ConnUpdates
  <2> QED
    BY <1>1, <2>2, <2>3 DEF ConnType
<1>5. CASE h2_conn_error("flow_control") /\ Upload(f, FALSE, FALSE) /\ UNCHANGED sent
  <2>1. Aside
    BY <1>0, <1>5, UploadShape
  <2> QED
    BY <1>5, <2>1, ConnError, ErrorHandled DEF Codes
<1>6. CASE i = 0 /\ Upload(f, TRUE, FALSE) /\ c' = [d EXCEPT !.error = "protocol"] /\ UNCHANGED sent
  <2>1. Aside
    BY <1>0, <1>6, UploadShape
  <2>2. c' \in ConnType /\ c'.error = "protocol" /\ c'.hb = c.hb
    <3>1. "protocol" \in Codes
      BY DEF Codes
    <3> QED
      BY <1>4, <1>6, <3>1, ConnUpdates, ZenonT(60) DEF ConnType
  <2> QED
    BY <1>6, <2>1, <2>2, ErrorHandled
<1>7. CASE /\ i = 0 /\ Upload(f, TRUE, FALSE) /\ ~(f.id > c.last_stream_id)
           /\ c' = d /\ h2_send_stream_error(f.id, "stream_closed")
  <2>1. /\ Aside /\ peer'.conn = peer.conn /\ peer'.init = peer.init /\ peer'.more = peer.more
        /\ peer'.used = peer.used /\ \A id \in Ids : id # f.id => Unaffected(id)
    BY <1>0, <1>7, UploadShape
  <2>2. Quiet /\ "stream_closed" \in Codes
    BY <1>0, <1>7 DEF Quiet, Codes
  <2>3. Indices' = Indices /\ \A j \in Indices : c'.streams[j] = c.streams[j]
    BY <1>4, <1>7 DEF Indices
  <2>4. \A j \in Indices : c.streams[j].id \in Ids /\ c.streams[j].id # f.id
    BY <1>1, <1>2, <1>7, TypeFacts, FindStream
  <2>5. /\ c.last_stream_id <= c'.last_stream_id /\ c'.last_stream_id \in Nat /\ c'.hb.stream = 0
        /\ c'.last_stream_id = c.last_stream_id /\ f.id <= c'.last_stream_id
    BY <1>0, <1>4, <1>7
  <2>6. \A id \in Ids : id > c'.last_stream_id => id # f.id
    BY <1>0, <2>5, TypeFacts
  <2>7. peer.faulty => peer'.faulty
    BY <2>1 DEF Aside, Settled
  <2>8. Credit'
    BY <1>4, <1>7, <2>1, <2>3, <2>5 DEF Ledger, Credit
  <2>9. Uploads'
    <3>1. \A j \in Indices' : \E k \in Indices : LikeUpload(c'.streams[j], c.streams[k]) /\ Unaffected(c.streams[k].id)
      BY <2>1, <2>3, <2>4 DEF LikeUpload
    <3>2. ~(c'.hb.stream > c'.last_stream_id)
      BY <2>5
    <3>3. \A id \in Ids : id > c'.last_stream_id => Unaffected(id)
      BY <2>1, <2>6
    <3> QED
      BY <2>1, <2>5, <2>7, <3>1, <3>2, <3>3, UploadsKept DEF Ledger
  <2>10. Resets'
    <3>1. HeadKept
      BY <2>5 DEF HeadKept
    <3>2. \A j \in Indices' : \E k \in Indices : LikeReset(c'.streams[j], c.streams[k])
      BY <2>3 DEF LikeReset
    <3>3. /\ h2_send_stream_error(f.id, "stream_closed")
          /\ \A j \in Indices' : c'.streams[j].id = f.id => c'.streams[j].reset
          /\ f.id <= c'.last_stream_id /\ c'.hb.stream # f.id /\ c'.hb.stream \in Nat
      BY <1>0, <1>7, <2>3, <2>4, <2>5, TypeFacts
    <3> QED
      BY <1>0, <2>1, <2>2, <2>5, <2>7, <3>1, <3>2, <3>3, ResetsKept DEF Ledger
  <2>11. \A j \in Indices : LikeReset(c'.streams[j], c.streams[j]) /\ LikeAnswer(c'.streams[j], c.streams[j])
    BY <2>3 DEF LikeReset, LikeAnswer
  <2>12. c'.hb = c.hb /\ c' \in ConnType /\ c'.last_stream_id >= c.last_stream_id
    BY <1>0, <1>4, <1>7
  <2> QED
    BY <2>1, <2>2, <2>3, <2>8, <2>9, <2>10, <2>11, <2>12, AlikeHandled
<1>8. CASE /\ i # 0 /\ Upload(f, TRUE, f.len <= c.streams[i].recv_window)
           /\ c' = [d EXCEPT !.streams[i] = Received(@, f)]
           /\ IF DataVerdict(c.streams[i], f) = "none" THEN UNCHANGED sent
              ELSE h2_send_stream_error(f.id, DataVerdict(c.streams[i], f))
  <2>1. i \in Indices /\ c.streams[i].id = f.id
    BY <1>1, <1>2, <1>8, FindStream
  <2>2. PICK s \in StreamType : s = c.streams[i]
    BY <2>1, TypeFacts
  <2>3. PICK x : x = Received(s, f)
    OBVIOUS
  <2>4. /\ x \in StreamType
        /\ x.id = s.id /\ x.send_window = s.send_window /\ x.left = s.left
        /\ (x.dispatched <=> s.dispatched) /\ (x.response_ready <=> s.response_ready)
        /\ (x.headers_sent <=> s.headers_sent) /\ (x.local_ended <=> s.local_ended)
        /\ s.reset => x.reset
        /\ DataVerdict(s, f) # "none" => x.reset
        /\ ~x.reset => /\ ~s.remote_ended /\ (x.remote_ended <=> f.es)
                       /\ ~x.body_too_big => ~s.body_too_big /\ x.body = s.body + f.len
    BY <2>3, ReceivedShape
  <2>5. PICK y : y = [c.streams EXCEPT ![i] = x]
    OBVIOUS
  <2>6. c' = [d EXCEPT !.streams = y]
    BY <1>4, <1>8, <2>2, <2>3, <2>5
  <2>7. /\ c'.hb = c.hb /\ c'.last_stream_id = c.last_stream_id /\ c'.streams = y
        /\ c'.conn_send_window = c.conn_send_window /\ c'.client_init_window = c.client_init_window
    BY <1>4, <2>6 DEF ConnType
  <2>8. /\ c'.streams \in Seq(StreamType) /\ Indices' = Indices
        /\ c'.streams[i] = x /\ \A j \in Indices : j # i => c'.streams[j] = c.streams[j]
    BY <2>1, <2>4, <2>5, <2>7, Replaced
  <2>9. c' \in ConnType
    BY <1>4, <2>6, <2>7, <2>8, ConnUpdates
  <2>10. PICK b \in BOOLEAN : b = (f.len <= c.streams[i].recv_window)
    <3>1. (f.len <= c.streams[i].recv_window) \in BOOLEAN
      OBVIOUS
    <3> QED
      BY <3>1, Zenon
  <2>11. /\ Aside /\ peer'.conn = peer.conn /\ peer'.init = peer.init /\ peer'.more = peer.more
         /\ peer'.used = peer.used /\ \A id \in Ids : id # f.id => Unaffected(id)
         /\ f.id \notin peer.ended => peer'.uploaded[f.id] = peer.uploaded[f.id] + f.len
         /\ f.id \notin peer.ended => (f.id \in peer'.ended <=> f.es)
    <3>1. Upload(f, TRUE, b)
      BY <1>8, <2>10, Zenon
    <3> QED
      BY <1>0, <3>1, UploadShape
  <2>12. /\ c.last_stream_id <= c'.last_stream_id /\ c'.last_stream_id \in Nat /\ c'.hb.stream = 0
         /\ f.id <= c'.last_stream_id /\ c'.last_stream_id >= c.last_stream_id
    BY <1>0, <2>1, <2>7 DEF Ledger, Distinct
  <2>13. \A id \in Ids : id > c'.last_stream_id => id # f.id
    BY <1>0, <2>12, TypeFacts
  <2>14. peer.faulty => peer'.faulty
    BY <2>11 DEF Aside, Settled
  <2>15. \A j \in Indices : j # i => c.streams[j].id \in Ids /\ c.streams[j].id # f.id
    BY <2>1, TypeFacts DEF Ledger, Distinct
  <2>16. \A j \in Indices : /\ LikeReset(c'.streams[j], c.streams[j]) /\ LikeAnswer(c'.streams[j], c.streams[j])
                            /\ LikeCredit(c'.streams[j], c.streams[j])
    BY <2>2, <2>4, <2>8 DEF LikeReset, LikeAnswer, LikeCredit
  <2>17. Credit'
    BY <2>7, <2>8, <2>11, <2>12, <2>16, CreditKept DEF Ledger
  <2>18. Uploads'
    <3>1. ASSUME NEW j \in Indices', j # i
          PROVE  \E k \in Indices : LikeUpload(c'.streams[j], c.streams[k]) /\ Unaffected(c.streams[k].id)
      BY <2>8, <2>11, <2>15, <3>1 DEF LikeUpload
    <3>2. ASSUME ~peer'.faulty, ~x.reset
          PROVE  /\ x.remote_ended <=> x.id \in peer'.ended
                 /\ ~x.body_too_big => x.body = peer'.uploaded[x.id]
      <4>1. ~peer.faulty /\ ~s.reset /\ ~s.remote_ended
        BY <2>4, <2>14, <3>2
      <4>2. f.id \notin peer.ended /\ (~s.body_too_big => s.body = peer.uploaded[f.id])
        BY <2>1, <2>2, <4>1 DEF Ledger, Uploads
      <4>3. x.id = f.id
        BY <2>1, <2>2, <2>4
      <4> QED
        BY <2>4, <2>11, <3>2, <4>2, <4>3
    <3>3. ~(c'.hb.stream > c'.last_stream_id)
      BY <2>12
    <3>4. \A id \in Ids : id > c'.last_stream_id => Unaffected(id)
      BY <2>11, <2>13
    <3> QED
      BY <2>8, <2>11, <2>12, <2>14, <3>1, <3>2, <3>3, <3>4, UploadsKept DEF Ledger
  <2>19. \/ sent' = sent
         \/ \E code \in Codes : h2_send_stream_error(f.id, code) /\ x.reset
    <3>1. DataVerdict(s, f) \in Codes
      BY DEF DataVerdict, Codes
    <3> QED
      BY <1>8, <2>2, <2>4, <3>1
  <2>20. Resets'
    <3>1. HeadKept
      BY <2>12 DEF HeadKept
    <3>2. \A j \in Indices' : \E k \in Indices : LikeReset(c'.streams[j], c.streams[k])
      BY <2>8, <2>16
    <3>3. x.reset => \A j \in Indices' : c'.streams[j].id = f.id => c'.streams[j].reset
      BY <2>8, <2>15
    <3>4. f.id <= c'.last_stream_id /\ c'.hb.stream # f.id /\ c'.hb.stream \in Nat
      BY <1>0, <2>12, TypeFacts
    <3> QED
      BY <1>0, <2>11, <2>12, <2>14, <2>19, <3>1, <3>2, <3>3, <3>4, ResetsKept DEF Ledger
  <2>21. Quiet
    BY <1>0, <2>19 DEF Quiet
  <2> QED
    BY <2>7, <2>8, <2>9, <2>11, <2>12, <2>16, <2>17, <2>18, <2>20, <2>21, AlikeHandled
<1> QED
  BY <1>2, <1>3, <1>5, <1>6, <1>7, <1>8, Zenon DEF h2_on_data

\* The client's side when the block of a request h is complete: h is the last it
\* did, on a stream it had not used before.
Opening(h) ==
  /\ Aside /\ peer'.conn = peer.conn /\ peer'.init = peer.init /\ peer'.more = peer.more
  /\ peer'.uploaded = peer.uploaded
  /\ ~peer'.faulty =>
       /\ h.id \in peer'.used /\ \A i \in Indices : c.streams[i].id # h.id
       /\ \A id \in Ids : id # h.id => (id \in peer'.ended <=> id \in peer.ended)
       /\ h.id > c.last_stream_id => sent[h.id] = << >> /\ (h.id \in peer'.ended <=> h.es)

\* A stream that is turned away is answered with RST_STREAM.
LEMMA TurnedAway ==
  ASSUME Types, Record, Ledger, NEW h \in FrameShape, h.id \in Ids, Opening(h), c' \in ConnType,
         c'.hb \in {c.hb, NoBlock}, c'.hb.stream = 0, c'.streams = c.streams,
         c'.conn_send_window = c.conn_send_window, c'.client_init_window = c.client_init_window,
         c'.last_stream_id >= c.last_stream_id,
         NEW code \in Codes, h2_send_stream_error(h.id, code)
  PROVE  Handled
<1>1. /\ Aside /\ peer'.conn = peer.conn /\ peer'.init = peer.init /\ peer'.more = peer.more
      /\ peer'.uploaded = peer.uploaded
  BY DEF Opening
<1>2. Quiet
  BY DEF Quiet
<1>3. Indices' = Indices
  BY DEF Indices
<1>4. c'.last_stream_id \in Nat /\ c.last_stream_id \in Nat /\ c.last_stream_id <= c'.last_stream_id
  BY TypeFacts DEF ConnType
<1>5. (peer.faulty => peer'.faulty) /\ peer.used \subseteq peer'.used
  BY <1>1 DEF Aside, Settled
<1>6. Credit'
  <2>1. \A i \in Indices' : \E j \in Indices : LikeCredit(c'.streams[i], c.streams[j])
    BY <1>3 DEF LikeCredit
  <2> QED
    BY <1>1, <1>4, <2>1, CreditKept DEF Ledger
<1>7. Uploads'
  <2>1. ASSUME ~peer'.faulty, NEW i \in Indices'
        PROVE  \E j \in Indices : LikeUpload(c'.streams[i], c.streams[j]) /\ Unaffected(c.streams[j].id)
    <3>1. i \in Indices /\ c.streams[i].id \in Ids /\ c.streams[i].id # h.id
      BY <1>3, <2>1, TypeFacts DEF Opening
    <3> QED
      BY <1>1, <2>1, <3>1 DEF LikeUpload, Unaffected, Opening
  <2>2. ASSUME ~peer'.faulty, NEW id \in Ids
        PROVE  Unaffected(id) \/ (id \in peer'.used /\ peer'.uploaded[id] = peer.uploaded[id])
    BY <2>2 DEF Opening, Unaffected
  <2>3. ~(c'.hb.stream > c'.last_stream_id)
    BY <1>4
  <2> QED
    BY <1>4, <1>5, <2>1, <2>2, <2>3, UploadsKept DEF Ledger
<1>8. Resets'
  <2>1. HeadKept
    BY DEF HeadKept
  <2>2. \A i \in Indices' : \E j \in Indices : LikeReset(c'.streams[i], c.streams[j])
    BY <1>3 DEF LikeReset
  <2>3. ~peer'.faulty => /\ \A i \in Indices' : c'.streams[i].id = h.id => c'.streams[i].reset
                         /\ h.id \in peer'.used
    BY <1>3 DEF Opening
  <2>4. c'.hb.stream # h.id /\ c'.hb.stream \in Nat
    BY TypeFacts
  <2> QED
    BY <1>4, <1>5, <2>1, <2>2, <2>3, <2>4, ResetsKept DEF Ledger
<1>9. \A i \in Indices : LikeReset(c'.streams[i], c.streams[i]) /\ LikeAnswer(c'.streams[i], c.streams[i])
  BY DEF LikeReset, LikeAnswer
<1> QED
  BY <1>1, <1>2, <1>3, <1>6, <1>7, <1>8, <1>9, AlikeHandled

\* A stream that is admitted is new.
LEMMA TakenIn ==
  ASSUME Types, Record, Ledger, NEW h \in FrameShape, h.id \in Ids, h.id > c.last_stream_id, Opening(h),
         NEW x, x = Stream(h.id, h.es, h.cl, h.zip, c.client_init_window),
         c' \in ConnType, c'.hb.stream = 0, c'.streams = Append(c.streams, x), c'.last_stream_id = h.id,
         c'.conn_send_window = c.conn_send_window, c'.client_init_window = c.client_init_window,
         sent' = sent
  PROVE  Handled
<1>1. /\ Aside /\ peer'.conn = peer.conn /\ peer'.init = peer.init /\ peer'.more = peer.more
      /\ peer'.uploaded = peer.uploaded
  BY DEF Opening
<1>2. (peer.faulty => peer'.faulty) /\ peer.used \subseteq peer'.used /\ peer'.got = peer.got
      /\ seen' = seen /\ promised' = promised
  BY <1>1 DEF Aside, Settled
<1>3. h.id \in Nat /\ c.last_stream_id \in Nat /\ c'.last_stream_id \in Nat /\ c.last_stream_id <= c'.last_stream_id
      /\ Len(c.streams) \in Nat /\ c.streams \in Seq(StreamType)
  BY TypeFacts
<1>4. /\ x \in StreamType /\ x.id = h.id /\ (x.remote_ended <=> h.es) /\ x.send_window = c.client_init_window
      /\ x.body = 0 /\ ~x.dispatched /\ ~x.response_ready /\ ~x.headers_sent /\ ~x.local_ended /\ ~x.reset
      /\ ~x.body_too_big
  <2>1. h.es \in BOOLEAN /\ h.cl \in Int /\ h.zip \in {"no", "corrupt", "bomb"} /\ c.client_init_window \in Int
    BY TypeFacts DEF FrameShape
  <2> QED
    BY <2>1, NewStream, SMTT(30)
<1>5. New(x)
  BY <1>3, <1>4 DEF New
<1>6. PICK n \in Nat : n = Len(c.streams)
  BY <1>3
<1>7. \A i \in Indices' : (i \in Indices /\ c'.streams[i] = c.streams[i]) \/ (i = n + 1 /\ c'.streams[i] = x)
  <2>1. /\ Len(c'.streams) = n + 1 /\ c'.streams[n + 1] = x
        /\ \A i \in 1 .. n : c'.streams[i] = c.streams[i]
    BY <1>3, <1>4, <1>6, AppendProperties
  <2>2. \A i \in 1 .. n + 1 : i \in 1 .. n \/ i = n + 1
    BY <1>6
  <2> QED
    BY <1>6, <2>1, <2>2 DEF Indices
<1>8. Quiet /\ Record'
  <2>1. Quiet
    BY DEF Quiet
  <2> QED
    BY <1>1, <1>2, <2>1, RecordKept DEF Aside
<1>9. Distinct'
  <2>1. ASSUME NEW i \in Indices PROVE c.streams[i].id # h.id /\ c.streams[i].id <= h.id
    <3>1. c.streams[i].id \in Nat /\ c.streams[i].id <= c.last_stream_id
      BY TypeFacts DEF Ledger, Distinct
    <3> QED
      BY <1>3, <3>1
  <2>2. ASSUME NEW i \in Indices' PROVE c'.streams[i].id <= c'.last_stream_id
    <3>1. CASE c'.streams[i] = x
      BY <1>3, <1>4, <3>1
    <3>2. CASE i \in Indices /\ c'.streams[i] = c.streams[i]
      BY <2>1, <3>2
    <3> QED
      BY <1>7, <3>1, <3>2
  <2>3. ASSUME NEW i \in Indices', NEW j \in Indices', i # j PROVE c'.streams[i].id # c'.streams[j].id
    <3>1. CASE i \in Indices /\ c'.streams[i] = c.streams[i] /\ j \in Indices /\ c'.streams[j] = c.streams[j]
      BY <2>3, <3>1 DEF Ledger, Distinct
    <3>2. CASE i = n + 1 /\ c'.streams[i] = x /\ j \in Indices /\ c'.streams[j] = c.streams[j]
      BY <1>4, <2>1, <3>2
    <3>3. CASE j = n + 1 /\ c'.streams[j] = x /\ i \in Indices /\ c'.streams[i] = c.streams[i]
      BY <1>4, <2>1, <3>3
    <3> QED
      <4>1. /\ (i \in Indices /\ c'.streams[i] = c.streams[i]) \/ (i = n + 1 /\ c'.streams[i] = x)
            /\ (j \in Indices /\ c'.streams[j] = c.streams[j]) \/ (j = n + 1 /\ c'.streams[j] = x)
        BY <1>7
      <4> QED
        BY <2>3, <3>1, <3>2, <3>3, <4>1, Zenon
  <2> QED
    BY <2>2, <2>3 DEF Distinct
<1>10. Credit'
  <2>1. \A i \in Indices' : \/ \E j \in Indices : LikeCredit(c'.streams[i], c.streams[j])
                            \/ New(c'.streams[i]) /\ c'.streams[i].send_window = c.client_init_window
    BY <1>4, <1>5, <1>7 DEF LikeCredit
  <2> QED
    BY <1>1, <1>3, <2>1, CreditKept DEF Ledger
<1>11. Marked'
  <2>1. \A i \in Indices' : (\E j \in Indices : LikeMark(c'.streams[i], c.streams[j])) \/ New(c'.streams[i])
    BY <1>5, <1>7 DEF LikeMark
  <2> QED
    BY <1>2, <1>3, <2>1, MarkedKept DEF Ledger
<1>12. Uploads'
  <2>1. ASSUME ~peer'.faulty, NEW i \in Indices'
        PROVE  \/ \E j \in Indices : LikeUpload(c'.streams[i], c.streams[j]) /\ Unaffected(c.streams[j].id)
               \/ /\ c'.streams[i].remote_ended <=> c'.streams[i].id \in peer'.ended
                  /\ ~c'.streams[i].body_too_big => c'.streams[i].body = peer'.uploaded[c'.streams[i].id]
    <3>1. CASE i \in Indices /\ c'.streams[i] = c.streams[i]
      <4>1. c.streams[i].id \in Ids /\ c.streams[i].id # h.id
        BY <2>1, <3>1, TypeFacts DEF Opening
      <4> QED
        BY <1>1, <2>1, <3>1, <4>1 DEF LikeUpload, Unaffected, Opening
    <3>2. CASE c'.streams[i] = x
      <4>1. peer.uploaded[h.id] = 0
        BY <1>2, <2>1 DEF Ledger, Uploads
      <4>2. h.id \in peer'.ended <=> h.es
        BY <2>1 DEF Opening
      <4> QED
        BY <1>1, <1>4, <3>2, <4>1, <4>2
    <3> QED
      BY <1>7, <3>1, <3>2
  <2>2. ASSUME ~peer'.faulty, NEW id \in Ids
        PROVE  Unaffected(id) \/ (id \in peer'.used /\ peer'.uploaded[id] = peer.uploaded[id])
    BY <2>2 DEF Opening, Unaffected
  <2>3. ~(c'.hb.stream > c'.last_stream_id)
    BY <1>3
  <2> QED
    BY <1>2, <1>3, <2>1, <2>2, <2>3, UploadsKept DEF Ledger
<1>13. Resets'
  <2>1. HeadKept
    BY DEF HeadKept
  <2>2. ~peer'.faulty => h.id \in peer'.used /\ sent'[h.id] = << >> /\ h.id # 0
    BY TypeFacts DEF Opening
  <2>3. ~peer'.faulty => \A i \in Indices' :
          \/ \E j \in Indices : LikeReset(c'.streams[i], c.streams[j])
          \/ /\ c'.streams[i].id \in peer'.used /\ c'.streams[i].id # c'.hb.stream
             /\ sent'[c'.streams[i].id] = << >>
    BY <1>4, <1>7, <2>2 DEF LikeReset
  <2>4. c'.hb.stream \in Nat
    OBVIOUS
  <2> QED
    BY <1>2, <1>3, <2>1, <2>3, <2>4, ResetsKept DEF Ledger
<1>14. Responses'
  <2>1. \A i \in Indices' : (\E j \in Indices : LikeAnswer(c'.streams[i], c.streams[j])) \/ New(c'.streams[i])
    BY <1>5, <1>7 DEF LikeAnswer
  <2> QED
    BY <1>2, <1>3, <1>8, <2>1, ResponsesKept DEF Ledger
<1> QED
  BY <1>1, <1>8, <1>9, <1>10, <1>11, <1>12, <1>13, <1>14 DEF Handled, Ledger, Aside, Types

\* A complete header block opens a stream, is refused, or ends the connection.
LEMMA HeaderBlock ==
  ASSUME Types, Record, Ledger, NEW h \in FrameShape, h.id \in Ids, Opening(h),
         NEW b \in ConnType, b.hb \in {c.hb, NoBlock}, b.hb.stream = 0, b.streams = c.streams,
         b.last_stream_id = c.last_stream_id,
         b.conn_send_window = c.conn_send_window, b.client_init_window = c.client_init_window,
         h2_on_header_block_finish(b, h)
  PROVE  Handled
<1>0. h.id \in Nat /\ c.last_stream_id \in Nat /\ {"refused", "protocol", "compression"} \subseteq Codes /\ Aside
  BY TypeFacts DEF Codes, Opening
<1>1. ASSUME NEW code \in {"protocol", "compression"}, c' = [b EXCEPT !.error = code], UNCHANGED sent PROVE Handled
  <2>1. code \in Codes /\ code # "no_error"
    BY <1>0
  <2>2. c' \in ConnType /\ c'.error = code /\ c'.hb = b.hb
    BY <1>1, <2>1, ConnUpdates, ZenonT(60) DEF ConnType
  <2> QED
    BY <1>0, <1>1, <2>1, <2>2, ErrorHandled
<1>2. ASSUME NEW code \in {"refused", "protocol"}, c' = b, h2_send_stream_error(h.id, code) PROVE Handled
  <2>1. c'.last_stream_id >= c.last_stream_id /\ code \in Codes
    BY <1>0, <1>2
  <2> QED
    BY <1>2, <2>1, TurnedAway
<1>3. CASE h.id > c.last_stream_id /\ c' = Refused(b, h) /\ h2_send_stream_error(h.id, "refused")
  <2>1. c' = [b EXCEPT !.last_stream_id = h.id]
    BY <1>3 DEF Refused
  <2>2. c' \in ConnType
    BY <1>0, <2>1, ConnUpdates
  <2>3. /\ c'.last_stream_id = h.id /\ c'.hb = b.hb /\ c'.streams = c.streams
        /\ c'.conn_send_window = c.conn_send_window /\ c'.client_init_window = c.client_init_window
    BY <2>1 DEF ConnType
  <2>4. c'.last_stream_id >= c.last_stream_id
    BY <1>0, <1>3, <2>3
  <2> QED
    BY <1>0, <1>3, <2>2, <2>3, <2>4, TurnedAway
<1>4. CASE h.id > c.last_stream_id /\ c' = Admitted(b, h) /\ UNCHANGED sent
  <2>1. PICK x : x = Stream(h.id, h.es, h.cl, h.zip, c.client_init_window)
    OBVIOUS
  <2>2. x \in StreamType /\ c.streams \in Seq(StreamType)
    <3>1. h.es \in BOOLEAN /\ h.cl \in Int /\ h.zip \in {"no", "corrupt", "bomb"} /\ c.client_init_window \in Int
      BY TypeFacts DEF FrameShape
    <3>2. x \in StreamType
      BY <2>1, <3>1, NewStream
    <3> QED
      BY <3>2, TypeFacts
  <2>3. PICK y \in Seq(StreamType) : y = Append(c.streams, x)
    <3>1. Append(c.streams, x) \in Seq(StreamType)
      BY <2>2, AppendProperties
    <3> QED
      BY <3>1
  <2>4. c' = [b EXCEPT !.last_stream_id = h.id, !.streams = y]
    BY <1>4, <2>1, <2>3 DEF Admitted
  <2>5. c' \in ConnType
    BY <1>0, <2>4, ConnUpdates
  <2>6. /\ c'.last_stream_id = h.id /\ c'.hb = b.hb /\ c'.streams = y
        /\ c'.conn_send_window = c.conn_send_window /\ c'.client_init_window = c.client_init_window
    BY <2>4 DEF ConnType
  <2> QED
    BY <1>4, <2>1, <2>3, <2>5, <2>6, TakenIn
<1> QED
  BY <1>1, <1>2, <1>3, <1>4 DEF h2_on_header_block_finish

\* What the client notes when it sends HEADERS.
LEMMA OpensShape ==
  ASSUME Types, Ledger, UNCHANGED <<seen, promised>>, NEW f \in FrameShape, f.id \in Ids, Opens(f)
  PROVE  Opening(f)
<1>1. peer \in PeerType /\ f.es \in BOOLEAN
  BY DEF Types, FrameShape
<1>2. peer.used \in SUBSET Ids /\ peer.ended \in SUBSET Ids /\ peer.faulty \in BOOLEAN
  BY <1>1 DEF PeerType
<1>3. PICK x \in SUBSET Ids : x = peer.used \cup {f.id}
  BY <1>2
<1>4. PICK y \in BOOLEAN : y = (peer.faulty \/ f.id \in peer.used)
  BY <1>2, Zenon
<1>5. PICK z \in SUBSET Ids : z = IF f.es THEN peer.ended \cup {f.id} ELSE peer.ended
  BY <1>2
<1>6. peer' = [peer EXCEPT !.used = x, !.faulty = y, !.ended = z]
  BY <1>3, <1>4, <1>5, Zenon DEF Opens
<1>7. peer' \in PeerType
  BY <1>1, <1>6, PeerUpdates, Zenon
<1>8. /\ peer'.conn = peer.conn /\ peer'.init = peer.init /\ peer'.more = peer.more /\ peer'.got = peer.got
      /\ peer'.uploaded = peer.uploaded /\ peer'.used = x /\ peer'.ended = z /\ peer'.faulty = y
  BY <1>1, <1>6 DEF PeerType
<1>9. (peer.faulty => peer'.faulty) /\ (~peer'.faulty => ~peer.faulty /\ f.id \notin peer.used)
  BY <1>4, <1>8, Zenon
<1>10. peer.ended \subseteq z /\ peer.used \subseteq x /\ f.id \in x
  BY <1>3, <1>5
<1>11. Aside
  BY <1>7, <1>8, <1>9, <1>10 DEF Aside, Settled
<1>12. ASSUME ~peer'.faulty
       PROVE  /\ \A i \in Indices : c.streams[i].id # f.id
              /\ \A id \in Ids : id # f.id => (id \in peer'.ended <=> id \in peer.ended)
              /\ f.id > c.last_stream_id => sent[f.id] = << >> /\ (f.id \in peer'.ended <=> f.es)
  <2>1. ~peer.faulty /\ f.id \notin peer.used
    BY <1>9, <1>12
  <2>2. \A i \in Indices : c.streams[i].id # f.id
    BY <2>1 DEF Ledger, Resets
  <2>3. \A id \in Ids : id # f.id => (id \in peer'.ended <=> id \in peer.ended)
    BY <1>5, <1>8
  <2>4. f.id > c.last_stream_id => sent[f.id] = << >> /\ f.id \notin peer.ended
    BY <2>1 DEF Ledger, Resets, Uploads
  <2> QED
    BY <1>5, <1>8, <2>2, <2>3, <2>4
<1> QED
  BY <1>8, <1>10, <1>11, <1>12 DEF Opening

\* HEADERS: the block is complete, or CONTINUATION frames follow.
LEMMA Headers ==
  ASSUME Types, Record, Ledger, UNCHANGED <<seen, promised>>,
         NEW f \in FrameShape, FrameFault(f) = "none", h2_on_headers_start(f)
  PROVE  Handled
<1>1. f.id \in Ids /\ c.hb.stream = 0 /\ c \in ConnType
  BY FrameAccepted DEF h2_on_headers_start, Types
<1>2. Opening(f)
  BY <1>1, OpensShape DEF h2_on_headers_start
<1>3. CASE h2_on_header_block_finish(c, f)
  BY <1>1, <1>2, <1>3, HeaderBlock
<1>4. CASE /\ c' = [c EXCEPT !.hb = [stream |-> f.id, es |-> f.es, abort |-> FALSE, size |-> f.len, head |-> f]]
           /\ UNCHANGED sent
  <2>1. PICK k : k = [stream |-> f.id, es |-> f.es, abort |-> FALSE, size |-> f.len, head |-> f]
    OBVIOUS
  <2>2. f.es \in BOOLEAN /\ f.len \in Nat
    BY DEF FrameShape
  <2>3. k \in Blocks
    BY <1>1, <2>1, <2>2, Zenon DEF Blocks
  <2>4. k.stream = f.id /\ k.head = f /\ ~k.abort
    BY <2>1
  <2>5. c' = [c EXCEPT !.hb = k]
    BY <1>4, <2>1
  <2>6. c' \in ConnType
    BY <1>1, <2>3, <2>5, ConnUpdates
  <2>7. /\ c'.last_stream_id = c.last_stream_id /\ c'.hb = k /\ c'.streams = c.streams
        /\ c'.conn_send_window = c.conn_send_window /\ c'.client_init_window = c.client_init_window
    BY <1>1, <2>5 DEF ConnType
  <2>8. /\ Aside /\ peer'.conn = peer.conn /\ peer'.init = peer.init /\ peer'.more = peer.more
        /\ peer'.uploaded = peer.uploaded
    BY <1>2 DEF Opening
  <2>9. Quiet /\ Indices' = Indices
    BY <1>4, <2>7 DEF Quiet, Indices
  <2>10. /\ c'.last_stream_id \in Nat /\ c.last_stream_id \in Nat /\ c.last_stream_id <= c'.last_stream_id
         /\ f.id \in Nat
    BY <1>1, <2>7, TypeFacts
  <2>11. (peer.faulty => peer'.faulty) /\ peer.used \subseteq peer'.used
    BY <2>8 DEF Aside, Settled
  <2>12. Credit'
    BY <2>7, <2>8, <2>9 DEF Ledger, Credit
  <2>13. Uploads'
    <3>1. ASSUME ~peer'.faulty, NEW i \in Indices'
          PROVE  \E j \in Indices : LikeUpload(c'.streams[i], c.streams[j]) /\ Unaffected(c.streams[j].id)
      <4>1. i \in Indices /\ c.streams[i].id \in Ids /\ c.streams[i].id # f.id
        BY <1>2, <2>9, <3>1, TypeFacts DEF Opening
      <4> QED
        BY <1>2, <2>7, <2>8, <3>1, <4>1 DEF LikeUpload, Unaffected, Opening
    <3>2. ASSUME ~peer'.faulty, NEW id \in Ids
          PROVE  Unaffected(id) \/ (id \in peer'.used /\ peer'.uploaded[id] = peer.uploaded[id])
      BY <1>2, <3>2 DEF Opening, Unaffected
    <3>3. ~peer'.faulty /\ c'.hb.stream > c'.last_stream_id => (c'.hb.head.es <=> c'.hb.stream \in peer'.ended)
      BY <1>2, <2>4, <2>7 DEF Opening
    <3> QED
      BY <2>10, <2>11, <3>1, <3>2, <3>3, UploadsKept DEF Ledger
  <2>14. Resets'
    <3>1. ~peer'.faulty =>
             /\ c'.hb.stream \in peer'.used /\ \A i \in Indices' : c'.streams[i].id # c'.hb.stream
             /\ c'.hb.stream > c'.last_stream_id => sent'[c'.hb.stream] = << >>
      BY <1>2, <1>4, <2>4, <2>7, <2>9 DEF Opening
    <3>2. \A i \in Indices' : \E j \in Indices : LikeReset(c'.streams[i], c.streams[j])
      BY <2>7, <2>9 DEF LikeReset
    <3>3. c'.hb.stream \in Nat
      BY <2>4, <2>7, <2>10
    <3> QED
      BY <1>4, <2>10, <2>11, <3>1, <3>2, <3>3, ResetsKept DEF Ledger
  <2>15. \A i \in Indices : LikeReset(c'.streams[i], c.streams[i]) /\ LikeAnswer(c'.streams[i], c.streams[i])
    BY <2>7 DEF LikeReset, LikeAnswer
  <2>16. c'.hb.stream # 0 => c'.hb.head \in FrameShape /\ c'.hb.head.id = c'.hb.stream
    BY <2>4, <2>7
  <2>17. c'.last_stream_id >= c.last_stream_id
    BY <2>10
  <2> QED
    BY <2>6, <2>8, <2>9, <2>12, <2>13, <2>14, <2>15, <2>16, <2>17, AlikeHandled
<1> QED
  BY <1>3, <1>4 DEF h2_on_headers_start

\* CONTINUATION: the block grows, is complete, or is over the cap.
LEMMA Cont ==
  ASSUME Types, Record, Ledger, UNCHANGED <<seen, promised>>,
         NEW f \in FrameShape, FrameFault(f) = "none", h2_on_cont(f)
  PROVE  Handled
<1>1. /\ f.id \in Ids /\ c.hb.stream = f.id /\ c \in ConnType /\ c.hb \in Blocks /\ f.id # 0 /\ f.len \in Nat
      /\ c.hb.head \in FrameShape /\ c.hb.head.id = f.id /\ peer' = peer /\ Aside /\ NoBlock.stream = 0
  BY FrameAccepted, SameAside, TypeFacts DEF h2_on_cont, Types, FrameShape, NoBlock
<1>2. PICK h \in FrameShape : h = c.hb.head /\ h.id = f.id
  BY <1>1
<1>3. PICK d : d = [c EXCEPT !.hb = NoBlock]
  OBVIOUS
<1>4. /\ d \in ConnType /\ d.hb = NoBlock /\ d.hb.stream = 0 /\ d.streams = c.streams
      /\ d.last_stream_id = c.last_stream_id /\ d.conn_send_window = c.conn_send_window
      /\ d.client_init_window = c.client_init_window
  <2>1. NoBlock \in Blocks
    BY Zenon DEF NoBlock, Blocks
  <2>2. d \in ConnType
    BY <1>1, <1>3, <2>1, ConnUpdates
  <2> QED
    BY <1>1, <1>3, <2>2 DEF ConnType
<1>5. CASE ~c.hb.abort /\ h2_on_header_block_finish(d, h)
  <2>1. Opening(h)
    <3>1. ASSUME ~peer.faulty
          PROVE  /\ h.id \in peer.used /\ \A i \in Indices : c.streams[i].id # h.id
                 /\ h.id > c.last_stream_id => sent[h.id] = << >> /\ (h.id \in peer.ended <=> h.es)
      BY <1>1, <1>2, <1>5, <3>1 DEF Ledger, Resets, Uploads
    <3> QED
      BY <1>1, <3>1 DEF Opening
  <2> QED
    BY <1>1, <1>2, <1>4, <1>5, <2>1, HeaderBlock
<1>6. ASSUME c' \in ConnType, c'.streams = c.streams, c'.last_stream_id = c.last_stream_id,
             c'.conn_send_window = c.conn_send_window, c'.client_init_window = c.client_init_window,
             HeadKept, sent' = sent \/ (h2_send_stream_error(f.id, "cancel") /\ (c'.hb.stream = 0 \/ c'.hb.abort))
      PROVE  Handled
  <2>1. Quiet /\ Indices' = Indices /\ "cancel" \in Codes
    BY <1>1, <1>6 DEF Quiet, Indices, Codes
  <2>2. Credit'
    BY <1>1, <1>6, <2>1 DEF Ledger, Credit
  <2>3. /\ c'.last_stream_id \in Nat /\ c.last_stream_id \in Nat /\ c.last_stream_id <= c'.last_stream_id
        /\ c'.hb.stream \in Nat /\ f.id \in Nat /\ c'.last_stream_id >= c.last_stream_id
    BY <1>1, <1>6, TypeFacts DEF HeadKept
  <2>4. Uploads'
    <3>1. \A id : Unaffected(id)
      BY <1>1 DEF Unaffected
    <3>2. \A i \in Indices' : \E j \in Indices : LikeUpload(c'.streams[i], c.streams[j])
      BY <1>6, <2>1 DEF LikeUpload
    <3> QED
      BY <1>1, <1>6, <2>3, <3>1, <3>2, UploadsKept DEF Ledger
  <2>5. Resets'
    <3>1. \A i \in Indices' : \E j \in Indices : LikeReset(c'.streams[i], c.streams[j])
      BY <1>6, <2>1 DEF LikeReset
    <3>2. ~peer.faulty => f.id \in peer.used /\ \A i \in Indices' : c'.streams[i].id # f.id
      BY <1>1, <1>6, <2>1 DEF Ledger, Resets
    <3>3. sent' = sent \/ (h2_send_stream_error(f.id, "cancel") /\ (c'.hb.stream # f.id \/ c'.hb.abort))
      BY <1>1, <1>6
    <3> QED
      BY <1>1, <1>6, <2>1, <2>3, <3>1, <3>2, <3>3, ResetsKept DEF Ledger
  <2>6. \A i \in Indices : LikeReset(c'.streams[i], c.streams[i]) /\ LikeAnswer(c'.streams[i], c.streams[i])
    BY <1>6 DEF LikeReset, LikeAnswer
  <2>7. c'.hb.stream # 0 => c'.hb.head \in FrameShape /\ c'.hb.head.id = c'.hb.stream
    BY <1>1, <1>6 DEF HeadKept
  <2> QED
    BY <1>1, <1>6, <2>1, <2>2, <2>3, <2>4, <2>5, <2>6, <2>7, AlikeHandled
<1>7. ASSUME NEW k \in Blocks, c' = [c EXCEPT !.hb = k]
      PROVE  /\ c' \in ConnType /\ c'.hb = k /\ c'.streams = c.streams
             /\ c'.last_stream_id = c.last_stream_id /\ c'.conn_send_window = c.conn_send_window
             /\ c'.client_init_window = c.client_init_window
  <2>1. c' \in ConnType
    BY <1>1, <1>7, ConnUpdates
  <2> QED
    BY <1>1, <1>7, <2>1 DEF ConnType
<1>8. CASE c' = [c EXCEPT !.hb.size = @ + f.len] /\ UNCHANGED sent
  <2>1. PICK n \in Nat : n = c.hb.size + f.len
    BY <1>1 DEF Blocks
  <2>2. PICK k : k = [c.hb EXCEPT !.size = n]
    OBVIOUS
  <2>3. c' = [c EXCEPT !.hb = k]
    BY <1>8, <2>1, <2>2
  <2>4. k \in Blocks
    BY <1>1, <2>2, Zenon DEF Blocks
  <2>5. k.stream = c.hb.stream /\ k.head = c.hb.head /\ k.abort = c.hb.abort
    BY <1>1, <2>2 DEF Blocks
  <2>6. HeadKept
    BY <1>7, <2>3, <2>4, <2>5 DEF HeadKept
  <2> QED
    BY <1>6, <1>7, <1>8, <2>3, <2>4, <2>6
<1>9. CASE /\ c' = d
           /\ IF c.hb.abort THEN UNCHANGED sent ELSE h2_send_stream_error(f.id, "cancel")
  <2>1. HeadKept
    BY <1>4, <1>9 DEF HeadKept
  <2> QED
    BY <1>4, <1>6, <1>9, <2>1
<1>10. CASE /\ c' = [c EXCEPT !.hb.abort = TRUE]
            /\ IF c.hb.abort THEN UNCHANGED sent ELSE h2_send_stream_error(f.id, "cancel")
  <2>1. PICK k : k = [c.hb EXCEPT !.abort = TRUE]
    OBVIOUS
  <2>2. c' = [c EXCEPT !.hb = k]
    BY <1>10, <2>1
  <2>3. k \in Blocks
    BY <1>1, <2>1, Zenon DEF Blocks
  <2>4. k.stream = c.hb.stream /\ k.head = c.hb.head /\ k.abort
    BY <1>1, <2>1 DEF Blocks
  <2>5. HeadKept /\ c'.hb.abort
    BY <1>7, <2>2, <2>3, <2>4 DEF HeadKept
  <2> QED
    BY <1>6, <1>7, <1>10, <2>2, <2>3, <2>5
<1> QED
  BY <1>2, <1>3, <1>5, <1>8, <1>9, <1>10 DEF h2_on_cont

\* Any frame leaves things right, or ends the loop.
LEMMA FrameStep ==
  ASSUME IInv, NEW f \in Clients[client].frames, h2_process_frame(f)
  PROVE  IInv'
<1>1. Types /\ Record /\ Ledger /\ pc = "read" /\ UNCHANGED <<client, at, seen, promised>>
  BY DEF IInv, Running, Loop, h2_process_frame
<1>2. f \in FrameShape
  BY <1>1, ClientShape DEF Types
<1>3. CASE FrameFault(f) # "none" /\ h2_conn_error(FrameFault(f)) /\ UNCHANGED <<sent, peer>>
  <2>1. FrameFault(f) \in {"frame_size", "protocol"}
    BY <1>3 DEF FrameFault
  <2>2. FrameFault(f) \in Codes /\ FrameFault(f) # "no_error"
    BY <2>1 DEF Codes
  <2>3. Aside
    BY <1>1, <1>3, SameAside
  <2>4. c' \in ConnType /\ c'.error = FrameFault(f) /\ c'.hb = c.hb
    BY <1>1, <1>3, <2>2, ConnError
  <2> QED
    <3>1. Handled
      BY <1>1, <1>3, <2>2, <2>3, <2>4, ErrorHandled
    <3>2. pc' = "out" /\ frames' \in Nat
      BY <1>1, <2>2, <2>4 DEF h2_process_frame, Types
    <3> QED
      BY <1>1, <3>1, <3>2 DEF IInv, Types, Handled, Running
<1>4. CASE FrameFault(f) = "none"
  <2>1. Handled
    <3>1. CASE h2_on_data(f)
      BY <1>1, <1>2, <1>4, <3>1, Data
    <3>2. CASE h2_on_headers_start(f)
      BY <1>1, <1>2, <1>4, <3>2, Headers
    <3>3. CASE h2_on_cont(f)
      BY <1>1, <1>2, <1>4, <3>3, Cont
    <3>4. CASE h2_on_priority(f)
      BY <1>1, <1>2, <1>4, <3>4, Priority
    <3>5. CASE h2_on_rst(f)
      BY <1>1, <1>2, <1>4, <3>5, Rst
    <3>6. CASE h2_on_settings(f)
      BY <1>1, <1>2, <3>6, Settings
    <3>7. CASE h2_on_ping(f)
      BY <1>1, <3>7, Ping DEF h2_on_ping
    <3>8. CASE h2_on_goaway(f)
      BY <1>1, <1>2, <3>8, Goaway
    <3>9. CASE h2_on_window(f)
      BY <1>1, <1>2, <1>4, <3>9, Window
    <3> QED
      BY <1>4, <3>1, <3>2, <3>3, <3>4, <3>5, <3>6, <3>7, <3>8, <3>9 DEF h2_process_frame
  <2>2. frames' \in Nat /\ pc' = (IF c'.error # "no_error" THEN "out" ELSE "dispatch")
    BY <1>1 DEF h2_process_frame, Types
  <2>3. pc' = "dispatch" => Passes'
    BY DEF Passes
  <2>4. Types'
    BY <1>1, <2>1, <2>2 DEF Types, Handled, Running
  <2> QED
    BY <2>1, <2>2, <2>3, <2>4 DEF IInv, Handled, Running, Loop
<1> QED
  BY <1>3, <1>4 DEF h2_process_frame
-----------------------------------------------------------------------------
(* The passes over the streams.                                            *)

\* The least of two and of three windows.
LEMMA MinFacts ==
  /\ \A a, b \in Int : Min({a, b}) \in Int /\ Min({a, b}) <= a /\ Min({a, b}) <= b
                       /\ (Min({a, b}) = a \/ Min({a, b}) = b)
  /\ \A a, b, d \in Int : /\ Min({a, b, d}) \in Int /\ Min({a, b, d}) <= a /\ Min({a, b, d}) <= b
                          /\ Min({a, b, d}) <= d /\ Min({a, b, d}) \in {a, b, d}
<1>1. ASSUME NEW a \in Int, NEW b \in Int
      PROVE  Min({a, b}) \in {a, b} /\ Min({a, b}) <= a /\ Min({a, b}) <= b
  <2>1. \E x \in {a, b} : \A y \in {a, b} : x <= y
    <3>1. a <= b \/ b <= a
      OBVIOUS
    <3> QED
      BY <3>1
  <2>2. Min({a, b}) \in {a, b} /\ \A y \in {a, b} : Min({a, b}) <= y
    BY <2>1, Zenon DEF Min
  <2> QED
    BY <2>2
<1>2. ASSUME NEW a \in Int, NEW b \in Int, NEW d \in Int
      PROVE  /\ Min({a, b, d}) \in {a, b, d} /\ Min({a, b, d}) <= a /\ Min({a, b, d}) <= b /\ Min({a, b, d}) <= d
  <2>1. \E x \in {a, b, d} : \A y \in {a, b, d} : x <= y
    <3>1. (a <= b /\ a <= d) \/ (b <= a /\ b <= d) \/ (d <= a /\ d <= b)
      OBVIOUS
    <3>2. a <= a /\ b <= b /\ d <= d
      OBVIOUS
    <3> QED
      BY <3>1, <3>2, Zenon
  <2>2. Min({a, b, d}) \in {a, b, d} /\ \A y \in {a, b, d} : Min({a, b, d}) <= y
    BY <2>1, Zenon DEF Min
  <2> QED
    BY <2>2
<1> QED
  BY <1>1, <1>2, ZenonT(60)

\* What h2_next_data may return when the connection's window is w.
DataAt(s, w) ==
  IF s.left = 0 THEN IF s.how = "fn" /\ Min({s.send_window, w}) <= 0 THEN {} ELSE {0}
  ELSE IF Min({s.send_window, w}) <= 0 THEN {}
  ELSE IF s.how = "fn" THEN 1 .. Min({s.left, Min({s.send_window, w}), MaxFrame})
       ELSE {Min({s.left, Min({s.send_window, w}), MaxFrame})}

\* It is nothing.
Stuck(s, w) == s.headers_sent /\ (s.left # 0 \/ s.how = "fn") /\ (s.send_window <= 0 \/ w <= 0)

\* What h2_next_data returns lies within the windows, and it is nothing only for want of credit.
LEMMA BlockedMeans ==
  ASSUME NEW s \in StreamType, NEW b \in Int
  PROVE  /\ s.headers_sent /\ DataAt(s, b) = {} <=> Stuck(s, b)
         /\ \A n \in DataAt(s, b) :
              /\ n \in Nat /\ n <= s.left /\ n <= MaxFrame /\ (s.how = "fn" /\ n = 0 => s.left = 0)
              /\ n > 0 => n <= s.send_window /\ n <= b
<1>1. PICK a \in Int, l \in Nat : a = s.send_window /\ l = s.left
  BY DEF StreamType
<1>2. MaxFrame \in Nat /\ MaxFrame > 0
  BY Sizes
<1>3. PICK r \in Int : r = Min({s.send_window, b}) /\ r <= a /\ r <= b /\ (r = a \/ r = b)
  <2>1. Min({s.send_window, b}) = Min({a, b})
    BY <1>1
  <2>2. Min({a, b}) \in Int /\ Min({a, b}) <= a /\ Min({a, b}) <= b /\ (Min({a, b}) = a \/ Min({a, b}) = b)
    BY MinFacts
  <2> QED
    BY <2>1, <2>2
<1>4. PICK m \in Int : m = Min({s.left, Min({s.send_window, b}), MaxFrame}) /\ m <= l /\ m <= r /\ m <= MaxFrame /\ m \in {l, r, MaxFrame}
  <2>1. Min({s.left, Min({s.send_window, b}), MaxFrame}) = Min({l, r, MaxFrame})
    BY <1>1, <1>3
  <2>2. l \in Int /\ MaxFrame \in Int
    BY <1>2
  <2>3. /\ Min({l, r, MaxFrame}) \in Int /\ Min({l, r, MaxFrame}) <= l /\ Min({l, r, MaxFrame}) <= r
        /\ Min({l, r, MaxFrame}) <= MaxFrame /\ Min({l, r, MaxFrame}) \in {l, r, MaxFrame}
    BY <2>2, MinFacts
  <2> QED
    BY <2>1, <2>3
<1>5. DataAt(s, b) = IF l = 0 THEN IF s.how = "fn" /\ r <= 0 THEN {} ELSE {0}
                        ELSE IF r <= 0 THEN {} ELSE IF s.how = "fn" THEN 1 .. m ELSE {m}
  BY <1>1, <1>3, <1>4 DEF DataAt
<1>6. r <= 0 <=> (a <= 0 \/ b <= 0)
  BY <1>3
<1>7. l # 0 /\ r > 0 => m >= 1
  BY <1>2, <1>4
<1>8. DataAt(s, b) = {} <=> r <= 0 /\ (l # 0 \/ s.how = "fn")
  <2>1. CASE l = 0
    BY <1>5, <2>1
  <2>2. CASE l # 0 /\ r <= 0
    BY <1>5, <2>2
  <2>3. CASE l # 0 /\ r > 0
    <3>1. 1 \in 1 .. m /\ m \in {m}
      BY <1>7, <2>3
    <3>2. ~(r <= 0)
      BY <2>3
    <3> QED
      BY <1>5, <2>3, <3>1, <3>2
  <2> QED
    BY <2>1, <2>2, <2>3
<1>9. s.headers_sent /\ DataAt(s, b) = {} <=> Stuck(s, b)
  BY <1>1, <1>6, <1>8 DEF Stuck
<1>10. ASSUME NEW n \in DataAt(s, b)
       PROVE  /\ n \in Nat /\ n <= s.left /\ n <= MaxFrame /\ (s.how = "fn" /\ n = 0 => s.left = 0)
              /\ n > 0 => n <= s.send_window /\ n <= b
  <2>1. CASE l = 0
    <3>1. n = 0
      BY <1>5, <1>10, <2>1
    <3> QED
      BY <1>1, <1>2, <2>1, <3>1
  <2>2. CASE l # 0
    <3>1. r > 0 /\ (n \in 1 .. m \/ n = m)
      BY <1>5, <1>10, <2>2
    <3>2. n \in Nat /\ n <= m /\ n # 0
      BY <1>7, <2>2, <3>1
    <3> QED
      BY <1>1, <1>2, <1>3, <1>4, <3>2
  <2> QED
    BY <2>1, <2>2
<1> QED
  BY <1>9, <1>10

\* Record is about what was sent and seen, the promises and the client alone.
LEMMA RecordSame ==
  ASSUME Record, UNCHANGED <<sent, seen, promised, peer>>
  PROVE  Record'
BY DEF Record, WholeBody, NothingAfterReset, ResponsesWhole

\* A step that only moves the passes on keeps the ledger.
LEMMA LedgerSame ==
  ASSUME Ledger, UNCHANGED <<c, sent, seen, promised, peer>>
  PROVE  Ledger'
BY DEF Ledger, Distinct, Credit, Marked, Uploads, Resets, Responses, Indices

\* The loop ends: nothing more is asked of the streams.
LEMMA EndsStep ==
  ASSUME IInv, UNCHANGED <<client, at, frames, sent, seen, promised, peer>>, pc' \in {"out", "closed"},
         c' \in ConnType, c'.hb = c.hb
  PROVE  IInv'
<1>1. Types'
  BY DEF IInv, Types, Running
<1>2. Record'
  BY RecordSame DEF IInv
<1>3. ~Running'
  BY DEF Running
<1> QED
  BY <1>1, <1>2, <1>3 DEF IInv

\* Octets of the preface are dropped, or taken for a frame.
LEMMA PrefaceStep ==
  ASSUME IInv, NEW n \in 1 .. 3, PrefaceArrives(n)
  PROVE  IInv'
<1>1. Types /\ Record /\ Ledger /\ Passes /\ pc = "read" /\ c.error = "no_error" /\ c \in ConnType
      /\ UNCHANGED <<client, at, frames, sent, seen, promised, peer>>
  BY DEF IInv, Running, Loop, PrefaceArrives, Types
<1>2. PICK m \in Nat : m = c.magic + n
  BY <1>1 DEF ConnType
<1>3. PICK e \in Codes : e = IF m = 2 THEN "frame_size" ELSE "no_error"
  BY DEF Codes
<1>4. c' = [c EXCEPT !.magic = m, !.error = e] /\ pc' = IF m = 2 THEN "out" ELSE "read"
  BY <1>1, <1>2, <1>3 DEF PrefaceArrives
<1>5. c' \in ConnType
  BY <1>1, <1>4, ConnUpdates
<1>6. /\ c'.hb = c.hb /\ c'.last_stream_id = c.last_stream_id /\ c'.streams = c.streams /\ c'.error = e
      /\ c'.conn_send_window = c.conn_send_window /\ c'.client_init_window = c.client_init_window
  BY <1>1, <1>4 DEF ConnType
<1>7. CASE m = 2
  <2>1. pc' \in {"out", "closed"}
    BY <1>4, <1>7
  <2> QED
    BY <1>1, <1>5, <1>6, <2>1, EndsStep
<1>8. CASE m # 2
  <2>1. pc' = "read" /\ c'.error = "no_error"
    BY <1>3, <1>4, <1>6, <1>8
  <2>2. Handled
    BY <1>1, <1>5, <1>6, SameLedger
  <2>3. Types'
    BY <1>1, <1>5, <1>6, <2>1 DEF Types
  <2>4. Passes'
    BY <1>1, <1>6, <2>1, ZenonT(60) DEF Passes, Indices, Complete, Pumpable, Blocked, h2_next_data, Room, Swept
  <2> QED
    BY <2>1, <2>2, <2>3, <2>4 DEF IInv, Handled, Loop
<1> QED
  BY <1>7, <1>8

\* A step from pass to pass.
LEMMA PassStep ==
  ASSUME IInv, Running, UNCHANGED <<client, c, frames, sent, seen, promised, peer>>, Running', at' \in Nat, Passes'
  PROVE  IInv'
<1>1. Types'
  BY DEF IInv, Types, Running
<1>2. Record'
  BY RecordSame DEF IInv
<1>3. Ledger'
  BY LedgerSame DEF IInv, Loop
<1> QED
  BY <1>1, <1>2, <1>3 DEF IInv, Loop

\* No complete request is left: the pump starts at the first stream.
LEMMA DispatchDoneStep ==
  ASSUME IInv, DispatchDone
  PROVE  IInv'
<1>1. Running /\ Running' /\ at' = 1 /\ pc' = "pump" /\ UNCHANGED <<client, c, frames, sent, seen, promised, peer>>
  BY DEF DispatchDone, Running
<1>2. Indices' = Indices /\ c' = c /\ \A i \in Indices : ~Complete(c.streams[i])
  BY DEF DispatchDone, Indices
<1>3. \A i \in Indices : ~(i < 1)
  BY DEF Indices
<1>4. Passes'
  BY <1>1, <1>2, <1>3 DEF Passes, Complete
<1>5. at' \in Nat
  BY <1>1
<1> QED
  BY <1>1, <1>4, <1>5, PassStep

\* The pump goes on to the next stream when this one has nothing to send or no room.
LEMMA PumpNextStep ==
  ASSUME IInv, PumpNext
  PROVE  IInv'
<1>1. Running /\ Running' /\ pc = "pump" /\ pc' = "pump" /\ UNCHANGED <<client, c, frames, sent, seen, promised, peer>>
  BY DEF PumpNext, Running
<1>2. at \in Nat /\ at' = at + 1 /\ Passes
  BY <1>1 DEF IInv, Types, Loop, PumpNext, Following
<1>3. Indices' = Indices /\ c' = c
  BY <1>1 DEF Indices
<1>4. ASSUME NEW i \in Indices, i < at', Pumpable(c.streams[i]) PROVE Blocked(c.streams[i])
  <2>1. CASE i < at
    BY <1>1, <1>2, <1>4, <2>1 DEF Passes
  <2>2. CASE i = at
    BY <1>4, <2>2 DEF PumpNext, GoesOn, Current
  <2>3. i \in Nat
    BY DEF Indices
  <2> QED
    BY <1>2, <1>4, <2>1, <2>2, <2>3
<1>5. Passes'
  <2>1. at' > 0
    BY <1>2
  <2>2. \A i \in Indices : ~Complete(c.streams[i])
    BY <1>1, <1>2 DEF Passes
  <2> QED
    BY <1>1, <1>3, <1>4, <2>1, <2>2 DEF Passes, Complete, Pumpable, Blocked, h2_next_data, Room
<1>6. at' \in Nat
  BY <1>2
<1> QED
  BY <1>1, <1>5, <1>6, PassStep

\* The pump is past the last stream: the sweep starts there.
LEMMA PumpDoneStep ==
  ASSUME IInv, PumpDone
  PROVE  IInv'
<1>1. /\ Running /\ Running' /\ pc = "pump" /\ pc' = "sweep"
      /\ UNCHANGED <<client, c, frames, sent, seen, promised, peer>>
  BY DEF PumpDone, Running
<1>2. at \in Nat /\ at' = Len(c.streams) /\ Passes /\ Len(c.streams) \in Nat /\ at > Len(c.streams)
  BY <1>1, TypeFacts DEF IInv, Types, Loop, PumpDone
<1>3. Indices' = Indices /\ c' = c
  BY <1>1 DEF Indices
<1>4. ASSUME NEW i \in Indices PROVE i < at /\ ~(i > at')
  BY <1>2 DEF Indices
<1>5. \A i \in Indices : ~Complete(c.streams[i]) /\ (Pumpable(c.streams[i]) => Blocked(c.streams[i]))
  BY <1>1, <1>2, <1>4 DEF Passes
<1>6. Passes'
  <2>1. at' <= Len(c'.streams)
    BY <1>2, <1>3
  <2> QED
    BY <1>1, <1>3, <1>4, <1>5, <2>1 DEF Passes, Complete, Pumpable, Blocked, h2_next_data, Room
<1>7. at' \in Nat
  BY <1>2
<1> QED
  BY <1>1, <1>6, <1>7, PassStep

\* The sweep is past the first stream: the loop may wait for a frame.
LEMMA SweepDoneStep ==
  ASSUME IInv, SweepDone
  PROVE  IInv'
<1>1. /\ Running /\ Running' /\ pc = "sweep" /\ pc' = "read" /\ at = 0 /\ at' = 0
      /\ UNCHANGED <<client, c, frames, sent, seen, promised, peer>>
  BY DEF SweepDone, Running
<1>2. Passes /\ \A i \in Indices : i > 0
  BY <1>1 DEF IInv, Loop, Indices
<1>3. Indices' = Indices /\ c' = c
  BY <1>1 DEF Indices
<1>4. \A i \in Indices : ~Complete(c.streams[i]) /\ (Pumpable(c.streams[i]) => Blocked(c.streams[i])) /\ ~Swept(c.streams[i])
  BY <1>1, <1>2 DEF Passes
<1>5. Passes'
  BY <1>1, <1>3, <1>4 DEF Passes, Complete, Pumpable, Blocked, h2_next_data, Room, Swept
<1>6. at' \in Nat
  BY <1>1
<1> QED
  BY <1>1, <1>5, <1>6, PassStep

\* The ways out of the loop.
LEMMA LeavesStep ==
  ASSUME IInv, Leaves \/ PumpFails
  PROVE  IInv'
<1>1. c \in ConnType
  BY DEF IInv, Types
<1>2. CASE h2_client_goaway_done \/ h2_fill_fails
  BY <1>1, <1>2, EndsStep DEF h2_client_goaway_done, h2_fill_fails
<1>3. CASE h2_send_goaway
  <2>1. << >> \in Seq(StreamType)
    OBVIOUS
  <2>2. c' = [c EXCEPT !.streams = << >>]
    BY <1>3 DEF h2_send_goaway
  <2>3. c' \in ConnType /\ c'.hb = c.hb
    BY <1>1, <2>1, <2>2, ConnUpdates, ZenonT(60) DEF ConnType
  <2> QED
    BY <1>3, <2>3, EndsStep DEF h2_send_goaway
<1>4. CASE PumpFails
  <2>1. c' \in ConnType /\ c'.hb = c.hb
    BY <1>4, ConnError DEF IInv, PumpFails, Codes
  <2> QED
    BY <1>4, <2>1, EndsStep DEF PumpFails
<1> QED
  BY <1>2, <1>3, <1>4 DEF Leaves

\* A step that changes nothing.
LEMMA StutterStep ==
  ASSUME IInv, UNCHANGED vars
  PROVE  IInv'
<1>1. UNCHANGED <<client, c, pc, at, frames, sent, seen, promised, peer>>
  BY DEF vars
<1>2. Types' /\ (Running' <=> Running)
  BY <1>1 DEF IInv, Types, Running
<1>3. Record'
  BY <1>1, RecordSame DEF IInv
<1>4. Loop => Ledger'
  BY <1>1, LedgerSame DEF Loop
<1>5. Loop => Passes'
  BY <1>1 DEF Loop, Passes, Indices, Complete, Pumpable, Blocked, h2_next_data, Room, Swept
<1> QED
  BY <1>2, <1>3, <1>4, <1>5 DEF IInv, Loop

\* The server works on stream i: it becomes x, and no request changes.
Served(i, x) ==
  /\ i \in Indices /\ x \in StreamType /\ c' \in ConnType /\ peer' \in PeerType
  /\ c'.streams = [c.streams EXCEPT ![i] = x] /\ c'.hb = c.hb /\ c'.last_stream_id = c.last_stream_id
  /\ c'.client_init_window = c.client_init_window /\ c'.error = c.error
  /\ LikeUpload(x, c.streams[i]) /\ (x.reset <=> c.streams[i].reset) /\ x.dispatched
  /\ peer'.uploaded = peer.uploaded /\ peer'.ended = peer.ended /\ peer'.used = peer.used
  /\ peer'.faulty = peer.faulty /\ peer'.init = peer.init

\* A step that replaces one stream by its answered or pumped form keeps the others' accounts.
LEMMA ServedKept ==
  ASSUME Types, Ledger, NEW i, NEW x, Served(i, x)
  PROVE  /\ Indices' = Indices /\ c'.streams[i] = x /\ x.id = c.streams[i].id
         /\ \A j \in Indices : j # i => c'.streams[j] = c.streams[j] /\ c.streams[j].id # x.id
         /\ x.id \in Ids /\ x.id <= c.last_stream_id
         /\ Distinct' /\ Uploads' /\ (seen' = seen => Marked')
<1>1. i \in Indices /\ x \in StreamType /\ c'.streams = [c.streams EXCEPT ![i] = x]
  BY DEF Served
<1>2. Indices' = Indices /\ c'.streams[i] = x /\ \A j \in Indices : j # i => c'.streams[j] = c.streams[j]
  BY <1>1, Replaced
<1>3. x.id = c.streams[i].id /\ x.id \in Ids /\ x.id <= c.last_stream_id
  BY <1>1, TypeFacts DEF Served, LikeUpload, Ledger, Distinct
<1>4. \A j \in Indices : j # i => c.streams[j].id # x.id
  BY <1>1, <1>3 DEF Ledger, Distinct
<1>5. \A j \in Indices : c'.streams[j].id = c.streams[j].id
  BY <1>2, <1>3
<1>6. Distinct'
  BY <1>2, <1>5 DEF Ledger, Distinct, Served
<1>7. c'.last_stream_id \in Nat /\ c.last_stream_id <= c'.last_stream_id
  BY TypeFacts DEF Served
<1>8. Uploads'
  <2>1. \A id : Unaffected(id)
    BY DEF Served, Unaffected
  <2>2. \A j \in Indices' : \E k \in Indices : LikeUpload(c'.streams[j], c.streams[k])
    BY <1>1, <1>2 DEF Served, LikeUpload
  <2>3. HeadKept
    BY DEF Served, HeadKept
  <2>4. (peer.faulty => peer'.faulty) /\ peer.used \subseteq peer'.used
    BY DEF Served
  <2> QED
    BY <1>7, <2>1, <2>2, <2>3, <2>4, UploadsKept DEF Ledger
<1>9. ASSUME seen' = seen PROVE Marked'
  <2>1. \A j \in Indices' : \E k \in Indices : LikeMark(c'.streams[j], c.streams[k])
    BY <1>1, <1>2, <1>3 DEF Served, LikeMark
  <2> QED
    BY <1>7, <1>9, <2>1, MarkedKept DEF Ledger
<1> QED
  BY <1>2, <1>3, <1>4, <1>6, <1>8, <1>9

\* A response is there for stream i.
LEMMA Answered ==
  ASSUME Types, Ledger, NEW i \in Indices, Complete(c.streams[i]),
         NEW status \in {"200", "400", "413"}, NEW left \in Nat, NEW how \in {"body", "queue", "fn"},
         Answer(i, status, left, how), sent' = sent, peer' = peer,
         promised' = [promised EXCEPT ![c.streams[i].id] = left]
  PROVE  /\ \E x : Served(i, x)
         /\ promised' \in [Ids -> Int]
         /\ \A id \in Ids : id # c.streams[i].id => promised'[id] = promised[id]
         /\ Distinct' /\ Credit' /\ Uploads' /\ Resets' /\ Responses' /\ (seen' = seen => Marked')
         /\ c'.error = c.error /\ c'.hb = c.hb /\ c' \in ConnType
<1>1. PICK s \in StreamType : s = c.streams[i]
  BY TypeFacts
<1>2. s.id \in Ids /\ c \in ConnType /\ promised \in [Ids -> Int] /\ peer \in PeerType
  BY <1>1 DEF StreamType, Types
<1>3. PICK x : x = [s EXCEPT !.dispatched = TRUE, !.response_ready = TRUE, !.status = status, !.left = left, !.how = how]
  OBVIOUS
<1>4. x \in StreamType
  BY <1>3, StreamUpdates, Zenon
<1>5. /\ x.id = s.id /\ x.dispatched /\ x.response_ready /\ x.left = left
      /\ (x.reset <=> s.reset) /\ (x.remote_ended <=> s.remote_ended) /\ (x.body_too_big <=> s.body_too_big)
      /\ x.body = s.body /\ (x.headers_sent <=> s.headers_sent) /\ (x.local_ended <=> s.local_ended)
      /\ x.send_window = s.send_window
  BY <1>3 DEF StreamType
<1>6. PICK y : y = [c.streams EXCEPT ![i] = x]
  OBVIOUS
<1>7. c' = [c EXCEPT !.streams = y]
  BY <1>1, <1>3, <1>6 DEF Answer
<1>8. /\ c'.hb = c.hb /\ c'.last_stream_id = c.last_stream_id /\ c'.streams = y /\ c'.error = c.error
      /\ c'.conn_send_window = c.conn_send_window /\ c'.client_init_window = c.client_init_window
  BY <1>2, <1>7 DEF ConnType
<1>9. c' \in ConnType
  <2>1. c'.streams \in Seq(StreamType)
    BY <1>4, <1>6, <1>8, Replaced
  <2> QED
    BY <1>2, <1>7, <1>8, <2>1, ConnUpdates
<1>10. Served(i, x)
  BY <1>1, <1>2, <1>4, <1>5, <1>6, <1>8, <1>9 DEF Served, LikeUpload
<1>11. /\ Indices' = Indices /\ c'.streams[i] = x
       /\ \A j \in Indices : j # i => c'.streams[j] = c.streams[j] /\ c.streams[j].id # x.id
       /\ Distinct' /\ Uploads' /\ (seen' = seen => Marked')
  BY <1>10, ServedKept
<1>12. Credit'
  BY <1>1, <1>5, <1>8, <1>11 DEF Ledger, Credit
<1>13. Resets'
  BY <1>1, <1>5, <1>8, <1>11 DEF Ledger, Resets
<1>14. promised' \in [Ids -> Int] /\ promised'[s.id] = left /\ \A id \in Ids : id # s.id => promised'[id] = promised[id]
  BY <1>1, <1>2
<1>15. Responses'
  <2>1. ASSUME NEW j \in Indices
        PROVE  Answering(c'.streams[j], sent[c'.streams[j].id], peer.got[c'.streams[j].id], promised'[c'.streams[j].id])
    <3>1. CASE j = i
      <4>1. /\ Answering(s, sent[s.id], peer.got[s.id], promised[s.id])
            /\ ~s.dispatched
        BY <1>1 DEF Ledger, Responses, Complete
      <4>2. /\ ~s.headers_sent /\ ~s.local_ended /\ peer.got[s.id] = 0
            /\ (\A k \in 1 .. Len(sent[s.id]) : sent[s.id][k].t = "rst")
            /\ \A k \in 1 .. Len(sent[s.id]) : ~sent[s.id][k].es
        BY <4>1 DEF Answering
      <4>3. left = left + 0
        OBVIOUS
      <4>4. Answering(x, sent[s.id], peer.got[s.id], promised'[s.id])
        BY <1>5, <1>14, <4>2, <4>3 DEF Answering
      <4> QED
        BY <1>5, <1>11, <3>1, <4>4
    <3>2. CASE j # i
      <4>1. c.streams[j].id \in Ids /\ c.streams[j].id # s.id /\ c'.streams[j] = c.streams[j]
        BY <1>5, <1>11, <3>2, TypeFacts
      <4> QED
        BY <1>14, <4>1 DEF Ledger, Responses
    <3> QED
      BY <3>1, <3>2
  <2> QED
    BY <1>8, <1>11, <2>1 DEF Ledger, Responses
<1> QED
  BY <1>1, <1>8, <1>9, <1>10, <1>11, <1>12, <1>13, <1>14, <1>15

\* A complete request reaches the handler, or is answered 400 or 413 without it.
LEMMA DispatchStep ==
  ASSUME IInv, NEW i \in Indices, h2_direct_error(i) \/ h2_dispatch(i)
  PROVE  IInv'
<1>1. Types /\ Record /\ Ledger /\ pc = "dispatch" /\ Complete(c.streams[i]) /\ Running
      /\ UNCHANGED <<client, pc, at, frames, sent, peer>>
  BY DEF IInv, Running, Loop, h2_direct_error, h2_dispatch, FirstComplete
<1>2. PICK s \in StreamType : s = c.streams[i] /\ s.id \in Ids
  BY <1>1, TypeFacts
<1>3. ASSUME \E status \in {"200", "400", "413"}, left \in Nat, how \in {"body", "queue", "fn"} :
               Answer(i, status, left, how) /\ promised' = [promised EXCEPT ![s.id] = left]
      PROVE  /\ promised' \in [Ids -> Int]
             /\ \A id \in Ids : id # s.id => promised'[id] = promised[id]
             /\ (\E x : Served(i, x))
             /\ Distinct' /\ Credit' /\ Uploads' /\ Resets' /\ Responses' /\ (seen' = seen => Marked')
             /\ c'.error = c.error /\ c'.hb = c.hb /\ c' \in ConnType
  <2>1. PICK status \in {"200", "400", "413"}, left \in Nat, how \in {"body", "queue", "fn"} :
               Answer(i, status, left, how) /\ promised' = [promised EXCEPT ![s.id] = left]
    BY <1>3
  <2>2. /\ promised' = [promised EXCEPT ![c.streams[i].id] = left] /\ sent' = sent /\ peer' = peer
        /\ Answer(i, status, left, how)
    BY <1>1, <1>2, <2>1
  <2>3. /\ promised' \in [Ids -> Int]
        /\ \A id \in Ids : id # c.streams[i].id => promised'[id] = promised[id]
        /\ (\E x : Served(i, x))
        /\ Distinct' /\ Credit' /\ Uploads' /\ Resets' /\ Responses' /\ (seen' = seen => Marked')
        /\ c'.error = c.error /\ c'.hb = c.hb /\ c' \in ConnType
    BY <1>1, <2>2, Answered
  <2> QED
    BY <1>2, <2>3
<1>4. \E status \in {"200", "400", "413"}, left \in Nat, how \in {"body", "queue", "fn"} :
        Answer(i, status, left, how) /\ promised' = [promised EXCEPT ![s.id] = left]
  <2>1. CASE h2_direct_error(i)
    <3>1. PICK st \in {"400", "413"} : Answer(i, st, 1, "body") /\ promised' = [promised EXCEPT ![s.id] = 1]
      BY <1>2, <2>1 DEF h2_direct_error
    <3> QED
      BY <3>1
  <2>2. CASE h2_dispatch(i)
    <3>1. PICK r \in Clients[client].responses : /\ Answer(i, "200", r.left, r.how)
                                                 /\ promised' = [promised EXCEPT ![s.id] = r.left]
      BY <1>2, <2>2 DEF h2_dispatch
    <3>2. r \in [left : Nat, how : {"body", "queue", "fn"}]
      BY <1>1, <3>1, ClientShape DEF Types
    <3>3. r.left \in Nat /\ r.how \in {"body", "queue", "fn"}
      BY <3>2
    <3> QED
      BY <3>1, <3>3
  <2> QED
    BY <2>1, <2>2
<1>5. /\ promised' \in [Ids -> Int] /\ \A id \in Ids : id # s.id => promised'[id] = promised[id]
      /\ (\E x : Served(i, x))
      /\ Distinct' /\ Credit' /\ Uploads' /\ Resets' /\ Responses' /\ (seen' = seen => Marked')
      /\ c'.error = c.error /\ c'.hb = c.hb /\ c' \in ConnType
  BY <1>3, <1>4
<1>6. /\ NothingAfterReset' /\ ResponsesWhole'
      /\ \A id \in Ids : \A k \in 1 .. Len(sent'[id]) : sent'[id][k].t = "rst" => ~sent'[id][k].es
  <2>1. \A k \in 1 .. Len(sent[s.id]) : ~sent[s.id][k].es
    BY <1>1, <1>2 DEF Ledger, Responses, Answering, Complete
  <2>2. NothingAfterReset'
    BY <1>1 DEF Record, NothingAfterReset
  <2>3. ResponsesWhole'
    BY <1>1, <1>5, <2>1 DEF Record, ResponsesWhole
  <2> QED
    BY <1>1, <2>2, <2>3 DEF Record
<1>7. Types /\ Passes'
  BY <1>1 DEF Passes
<1>8. ASSUME seen' \in Seq(SeenType), WholeBody', Marked',
             ~peer'.faulty => \A k \in 1 .. Len(seen') : seen'[k].id \in peer'.ended
      PROVE  IInv'
  <2>1. Types'
    BY <1>1, <1>5, <1>8 DEF Types, Running
  <2>2. Record'
    BY <1>6, <1>8 DEF Record
  <2>3. Ledger'
    BY <1>5, <1>8 DEF Ledger
  <2> QED
    BY <1>7, <2>1, <2>2, <2>3 DEF IInv, Loop
<1>9. CASE h2_direct_error(i)
  <2>1. seen' = seen /\ peer' = peer
    BY <1>9 DEF h2_direct_error
  <2>2. WholeBody'
    BY <1>1, <2>1 DEF Record, WholeBody
  <2> QED
    BY <1>1, <1>5, <1>8, <2>1, <2>2 DEF Record, Types
<1>10. CASE h2_dispatch(i)
  <2>1. PICK e : e = [id |-> s.id, body |-> s.body]
    OBVIOUS
  <2>2. e \in SeenType /\ e.id = s.id /\ e.body = s.body
    BY <1>2, <2>1 DEF SeenType, StreamType
  <2>3. seen \in Seq(SeenType) /\ seen' = Append(seen, e) /\ peer' = peer
    BY <1>1, <1>2, <1>10, <2>1 DEF h2_dispatch, Types
  <2>4. PICK n \in Nat : n = Len(seen)
    BY <2>3
  <2>5. seen' \in Seq(SeenType) /\ Len(seen') = n + 1 /\ seen'[n + 1] = e /\ \A k \in 1 .. n : seen'[k] = seen[k]
    BY <2>2, <2>3, <2>4, AppendProperties
  <2>6. \A k \in 1 .. Len(seen') : (k \in 1 .. Len(seen) /\ seen'[k] = seen[k]) \/ (k = n + 1 /\ seen'[k] = e)
    BY <2>4, <2>5
  <2>7. \A k \in 1 .. Len(seen) : seen[k].id # s.id
    BY <1>1, <1>2 DEF Ledger, Marked, Complete
  <2>8. ~peer.faulty => s.id \in peer.ended /\ s.body = peer.uploaded[s.id]
    BY <1>1, <1>2, <1>10 DEF Ledger, Uploads, Complete, h2_dispatch, TooBig
  <2>9. WholeBody'
    <3>1. ASSUME NEW j \in 1 .. Len(seen'), NEW k \in 1 .. Len(seen'), j # k PROVE seen'[j].id # seen'[k].id
      <4>1. /\ (j \in 1 .. Len(seen) /\ seen'[j] = seen[j]) \/ (j = n + 1 /\ seen'[j] = e)
            /\ (k \in 1 .. Len(seen) /\ seen'[k] = seen[k]) \/ (k = n + 1 /\ seen'[k] = e)
        BY <2>6
      <4>2. \A a, b \in 1 .. Len(seen) : a # b => seen[a].id # seen[b].id
        BY <1>1 DEF Record, WholeBody
      <4> QED
        BY <2>2, <2>7, <3>1, <4>1, <4>2, Zenon
    <3>2. ~peer.faulty => \A k \in 1 .. Len(seen') : seen'[k].body = peer.uploaded[seen'[k].id]
      BY <1>1, <2>2, <2>6, <2>8 DEF Record, WholeBody
    <3> QED
      BY <2>3, <3>1, <3>2 DEF WholeBody
  <2>10. ~peer'.faulty => \A k \in 1 .. Len(seen') : seen'[k].id \in peer'.ended
    BY <1>1, <2>2, <2>3, <2>6, <2>8 DEF Record
  <2>11. Marked'
    <3>1. PICK x : Served(i, x)
      BY <1>5
    <3>2. /\ Indices' = Indices /\ c'.streams[i] = x /\ x.id = s.id /\ x.dispatched
          /\ \A j \in Indices : j # i => c'.streams[j] = c.streams[j] /\ c.streams[j].id # s.id
          /\ s.id <= c.last_stream_id /\ c'.last_stream_id = c.last_stream_id
      BY <1>1, <1>2, <3>1, ServedKept DEF Served
    <3>3. ASSUME NEW k \in 1 .. Len(seen')
          PROVE  /\ seen'[k].id <= c'.last_stream_id
                 /\ \A j \in Indices' : c'.streams[j].id = seen'[k].id => c'.streams[j].dispatched
      <4>1. CASE k \in 1 .. Len(seen) /\ seen'[k] = seen[k]
        BY <1>1, <3>2, <4>1 DEF Ledger, Marked
      <4>2. CASE seen'[k] = e
        BY <2>2, <3>2, <4>2
      <4> QED
        BY <2>6, <4>1, <4>2
    <3> QED
      BY <3>3 DEF Marked
  <2> QED
    BY <1>8, <2>5, <2>9, <2>10, <2>11
<1> QED
  BY <1>9, <1>10

\* A frame of the response on stream s goes out, of type t and with n units; the
\* stream becomes x.
Sending(x, s, t, n, code, es) ==
  /\ Told(s.id, t, n, code, es)
  /\ t = "headers" <=> ~s.headers_sent
  /\ n <= s.left /\ (t = "headers" => n = 0) /\ (es => s.left = n)
  /\ x.left = s.left - n /\ x.headers_sent /\ (x.local_ended <=> es) /\ (x.response_ready <=> ~es)
  /\ peer'.got[s.id] = peer.got[s.id] + n
  /\ \A id \in Ids : id # s.id => peer'.got[id] = peer.got[id]

\* It keeps what was sent right and the stream in step with it.
LEMMA Sends ==
  ASSUME Types, Record, Ledger, NEW i, NEW x, Served(i, x), UNCHANGED <<seen, promised>>,
         NEW s, s = c.streams[i], Pumpable(s),
         NEW t \in {"headers", "data"}, NEW n \in Nat, NEW code \in Codes, NEW es \in BOOLEAN,
         Sending(x, s, t, n, code, es)
  PROVE  /\ sent' \in [Ids -> Seq(SentType)] /\ Record' /\ Marked' /\ Resets' /\ Responses' /\ Distinct' /\ Uploads'
<1> USE DEF Sending
<1>1. /\ Indices' = Indices /\ c'.streams[i] = x /\ x.id = s.id /\ i \in Indices
      /\ \A j \in Indices : j # i => c'.streams[j] = c.streams[j] /\ c.streams[j].id # s.id
      /\ s.id \in Ids /\ s.id <= c.last_stream_id
      /\ Distinct' /\ Uploads' /\ Marked'
  BY ServedKept DEF Served
<1>2. /\ s \in StreamType /\ x.dispatched /\ (x.reset <=> s.reset) /\ ~s.reset /\ ~s.local_ended /\ s.response_ready
      /\ s.left \in Nat /\ s.id \in Nat /\ c.last_stream_id \in Nat
      /\ c'.hb = c.hb /\ c'.last_stream_id = c.last_stream_id
      /\ peer'.uploaded = peer.uploaded /\ peer'.ended = peer.ended /\ peer'.used = peer.used
      /\ peer'.faulty = peer.faulty
  <2>1. s \in StreamType /\ s.id \in Nat /\ c.last_stream_id \in Nat
    BY <1>1, TypeFacts
  <2> QED
    BY <2>1 DEF Served, Pumpable, StreamType
<1>3. PICK m \in Nat : m = Len(sent[s.id])
  <2>1. sent[s.id] \in Seq(SentType)
    BY <1>1 DEF Types
  <2>2. Len(sent[s.id]) \in Nat
    BY <2>1
  <2> QED
    BY <2>2
<1>17. PICK z : z = sent'[s.id][m + 1]
  OBVIOUS
<1>4. /\ sent' \in [Ids -> Seq(SentType)] /\ \A id \in Ids : id # s.id => sent'[id] = sent[id]
      /\ Len(sent'[s.id]) = m + 1 /\ \A k \in 1 .. m : sent'[s.id][k] = sent[s.id][k]
      /\ z.t = t /\ (z.es <=> es)
  <2>1. PICK q \in Ids, u \in {"headers", "data", "rst"} : q = s.id /\ u = t
    BY <1>1
  <2>2. sent \in [Ids -> Seq(SentType)] /\ Told(q, u, n, code, es)
    BY <2>1 DEF Types
  <2>3. /\ sent' \in [Ids -> Seq(SentType)]
        /\ \A j \in Ids : j # q => sent'[j] = sent[j]
        /\ Len(sent[q]) \in Nat /\ Len(sent'[q]) = Len(sent[q]) + 1
        /\ \A k \in 1 .. Len(sent[q]) : sent'[q][k] = sent[q][k]
        /\ sent'[q][Len(sent[q]) + 1].t = u /\ (sent'[q][Len(sent[q]) + 1].es <=> es)
    BY <2>2, ToldShape
  <2> QED
    BY <1>3, <1>17, <2>1, <2>3
<1>5. \A k \in 1 .. Len(sent'[s.id]) : (k \in 1 .. m /\ sent'[s.id][k] = sent[s.id][k]) \/ (k = m + 1 /\ sent'[s.id][k] = z)
  <2>1. \A k \in 1 .. m + 1 : k \in 1 .. m \/ k = m + 1
    BY <1>3
  <2> QED
    BY <1>3, <1>17, <1>4, <2>1
<1>6. Answering(s, sent[s.id], peer.got[s.id], promised[s.id])
  BY <1>1 DEF Ledger, Responses
<1>7. /\ \A k \in 1 .. m : ~sent[s.id][k].es
      /\ promised[s.id] = s.left + peer.got[s.id]
      /\ ~s.headers_sent => peer.got[s.id] = 0 /\ \A k \in 1 .. m : sent[s.id][k].t = "rst"
      /\ s.headers_sent => \E k \in 1 .. m : sent[s.id][k].t = "headers"
  BY <1>2, <1>3, <1>6 DEF Answering
<1>8. /\ peer'.got[s.id] = peer.got[s.id] + n /\ peer.got[s.id] \in Int
      /\ \A id \in Ids : id # s.id => peer'.got[id] = peer.got[id]
  BY <1>1, TypeFacts, SMTT(30)
<1>9. promised[s.id] = x.left + peer'.got[s.id] /\ (es => peer'.got[s.id] = promised[s.id])
  <2>1. PICK a \in Nat, g \in Int : a = s.left /\ g = peer.got[s.id]
    BY <1>2, <1>8
  <2>2. promised[s.id] = a + g /\ x.left = a - n /\ peer'.got[s.id] = g + n /\ (es => a = n)
    BY <1>7, <1>8, <2>1
  <2> QED
    BY <2>2
<1>10. WholeBody' /\ (~peer'.faulty => \A k \in 1 .. Len(seen') : seen'[k].id \in peer'.ended)
  BY <1>2 DEF Record, WholeBody
<1>11. ~peer.faulty => \A k \in 1 .. m : sent[s.id][k].t # "rst"
  BY <1>1, <1>2, <1>3 DEF Ledger, Resets
<1>12. NothingAfterReset'
  <2> SUFFICES ASSUME ~peer'.faulty, NEW id \in Ids, NEW k \in 1 .. (Len(sent'[id]) - 1), sent'[id][k].t = "rst"
               PROVE  sent'[id][k + 1].t = "rst"
    BY DEF NothingAfterReset
  <2>1. id # s.id
    <3> SUFFICES ASSUME id = s.id PROVE FALSE
      OBVIOUS
    <3>1. k \in 1 .. m
      BY <1>3, <1>4
    <3>2. sent'[s.id][k].t = "rst" /\ sent'[s.id][k] = sent[s.id][k]
      BY <1>4, <3>1
    <3> QED
      BY <1>2, <1>11, <3>1, <3>2
  <2> QED
    BY <1>2, <1>4, <2>1 DEF Record, NothingAfterReset
<1>13. ResponsesWhole' /\ \A id \in Ids : \A k \in 1 .. Len(sent'[id]) : sent'[id][k].t = "rst" => ~sent'[id][k].es
  <2>1. ASSUME NEW id \in Ids, NEW k \in 1 .. Len(sent'[id])
        PROVE  /\ sent'[id][k].t = "headers" => \A j \in 1 .. k - 1 : sent'[id][j].t = "rst"
               /\ sent'[id][k].t = "data" => \E j \in 1 .. k - 1 : sent'[id][j].t = "headers"
               /\ sent'[id][k].es => /\ \A j \in k + 1 .. Len(sent'[id]) : sent'[id][j].t = "rst"
                                     /\ peer'.got[id] = promised'[id]
               /\ sent'[id][k].t = "rst" => ~sent'[id][k].es
    <3>1. CASE id # s.id
      <4>1. sent'[id] = sent[id] /\ peer'.got[id] = peer.got[id]
        BY <1>4, <1>8, <3>1
      <4> QED
        BY <2>1, <4>1 DEF Record, ResponsesWhole
    <3>2. CASE id = s.id /\ k \in 1 .. m /\ sent'[s.id][k] = sent[s.id][k]
      <4>1. sent'[id][k] = sent[id][k] /\ \A j \in 1 .. k - 1 : sent'[id][j] = sent[id][j]
        <5>1. \A j \in 1 .. k - 1 : j \in 1 .. m
          BY <3>2
        <5> QED
          BY <1>4, <3>2, <5>1
      <4>2. k \in 1 .. Len(sent[id]) /\ ~sent[id][k].es
        BY <1>3, <1>7, <3>2
      <4>3. /\ sent[id][k].t = "headers" => \A j \in 1 .. k - 1 : sent[id][j].t = "rst"
            /\ sent[id][k].t = "data" => \E j \in 1 .. k - 1 : sent[id][j].t = "headers"
        BY <4>2 DEF Record, ResponsesWhole
      <4> QED
        BY <4>1, <4>2, <4>3
    <3>3. CASE id = s.id /\ k = m + 1 /\ sent'[s.id][k] = z
      <4>1. k - 1 = m /\ \A j \in k + 1 .. Len(sent'[id]) : FALSE
        BY <1>3, <1>4, <3>3
      <4>2. t = "headers" => \A j \in 1 .. m : sent'[s.id][j].t = "rst"
        BY <1>4, <1>7, ZenonT(60)
      <4>3. t = "data" => \E j \in 1 .. m : sent'[s.id][j].t = "headers"
        BY <1>4, <1>7, ZenonT(60)
      <4> QED
        BY <1>4, <1>9, <3>3, <4>1, <4>2, <4>3
    <3> QED
      BY <1>5, <2>1, <3>1, <3>2, <3>3
  <2> QED
    BY <2>1 DEF ResponsesWhole
<1>14. Record'
  BY <1>10, <1>12, <1>13 DEF Record
<1>15. Resets'
  <2> SUFFICES ASSUME ~peer.faulty PROVE Resets'
    BY <1>2 DEF Resets
  <2>1. \A j \in Indices : c'.streams[j].id = c.streams[j].id /\ (c'.streams[j].reset <=> c.streams[j].reset)
    BY <1>1, <1>2
  <2>2. /\ \A j \in Indices' : c'.streams[j].id \in peer'.used /\ c'.streams[j].id # c'.hb.stream
        /\ c'.hb.stream # 0 => c'.hb.stream \in peer'.used
    BY <1>1, <1>2, <2>1 DEF Ledger, Resets
  <2>3. ASSUME NEW j \in Indices', ~c'.streams[j].reset, NEW k \in 1 .. Len(sent'[c'.streams[j].id])
        PROVE  sent'[c'.streams[j].id][k].t # "rst"
    <3>1. CASE j = i
      <4>1. c'.streams[j].id = s.id /\ k \in 1 .. Len(sent'[s.id])
        BY <1>1, <2>3, <3>1
      <4>2. CASE k \in 1 .. m /\ sent'[s.id][k] = sent[s.id][k]
        BY <1>11, <4>1, <4>2
      <4>3. CASE sent'[s.id][k] = z
        BY <1>4, <4>1, <4>3
      <4> QED
        BY <1>5, <4>1, <4>2, <4>3
    <3>2. CASE j # i
      <4>1. j \in Indices /\ c'.streams[j].id = c.streams[j].id /\ c.streams[j].id # s.id /\ c.streams[j].id \in Ids
            /\ ~c.streams[j].reset
        BY <1>1, <2>1, <2>3, <3>2, TypeFacts
      <4>2. sent'[c'.streams[j].id] = sent[c.streams[j].id]
        BY <1>4, <4>1
      <4> QED
        BY <2>3, <4>1, <4>2 DEF Ledger, Resets
    <3> QED
      BY <3>1, <3>2
  <2>4. ASSUME NEW id \in Ids, id > c'.last_stream_id, id \notin peer'.used PROVE sent'[id] = << >>
    <3>1. id # s.id
      BY <1>1, <1>2, <2>4, TypeFacts, SMTT(30)
    <3>2. sent'[id] = sent[id]
      BY <1>4, <3>1
    <3>3. id > c.last_stream_id /\ id \notin peer.used
      BY <1>2, <2>4
    <3>4. Resets
      BY DEF Ledger
    <3> QED
      BY <3>2, <3>3, <3>4 DEF Resets
  <2>5. c'.hb.stream > c'.last_stream_id /\ ~c'.hb.abort => sent'[c'.hb.stream] = << >>
    <3> SUFFICES ASSUME c.hb.stream > c.last_stream_id, ~c.hb.abort PROVE sent'[c.hb.stream] = << >>
      BY <1>2
    <3>1. c.hb.stream # s.id /\ c.hb.stream \in Ids
      BY <1>1, <1>2, TypeFacts
    <3> QED
      BY <1>4, <3>1 DEF Ledger, Resets
  <2> QED
    BY <2>2, <2>3, <2>4, <2>5 DEF Resets
<1>16. Responses'
  <2>1. ASSUME NEW j \in Indices
        PROVE  Answering(c'.streams[j], sent'[c'.streams[j].id], peer'.got[c'.streams[j].id], promised[c'.streams[j].id])
    <3>1. CASE j = i
      <4>1. \E k \in 1 .. Len(sent'[s.id]) : sent'[s.id][k].t = "headers"
        <5>1. CASE t = "headers"
          <6>1. m + 1 \in 1 .. Len(sent'[s.id])
            BY <1>4
          <6> QED
            BY <1>3, <1>17, <1>4, <5>1, <6>1
        <5>2. CASE t # "headers"
          <6>1. PICK k \in 1 .. m : sent[s.id][k].t = "headers"
            BY <1>7, <5>2
          <6>2. k \in 1 .. Len(sent'[s.id])
            BY <1>4, <6>1
          <6> QED
            BY <1>4, <6>1, <6>2
        <5> QED
          BY <5>1, <5>2
      <4>2. ~es => \A k \in 1 .. Len(sent'[s.id]) : ~sent'[s.id][k].es
        BY <1>4, <1>5, <1>7
      <4>3. Answering(x, sent'[s.id], peer'.got[s.id], promised[s.id])
        BY <1>2, <1>9, <4>1, <4>2 DEF Answering
      <4> QED
        BY <1>1, <3>1, <4>3
    <3>2. CASE j # i
      <4>1. c.streams[j].id \in Ids /\ c.streams[j].id # s.id /\ c'.streams[j] = c.streams[j]
        BY <1>1, <3>2, TypeFacts
      <4> QED
        BY <1>4, <1>8, <4>1 DEF Ledger, Responses
    <3> QED
      BY <3>1, <3>2
  <2>2. ASSUME NEW id \in Ids, id > c.last_stream_id
        PROVE  peer'.got[id] = 0 /\ \A k \in 1 .. Len(sent'[id]) : sent'[id][k].t = "rst"
    <3>1. id # s.id
      BY <1>1, <1>2, <2>2, TypeFacts
    <3> QED
      BY <1>4, <1>8, <2>2, <3>1, SMTT(30) DEF Ledger, Responses
  <2> QED
    BY <1>1, <1>2, <2>1, <2>2 DEF Responses
<1> QED
  BY <1>1, <1>4, <1>14, <1>15, <1>16

\* h2_next_data with the connection's window as a parameter.
LEMMA DataAtWindow ==
  ASSUME NEW s
  PROVE  /\ h2_next_data(s) = DataAt(s, c.conn_send_window)
         /\ Blocked(s) <=> (s.headers_sent /\ DataAt(s, c.conn_send_window) = {})
BY DEF h2_next_data, Room, DataAt, Blocked

\* What the pump has passed over stays blocked.
LEMMA PumpPasses ==
  ASSUME Types, Passes, pc = "pump", pc' = "pump", at' = at, c' \in ConnType, Indices' = Indices,
         c'.conn_send_window <= c.conn_send_window,
         \A j \in Indices : j # at => c'.streams[j] = c.streams[j],
         at \in Indices => c'.streams[at].dispatched
  PROVE  Passes'
<1>1. c \in ConnType /\ at \in Nat /\ c.conn_send_window \in Int /\ c'.conn_send_window \in Int
  BY DEF Types, ConnType
<1>2. \A j \in Indices : ~Complete(c.streams[j])'
  BY DEF Passes, Complete
<1>3. ASSUME NEW j \in Indices, j < at, Pumpable(c.streams[j])' PROVE Blocked(c.streams[j])'
  <2>1. c'.streams[j] = c.streams[j] /\ j \in Nat
    BY <1>1, <1>3 DEF Indices
  <2>2. PICK s \in StreamType : s = c.streams[j]
    BY TypeFacts
  <2>3. Stuck(s, c.conn_send_window)
    <3>1. Pumpable(s)
      BY <1>3, <2>1, <2>2 DEF Pumpable
    <3>2. Blocked(s)
      BY <1>3, <2>2, <3>1 DEF Passes
    <3>3. s.headers_sent /\ DataAt(s, c.conn_send_window) = {}
      BY <3>2, DataAtWindow
    <3> QED
      BY <1>1, <3>3, BlockedMeans
  <2>4. Stuck(s, c'.conn_send_window)
    BY <1>1, <2>3 DEF Stuck
  <2>5. s.headers_sent /\ DataAt(s, c'.conn_send_window) = {}
    BY <1>1, <2>4, BlockedMeans
  <2>6. c'.streams[j].headers_sent /\ DataAt(c'.streams[j], c'.conn_send_window) = {}
    BY <2>1, <2>2, <2>5
  <2> QED
    BY <2>6 DEF h2_next_data, Room, DataAt, Blocked
<1>4. at > 0
  BY DEF Passes
<1> QED
  BY <1>2, <1>3, <1>4 DEF Passes

\* The header block of a response goes out.
LEMMA PumpHeadersStep ==
  ASSUME IInv, PumpHeaders
  PROVE  IInv'
<1>1. Types /\ Record /\ Ledger /\ Passes /\ pc = "pump" /\ Running /\ Running' /\ pc' = "pump" /\ at' = at
      /\ UNCHANGED <<client, pc, at, frames, seen, promised, peer>>
  BY DEF IInv, Running, Loop, PumpHeaders, Pumping
<1>2. at \in Indices /\ c \in ConnType /\ peer \in PeerType
  <2>1. at \in Nat /\ at > 0 /\ at <= Len(c.streams) /\ Len(c.streams) \in Nat
    BY <1>1, TypeFacts DEF Types, Passes, PumpHeaders, Pumping
  <2> QED
    BY <1>1, <2>1 DEF Indices, Types
<1>3. PICK s \in StreamType : s = c.streams[at]
  BY <1>1, <1>2, TypeFacts
<1>4. s.id \in Ids /\ Pumpable(s) /\ ~s.headers_sent /\ s.left \in Nat /\ s.status \in Codes
  BY <1>3 DEF StreamType, PumpHeaders, Pumping, Current, Codes
<1>5. PICK es \in BOOLEAN : es = (s.how = "body" /\ s.left = 0)
  BY Zenon
<1>6. PICK re \in BOOLEAN : re = ~es
  BY Zenon
<1>7. PICK x : x = [s EXCEPT !.headers_sent = TRUE, !.local_ended = es, !.response_ready = re]
  OBVIOUS
<1>8. PICK y : y = [c.streams EXCEPT ![at] = x]
  OBVIOUS
<1>9. /\ Told(s.id, "headers", 0, s.status, es)
      /\ c' = [c EXCEPT !.streams = y]
  <2>1. (s.how = "body" /\ s.left = 0) = HeadersEnd
    BY <1>3 DEF HeadersEnd, Current
  <2>2. es = HeadersEnd
    BY <1>5, <2>1, Zenon
  <2>3. Told(s.id, "headers", 0, s.status, es)
    BY <1>3, <2>2, Zenon DEF PumpHeaders, Current
  <2>4. c' = [c EXCEPT !.streams[at] = [@ EXCEPT !.headers_sent = TRUE, !.local_ended = es, !.response_ready = ~es]]
    BY <2>2, Zenon DEF PumpHeaders
  <2>5. c' = [c EXCEPT !.streams = [c.streams EXCEPT ![at] =
                [c.streams[at] EXCEPT !.headers_sent = TRUE, !.local_ended = es, !.response_ready = ~es]]]
    BY <2>4
  <2>6. c' = [c EXCEPT !.streams = y]
    BY <1>3, <1>6, <1>7, <1>8, <2>5, Zenon
  <2> QED
    BY <2>3, <2>6
<1>10. x \in StreamType
  BY <1>7, StreamUpdates, Zenon
<1>11. /\ x.id = s.id /\ (x.dispatched <=> s.dispatched) /\ x.left = s.left /\ x.headers_sent
       /\ (x.reset <=> s.reset) /\ (x.remote_ended <=> s.remote_ended) /\ (x.body_too_big <=> s.body_too_big)
       /\ x.body = s.body /\ x.local_ended = es /\ x.response_ready = re /\ x.send_window = s.send_window
  BY <1>7 DEF StreamType
<1>12. (x.local_ended <=> es) /\ (x.response_ready <=> ~es)
  BY <1>6, <1>11, Zenon
<1>13. s.dispatched
  BY <1>1, <1>2, <1>3, <1>4 DEF Ledger, Responses, Answering, Pumpable
<1>14. /\ c'.hb = c.hb /\ c'.last_stream_id = c.last_stream_id /\ c'.streams = y /\ c'.error = c.error
       /\ c'.conn_send_window = c.conn_send_window /\ c'.client_init_window = c.client_init_window
  BY <1>2, <1>9 DEF ConnType
<1>15. c' \in ConnType
  <2>1. c'.streams \in Seq(StreamType)
    BY <1>1, <1>2, <1>8, <1>10, <1>14, Replaced
  <2> QED
    BY <1>2, <1>9, <1>14, <2>1, ConnUpdates
<1>16. Served(at, x)
  BY <1>1, <1>2, <1>3, <1>8, <1>10, <1>11, <1>13, <1>14, <1>15 DEF Served, LikeUpload
<1>17. peer'.got[s.id] = peer.got[s.id] + 0 /\ \A id \in Ids : id # s.id => peer'.got[id] = peer.got[id]
  <2>1. peer.got \in [Ids -> Int]
    BY <1>1, TypeFacts
  <2>2. peer.got[s.id] + 0 = peer.got[s.id]
    BY <1>4, <2>1
  <2> QED
    BY <1>1, <2>2
<1>18. sent' \in [Ids -> Seq(SentType)] /\ Record' /\ Marked' /\ Resets' /\ Responses' /\ Distinct' /\ Uploads'
  <2>1. 0 \in Nat /\ 0 <= s.left /\ x.left = s.left - 0
    BY <1>4, <1>11
  <2>2. es => s.left = 0
    BY <1>5, Zenon
  <2>3. PICK t \in {"headers", "data"}, k \in Nat, code \in Codes : t = "headers" /\ k = 0 /\ code = s.status
    BY <1>4
  <2>4. Types /\ Record /\ Ledger /\ UNCHANGED <<seen, promised>> /\ Pumpable(s)
    BY <1>1, <1>4
  <2>5. Told(s.id, t, k, code, es) /\ (t = "headers" <=> ~s.headers_sent) /\ x.headers_sent
    BY <1>4, <1>9, <1>11, <2>3
  <2>6. Sending(x, s, t, k, code, es)
    BY <1>12, <1>17, <2>1, <2>2, <2>3, <2>5 DEF Sending
  <2> QED
    BY <1>3, <1>16, <2>4, <2>6, Sends
<1>19. /\ Indices' = Indices /\ c'.streams[at] = x
       /\ \A j \in Indices : j # at => c'.streams[j] = c.streams[j]
  BY <1>1, <1>16, ServedKept
<1>20. Credit'
  BY <1>1, <1>3, <1>11, <1>14, <1>19 DEF Ledger, Credit
<1>21. Passes'
  <2>1. c'.conn_send_window <= c.conn_send_window
    BY <1>1, <1>14, TypeFacts
  <2> QED
    BY <1>1, <1>11, <1>13, <1>15, <1>19, <2>1, PumpPasses
<1>22. Types'
  BY <1>1, <1>14, <1>15, <1>18 DEF Types
<1> QED
  BY <1>18, <1>20, <1>21, <1>22 DEF IInv, Loop, Ledger

\* What h2_send_data does with the windows and the credit.
LEMMA SendDataShape ==
  ASSUME IInv, NEW n, h2_send_data(n)
  PROVE  /\ at \in Indices /\ n \in Nat /\ Current \in StreamType /\ n <= Current.left
         /\ (Current.how = "fn" /\ n = 0 => Current.left = 0)
         /\ n > 0 => n <= Current.send_window /\ n <= c.conn_send_window
<1>1. Types /\ Ledger /\ Passes /\ pc = "pump" /\ c \in ConnType
  BY DEF IInv, Running, Loop, h2_send_data, Pumping, Types
<1>2. at \in Indices
  <2>1. at \in Nat /\ at > 0 /\ at <= Len(c.streams) /\ Len(c.streams) \in Nat
    BY <1>1, TypeFacts DEF Types, Passes, h2_send_data, Pumping
  <2> QED
    BY <2>1 DEF Indices
<1>3. PICK s \in StreamType : s = Current
  BY <1>1, <1>2, TypeFacts DEF Current
<1>4. PICK w \in Int : w = c.conn_send_window
  BY <1>1, TypeFacts
<1>5. n \in DataAt(s, w)
  BY <1>3, <1>4, DataAtWindow DEF h2_send_data
<1>6. /\ n \in Nat /\ n <= s.left /\ (s.how = "fn" /\ n = 0 => s.left = 0)
      /\ n > 0 => n <= s.send_window /\ n <= w
  BY <1>5, BlockedMeans
<1> QED
  BY <1>2, <1>3, <1>4, <1>6

\* A DATA frame goes out: the windows, the credit and what is left all shrink by its length.
LEMMA SendDataStep ==
  ASSUME IInv, NEW n, h2_send_data(n)
  PROVE  IInv'
<1>1. Types /\ Record /\ Ledger /\ Passes /\ pc = "pump" /\ Running /\ Running' /\ pc' = "pump" /\ at' = at
      /\ UNCHANGED <<client, pc, at, frames, seen, promised>>
  BY DEF IInv, Running, Loop, h2_send_data, Pumping
<1>2. at \in Indices /\ c \in ConnType /\ peer \in PeerType /\ n \in Nat
  BY <1>1, SendDataShape DEF Types
<1>3. PICK s \in StreamType : s = c.streams[at]
  BY <1>1, <1>2, TypeFacts
<1>4. /\ s.id \in Ids /\ Pumpable(s) /\ s.headers_sent /\ s.left \in Nat /\ s.send_window \in Int
      /\ n <= s.left /\ (s.how = "fn" /\ n = 0 => s.left = 0)
  BY <1>3, SendDataShape DEF StreamType, h2_send_data, Pumping, Current
<1>5. PICK es \in BOOLEAN : es = Eof(n)
  <2>1. Eof(n) \in BOOLEAN
    BY Zenon DEF Eof
  <2> QED
    BY <2>1, Zenon
<1>6. es => s.left = n
  BY <1>3, <1>4, <1>5 DEF Eof, Current
<1>7. PICK re \in BOOLEAN : re = ~es
  BY Zenon
<1>8. PICK w \in Int, l \in Nat, v \in Int : w = s.send_window - n /\ l = s.left - n /\ v = c.conn_send_window - n
  <2>1. s.send_window - n \in Int /\ s.left - n \in Nat /\ c.conn_send_window - n \in Int
    <3>1. c.conn_send_window \in Int
      BY <1>1, TypeFacts
    <3> QED
      BY <1>2, <1>4, <3>1
  <2> QED
    BY <2>1
<1>9. PICK x : x = [s EXCEPT !.send_window = w, !.left = l, !.local_ended = es, !.response_ready = re]
  OBVIOUS
<1>10. PICK y : y = [c.streams EXCEPT ![at] = x]
  OBVIOUS
<1>11. /\ Told(s.id, "data", n, "none", es)
       /\ c' = [c EXCEPT !.conn_send_window = v, !.streams = y]
  <2>1. Told(s.id, "data", n, "none", es)
    BY <1>3, <1>5, Zenon DEF h2_send_data, Current
  <2>2. c' = [c EXCEPT !.conn_send_window = @ - n,
                       !.streams[at] = [Current EXCEPT !.send_window = @ - n, !.left = @ - n,
                                                       !.local_ended = es, !.response_ready = ~es]]
    BY <1>5, Zenon DEF h2_send_data
  <2>3. x = [Current EXCEPT !.send_window = @ - n, !.left = @ - n, !.local_ended = es, !.response_ready = ~es]
    BY <1>3, <1>7, <1>8, <1>9, Zenon DEF Current
  <2>4. c' = [c EXCEPT !.conn_send_window = @ - n, !.streams[at] = x]
    BY <2>2, <2>3, Zenon
  <2>5. c' = [c EXCEPT !.conn_send_window = c.conn_send_window - n, !.streams = [c.streams EXCEPT ![at] = x]]
    BY <2>4
  <2>6. c' = [c EXCEPT !.conn_send_window = v, !.streams = y]
    BY <1>8, <1>10, <2>5
  <2> QED
    BY <2>1, <2>6
<1>12. x \in StreamType
  BY <1>9, StreamUpdates, Zenon
<1>13. /\ x.id = s.id /\ (x.dispatched <=> s.dispatched) /\ x.left = l /\ (x.headers_sent <=> s.headers_sent)
       /\ (x.reset <=> s.reset) /\ (x.remote_ended <=> s.remote_ended) /\ (x.body_too_big <=> s.body_too_big)
       /\ x.body = s.body /\ x.local_ended = es /\ x.response_ready = re /\ x.send_window = w
  BY <1>9 DEF StreamType
<1>14. (x.local_ended <=> es) /\ (x.response_ready <=> ~es)
  BY <1>7, <1>13, Zenon
<1>15. s.dispatched
  BY <1>1, <1>2, <1>3, <1>4 DEF Ledger, Responses, Answering, Pumpable
<1>16. c'.streams = y /\ c'.conn_send_window = v
       /\ c'.hb = c.hb /\ c'.last_stream_id = c.last_stream_id /\ c'.error = c.error
       /\ c'.client_init_window = c.client_init_window
  BY <1>2, <1>11 DEF ConnType
<1>17. c' \in ConnType
  <2>1. c'.streams \in Seq(StreamType)
    BY <1>1, <1>2, <1>10, <1>12, <1>16, Replaced
  <2> QED
    BY <1>2, <1>11, <1>16, <2>1, ConnUpdates
<1>18. PICK pv \in Int, pm \in [Ids -> Int], pg \in [Ids -> Int] :
         /\ pv = peer.conn - n /\ pm = [peer.more EXCEPT ![s.id] = @ - n] /\ pg = [peer.got EXCEPT ![s.id] = @ + n]
  <2>1. peer.conn \in Int /\ peer.more \in [Ids -> Int] /\ peer.got \in [Ids -> Int]
    BY <1>1, TypeFacts
  <2>2. peer.conn - n \in Int /\ peer.more[s.id] - n \in Int /\ peer.got[s.id] + n \in Int
    BY <1>2, <1>4, <2>1
  <2>3. [peer.more EXCEPT ![s.id] = @ - n] \in [Ids -> Int] /\ [peer.got EXCEPT ![s.id] = @ + n] \in [Ids -> Int]
    BY <2>1, <2>2
  <2> QED
    BY <2>2, <2>3
<1>19. peer' = [peer EXCEPT !.conn = pv, !.more = pm, !.got = pg]
  <2>1. peer' = [peer EXCEPT !.conn = @ - n, !.more[s.id] = @ - n, !.got[s.id] = @ + n]
    BY <1>3 DEF h2_send_data, Current
  <2>2. peer' = [peer EXCEPT !.conn = peer.conn - n, !.more = [peer.more EXCEPT ![s.id] = @ - n],
                             !.got = [peer.got EXCEPT ![s.id] = @ + n]]
    BY <2>1
  <2> QED
    BY <1>18, <2>2
<1>20. peer' \in PeerType
  BY <1>2, <1>19, PeerUpdates, Zenon
<1>21. /\ peer'.conn = pv /\ peer'.more = pm /\ peer'.got = pg /\ peer'.init = peer.init
       /\ peer'.uploaded = peer.uploaded /\ peer'.ended = peer.ended /\ peer'.used = peer.used
       /\ peer'.faulty = peer.faulty
  BY <1>2, <1>19 DEF PeerType
<1>22. Served(at, x)
  BY <1>1, <1>2, <1>3, <1>10, <1>12, <1>13, <1>15, <1>16, <1>17, <1>20, <1>21 DEF Served, LikeUpload
<1>23. sent' \in [Ids -> Seq(SentType)] /\ Record' /\ Marked' /\ Resets' /\ Responses' /\ Distinct' /\ Uploads'
  <2>1. PICK k \in Nat, t \in {"headers", "data"}, code \in Codes : k = n /\ t = "data" /\ code = "none"
    BY <1>2 DEF Codes
  <2>2. Types /\ Record /\ Ledger /\ UNCHANGED <<seen, promised>> /\ Pumpable(s)
    BY <1>1, <1>4
  <2>3. k <= s.left /\ x.left = s.left - k /\ (es => s.left = k)
    BY <1>4, <1>6, <1>8, <1>13, <2>1
  <2>4. Told(s.id, t, k, code, es)
    BY <1>11, <2>1
  <2>5. (t = "headers" <=> ~s.headers_sent) /\ (t = "headers" => k = 0) /\ x.headers_sent
    BY <1>4, <1>13, <2>1
  <2>6. peer'.got[s.id] = peer.got[s.id] + k /\ \A id \in Ids : id # s.id => peer'.got[id] = peer.got[id]
    <3>1. peer.got \in [Ids -> Int]
      BY <1>1, TypeFacts
    <3> QED
      BY <1>4, <1>18, <1>21, <2>1, <3>1
  <2> QED
    <3>1. Sending(x, s, t, k, code, es)
      BY <1>14, <2>3, <2>4, <2>5, <2>6 DEF Sending
    <3> QED
      BY <1>3, <1>22, <2>2, <3>1, Sends
<1>24. /\ Indices' = Indices /\ c'.streams[at] = x /\ s.id <= c.last_stream_id
       /\ \A j \in Indices : j # at => c'.streams[j] = c.streams[j] /\ c.streams[j].id # s.id
  BY <1>1, <1>3, <1>13, <1>22, ServedKept
<1>25. Credit'
  <2>1. pm[s.id] = peer.more[s.id] - n /\ peer.more[s.id] \in Int /\ peer.init \in Int
        /\ \A id \in Ids : id # s.id => pm[id] = peer.more[id]
    BY <1>1, <1>4, <1>18, TypeFacts, SMTT(30)
  <2>2. v = pv /\ c.client_init_window = peer.init
    BY <1>1, <1>8, <1>18 DEF Ledger, Credit
  <2>3. ASSUME NEW j \in Indices PROVE c'.streams[j].send_window = peer'.init + peer'.more[c'.streams[j].id]
    <3>1. CASE j = at
      <4>1. s.send_window = peer.init + peer.more[s.id]
        BY <1>1, <1>2, <1>3 DEF Ledger, Credit
      <4>2. w = peer.init + (peer.more[s.id] - n)
        BY <1>2, <1>8, <2>1, <4>1
      <4> QED
        BY <1>13, <1>21, <1>24, <2>1, <3>1, <4>2
    <3>2. CASE j # at
      <4>1. c.streams[j].id \in Ids /\ c.streams[j].id # s.id /\ c'.streams[j] = c.streams[j]
        BY <1>1, <1>24, <3>2, TypeFacts
      <4> QED
        BY <1>1, <1>21, <2>1, <4>1 DEF Ledger, Credit
    <3> QED
      BY <3>1, <3>2
  <2>4. ASSUME NEW id \in Ids, id > c.last_stream_id PROVE peer'.more[id] = 0
    <3>1. id # s.id
      BY <1>1, <1>4, <1>24, <2>4, TypeFacts
    <3> QED
      BY <1>1, <1>21, <2>1, <2>4, <3>1 DEF Ledger, Credit
  <2> QED
    BY <1>16, <1>21, <1>24, <2>2, <2>3, <2>4 DEF Credit
<1>26. Passes'
  <2>1. c'.conn_send_window <= c.conn_send_window
    BY <1>1, <1>2, <1>8, <1>16, TypeFacts
  <2> QED
    BY <1>1, <1>13, <1>15, <1>17, <1>24, <2>1, PumpPasses
<1>27. Types'
  BY <1>1, <1>16, <1>17, <1>20, <1>23 DEF Types
<1> QED
  BY <1>23, <1>25, <1>26, <1>27 DEF IInv, Loop, Ledger

\* The last stream has taken the place of the one that is freed.
LEMMA Freed ==
  ASSUME Types, NEW i \in Indices, NEW z, z = h2_free_stream(c.streams, i)
  PROVE  /\ z \in Seq(StreamType) /\ Len(z) = Len(c.streams) - 1
         /\ \A j \in 1 .. Len(z) : /\ j \in Indices /\ j # Len(c.streams)
                                   /\ z[j] = IF j = i THEN c.streams[Len(c.streams)] ELSE c.streams[j]
<1>1. PICK ss \in Seq(StreamType), n \in Nat : ss = c.streams /\ n = Len(ss)
  BY TypeFacts
<1>2. i \in 1 .. n /\ n > 0 /\ n \in 1 .. n
  BY <1>1 DEF Indices
<1>3. PICK l \in StreamType : l = ss[n]
  BY <1>1, <1>2
<1>4. PICK y : y = [ss EXCEPT ![i] = l]
  OBVIOUS
<1>5. y \in Seq(StreamType) /\ Len(y) = n /\ \A j \in 1 .. n : y[j] = IF j = i THEN l ELSE ss[j]
  BY <1>1, <1>2, <1>3, <1>4
<1>6. z = SubSeq(y, 1, n - 1)
  <2>1. Last(ss) = l
    BY <1>1, <1>3 DEF Last
  <2>2. z = Front(y)
    BY <1>1, <1>4, <2>1 DEF h2_free_stream
  <2> QED
    BY <1>5, <2>2 DEF Front
<1>7. z \in Seq(StreamType) /\ Len(z) = n - 1 /\ \A j \in 1 .. n - 1 : z[j] = y[j]
  <2>1. 1 \in 1 .. Len(y) + 1 /\ n - 1 \in 1 - 1 .. Len(y)
    BY <1>2, <1>5
  <2>2. /\ SubSeq(y, 1, n - 1) \in Seq(StreamType) /\ Len(SubSeq(y, 1, n - 1)) = n - 1 - 1 + 1
        /\ \A j \in 1 .. (n - 1 - 1 + 1) : SubSeq(y, 1, n - 1)[j] = y[1 + j - 1]
    BY <1>5, <2>1, SubSeqProperties
  <2>3. n - 1 - 1 + 1 = n - 1 /\ \A j \in 1 .. n - 1 : 1 + j - 1 = j
    BY <1>1
  <2> QED
    BY <1>6, <2>2, <2>3
<1>8. \A j \in 1 .. n - 1 : j \in 1 .. n /\ j # n
  BY <1>1
<1> QED
  BY <1>1, <1>3, <1>5, <1>7, <1>8 DEF Indices

\* The sweep frees the stream it looks at, or keeps it.
LEMMA SweepStep ==
  ASSUME IInv, h2_sweep
  PROVE  IInv'
<1>1. /\ Types /\ Record /\ Ledger /\ Passes /\ pc = "sweep" /\ pc' = "sweep" /\ Running /\ Running'
      /\ UNCHANGED <<client, pc, frames, sent, seen, promised, peer>> /\ at' = at - 1
  BY DEF IInv, Running, Loop, h2_sweep
<1>2. at \in Indices /\ c \in ConnType /\ at \in Nat /\ at' \in Nat /\ Len(c.streams) \in Nat /\ at' < at
  <2>1. at \in Nat /\ at > 0 /\ at <= Len(c.streams) /\ Len(c.streams) \in Nat
    BY <1>1, TypeFacts DEF Types, Passes, h2_sweep
  <2> QED
    BY <1>1, <2>1 DEF Indices, Types
<1>3. \A i \in Indices : /\ ~Complete(c.streams[i]) /\ (Pumpable(c.streams[i]) => Blocked(c.streams[i]))
                         /\ i > at => ~Swept(c.streams[i])
  BY <1>1 DEF Passes
<1>4. CASE ~Swept(c.streams[at])
  <2>1. c' = c /\ Indices' = Indices
    BY <1>4 DEF h2_sweep, Indices
  <2>2. \A i \in Indices : i > at' => ~Swept(c.streams[i])
    <3>1. \A i \in Indices : i > at' => i > at \/ i = at
      BY <1>1, <1>2 DEF Indices
    <3> QED
      BY <1>3, <1>4, <3>1
  <2>3. at' <= Len(c.streams)
    BY <1>1, <1>2 DEF Passes
  <2>4. Passes'
    BY <1>1, <1>3, <2>1, <2>2, <2>3 DEF Passes, Complete, Pumpable, Blocked, h2_next_data, Room, Swept
  <2> QED
    BY <1>1, <1>2, <2>1, <2>4, PassStep
<1>5. CASE Swept(c.streams[at])
  <2>1. PICK z : z = h2_free_stream(c.streams, at)
    OBVIOUS
  <2>2. PICK n \in Nat : n = Len(c.streams) /\ n \in Indices
    BY <1>2 DEF Indices
  <2>3. /\ z \in Seq(StreamType) /\ Len(z) = n - 1
        /\ \A j \in 1 .. Len(z) : j \in Indices /\ j # n /\ z[j] = IF j = at THEN c.streams[n] ELSE c.streams[j]
    <3>1. /\ z \in Seq(StreamType) /\ Len(z) = Len(c.streams) - 1
          /\ \A j \in 1 .. Len(z) : /\ j \in Indices /\ j # Len(c.streams)
                                    /\ z[j] = IF j = at THEN c.streams[Len(c.streams)] ELSE c.streams[j]
      <4>1. Types /\ at \in Indices
        BY <1>1, <1>2
      <4> QED
        BY <2>1, <4>1, Freed
    <3> QED
      BY <2>2, <3>1
  <2>4. c' = [c EXCEPT !.streams = z]
    BY <1>5, <2>1 DEF h2_sweep
  <2>5. c' \in ConnType
    BY <1>2, <2>3, <2>4, ConnUpdates
  <2>6. /\ c'.hb = c.hb /\ c'.last_stream_id = c.last_stream_id /\ c'.streams = z /\ c'.error = c.error
        /\ c'.conn_send_window = c.conn_send_window /\ c'.client_init_window = c.client_init_window
    BY <1>2, <2>4 DEF ConnType
  <2>7. \A j \in Indices' : /\ j \in Indices /\ j # n
                            /\ c'.streams[j] = IF j = at THEN c.streams[n] ELSE c.streams[j]
    BY <2>3, <2>6 DEF Indices
  <2>8. \A j \in Indices' : \E k \in Indices : c'.streams[j] = c.streams[k]
    BY <2>2, <2>7
  <2>9. Distinct'
    <3>1. ASSUME NEW j \in Indices', NEW k \in Indices', j # k PROVE c'.streams[j].id # c'.streams[k].id
      <4>1. PICK a \in Indices : a = (IF j = at THEN n ELSE j) /\ c'.streams[j] = c.streams[a]
        BY <2>2, <2>7
      <4>2. PICK b \in Indices : b = (IF k = at THEN n ELSE k) /\ c'.streams[k] = c.streams[b]
        BY <2>2, <2>7
      <4>3. a # b
        BY <2>7, <3>1, <4>1, <4>2
      <4> QED
        BY <1>1, <4>1, <4>2, <4>3 DEF Ledger, Distinct
    <3>2. \A j \in Indices' : c'.streams[j].id <= c'.last_stream_id
      BY <1>1, <2>6, <2>8 DEF Ledger, Distinct
    <3> QED
      BY <3>1, <3>2 DEF Distinct
  <2>10. Credit'
    BY <1>1, <2>6, <2>8 DEF Ledger, Credit
  <2>11. Marked'
    BY <1>1, <2>6, <2>8 DEF Ledger, Marked
  <2>12. Uploads'
    BY <1>1, <2>6, <2>8 DEF Ledger, Uploads
  <2>13. Resets'
    BY <1>1, <2>6, <2>8 DEF Ledger, Resets
  <2>14. Responses'
    BY <1>1, <2>6, <2>8 DEF Ledger, Responses
  <2>15. Passes'
    <3>1. \A j \in Indices' : ~Complete(c'.streams[j])
      BY <1>3, <2>8
    <3>2. ASSUME NEW j \in Indices', Pumpable(c.streams[j])' PROVE Blocked(c.streams[j])'
      <4>1. PICK k \in Indices : c'.streams[j] = c.streams[k]
        BY <2>8
      <4>2. PICK s : s = c.streams[k]
        OBVIOUS
      <4>3. Blocked(s)
        BY <1>3, <3>2, <4>1, <4>2 DEF Pumpable
      <4>4. s.headers_sent /\ DataAt(s, c.conn_send_window) = {}
        BY <4>3, DataAtWindow
      <4>5. c'.streams[j].headers_sent /\ DataAt(c'.streams[j], c'.conn_send_window) = {}
        BY <2>6, <4>1, <4>2, <4>4
      <4> QED
        BY <4>5 DEF h2_next_data, Room, DataAt, Blocked
    <3>3. ASSUME NEW j \in Indices', j > at' PROVE ~Swept(c'.streams[j])
      <4>1. PICK k \in Indices : c'.streams[j] = c.streams[k] /\ k = (IF j = at THEN n ELSE j)
        BY <2>2, <2>7
      <4>2. k > at
        <5>1. j \in Nat /\ j \in Indices' /\ j # n /\ j \in 1 .. n
          BY <2>2, <2>7 DEF Indices
        <5> QED
          BY <1>1, <1>2, <2>2, <3>3, <4>1, <5>1
      <4> QED
        BY <1>3, <4>1, <4>2
    <3>4. at' <= Len(c'.streams)
      BY <1>1, <1>2, <2>2, <2>3, <2>6 DEF Passes
    <3> QED
      BY <1>1, <3>1, <3>2, <3>3, <3>4 DEF Passes, Complete, Swept
  <2>16. Types'
    BY <1>1, <1>2, <2>5, <2>6 DEF Types
  <2>17. Record'
    BY <1>1, RecordSame
  <2> QED
    BY <2>9, <2>10, <2>11, <2>12, <2>13, <2>14, <2>15, <2>16, <2>17 DEF IInv, Loop, Ledger
<1> QED
  BY <1>4, <1>5
-----------------------------------------------------------------------------
(* The inductive invariant, and what it says.                              *)

\* The stream of an h2c upgrade.
LEMMA UpgradeStream ==
  ASSUME NEW e, e.body \in Nat, e.window \in Nat, NEW s, s = h2_add_upgrade_stream(e)
  PROVE  /\ s \in StreamType /\ s.id = 1 /\ s.remote_ended /\ s.send_window = e.window /\ s.body = e.body
         /\ ~s.dispatched /\ ~s.response_ready /\ ~s.headers_sent /\ ~s.local_ended /\ ~s.reset
<1>1. PICK q : q = Stream(1, TRUE, e.body, "no", e.window)
  OBVIOUS
<1>2. 1 \in Ids /\ TRUE \in BOOLEAN /\ e.body \in Int /\ "no" \in {"no", "corrupt", "bomb"} /\ e.window \in Int
  BY Sizes
<1>3. /\ q \in StreamType /\ q.id = 1 /\ q.remote_ended /\ q.send_window = e.window
      /\ ~q.dispatched /\ ~q.response_ready /\ ~q.headers_sent /\ ~q.local_ended /\ ~q.reset
  <2>1. PICK id \in Ids, t \in BOOLEAN, cl \in Int, zip \in {"no", "corrupt", "bomb"}, w \in Int :
          id = 1 /\ t = TRUE /\ cl = e.body /\ zip = "no" /\ w = e.window
    BY <1>2
  <2>2. q = Stream(id, t, cl, zip, w)
    BY <1>1, <2>1
  <2>3. /\ q \in StreamType /\ q.id = id /\ (q.remote_ended <=> t) /\ q.send_window = w
        /\ ~q.dispatched /\ ~q.response_ready /\ ~q.headers_sent /\ ~q.local_ended /\ ~q.reset
    BY <2>2, NewStream
  <2> QED
    BY <2>1, <2>3
<1>4. s = [q EXCEPT !.body = e.body, !.req_bytes = e.body]
  BY <1>1 DEF h2_add_upgrade_stream
<1>5. \A x \in Nat, y \in Nat : [q EXCEPT !.body = x, !.req_bytes = y] \in StreamType
  BY <1>3, Zenon DEF StreamType
<1>6. s \in StreamType
  BY <1>4, <1>5, Zenon
<1> QED
  BY <1>3, <1>4, <1>6 DEF StreamType

\* The connection starts with no stream, or with the one of an h2c upgrade.
LEMMA InitIInv ==
  ASSUME Init
  PROVE  IInv
<1>1. client \in DOMAIN Clients
  BY DEF Init
<1>2. PICK e \in Clients[client].entries :
      /\ c = [streams |-> IF e.how = "upgrade" THEN <<h2_add_upgrade_stream(e)>> ELSE << >>,
              last_stream_id |-> IF e.how = "upgrade" THEN 1 ELSE 0,
              got_client_settings |-> FALSE,
              client_goaway |-> -1,
              conn_recv_window |-> InitWindow, conn_send_window |-> InitWindow,
              client_init_window |-> e.window,
              error |-> IF e.window > MaxWindow THEN "flow_control" ELSE "no_error",
              hb |-> NoBlock,
              magic |-> IF e.preface THEN 0 ELSE 3]
      /\ pc = IF e.window > MaxWindow \/ e.undecodable THEN "out" ELSE "dispatch"
      /\ peer = [conn |-> InitWindow, init |-> e.window, more |-> [i \in Ids |-> 0],
                 got |-> [i \in Ids |-> 0],
                 up |-> InitWindow, ups |-> [i \in Ids |-> InitWindow],
                 uploaded |-> [i \in Ids |-> IF i = 1 /\ e.how = "upgrade" THEN e.body ELSE 0],
                 ended |-> IF e.how = "upgrade" THEN {1} ELSE {},
                 used |-> IF e.how = "upgrade" THEN {1} ELSE {}, faulty |-> FALSE]
      /\ at = 1
      /\ frames = 0
      /\ sent = [i \in Ids |-> << >>]
      /\ seen = << >>
      /\ promised = [i \in Ids |-> -1]
  BY DEF Init
<1>3. e \in [how : {"prior", "tls", "upgrade"}, window : Nat, preface : BOOLEAN, undecodable : BOOLEAN, body : Nat]
  BY <1>1, <1>2, ClientShape
<1>4. e.window \in Nat /\ e.body \in Nat /\ InitWindow \in Nat /\ Ids \subseteq Nat \ {0} /\ 1 \in Ids
  BY <1>3, Sizes
<1>5. PICK up \in BOOLEAN : up = (e.how = "upgrade")
  BY Zenon
<1>6. PICK s \in StreamType :
        /\ s = h2_add_upgrade_stream(e) /\ s.id = 1 /\ s.remote_ended /\ s.send_window = e.window
        /\ s.body = e.body /\ ~s.dispatched /\ ~s.response_ready /\ ~s.headers_sent /\ ~s.local_ended /\ ~s.reset
  BY <1>4, UpgradeStream
<1>7. PICK ss \in Seq(StreamType), last \in {0, 1}, err \in {"no_error", "flow_control"}, mg \in {0, 3} :
        /\ ss = (IF e.how = "upgrade" THEN <<s>> ELSE << >>) /\ last = (IF e.how = "upgrade" THEN 1 ELSE 0)
        /\ err = (IF e.window > MaxWindow THEN "flow_control" ELSE "no_error") /\ mg = (IF e.preface THEN 0 ELSE 3)
  <2>1. (IF e.how = "upgrade" THEN <<s>> ELSE << >>) \in Seq(StreamType)
    OBVIOUS
  <2> QED
    BY <2>1
<1>8. c = [streams |-> ss, last_stream_id |-> last, got_client_settings |-> FALSE, client_goaway |-> -1,
           conn_recv_window |-> InitWindow, conn_send_window |-> InitWindow, client_init_window |-> e.window,
           error |-> err, hb |-> NoBlock, magic |-> mg]
  BY <1>2, <1>6, <1>7
<1>9. c \in ConnType
  <2>1. NoBlock \in Blocks
    BY Zenon DEF NoBlock, Blocks
  <2>2. err \in Codes /\ last \in Nat /\ mg \in Nat /\ -1 \in Int /\ InitWindow \in Int /\ FALSE \in BOOLEAN
    BY <1>4, <1>7 DEF Codes
  <2> QED
    BY <1>4, <1>8, <2>1, <2>2, Zenon DEF ConnType
<1>10. /\ c.streams = ss /\ c.last_stream_id = last /\ c.conn_send_window = InitWindow
       /\ c.client_init_window = e.window /\ c.error = err /\ c.hb = NoBlock /\ c.hb.stream = 0
  BY <1>8 DEF NoBlock
<1>11. PICK m \in [Ids -> Int], u \in [Ids -> Nat], w \in [Ids -> Int], en \in SUBSET Ids :
         /\ m = [i \in Ids |-> 0] /\ u = [i \in Ids |-> IF i = 1 /\ e.how = "upgrade" THEN e.body ELSE 0]
         /\ w = [i \in Ids |-> InitWindow] /\ en = (IF e.how = "upgrade" THEN {1} ELSE {})
  <2>1. [i \in Ids |-> 0] \in [Ids -> Int]
    OBVIOUS
  <2>2. [i \in Ids |-> IF i = 1 /\ e.how = "upgrade" THEN e.body ELSE 0] \in [Ids -> Nat]
    BY <1>4
  <2>3. [i \in Ids |-> InitWindow] \in [Ids -> Int]
    BY <1>4
  <2>4. (IF e.how = "upgrade" THEN {1} ELSE {}) \in SUBSET Ids
    BY <1>4
  <2> QED
    BY <2>1, <2>2, <2>3, <2>4
<1>12. peer = [conn |-> InitWindow, init |-> e.window, more |-> m, got |-> m, up |-> InitWindow, ups |-> w,
               uploaded |-> u, ended |-> en, used |-> en, faulty |-> FALSE]
  BY <1>2, <1>11
<1>13. peer \in PeerType
  <2>1. InitWindow \in Int /\ FALSE \in BOOLEAN
    BY <1>4
  <2> QED
    BY <1>4, <1>12, <2>1, Zenon DEF PeerType
<1>14. /\ peer.conn = InitWindow /\ peer.init = e.window /\ peer.more = m /\ peer.got = m /\ peer.uploaded = u
       /\ peer.ended = en /\ peer.used = en /\ ~peer.faulty
  BY <1>12
<1>15. sent \in [Ids -> Seq(SentType)] /\ (\A id \in Ids : sent[id] = << >> /\ \A k \in 1 .. Len(sent[id]) : FALSE)
       /\ seen \in Seq(SeenType) /\ Len(seen) = 0 /\ promised \in [Ids -> Int]
  BY <1>2
<1>16. Types
  <2>1. pc \in {"out", "dispatch"} /\ (pc = "dispatch" => c.error = "no_error") /\ at \in Nat /\ frames \in Nat
    BY <1>2, <1>7, <1>10
  <2> QED
    BY <1>1, <1>9, <1>10, <1>13, <1>15, <2>1 DEF Types, Running
<1>17. Record
  BY <1>15 DEF Record, WholeBody, NothingAfterReset, ResponsesWhole
<1>18. \A i \in Indices : i = 1 /\ c.streams[i] = s /\ last = 1 /\ en = {1} /\ u[1] = e.body
  BY <1>4, <1>7, <1>10, <1>11 DEF Indices
<1>19. Distinct
  BY <1>6, <1>10, <1>18 DEF Distinct
<1>20. Credit
  <2>1. m[1] = 0 /\ \A id \in Ids : m[id] = 0
    BY <1>4, <1>11
  <2>2. e.window = e.window + 0
    BY <1>4
  <2> QED
    BY <1>6, <1>10, <1>14, <1>18, <2>1, <2>2 DEF Credit
<1>21. Marked
  BY <1>15 DEF Marked
<1>22. Uploads
  <2>1. ASSUME NEW id \in Ids, id > last PROVE u[id] = 0 /\ id \notin en
    BY <1>4, <1>7, <1>11, <2>1
  <2>2. ~(c.hb.stream > c.last_stream_id)
    BY <1>7, <1>10
  <2> QED
    BY <1>6, <1>10, <1>14, <1>18, <2>1, <2>2 DEF Uploads
<1>23. Resets
  BY <1>4, <1>6, <1>10, <1>14, <1>15, <1>18 DEF Resets
<1>24. Responses
  <2>1. \A id \in Ids : m[id] = 0
    BY <1>11
  <2> QED
    BY <1>4, <1>6, <1>14, <1>15, <1>18, <2>1 DEF Responses, Answering
<1>25. pc \in {"out", "dispatch"}
  BY <1>2
<1>26. Passes
  BY <1>25 DEF Passes
<1> QED
  BY <1>16, <1>17, <1>19, <1>20, <1>21, <1>22, <1>23, <1>24, <1>26 DEF IInv, Loop, Ledger

\* Every step of h2_serve keeps the invariant.
LEMMA NextIInv ==
  ASSUME IInv, [Next]_vars
  PROVE  IInv'
<1>1. CASE Reads
  BY <1>1, FrameStep DEF Reads
<1>2. CASE \E n \in 1 .. 3 : PrefaceArrives(n)
  BY <1>2, PrefaceStep
<1>3. CASE \E i \in 1 .. Len(c.streams) : h2_direct_error(i) \/ h2_dispatch(i)
  BY <1>3, DispatchStep DEF Indices
<1>4. CASE DispatchDone
  BY <1>4, DispatchDoneStep
<1>5. CASE PumpHeaders
  BY <1>5, PumpHeadersStep
<1>6. CASE \E n \in 0 .. MaxFrame : h2_send_data(n)
  BY <1>6, SendDataStep
<1>7. CASE PumpFails \/ Leaves
  BY <1>7, LeavesStep
<1>8. CASE PumpNext
  BY <1>8, PumpNextStep
<1>9. CASE PumpDone
  BY <1>9, PumpDoneStep
<1>10. CASE h2_sweep
  BY <1>10, SweepStep
<1>11. CASE SweepDone
  BY <1>11, SweepDoneStep
<1>12. CASE UNCHANGED vars
  BY <1>12, StutterStep
<1> QED
  BY <1>1, <1>2, <1>3, <1>4, <1>5, <1>6, <1>7, <1>8, <1>9, <1>10, <1>11, <1>12 DEF Next, Serves, Over

\* Whatever the client sends, the connection's ledger of windows, uploads and
\* responses is right whenever h2_serve is in its loop, and what it has sent and
\* handed to the handler is right even after it left.
THEOREM H2Invariant == Spec => []IInv
<1>1. Init => IInv
  BY InitIInv
<1>2. IInv /\ [Next]_vars => IInv'
  BY NextIInv
<1> QED
  BY <1>1, <1>2, PTL DEF Spec

\* What goes out on a stream is one response, HEADERS first and END_STREAM last,
\* with the whole body before it, for any windows and any frames in between.
THEOREM H2ResponsesWhole == Spec => []ResponsesWhole
<1>1. IInv => ResponsesWhole
  BY DEF IInv, Record
<1> QED
  BY <1>1, H2Invariant, PTL

\* The handler sees each request once, with the body the client sent.
THEOREM H2WholeBody == Spec => []WholeBody
<1>1. IInv => WholeBody
  BY DEF IInv, Record
<1> QED
  BY <1>1, H2Invariant, PTL

\* Nothing of a response follows an RST_STREAM of the server.
THEOREM H2NothingAfterReset == Spec => []NothingAfterReset
<1>1. IInv => NothingAfterReset
  BY DEF IInv, Record
<1> QED
  BY <1>1, H2Invariant, PTL

\* When the server waits for the client it has dispatched, sent and freed all it can.
THEOREM H2NoIdleCredit == Spec => []NoIdleCredit
<1>1. ASSUME IInv PROVE NoIdleCredit
  <2> SUFFICES ASSUME pc = "read", NEW i \in Indices
               PROVE  /\ ~Complete(c.streams[i]) /\ ~Swept(c.streams[i])
                      /\ c.streams[i].response_ready => Blocked(c.streams[i])
    BY DEF NoIdleCredit, Indices
  <2>1. Passes /\ Responses
    BY <1>1 DEF IInv, Running, Loop, Ledger
  <2>2. ~Complete(c.streams[i]) /\ ~Swept(c.streams[i]) /\ (Pumpable(c.streams[i]) => Blocked(c.streams[i]))
    BY <2>1 DEF Passes
  <2>3. c.streams[i].response_ready => ~c.streams[i].local_ended
    BY <2>1 DEF Responses, Answering
  <2> QED
    BY <2>2, <2>3 DEF Pumpable, Swept
<1> QED
  BY <1>1, H2Invariant, PTL

\* No step sends DATA past the client's credit for the connection or for the
\* stream: only h2_send_data sends any, within both windows, and those are the
\* client's credit.
THEOREM H2NeverOverdraws == Spec => NeverOverdraws
<1> DEFINE Drawn == \A id \in Ids : \A k \in NewFrames(id) :
                      sent'[id][k].n > 0 => /\ sent'[id][k].n <= peer.conn
                                            /\ sent'[id][k].n <= peer.init + peer.more[id]
<1>1. ASSUME IInv, Quiet PROVE Drawn
  <2> SUFFICES ASSUME NEW id \in Ids, NEW k \in 1 .. Len(sent'[id]), k > Len(sent[id]) PROVE ~(sent'[id][k].n > 0)
    BY DEF NewFrames
  <2>1. sent \in [Ids -> Seq(SentType)]
    BY <1>1 DEF IInv, Types
  <2>2. sent'[id][k].n = 0
    BY <1>1, <2>1, QuietShape
  <2> QED
    BY <2>2
<1>2. ASSUME IInv, NEW n, h2_send_data(n) PROVE Drawn
  <2>1. Types /\ Credit
    BY <1>2 DEF IInv, Running, Loop, Ledger, h2_send_data, Pumping
  <2>2. /\ at \in Indices /\ n \in Nat /\ Current \in StreamType
        /\ n > 0 => n <= Current.send_window /\ n <= c.conn_send_window
    BY <1>2, SendDataShape
  <2>3. PICK i \in Ids : i = Current.id
    BY <2>1, <2>2, TypeFacts DEF Current
  <2>4. n > 0 => n <= peer.conn /\ n <= peer.init + peer.more[i]
    BY <2>1, <2>2, <2>3 DEF Credit, Current
  <2>5. PICK es \in BOOLEAN : es = Eof(n)
    <3>1. Eof(n) \in BOOLEAN
      BY Zenon DEF Eof
    <3> QED
      BY <3>1, Zenon
  <2>6. Told(i, "data", n, "none", es) /\ "none" \in Codes /\ "data" \in {"headers", "data", "rst"}
    <3>1. Told(i, "data", n, "none", es)
      BY <1>2, <2>3, <2>5, Zenon DEF h2_send_data
    <3> QED
      BY <3>1 DEF Codes
  <2>7. sent \in [Ids -> Seq(SentType)]
    BY <2>1 DEF Types
  <2>8. /\ \A j \in Ids : j # i => sent'[j] = sent[j]
        /\ Len(sent[i]) \in Nat /\ Len(sent'[i]) = Len(sent[i]) + 1 /\ sent'[i][Len(sent[i]) + 1].n = n
    BY <2>2, <2>6, <2>7, ToldShape
  <2> SUFFICES ASSUME NEW id \in Ids, NEW k \in 1 .. Len(sent'[id]), k > Len(sent[id]), sent'[id][k].n > 0
               PROVE  sent'[id][k].n <= peer.conn /\ sent'[id][k].n <= peer.init + peer.more[id]
    BY DEF NewFrames
  <2>9. id = i
    <3> SUFFICES ASSUME id # i PROVE FALSE
      OBVIOUS
    <3>1. sent'[id] = sent[id] /\ Len(sent[id]) \in Nat
      BY <2>7, <2>8
    <3> QED
      BY <3>1
  <2>10. k = Len(sent[i]) + 1
    BY <2>8, <2>9
  <2> QED
    BY <2>4, <2>8, <2>9, <2>10
<1>3. ASSUME IInv, PumpHeaders PROVE Drawn
  <2>1. Types /\ pc = "pump" /\ Passes
    BY <1>3 DEF IInv, Running, Loop, PumpHeaders, Pumping
  <2>2. at \in Indices
    <3>1. at \in Nat /\ at > 0 /\ at <= Len(c.streams) /\ Len(c.streams) \in Nat
      BY <1>3, <2>1, TypeFacts DEF Types, Passes, PumpHeaders, Pumping
    <3> QED
      BY <3>1 DEF Indices
  <2>3. PICK i \in Ids, st \in Codes : i = Current.id /\ st = Current.status
    <3>1. Current \in StreamType
      BY <2>1, <2>2, TypeFacts DEF Current
    <3> QED
      BY <3>1 DEF StreamType, Codes
  <2>4. PICK es \in BOOLEAN : es = HeadersEnd
    BY Zenon DEF HeadersEnd
  <2>5. Told(i, "headers", 0, st, es)
    BY <1>3, <2>3, <2>4, Zenon DEF PumpHeaders
  <2>6. sent \in [Ids -> Seq(SentType)] /\ "headers" \in {"headers", "data", "rst"} /\ 0 \in Nat
    BY <2>1 DEF Types
  <2>7. /\ \A j \in Ids : j # i => sent'[j] = sent[j]
        /\ Len(sent[i]) \in Nat /\ Len(sent'[i]) = Len(sent[i]) + 1 /\ sent'[i][Len(sent[i]) + 1].n = 0
    BY <2>5, <2>6, ToldShape
  <2> SUFFICES ASSUME NEW id \in Ids, NEW k \in 1 .. Len(sent'[id]), k > Len(sent[id]) PROVE ~(sent'[id][k].n > 0)
    BY DEF NewFrames
  <2>8. id = i
    <3> SUFFICES ASSUME id # i PROVE FALSE
      OBVIOUS
    <3>1. sent'[id] = sent[id] /\ Len(sent[id]) \in Nat
      BY <2>6, <2>7
    <3> QED
      BY <3>1
  <2>9. k = Len(sent[i]) + 1
    BY <2>7, <2>8
  <2> QED
    BY <2>7, <2>8, <2>9
<1>4. ASSUME IInv, [Next]_vars PROVE Quiet \/ PumpHeaders \/ \E n \in 0 .. MaxFrame : h2_send_data(n)
  <2>1. ASSUME NEW f \in Clients[client].frames, h2_process_frame(f) PROVE Quiet
    <3>1. Types /\ f \in FrameShape
      BY <1>4, ClientShape DEF IInv, Types
    <3>2. CASE UNCHANGED sent
      BY <3>2 DEF Quiet
    <3>3. CASE FrameFault(f) # "none"
      BY <2>1, <3>3 DEF h2_process_frame, Quiet
    <3>4. ASSUME FrameFault(f) = "none", h2_on_data(f) PROVE Quiet
      <4>1. f.id \in Ids
        BY <3>1, <3>4, FrameAccepted DEF h2_on_data
      <4>2. PICK i : i = h2_find_stream(f.id)
        OBVIOUS
      <4>3. DataVerdict(c.streams[i], f) \in Codes /\ "stream_closed" \in Codes
        BY DEF DataVerdict, Codes
      <4> QED
        BY <3>4, <4>1, <4>2, <4>3 DEF h2_on_data, Quiet
    <3>5. ASSUME NEW b, NEW h, h.id \in Ids, h2_on_header_block_finish(b, h) PROVE Quiet
      BY <3>5 DEF h2_on_header_block_finish, Quiet, Codes
    <3>6. ASSUME FrameFault(f) = "none", h2_on_headers_start(f) PROVE Quiet
      <4>1. f.id \in Ids
        BY <3>1, <3>6, FrameAccepted DEF h2_on_headers_start
      <4> QED
        BY <3>5, <3>6, <4>1 DEF h2_on_headers_start, Quiet
    <3>7. ASSUME FrameFault(f) = "none", h2_on_cont(f) PROVE Quiet
      <4>1. f.id \in Ids /\ c.hb.head.id \in Ids /\ "cancel" \in Codes
        BY <3>1, <3>7, FrameAccepted, TypeFacts DEF h2_on_cont, Codes, Types
      <4> QED
        BY <3>5, <3>7, <4>1 DEF h2_on_cont, Quiet
    <3>8. ASSUME FrameFault(f) = "none", h2_on_priority(f) PROVE Quiet
      <4>1. f.id \in Ids /\ "frame_size" \in Codes
        BY <3>1, <3>8, FrameAccepted DEF h2_on_priority, Codes
      <4> QED
        BY <3>8, <4>1 DEF h2_on_priority, Ignored, Quiet
    <3>9. ASSUME h2_on_window(f) PROVE Quiet
      <4>1. f.id # 0 => f.id \in Ids
        BY <3>1 DEF FrameShape
      <4>2. "protocol" \in Codes /\ "flow_control" \in Codes
        BY DEF Codes
      <4> QED
        BY <3>9, <4>1, <4>2 DEF h2_on_window, Quiet
    <3>10. h2_on_rst(f) \/ h2_on_settings(f) \/ h2_on_ping(f) \/ h2_on_goaway(f) => UNCHANGED sent
      BY DEF h2_on_rst, h2_on_settings, h2_on_ping, h2_on_goaway
    <3> QED
      BY <2>1, <3>2, <3>3, <3>4, <3>6, <3>7, <3>8, <3>9, <3>10 DEF h2_process_frame
  <2>2. Next /\ ~Reads /\ ~PumpHeaders /\ ~(\E n \in 0 .. MaxFrame : h2_send_data(n)) => UNCHANGED sent
    BY DEF Next, Serves, Leaves, Over, vars, PrefaceArrives, h2_direct_error, h2_dispatch, DispatchDone, PumpFails,
           PumpNext, PumpDone, h2_sweep, SweepDone, h2_client_goaway_done, h2_fill_fails, h2_send_goaway
  <2> QED
    BY <1>4, <2>1, <2>2 DEF Reads, Quiet, vars
<1>5. IInv /\ [Next]_vars => [Drawn]_vars
  BY <1>1, <1>2, <1>3, <1>4
<1> QED
  BY <1>5, H2Invariant, PTL DEF Spec, NeverOverdraws
=============================================================================
