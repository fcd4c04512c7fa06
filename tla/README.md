# Verification of C-WEB

TLA+ specifications of the concurrent, stateful and protocol-bearing parts of
C-WEB, the TLC configurations that check them on small instances, and TLAPS
proofs. Paths are relative to the repository's root.

## The system

C-WEB is an HTTP framework in C: a library (`src/`, `include/`) and a tool
(`tools/cweb.c`) that turns templates into a program whose `main` runs the
library's accept loops.

| Component | State | Operations | What makes it correct |
|---|---|---|---|
| Worker pool, `src/utils/thread_pool.c` | job list, `queued`, `active`, `stop`, two condition variables | init, submit, wait, free, worker loop | every accepted job runs once and in order; wait and free return, and not too early |
| Accept loop, `src/http/server.c:862-971`; two listeners, `tools/cweb.c:518-537`, `1257-1280` | `g_shutdown`, listener, TLS context, one pool per loop | accept, submit, drain; `handle_signal`; wake the peer, join, close | every socket is closed once, nothing is freed under a user, both loops stop together |
| HTTP/1.1 connection, `src/http/server.c:243-834`, with `src/http/request.c` and `src/utils/buffer.c` | read buffer, request, spill file, `continue_sent`, `route_timeout_active` | sniff, parse, 100-continue, spill, unfold chunks, dispatch, keep-alive, upgrade | one answer per request and in order, wherever segments end; bodies intact; nobody waits for nothing |
| HTTP/2 connection, `src/http/h2.c` | stream table, windows of both directions, header block in progress, last stream id | one handler per frame type, dispatch, pump, sweep, GOAWAY | flow control, whole responses, whole bodies, silence after a reset |
| HPACK decoder, `src/http/hpack.c` | dynamic table and its byte count | indexed, literal and size-update representations, eviction | in step with the client's table |
| WebSocket, `src/http/ws.c` | staging buffer, frame being read | upgrade, read frame, loop | messages whole and in order, pings and close answered |
| Sessions, flash, CSRF, `src/http/session.c`, `flash.c`, `csrf.c`; database, `src/db/db.c` | a table, its database, the file | create, open, set, del, destroy, reap, dump; put, delete, sync | what a request was told is stored survives a crash; what is gone stays gone |
| HTTP client and proxy, `src/http/http_client.c`, `proxy.c` | connection, receive buffer, deadline | request, reuse, retry, read response, follow redirects | an answer belongs to its request; only what is safe is sent twice; a call with a deadline returns |
| Middleware, policies, rate limiter, `src/http/middleware.c`, `rate_limit.c`, `basic_auth.c`, ... | token buckets, counters | one middleware each | guards hold, an answer is the request's own, guesses are throttled |
| Router, `src/routing/` | route table | add, remove, time, match, dispatch | the first route that fits, with its captures |
| Static files and conditional requests, `src/http/static.c`, `etag.c` | none but the disk | stat, read, ranges, validators | exact ranges; a client's copy is never mixed |
| Parsers, codecs, cryptography, utilities | none | pure functions | input/output |

Interactions: an accept loop hands a socket to its pool; a worker performs the
TLS handshake and runs `serve_connection`, which serves HTTP/1.1 itself or hands
the connection to `h2_serve` (ALPN, preface or `Upgrade: h2c`) or to a protocol
handler such as the WebSocket's. A complete request goes down the middleware
chain to the router and to a page, a mount or the fallback, and comes back up.
Pages use the session store, which writes through to the database. Workers share
the router (read only), the rate limiter and the counters, the session store and
the disk. Signals reach the loops through one flag and `EINTR`.

What is hard here: lost wakeups and early exits in the pool; signals delivered
to the wrong thread or at the wrong moment; requests and responses that arrive in
arbitrary segments; state of one request, connection or thread that survives into
the next; failures in the middle of a spill or a sync, and crashes between
writes; windows that move while responses are half sent; streams reset while
frames for them are in flight; sessions that several requests share; a limiter
without a mutex; a file that changes between its stat and its read. `PROJECT.json` lists
these hazards at the lines where they bite.

## Modules

| Module | Models | Notes |
|---|---|---|
| `ThreadPool` | `thread_pool.c` | a critical section is one action; `cond_wait` splits it in two; spurious wakeups allowed |
| `JobQueue` | what `include/thread_pool.h` promises | abstract; `ThreadPool` implements it under `Phase`, its list and the jobs in hand |
| `Server` | accept loops, workers, signals, joint shutdown | the pool appears as the job queue that `ThreadPool` implements |
| `Connection` | `serve_connection`, parser, chunked decoder, read buffer | bytes are units; segments end anywhere between them, or only where a request's `cuts` allow it |
| `H2` | `h2_serve` and everything below it | lengths and windows in units; a header block is the verdict on it |
| `Hpack` | the decoder of `hpack.c` | against an encoder that follows RFC 7541 |
| `WebSocket` | `ws.c` | units for the fixed bytes, the extended length, the mask and the payload |
| `Db`, `Sessions` | `db.c`; `session.c`, `flash.c`, `csrf.c` | `Db` is operators on a store, `Sessions` the state machine over it |
| `HttpClient` | `http_client.c`, `proxy.c` | client and an unreliable peer |
| `Routing`, `StaticFiles` | `src/routing/`; validators and ranges of `static.c`, `etag.c` | pure operators |
| `Pipeline` | middlewares, rate limiter, router, pages, static files, as the generated `main` wires them | composes `Routing` and `StaticFiles` |
| `*Proofs` | | the inductive invariants and the theorems about `ThreadPool`, `Server`, `Connection`, `H2`, `HttpClient`, `Sessions`, `Pipeline`, and (`CodecsProofs`) `Hpack` and `WebSocket` |
| `MC*` | | instances: requests, frames, answers, configurations; `MCCodecs` runs `Hpack` and `WebSocket` |

A definition whose name ends in `_Something` is a mutated form of the definition
without the suffix, the way a plausible slip in the code would change it. Nothing
uses it but the mutants of `PROJECT.json`, which show that each property can fail.

### ThreadPool

`owner` is the thread that calls init and free; `pc` says where every worker
and client is; `queue`, `queued`, `active`, `stop` are the fields of
`Thread_Pool`; `holds` is the job a worker has dequeued. `accepted`, `done`
and `owed` are history. A job may call submit, including during free. A client
does not enter submit or wait while free runs: the comment at
`thread_pool.c:90-92` puts that on the caller.

### Server

`loop[l]` is the place of an accept loop, `conn[c]` that of a connection. A
signal is handled by a thread the kernel chooses: an accept loop (`SignalLoop`),
a worker with a connection (`SignalWorker`, its `recv` fails) or a worker without
one (`SignalResting`). `timed` holds the connections whose socket has a receive
timeout: `serve_connection` sets it, after the handshake. `AcceptExhausted` is
`EMFILE`. `thread_pool_submit` never fails here, because free comes after the
loop.

### Connection

A request is a header block of `head` units and body units; `rb` is the read
buffer, `Wire` everything the client sends, `taken` what `recv` has returned.
`cap` is `max_body`, which is also the capacity of the read buffer. The loop of
`serve_connection` is the places `sniff`, `magic`, `parse`, `fill`, `spill`,
`ready`; `Respond` is the whole tail of the loop, from the handler to
`rb_discard`. `UpgradeH2c` hands the connection to `h2_serve`, and the request is
freed when that returns (`H2Returns`). `Decode` follows the chunked decoder, and
`InPlace` what it leaves in the buffer when it stops half-way; `cuts` says inside
which places of its body a request may be split. `Park` moves what arrived behind a
spilled body into the read buffer without a look at its capacity; when it does not
fit, the model ends in the place `overrun`, since what follows is undefined. Without a
Content-Length and without chunks the code's body is everything after the header
block (`include/request.h:26`), so `BodyIntact` speaks of declared bodies;
`ResumedIntact` speaks of chunked ones that the decoder can resume (`Resumable`) and
does not refuse, `ChunkedIntact` of all of them. `OneAnswerEach` and
`NoStuckRequest` except the chunked bodies that are not `Readable`, `NoStuckRequest`
also the sniff for the HTTP/2 preface, and `NoStandoff` a chunked body announced with
`Expect`: what the code does with these is under the observations below.

### H2

`c` is `H2_Conn`. One pass of the loop is: a frame (`h2_process_frame`, the
handlers), every complete request dispatched (`h2_dispatch`,
`h2_direct_error`), every response pumped as far as the windows allow
(`PumpHeaders`, `h2_send_data`), the sweep, which looks at one stream per step
from the last to the first (`h2_sweep`). `peer` is the client's view: the credit
it has granted and has been granted, what it uploaded and what it got, and
whether it broke the protocol (`faulty`). Of inflated bodies only the two errors they can
cause are modelled.

### Hpack and WebSocket

In `Hpack` one action sends a representation and decodes it. A field's value is
the number of units its entry takes. `beyond` records which legal things a client
has done that the decoder does not follow; `TablesInSync` claims agreement while
it is empty, `TableBounded` also afterwards. Integers and Huffman codes are a
verdict.

In `WebSocket` the client sends frames at any time, also behind the handshake;
`rb` is the staging buffer, which starts with the leftover, and `pc` the place in
`ws_read_frame` or the loop around it. A frame's length class decides how many
units its header has. `ConversationFaithful` compares what the application saw and
what went out with `Pick`, the frames of the kinds in question among the `Handled`
first ones that were sent: nothing may be missing, reordered or invented.

### Sessions and Db

A file is the entries written to it; since it is replaced by a rename, it is never
half written. `Sync` writes or fails (`Faults`: the write, the rename). Every
operation of the session store holds its mutex, so it is one action; the flash
and CSRF calls take several. A sync of an empty store removes the file, or fails to
without anybody noticing. `told` is what requests were told is stored, `gone`
what was removed, by this process or on request; `torn` whether the process ended
while its last sync had failed. Pages put and delete in the same database without
syncing. `Crash` and `Shutdown` (with the dump) may happen at any time, `Restart`
reads the file. Any number of requests may hold one session, and a sweep or a
destroy may free it under them. Using a handle then is undefined: in the model such
a request ends or the process crashes, and what else could happen is left out.

### HttpClient

The wire carries units: the start of a head, the blank line, body bytes, the
pieces of chunked framing. `PeerAnswers`, `PeerCuts` and `PeerCloses` are the peer;
`Payload` is the body an answer carries.
`RefillGets`, `RefillEof` and `RefillTimesOut` are the receive; `MayResend` the retry
rule. `deadline` says whether the timeout is not 0; it bounds a receive and never a
send, so `Send` has no fairness: the kernel takes the request when the peer has made
room for it. `stale` says that a connection was opened with old units in `rbuf`: the
properties of the passing run hold while it is false, and the run
`HttpClientInSync` shows what happens otherwise. The proxy opens a client per
request and follows no redirects.

### Pipeline

A worker has a request in hand (`wk`): `at` and `depth` say whether it is on its
way down the chain, at the router or the disk, or on its way up. The limiter has
no mutex, so each load and each store of `rate_limit.c:78-124` is a step: the search,
the append, the two reads of `last_ms`, load and store of the refill, the test
against the ceiling and the store of it, the store of `last_ms`, the test for a token
and load and store of the debit. The order is that of the source, which the
Makefile's `-O0` keeps. Two workers that add a bucket at once, or one that moves the
array under another, tear it (`torn`), after which its answers are arbitrary. The
`ledger` is history: what each bucket admitted, and which calls met another on their
key (`mixed`, `joined`, `rough`). `cap` is the thread's capture buffer. The file on disk has a
version, a size and a time; `Edit` replaces it at any moment, with a later time.
`held` is what a client keeps of it, and requests may carry its validators
(`Conditional`). Credentials, signatures and form data are what their parsers
make of them.

## Runs

| Run | Instance | Properties |
|---|---|---|
| `ThreadPool` | 3 workers, 1 client, 3 jobs, jobs submit jobs | `EachJobOnce`, `NoLostWakeup`, `FreePromise`, `NoUseAfterFree`, `WaitPromise`; `WaitEnds`; `ImplementsJobQueue` with its fairness |
| `Connection` | one request of every kind, the awkward ones too, and two or three pipelined; capacities 6 and 14, with and without `body_dir`, with a NULL configuration, plain and TLS | `OneAnswerEach`, `BodyIntact`, `ResumedIntact`, `NoFileLeft`, `NoStuckRequest`, `NoStandoff`; `ConnectionEnds`: no worker is pinned |
| `Server` | 2 listeners, 2 TLS connections, 1 worker each, 2 signals | `ClosedOnce`, `TlsOutlivesConnections`; `BothStop` |
| `H2` | four kinds of client, 5 or 6 frames each, windows up to 4 units, 2 streams | `ResponsesWhole`, `NoIdleCredit`, `WholeBody`, `NothingAfterReset`; `NeverOverdraws`, `GoawayEnds` |
| `Codecs` | tables of 3 units, 5 representations of fields of 1, 2 and 4; 3 frames through a buffer of 7 | `TablesInSync`, `TableBounded`; `ConversationFaithful`, `GoodFramesRead` |
| `Sessions` | 2 workers, 2 tokens, one of which expires, 3 sessions and values in all, 2 restarts, failing syncs | `Recoverable`, `DbExact`; `RemovedStaysRemoved`, `ExpiredStaysOut` |
| `HttpClient` | 2 calls of three methods, 3 answers in every framing, 1 redirect, 2 hosts, with and without a deadline, directly and through the proxy | `AnswersPair`, `SafeResend`, `Transparent`; `CallReturns` |
| `Pipeline` | five configurations, see below | `RightHandler`, `RangesExact`, `CopyFaithful`, `OwnAnswer`, `Throttled` |

The bounds are chosen so that the cases named in the hazards occur. Three
workers and three jobs let workers sleep, look and run at once. Capacity 6 is
smaller than the larger bodies and leaves room for a second request; capacity 14
holds two chunks and the request behind them. Declared bodies are split everywhere.
Chunked ones are split where the decoder can resume, behind the header block and
behind the first size line, and one of a single chunk anywhere; a cut between two
chunks is the run `ConnectionChunkedSplit`. One worker for two connections
gives a queue that must drain. Five frames are settings, two requests and two
events on them; a stream limit of 2 with three ids makes the third refused. A
table of 3 units with entries of 1, 2 and 4 is filled, evicted from and
overflowed; a buffer of 7 holds the largest frame the application takes, but not
with one ahead of it. A session with a lifetime of one tick expires during a
request, between requests and across a restart; sessions and values are bounded
together, so that there are two sessions with a value or one with two, of which one
may overwrite the other; two workers on one token meet between the steps of the flash
and CSRF calls, and one frees the session the other holds. Two calls make one reuse
or one reconnect; three answers one redirect more than the calls.

Two threads and three requests on a bucket of two tokens that refills by half a token
a tick let two calls meet at every pair of steps and a third run alone behind them;
the array starts with one slot instead of eight so that the second key moves it. In
`Pipeline` and `Sessions` the threads are interchangeable (`Twins`).

`Pipeline`'s configurations, each with its own requests (`MCPipeline`): `guess`,
two threads, the limiter and basic authentication, with the owner's requests and
password guesses from another address behind the proxy; `full`, every middleware in one thread; `copy`, a file that is
replaced while a client keeps, validates and resumes its copy; `range`, every list
of up to three range specs of 18; `route`, every route table that three operations
on nine routes build.

Runs that show a disagreement between the code and what it says of itself
(`PROJECT.json`, findings):

| Run | Disagreement |
|---|---|
| `ConnectionChunkedSplit` | a chunked body cut between two chunks is decoded twice and reaches the handler wrong |
| `ServerLostSignal` | a signal handled outside accept does not end the loop |
| `H2UploadCredit` | the receive windows announced to the client are not the ones enforced |
| `HttpClientInSync` | what is left of an answer that was given up is read as the start of the next one |

`Server`, `Sessions`, `Codecs` and `Pipeline` run without deadlock checking: with
no client and no signal the loop rightly blocks in accept, and the others stop at
their bounds.

### Observed while modelling, with no run of their own

Pool and server:

- `thread_pool.c:38` signals, so of two threads in `thread_pool_wait` one sleeps
  on; `WaitEnds` is checked with one waiter, as the accept loop uses it.
- A signal handled by a worker makes its `recv` fail with `EINTR`, which drops the
  request in flight (`server.c:274`; the comment at `:965` says in-flight requests
  finish).
- The TLS handshake runs before the receive timeout is set (`server.c:872`), so an
  unfinished one holds a worker and the drain.
- `serve_connection` does not look at `g_shutdown`: the drain waits for clients
  that keep sending.
- A failed pool leaks the TLS context (`server.c:926-929`); a listener whose setup
  fails shuts the other one down, whose loop then spins until a signal.

HTTP/1.1:

- A well-formed chunked body split inside a size line or before a line end is
  answered 400 (`request.c:182`; `server.c:708-710` means to wait for more).
- What arrived behind a spilled body, up to a stage of 64 KiB, is moved behind the head
  in the read buffer without a look at its capacity (`server.c:587-589`), though
  `include/buffer.h:8-10` calls it fixed. The run `Connection` reaches this with a long
  head (`overrun`).
- A send has no timeout (`net.c:321-339` sets the receive timeout only), here, in
  HTTP/2 and in the client: a peer that stops reading holds the worker.
- The search for the blank line reads one byte past what was received
  (`request.c:21-24`); the units of the model do not show it.
- After the 400 for a malformed chunked body the freed request is dispatched and
  answered again (`server.c:731`).
- Of a trailer only the first line is consumed (`request.c:233-239`); the blank
  line behind it starts the next request.
- `Expect: 100-continue` with a chunked body gets no 100 (`server.c:624`).
- `cfg == NULL` is dereferenced at `server.c:638` and `657`, though
  `include/server.h:31` allows it.
- A body that fits `max_body`, but not next to its header block, is answered 413
  even with a `body_dir` (`server.c:657-659`).
- A complete request shorter than 24 octets that starts with `PRI` waits for more
  (`server.c:504`).

HTTP/2, HPACK, WebSocket:

- A preface that arrives split after 9 to 23 octets is taken for a frame
  (`h2.c:1772`); HTTP/2 never spills (`h2.c:629`).
- A header block that is over the cap or above the client's GOAWAY is not decoded
  (`h2.c:1385-1403`, `1469-1472`), so the HPACK table falls behind.
- A zero WINDOW_UPDATE or a bad PRIORITY is answered RST_STREAM without the
  stream being marked reset, so its response goes on; `NothingAfterReset` leaves
  out clients that send them. A malformed or cancelled header block does not
  advance `last_stream_id`, so DATA in flight for it ends the connection.
- `GoawayEnds` says that a connection ends after the client's GOAWAY, not that it
  stays until then; `WholeBody` is about `max_body` and what arrived, not about a
  declared length that differs from it.
- The check of a stream's receive window cannot fail: the connection's window is
  never larger.
- When several cookie fields are merged, the name of the merged entry covers the
  first bytes of its value.
- An entry larger than the table leaves the table as it is instead of emptying it
  (`hpack.c:251-253`); an insertion that evicts the entry it takes its name from
  reads freed memory; a size update is compared with the capacity last set, so it
  cannot be raised again; a capacity of 0 still admits one entry.
- A header string above 64 KiB is refused (`hpack.c:115`), legal as it is
  (`SendOverlong`).
- `http_ws_loop` ends a conversation without a close when a message is over the
  application's buffer (`ws.c:386`); `include/ws.h:62-64` says that "a 1009 close should
  be sent before returning". `ConversationFaithful` asks for neither.
- A WebSocket frame above the 64 KiB staging buffer is rejected whatever the
  application allows.

Sessions and database:

- A newline in a stored value corrupts its record; no model value has one.
- The result of the sync is ignored by create, set and del; destroy does not sync and
  does nothing for a token that is not loaded (`include/session.h:80`). Nothing is
  fsynced.
- The result of `remove` is ignored (`db.c:235`): a sync of an emptied store clears
  `dirty` and returns 0 with the old file in place, and the deleted entries are back
  after a restart, though `include/db.h:52-54` says that on failure "the change stays
  pending and dirty is still set". `DbExact` excepts the empty store.
- `http_session_reap` frees an expired session under the handle of a request
  (`session.c:285`), though `include/session.h:83-84` has a maintenance thread call it
  and `:35-37` says that a handle stays valid while others create or destroy sessions;
  only `:39-40` takes that back for a session that is itself destroyed.
- `http_flash_render` reads the session's map without the mutex.

Pipeline:

- The generated 404 page drops the headers the outer layers have set
  (`tools/cweb.c:669`), though `tools/cweb.c:1140-1142` has them run around every
  response; `OwnAnswer` makes that exception.
- Two calls of the limiter that overlap on a key count the same time twice or lose a
  subtraction (`rate_limit.c:116-123`), and so admit more than the burst and the rate of
  `include/rate_limit.h:7-9`. Tokens may fall below zero. Since `last_ms` is read once for
  the test and once for the subtraction (`rate_limit.c:114`), the difference may even
  wrap, which the comment at `:112-113` means to exclude, and fill the bucket. What such
  calls admit therefore has no bound: `Throttled` bounds the calls that met no other,
  and the claim ends with a torn array.
- Of `X-Forwarded-For` the first 32 hops from the left are read (`client_ip.c:32-35`),
  so a long enough list hides the hops the trusted proxies added.
- Captures of a route that failed to match stay in the parameters; `RightHandler`
  allows them.
- `etag.c` consults If-Modified-Since after an If-None-Match that did not match,
  and a weak entry never matches. A static file's gzip and identity bodies share
  one tag. A file replaced between stat and read is sent under the old tag:
  `CopyFaithful` excepts the requests it happens to, its client keeps no compressed
  copies, and it looks at a 304 where the router returns it.
- Ranges after the first `MAX_RANGES` are dropped.

## Fairness

- `ThreadPool`: a thread that can go on does (weak fairness of the worker loop,
  of a submit or wait that has begun, of free's joins); a job returns however
  often it submits on the way (strong). Nobody has to call submit, wait or free.
- `Server`: loops and pools run. A receive ends by itself only on a socket in
  `timed`. Clients read what they are sent (a send has no timeout) and do not
  keep a connection busy for ever. That handshakes end is a hypothesis of
  `BothStop`, because the code does not ensure it.
- `Connection`: the worker runs, `SO_RCVTIMEO` ends a receive, and clients read
  what they are sent. The peer never has to send or close.
- `H2`: the worker runs. The client reads and never has to send.
- `HttpClient`: a thread in a call goes on, and a receive returns at the deadline
  if the socket has one. A send does not end by itself: that the peer reads
  (`PeerReads`) is a hypothesis of `CallReturns`, because the code does not ensure
  it. Neither peer nor caller has to do anything else.

## Proofs

Eight `*Proofs` modules state theorems of the form `Spec => []P` (or an action
property, or a refinement) for every value of the constants that satisfies the
modules' assumptions. A theorem about a property of a run names the same
definition the run checks. In each module a lemma per action shows that
the inductive invariant is kept, split by the conjuncts the action can disturb;
the temporal step comes last.

Several of these models compute with recursive functions: a byte count is a sum over
a table, a wire is flattened from requests. What such a function yields is
proved by induction all the same: `LeastNumber` and `Induction`, lemmas of
`CodecsProofs`, `ConnectionProofs`, `SessionsProofs` and `PipelineProofs` that rest on the
well-foundedness of the naturals, take a *set* of numbers where the library's
induction theorems take an operator.

**ThreadPoolProofs** (any finite set of workers, any clients disjoint from it, any
`MaxJobs`). `PoolInvariant`, `PoolTypeOK`, `PoolFifo`, `PoolEachJobOnce`,
`PoolNoLostWakeup`, `PoolFreePromise`, `PoolNoUseAfterFree`, `PoolWaitPromise`.
The invariant adds `CountersAgree`, `StopWakesAll` and `Lifecycle` to the
properties; none is inductive alone. That free throws away an empty list needs a
worker that saw the queue drained (an exited worker implies a stopped, empty
list; no job enters a stopped pool; a pool that came up has a worker); that wait
returns late enough needs the counters to agree with the list and the workers;
`NoLostWakeup` counts the workers on their way against the jobs in the list.
`PoolImplementsJobQueue` is the refinement `Spec => Abstract!Spec`: dequeuing a
job is the abstract start, its return the abstract finish, and the steps around
the mutex and the conditions are stutters. That free's last step is a step of the
abstract queue is where the invariant is needed: nothing is queued or in hand then.

**ServerProofs** (any listeners, connections, pool size and number of signals).
`ServerTypeOK`, `ServerClosedOnce`, `ServerTlsOutlivesConnections`. The strengthening is ownership: a socket is in
exactly one place (a backlog, the hands of the loop that accepted it, that loop's
queue, a worker, or closed), what a list holds is in the state that says so
(`Placed`, `Distinct`), and a socket somebody must act on is where that somebody
looks (`Tracked`). With it, an empty queue and no busy worker mean that a draining
loop has no connection left, which is what `ClosedOnce` and the life time of the
TLS context come down to (`Quiet`, `Resources`).

**HttpClientProofs** (any methods, hosts, answers, head cap, numbers of calls and
redirects; `AnswerShape` says that an answer has a framing, a code and a way to
end). `ClientTypeOK`, `ClientSafeResend`, `ClientTransparent`, `ClientAnswersPair`.
The invariant says where client and peer are in the exchange (`InStep`): a request
in flight is unanswered (`Asked`), will never be answered (`Dropped`), or the
buffer and the wire together hold a prefix of its answer, all of it unless a fault
was recorded (`Answered`); `Progress` says what the reader has made of the part it
took. Between calls a kept connection is empty on both sides. As in the runs,
`AnswersPair` and `Transparent` are about connections not opened over old bytes.

**H2Proofs** (any clients whose frames have the shape of `FrameShape`, any window,
frame and body limits, any number of frames and streams). `H2ResponsesWhole`,
`H2WholeBody`, `H2NothingAfterReset`, `H2NoIdleCredit`, and the action property
`H2NeverOverdraws`. While the loop runs, a ledger ties every stream to what the
client knows: the send windows are exactly the credit granted (`Credit`), the body
is what was uploaded (`Uploads`), what is left of a response and what was sent of
it add up to what was promised (`Responses`), a stream that was told RST_STREAM is
marked, gone or never comes to be (`Resets`), ids are distinct and never above
`last_stream_id` (`Distinct`), and requests the handler saw are marked (`Marked`).
`NoIdleCredit` is the end of three passes (`Passes`): dispatch leaves no complete
request, the pump leaves each stream it has passed blocked, and stays right
because the connection's window only shrinks meanwhile; the sweep leaves no
finished stream behind the one it looks at. What was already sent and seen
(`Record`) also holds after the loop has ended.

**ConnectionProofs**. `ConnectionNoFileLeft` (any scripts, configurations and
capacities), from `ConnectionFilesAt`, which says who owns the spill file in each
state: the spill arm owns one open file, a complete request may own one that is
closed, nobody else owns any. `ConnectionOneAnswerEach`, `ConnectionBodyIntact`,
`ConnectionNoStuckRequest` and `ConnectionNoStandoff` have the hypothesis
`LengthFramed`, on the client and not on the server: each of its requests, any
number of them, of any size and split anywhere, has a body of the length it declares
or none, or is the HTTP/2 preface at the start. The invariant is that the requests
are served in turn: what was answered is what was served (`Sent`), each of the
requests served had the body that lies on the wire behind its header block
(`Served`), and the buffer, the spill file and the rest of the wire are adjacent
slices of the wire that begin where the request whose turn it is begins (`Placed`).
A parked surplus that does not fit the buffer ends the argument with the model: nothing
is served behind it. The parser looks at such a slice, so what it decides is what it
would decide of the request alone.

**SessionsProofs** (any numbers of tokens, workers, values, faults, ticks and
restarts). `SessionsDbExact`, `SessionsRemovedStaysRemoved`,
`SessionsExpiredStaysOut` (an action property) and `SessionsRecoverable`. The
invariant says that slots and entries are unique per key and carry the expiry of
their token (`SlotsFit`, `EntriesFit`), that the byte count is the sum over the
entries and a clean store with entries is its file (`Synced`), that what this process
removed is in memory and in the records no more (`Removed`), and that tokens not issued
yet are nowhere (`Fresh`). `Recoverable` adds
`Told`: memory and records say what the requests were told. Its hypothesis
`OneLineUsers` is that the values stored have one line each: a record is read back
line by line (`session.c:326-328`), and a value with a line feed does not survive it.

**PipelineProofs** (any finite set of workers, any requests, options, rates and
numbers of ticks). `PipelineThrottled`, `PipelineOwnAnswer`,
`PipelineRightHandler` and `PipelineRangesExact`. For `Throttled` each
bucket has an account (`Account`): what the calls that met no other were admitted,
plus what is in the bucket, is no more than one burst, one more for each call that
joined another, and the refill up to the time put in last. While calls overlap, the
bucket is `rough` and may hold anything; the burst that is then claimed back is
granted when the next call that meets nobody clamps it. `Lone` says what such a call
knows of its bucket at each of its loads and stores (what it loaded is still there,
the bucket was last touched when the account says), and `Meetings` that calls in
progress on one key know of each other, so that a bucket that is not rough is changed
by one call at most. No load and store is assumed to be one step. A worker between the limiter and
the guard carries an admission that no other one counts, and so each wrong password
has one of its own. For `OwnAnswer`, `Answers` says for each place of the chain what
a request on its way up must show: the page of its caller, none if a guard
refused it, and the headers of the layers it has passed.

`PipelineRightHandler` is about any table, path and parameters of the types that
`Shapes` gives them. The operators of `Routing` compute step by step what the
property defines at once, and so lemmas come first: `MatchesFits` (the walk over
pattern and path ends well exactly if the pattern stands for the path),
`CapturedFills` and `ParamsOf` (at the first route that matches, the parameters hold
what its pattern captures, whatever the routes before it left there), `FirstMatchOf`,
`AllowLists` (each method once, and no other). They rest on `LeastNumber`, `Induction` and
`Recursion`, which are about sets and functions instead of operators and can
therefore be cited with any instance. The invariant `Steered` says of each worker
that no route is chosen before the router, that on the disk and right behind the
router a request was `Called` for its route or `Declined`, and that a layer which
answers by itself does so in front of the router. Steps of other workers leave this
alone because the table is set up before the first request.

`PipelineRangesExact` is about any list of specs and any file sizes. `RangesParsed`
says what `parse_ranges` computes (`Due`): windows apart from each other that cover
exactly the bytes which the first `MaxRanges` satisfiable specs ask for, and none only
if no spec is satisfiable. It goes through the three stages of the function:
`RawPicks` (the specs that are given a window are the satisfiable ones, by `SpecWindow`,
up to the limit), `QsortOrders` (the same windows, by their bases) and `CoalesceJoins`
(of windows in order, joining each to the last one or putting it behind leaves them
apart and the bytes as they were). The invariant `Sliced` carries this from the stat to
the answer, though the file may be replaced between any two reads: while windows are
read, the parts so far and the windows left are together the windows that were due
(`Serving`) and If-Range held; a 206 or a 416 that leaves the router is `Exact`.

**CodecsProofs** (any sizes, capacities and limits with `Bounds`, any number of
representations and frames; the frames are those of `Frames` in `MCCodecs`).
`CodecsTablesInSync` and `CodecsTableBounded`: the sum over a table is additive, so
evicting from the end leaves exactly the longest prefix that fits, on both sides, and
equal tables with equal capacities stay equal. `Bounds` says that an entry takes
room, as the 32 bytes added to each of them ensure (`hpack.c:250`); the invariant
`HInv` also needs that a decoder in step never has capacity zero.
`CodecsGoodFramesRead` (`WInv`): the staging buffer is never smaller than it starts,
and what lies in it are units of frames that were sent, so that it is the frame at
the front which decides, and what arrives later does not change the decision.
`CodecsConversationFaithful` (`CInv`): buffer and wire together are the rest of the
stream, one unit following the other (`Layout`), a frame under way is legal
(`Checked`), and what was seen and sent is what the frames handled ask for (`Talk`).

What changed in the models because of a proof: the cases of `HeadRead` in
`HttpClient` overlapped for a HEAD request, so that what TLA+ leaves to choice TLC
had decided by order; they are disjoint now, as in `read_response`. The sweep of
`H2`, which was one step, became one step per stream, as the loop in the code is.
`OneAnswerEach` and `BodyIntact` in `Connection`, the sums in `Hpack` and the
captures, parameters and method list in `Routing` are stated without folds.
`parse_ranges` sorted with `SortSeq` under a strict order, of which TLA+ leaves
undefined what becomes of two windows with one base; it sorts by insertion now, and the
windows of one base are joined in whatever order they come.
`ConversationFaithful` was rewritten in the same way and says more than before: it
did not exclude that a frame was left out.

Only model-checked, and why:

- Liveness, and the fairness half of `ImplementsJobQueue`: out of the prover's
  reach.
- `ResumedIntact`, and `Connection`'s other properties for clients that send chunked
  bodies: they depend on what `Decode` leaves in the buffer when it stops half-way.
- `CopyFaithful`: it is about a client that asks for one thing at a time, which the
  configuration of the run says and no assumption of the module does.
- `H2`'s `TypeOK` beyond what `Types` in `H2Proofs` says: the bounds on the number
  of streams and on the receive window.

## Not modelled

- Character-level syntax of requests, headers, dates, URLs, forms, JSON and
  templates; cryptography, compression, escaping: pure functions on bytes. Where
  the system depends on their verdict, it is an input of a model.
- The content and serialisation of responses and of server-sent events; the
  stateless HPACK encoder; the figures in `X-RateLimit` headers.
- The tool's code generation and command line; `examples/`, whose generated
  `main.c` is of an older version of the tool; the documentation site.
- System calls behind `net.c`, `thread.c` and `tls.c`, beyond what their callers
  see of them, and Windows (where `db.c:259` removes the file before it is replaced).
- What a compiler may do to the limiter's unsynchronised accesses beyond their order
  in the source; torn loads of a `double`. Two versions of a file with one modification time, and a replacement
  that is not atomic; pages that do not compress.

## Plan

The components are modelled as far as the sections above say, and the properties of
the runs are proved but for those listed as only model-checked. What is left:

1. `Connection`: `LengthFramed` without the restriction to declared lengths. The slice
   in `Placed` has to become a slice of which a prefix is already decoded in place.
2. `Pipeline`: `CopyFaithful`, with an assumption on the clients of a configuration that
   lets at most one of them have a copy, and one request at a time.
3. `H2`: the bounds of `TypeOK`.
