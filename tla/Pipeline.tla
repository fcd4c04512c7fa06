------------------------------ MODULE Pipeline ------------------------------
(***************************************************************************)
(* A request on its way through the application that tools/cweb.c          *)
(* generates: down the middleware chain, through the router to a page or   *)
(* to the static files, and back up.  Workers share the rate limiter, the  *)
(* counters and the disk; all else belongs to one request or one thread.   *)
(*                                                                         *)
(* The limiter has no mutex: every load and store of a bucket is a step of *)
(* its own, in the order of the source (the Makefile builds with -O0).     *)
(* When two workers add a bucket at the same time, or one moves the array  *)
(* under another, the array is corrupt (torn), and what the limiter says   *)
(* from then on is arbitrary.                                              *)
(***************************************************************************)
EXTENDS Routing, StaticFiles

CONSTANTS Workers,     \* request threads
          Options,       \* how the application is configured, see below
          Requests,      \* per configuration: the requests clients send
          Burst,         \* the limiter: capacity of a bucket, in units
          Rate,          \* units per tick
          Whole,         \* units in a token
          Wide,          \* 2^64, the range of an unsigned long long
          Slots,         \* buckets the limiter's array starts with
          MaxHops,       \* hops of X-Forwarded-For that are read
          Trusted,       \* addresses of trusted proxies
          MaxAge,        \* how long a request signature is good for
          MinGzip,       \* bodies below this size are not compressed
          MaxOps         \* bound: route operations before the first request

ASSUME PipelineConstants ==
  /\ {Burst, Rate, Whole, Wide, Slots, MaxHops, MaxAge, MaxOps} \subseteq Nat
  /\ Whole > 0 /\ \A o \in Options : o.ticks \in 0 .. Wide - 1 /\ o.sizes \subseteq Nat
  /\ IsFiniteSet(Workers)

\* The routes of a configuration and the requests of its clients.
ASSUME Shapes ==
  \A o \in Options :
    /\ o.table \in Seq(Registration) /\ o.specs \subseteq Registration
    /\ \A r \in Requests[o.name] :
         /\ DOMAIN r = {"method", "path", "query", "form", "cred", "remote", "xff", "sig", "origin",
                        "inm", "ims", "range", "ifr", "gz", "check"}
         /\ r.path \in Seq(STRING) /\ DOMAIN r.query \subseteq STRING /\ r.query \in [DOMAIN r.query -> STRING]
         /\ r.form \in BOOLEAN /\ r.range \in Seq(Specs) /\ r.ifr = [kind |-> r.ifr.kind, val |-> r.ifr.val]

(***************************************************************************)
(* A configuration has the middlewares its flags switch on (layers), the   *)
(* route table it starts with (table), the routes set-up may still add,    *)
(* change or remove (specs), the pair --basic-auth asks for (account) and  *)
(* the threads that serve it.  sizes are those the file on disk may have;  *)
(* requests, ticks and edits bound what the outside world does: requests   *)
(* sent, ticks of the clock, replacements of the file.                     *)
(***************************************************************************)
VARIABLES opts, ops, routes,
          wk,       \* per worker: the request in hand and where it is
          cap,      \* per worker: the thread's capture buffer
          buckets,  \* the limiter: key -> [tokens, last]
          torn,
          mixed,    \* workers whose last call of the limiter met another on its key
          clock,
          file,     \* the file below the static root: [ver, mtime, size]
          held,     \* the client's copy of it: [tag, lm, bytes]
          raced,    \* a file was read after it had been replaced since the stat
          ledger,   \* key -> what became of its calls, see the limiter
          guesses,  \* account -> wrong passwords that reached the guard
          rids, stats, served

limit == <<buckets, torn, mixed, ledger>>
disk  == <<file, held, raced>>
vars  == <<opts, ops, routes, wk, cap, limit, clock, disk, guesses, rids, stats, served>>

NoKey   == ""
Gone    == -1
NoCopy  == [tag |-> NoTag, lm |-> NoDate, bytes |-> {}]
Blank   == [status |-> 200, hdrs |-> {}, tag |-> NoTag, lm |-> NoDate, size |-> 0,
            parts |-> << >>, page |-> << >>, empty |-> FALSE, framed |-> FALSE, gz |-> FALSE,
            suppress |-> FALSE, allow |-> << >>, route |-> NoRoute, params |-> << >>, handled |-> FALSE]

\* The middlewares of the generated main, outermost first.
Layers == <<"stats", "client_ip", "request_id", "security", "signature", "rate",
            "basic_auth", "gzip", "etag", "cors">>

\* The chain of those that are switched on, each put behind the last.
http_middleware_build(layers) ==
  LET upto[n \in 0 .. Len(Layers)] ==
        IF n = 0 THEN << >>
        ELSE IF Layers[n] \in layers THEN Append(upto[n - 1], Layers[n]) ELSE upto[n - 1]
  IN  upto[Len(Layers)]

Chain == http_middleware_build(opts.layers)

-----------------------------------------------------------------------------
(* Worker w is at layer l, on the way down or up.                          *)

At(w, l)   == wk[w].at = "down" /\ wk[w].depth <= Len(Chain) /\ Chain[wk[w].depth] = l
Go(w, rec) == wk' = [wk EXCEPT ![w] = rec]
Next1(k)   == [k EXCEPT !.at = "down", !.depth = @ + 1]
Back(k)    == [k EXCEPT !.at = "up", !.depth = @ - 1]
Answer(k, status) == Back([k EXCEPT !.res.status = status])
Stamp(k, h)       == [k EXCEPT !.res.hdrs = @ \cup {h}]

\* The parts of the state a step of one layer leaves alone.
Quiet == UNCHANGED <<opts, ops, routes, clock, served>>

-----------------------------------------------------------------------------
(* Set-up: the routes.                                                     *)

Idle == [at |-> "idle", depth |-> 0, id |-> 0, req |-> << >>, res |-> Blank, user |-> NoKey,
         ip |-> NoKey, key |-> NoKey, now |-> 0, dt |-> 0, found |-> {}, seen |-> 0, left |-> << >>]

\* The generated main registers the routes one by one.
Registered(table) ==
  LET upto[n \in 0 .. Len(table)] ==
        IF n = 0 THEN router_init
        ELSE router_add(upto[n - 1], table[n].method, table[n].pattern, table[n].handler)
  IN  upto[Len(table)]

Init ==
  /\ opts \in Options /\ ops = 0
  /\ routes = Registered(opts.table)
  /\ wk = [w \in Workers |-> Idle] /\ cap = [w \in Workers |-> << >>]
  /\ buckets = << >> /\ torn = FALSE /\ mixed = {} /\ ledger = << >> /\ clock = 0
  /\ \E s \in opts.sizes : file = [ver |-> 1, mtime |-> 1, size |-> s]
  /\ held = NoCopy /\ raced = FALSE /\ guesses = << >>
  /\ rids = 0 /\ stats = [c \in {200, 300, 400, 500} |-> 0] /\ served = 0

SetUp ==
  /\ served = 0 /\ ops < MaxOps
  /\ \E s \in opts.specs :
       routes' \in {router_add(routes, s.method, s.pattern, s.handler),
                    router_set_timeout(routes, s.method, s.pattern, 1),
                    router_remove(routes, s.method, s.pattern)}
  /\ ops' = ops + 1
  /\ UNCHANGED <<opts, wk, cap, limit, clock, disk, guesses, rids, stats, served>>

-----------------------------------------------------------------------------
(* A request arrives.  Its validators are those of the copy the client     *)
(* holds: check names the headers it sends them in.                        *)

Conditional(r) ==
  [r EXCEPT !.inm = IF held.tag # NoTag /\ "inm" \in r.check THEN {held.tag} ELSE @,
            !.ims = IF held.lm # NoDate /\ "ims" \in r.check THEN held.lm ELSE @,
            !.ifr = IF held.tag = NoTag THEN @
                    ELSE IF "tag" \in r.check THEN held.tag
                    ELSE IF "date" \in r.check THEN [kind |-> "date", val |-> held.lm] ELSE @]

Arrive(w) ==
  /\ wk[w].at = "idle" /\ w \in opts.threads /\ served < opts.requests
  /\ \E r \in Requests[opts.name] :
       Go(w, [Idle EXCEPT !.at = "down", !.depth = 1, !.id = served + 1, !.req = Conditional(r)])
  /\ served' = served + 1
  /\ UNCHANGED <<opts, ops, routes, cap, limit, clock, disk, guesses, rids, stats>>

\* The address of the client: the rightmost hop that is none of our proxies,
\* if the peer is one of them.  A hop that is no address names nobody.  Of a
\* long list only the hops on the left are read.
http_client_ip_resolve(xff, peer) ==
  LET hops    == SubSeq(xff, 1, Least(Len(xff), MaxHops))
      outside == SelectSeq(hops, LAMBDA h : h # "junk" /\ h \notin Trusted)
  IN  IF peer \notin Trusted \/ outside = << >> THEN peer ELSE Last(outside)

http_client_ip_middleware(w) ==
  /\ At(w, "client_ip")
  /\ Go(w, Next1([wk[w] EXCEPT !.ip = http_client_ip_resolve(wk[w].req.xff, wk[w].req.remote)]))
  /\ Quiet /\ UNCHANGED <<cap, limit, disk, guesses, rids, stats>>

http_request_id_middleware(w) ==
  /\ At(w, "request_id") /\ rids' = rids + 1
  /\ Go(w, Next1(wk[w]))
  /\ Quiet /\ UNCHANGED <<cap, limit, disk, guesses, stats>>

http_security_middleware(w) ==
  /\ At(w, "security")
  /\ Go(w, Next1(Stamp(wk[w], "security")))
  /\ Quiet /\ UNCHANGED <<cap, limit, disk, guesses, rids, stats>>

http_request_signature_verify(sig) ==
  sig.mac /\ (IF clock > sig.ts THEN clock - sig.ts ELSE sig.ts - clock) <= MaxAge

http_signature_middleware(w) ==
  /\ At(w, "signature")
  /\ Go(w, IF http_request_signature_verify(wk[w].req.sig) THEN Next1(wk[w])
           ELSE Answer(wk[w], 403))
  /\ Quiet /\ UNCHANGED <<cap, limit, disk, guesses, rids, stats>>

\* Layers that only act on the way up.
PassDown(w) ==
  /\ \E l \in {"stats", "gzip", "etag"} : At(w, l)
  /\ Go(w, Next1(wk[w]))
  /\ Quiet /\ UNCHANGED <<cap, limit, disk, guesses, rids, stats>>

-----------------------------------------------------------------------------
(* The rate limiter.                                                       *)

\* The credentials of a request; a header that does not parse names nobody.
http_basic_auth_parse(req) == req.cred

\* Who pays: a verified user, else the user the credentials claim to be, else
\* the resolved address, else the peer.
http_rate_limit_user_key(k) ==
  IF k.user # NoKey THEN k.user
  ELSE IF http_basic_auth_parse(k.req).user # NoKey THEN http_basic_auth_parse(k.req).user
  ELSE IF k.ip # NoKey THEN k.ip ELSE k.req.remote

(***************************************************************************)
(* Where a worker is in http_rate_limiter_allow: looking for the bucket or *)
(* adding it, and then with a pointer to it, at the next load or store.    *)
(* The ledger says when a bucket was added (born), up to when time has     *)
(* been put into it (upto), how many calls were admitted, how many of them *)
(* met no other on their key (alone), how many came while another was in   *)
(* progress (joined), and whether none has run alone since then (rough).   *)
(***************************************************************************)
Pointing == {"last", "delta", "load", "refill", "clamp", "cap", "touch", "test", "debit", "store"}
Limiting == {"find", "make"} \cup Pointing

\* The other workers that are in a call on this key.
Met(w, key) == {v \in Workers \ {w} : wk[v].at \in Limiting /\ wk[v].key = key}

\* allow() reads the clock before it looks for the bucket.
http_rate_limiter_allow(w) ==
  LET key == http_rate_limit_user_key(wk[w])
      met == Met(w, key)
  IN  /\ At(w, "rate")
      /\ Go(w, [wk[w] EXCEPT !.at = "find", !.key = key, !.now = clock])
      /\ mixed' = IF met = {} THEN mixed \ {w} ELSE mixed \cup met \cup {w}
      /\ ledger' = IF met = {} \/ key \notin DOMAIN ledger THEN ledger
                   ELSE [ledger EXCEPT ![key].joined = @ + 1, ![key].rough = TRUE]
      /\ Quiet /\ UNCHANGED <<cap, buckets, torn, disk, guesses, rids, stats>>

Limited(k, ok) ==
  LET marked == Stamp(k, "ratelimit") IN IF ok THEN Next1(marked) ELSE Answer(marked, 429)

\* Worker w goes on with r, having looked, or having left b and l in the bucket
\* of its key and in the ledger.
Looks(w, r) ==
  ~torn /\ Go(w, r) /\ Quiet /\ UNCHANGED <<cap, limit, disk, guesses, rids, stats>>
Writes(w, r, b, l) ==
  /\ ~torn /\ Go(w, r)
  /\ buckets' = [buckets EXCEPT ![wk[w].key] = b] /\ ledger' = [ledger EXCEPT ![wk[w].key] = l]
  /\ Quiet /\ UNCHANGED <<cap, torn, mixed, disk, guesses, rids, stats>>

FindBucket(w) ==
  LET k == wk[w]
  IN  /\ k.at = "find"
      /\ Looks(w, IF k.key \in DOMAIN buckets THEN [k EXCEPT !.at = "last"]
                  ELSE [k EXCEPT !.at = "make", !.found = DOMAIN buckets])

\* The array is full, so that the next bucket moves it.
Grows == \E j \in 0 .. Cardinality(DOMAIN buckets) : Cardinality(DOMAIN buckets) = Slots * 2 ^ j

\* bucket_for appends a bucket.  The array is corrupt after a search that another
\* append has overtaken or a move under a pointer, and may be after a move under
\* a search.
bucket_for(w) ==
  LET k        == wk[w]
      Other(S) == \E v \in Workers \ {w} : wk[v].at \in S
      new      == [born |-> k.now, upto |-> k.now, admitted |-> 0, alone |-> 0,
                   joined |-> IF w \in mixed THEN 1 ELSE 0, rough |-> w \in mixed]
  IN  /\ k.at = "make" /\ ~torn
      /\ \/ /\ k.found # DOMAIN buckets \/ (Grows /\ Other({"find"} \cup Pointing))
            /\ torn' = TRUE /\ buckets' = << >> /\ ledger' = << >>
         \/ /\ k.found = DOMAIN buckets /\ ~(Grows /\ Other(Pointing))
            /\ buckets' = Set(buckets, k.key, [tokens |-> Burst, last |-> k.now])
            /\ ledger' = Set(ledger, k.key, new)
            /\ UNCHANGED torn
      /\ Go(w, [k EXCEPT !.at = "last"])
      /\ Quiet /\ UNCHANGED <<cap, mixed, disk, guesses, rids, stats>>

\* A corrupt array, or a bucket in memory it has left, says anything.
Corrupt(w) ==
  /\ wk[w].at \in Limiting /\ torn
  /\ \E ok \in BOOLEAN : Go(w, Limited(wk[w], ok))
  /\ Quiet /\ UNCHANGED <<cap, limit, disk, guesses, rids, stats>>

\* The time since the bucket was touched, none when the clock is behind it.  The
\* test and the subtraction read last_ms each for itself.
TestsLast(w) ==
  LET k == wk[w]
  IN  /\ k.at = "last"
      /\ Looks(w, IF k.now > buckets[k.key].last THEN [k EXCEPT !.at = "delta"]
                  ELSE [k EXCEPT !.at = "load", !.dt = 0])

ReadsLast(w) ==
  LET k == wk[w]
  IN  k.at = "delta" /\ Looks(w, [k EXCEPT !.at = "load", !.dt = (k.now - buckets[k.key].last) % Wide])

\* tokens += dt * rate
LoadsTokens(w) ==
  LET k == wk[w]
  IN  k.at = "load" /\ Looks(w, [k EXCEPT !.at = "refill", !.seen = buckets[k.key].tokens])

Refills(w) ==
  LET k == wk[w]
      l == ledger[k.key]
  IN  /\ k.at = "refill"
      /\ Writes(w, [k EXCEPT !.at = "clamp"],
                [buckets[k.key] EXCEPT !.tokens = k.seen + Rate * k.dt],
                [l EXCEPT !.upto = IF k.now > @ THEN k.now ELSE @])

\* The ceiling.  A call that met no other has now put the bucket right.
Settled(w) == [ledger[wk[w].key] EXCEPT !.rough = @ /\ w \in mixed]

Clamps(w) ==
  LET k == wk[w]
      b == buckets[k.key]
  IN  /\ k.at = "clamp" /\ ~torn
      /\ \/ b.tokens > Burst /\ Looks(w, [k EXCEPT !.at = "cap"])
         \/ b.tokens <= Burst /\ Writes(w, [k EXCEPT !.at = "touch"], b, Settled(w))

StoresBurst(w) ==
  LET k == wk[w]
  IN  /\ k.at = "cap"
      /\ Writes(w, [k EXCEPT !.at = "touch"], [buckets[k.key] EXCEPT !.tokens = Burst], Settled(w))

\* The bucket keeps the time it was last touched before.
Touched_Before(b, now) == b

Touched(b, now) == [b EXCEPT !.last = now]

Touches(w) ==
  LET k == wk[w]
  IN  /\ k.at = "touch"
      /\ Writes(w, [k EXCEPT !.at = "test"], Touched(buckets[k.key], k.now), ledger[k.key])

\* tokens >= 1, and tokens -= 1
TestsTokens(w) ==
  LET k == wk[w]
  IN  /\ k.at = "test"
      /\ Looks(w, IF buckets[k.key].tokens >= Whole THEN [k EXCEPT !.at = "debit"] ELSE Limited(k, FALSE))

LoadsAgain(w) ==
  LET k == wk[w]
  IN  k.at = "debit" /\ Looks(w, [k EXCEPT !.at = "store", !.seen = buckets[k.key].tokens])

Debits(w) ==
  LET k == wk[w]
  IN  /\ k.at = "store"
      /\ Writes(w, Limited(k, TRUE), [buckets[k.key] EXCEPT !.tokens = k.seen - Whole],
                [ledger[k.key] EXCEPT !.admitted = @ + 1, !.alone = IF w \in mixed THEN @ ELSE @ + 1])

-----------------------------------------------------------------------------
(* The guard, cross-origin requests and the router.                        *)

\* check_creds compares the whole pair.
check_creds(cred) == cred = opts.account

http_basic_auth_middleware(w) ==
  LET k == wk[w]
      c == http_basic_auth_parse(k.req)
      u == c.user
  IN  /\ At(w, "basic_auth")
      /\ IF check_creds(c)
         THEN Go(w, Next1([k EXCEPT !.user = u])) /\ UNCHANGED guesses
         ELSE /\ Go(w, Answer(Stamp(k, "challenge"), 401))
              /\ guesses' = IF u = NoKey THEN guesses
                            ELSE Set(guesses, u, 1 + IF u \in DOMAIN guesses THEN guesses[u] ELSE 0)
      /\ Quiet /\ UNCHANGED <<cap, limit, disk, rids, stats>>

http_cors_middleware(w) ==
  LET k == wk[w]
  IN  /\ At(w, "cors")
      /\ Go(w, IF ~k.req.origin THEN Next1(k)
               ELSE IF k.req.method = "OPTIONS" THEN Answer(Stamp(k, "cors"), 204)
               ELSE Next1(Stamp(k, "cors")))
      /\ Quiet /\ UNCHANGED <<cap, limit, disk, guesses, rids, stats>>

AtRouter(w) == wk[w].at = "down" /\ wk[w].depth = Len(Chain) + 1

\* Query and form give the first parameters; one that does not decode is a 400.
request_merge_params(req) == req.form

\* No route serves the request.
Unrouted(k) ==
  LET allow == Allow(routes, k.req.path)
  IN  Answer([k EXCEPT !.res.allow = allow],
             IF ~request_merge_params(k.req) THEN 400
             ELSE IF allow = << >> THEN 404
             ELSE IF k.req.method = "OPTIONS" THEN 200 ELSE 405)

\* The route is called: what it starts with.
Routed(k, i) ==
  [k EXCEPT !.res.route = i, !.res.handled = TRUE,
            !.res.params = ParamsAt(routes, k.req.method, k.req.path, i, k.req.query),
            !.res.suppress = k.req.method = "HEAD"]

\* The buffer still holds what the thread rendered last.
capture_begin_Stale(c) == c

\* Pages render into the thread's capture buffer, which starts out empty.
capture_begin(c) == << >>

\* A page shows the data of the moment to the one who asked.
Content(k) == <<k.req.remote, file.ver>>
Rendered(w, k) == IF opts.layout THEN Append(capture_begin(cap[w]), Content(k)) ELSE <<Content(k)>>

\* With a layout, the buffer keeps what was captured last.
Capture(w, bytes) == cap' = IF opts.layout THEN [cap EXCEPT ![w] = bytes] ELSE cap

Page(w, k) == [k EXCEPT !.res.page = Rendered(w, k), !.res.framed = opts.layout]

\* The static files: mounted as a route, or asked first by the fallback.
FromDisk(h) == h = "mount" \/ (h = "fallback" /\ opts.root)

router_dispatch(w) ==
  LET k == wk[w]
      i == IF request_merge_params(k.req) THEN FirstMatch(routes, k.req.method, k.req.path) ELSE NoRoute
      r == Routed(k, i)
      h == routes[i].handler
  IN  /\ AtRouter(w)
      /\ \/ i = NoRoute /\ Go(w, Unrouted(k)) /\ UNCHANGED cap
         \/ i # NoRoute /\ FromDisk(h) /\ Go(w, [r EXCEPT !.at = "stat"]) /\ UNCHANGED cap
         \/ /\ i # NoRoute /\ ~FromDisk(h)
            /\ Go(w, Answer([Page(w, r) EXCEPT !.res.lm = IF h = "dated" THEN file.mtime ELSE NoDate],
                            IF h = "fallback" THEN 404 ELSE 200))
            /\ Capture(w, Rendered(w, r))
      /\ Quiet /\ UNCHANGED <<limit, disk, guesses, rids, stats>>

-----------------------------------------------------------------------------
(* The static files.  A path is bad (it does not decode or climbs above    *)
(* the root), names the file, or names nothing.                            *)

\* The handler returns.  In the fallback route, a miss drops the headers and
\* renders the 404 page, and a file that was served leaves the layout out.
StaticReturns(w, k) ==
  IF routes[k.res.route].handler = "mount" THEN Go(w, Back(k)) /\ UNCHANGED cap
  ELSE IF k.res.status = 404
  THEN /\ Go(w, Back([Page(w, k) EXCEPT !.res.hdrs = {}, !.res.tag = NoTag, !.res.lm = NoDate, !.res.parts = << >>]))
       /\ Capture(w, Rendered(w, k))
  ELSE /\ Go(w, Back(k))
       /\ Capture(w, capture_begin(cap[w]))

\* stat, the validators and the ranges.
Ranged(k, tag) ==
  /\ k.req.method \in {"GET", "HEAD"} /\ k.req.range # << >>
  /\ (k.req.ifr = NoTag \/ if_range_matches(k.req.ifr, tag, file.mtime))

Stated(k) ==
  LET tag == StaticTag(file.mtime, file.size)
      r   == [k EXCEPT !.res.tag = tag, !.res.lm = file.mtime, !.res.size = file.size, !.now = file.ver]
      ws  == parse_ranges(k.req.range, file.size)
  IN  IF NotModified(k.req, tag, file.mtime) THEN [r EXCEPT !.res.status = 304]
      ELSE IF ~Ranged(k, tag) THEN [r EXCEPT !.at = "whole"]
      ELSE IF ws = << >> THEN [r EXCEPT !.res.status = 416]
      ELSE [r EXCEPT !.at = "ranges", !.left = ws]

http_serve_static(w) ==
  LET k == wk[w]
      r == Stated(k)
  IN  /\ k.at = "stat"
      /\ \/ k.req.path = <<"bad">> /\ StaticReturns(w, [k EXCEPT !.res.status = 400])
         \/ /\ k.req.path # <<"bad">> /\ (k.req.path # <<"file">> \/ file.size = Gone)
            /\ StaticReturns(w, [k EXCEPT !.res.status = 404])
         \/ /\ k.req.path = <<"file">> /\ file.size # Gone
            /\ IF r.at = "stat" THEN StaticReturns(w, r) ELSE Go(w, r) /\ UNCHANGED cap
      /\ Quiet /\ UNCHANGED <<limit, disk, guesses, rids, stats>>

Part(base, n) == [base |-> base, n |-> n, ver |-> file.ver]
Raced(k)      == raced' = (raced \/ file.ver # k.now)

\* The whole file, as it is when it is opened.
file_read_all(w) ==
  LET k == wk[w]
  IN  /\ k.at = "whole"
      /\ StaticReturns(w, IF file.size = Gone THEN [k EXCEPT !.res.status = 404]
                            ELSE [k EXCEPT !.res.parts = <<Part(0, file.size)>>])
      /\ Raced(k)
      /\ Quiet /\ UNCHANGED <<limit, file, held, guesses, rids, stats>>

\* One window: the file is opened again for each, and a short read is a 404
\* without the parts read before.
file_read_range(w) ==
  LET k == wk[w]
      f == Head(k.left)
      r == [k EXCEPT !.res.parts = Append(@, Part(f.base, f.n)), !.left = Tail(@)]
  IN  /\ k.at = "ranges"
      /\ IF f.base + f.n > file.size THEN StaticReturns(w, [k EXCEPT !.res.status = 404, !.res.parts = << >>])
         ELSE IF r.left = << >> THEN StaticReturns(w, [r EXCEPT !.res.status = 206])
         ELSE Go(w, r) /\ UNCHANGED cap
      /\ Raced(k)
      /\ Quiet /\ UNCHANGED <<limit, file, held, guesses, rids, stats>>

-----------------------------------------------------------------------------
(* Back up the chain.                                                      *)

HasBody(res) == ~res.empty /\ (res.page # << >> \/ \E i \in DOMAIN res.parts : res.parts[i].n > 0)

\* The tag of a page is the digest of its body.
TagOf(res) == IF res.tag = NoTag THEN [kind |-> "strong", val |-> <<"page", res.page>>] ELSE res.tag

\* A page is dated only if its handler said so; a tag of the handler's own
\* leaves the date out of account.
Unchanged(req, res) ==
  \/ inm_matches(req.inm, TagOf(res))
  \/ res.tag = NoTag /\ req.ims # NoDate /\ res.lm # NoDate /\ req.ims >= res.lm

Etagged(req, res) ==
  IF res.status \notin 200 .. 299 \/ ~HasBody(res) THEN res
  ELSE [res EXCEPT !.tag = TagOf(res),
                   !.status = IF Unchanged(req, res) THEN 304 ELSE @,
                   !.empty = Unchanged(req, res)]

\* Accept-Encoding has gzip in it, with a weight above 0.
client_wants_gzip(req) == req.gz

\* Only a whole entity is compressed, and no small file; pages and the file are
\* of a compressible type, and a page is large enough.
Gzipped(req, res) ==
  IF /\ res.status = 200 /\ client_wants_gzip(req) /\ ~res.suppress /\ HasBody(res)
     /\ res.page # << >> \/ res.parts[1].n >= MinGzip
  THEN [res EXCEPT !.gz = TRUE, !.hdrs = @ \cup {"vary"}] ELSE res

\* What layer l does once the rest of the chain has returned.
Finished(l, k) ==
  CASE l = "etag" -> Etagged(k.req, k.res)
    [] l = "gzip" -> Gzipped(k.req, k.res)
    [] l = "request_id" -> [k.res EXCEPT !.hdrs = @ \cup {"request_id"}]
    [] OTHER -> k.res

http_stats_record(status) == [stats EXCEPT ![(status \div 100) * 100] = @ + 1]

Return(w) ==
  LET k == wk[w]
      l == Chain[k.depth]
  IN  /\ k.at = "up" /\ k.depth > 0
      /\ Go(w, Back([k EXCEPT !.res = Finished(l, k)]))
      /\ stats' = IF l = "stats" THEN http_stats_record(k.res.status) ELSE stats
      /\ Quiet /\ UNCHANGED <<cap, limit, disk, guesses, rids>>

(* The client takes the answer.  It keeps what it got of the file under    *)
(* the tag it came with; a part it asked for with If-Range completes the   *)
(* copy it has.                                                            *)

Bytes(res) == UNION {{<<p, res.parts[i].ver>> : p \in res.parts[i].base .. res.parts[i].base + res.parts[i].n - 1}
                     : i \in DOMAIN res.parts}

Kept(k) ==
  LET got == [tag |-> k.res.tag, lm |-> k.res.lm, bytes |-> Bytes(k.res)]
  IN  IF k.res.parts = << >> \/ k.res.gz \/ k.res.suppress \/ k.res.empty THEN held
      ELSE IF k.res.status = 206 /\ k.req.ifr # NoTag THEN [held EXCEPT !.bytes = @ \cup got.bytes]
      ELSE got

Deliver(w) ==
  /\ wk[w].at = "up" /\ wk[w].depth = 0
  /\ held' = Kept(wk[w])
  /\ Go(w, Idle)
  /\ Quiet /\ UNCHANGED <<cap, limit, file, raced, guesses, rids, stats>>

-----------------------------------------------------------------------------
(* The world: time passes, and the file is replaced or removed.  Every     *)
(* replacement has a later modification time.                              *)

Tick ==
  /\ clock < opts.ticks /\ clock' = clock + 1
  /\ UNCHANGED <<opts, ops, routes, wk, cap, limit, disk, guesses, rids, stats, served>>

Edit ==
  /\ file.ver <= opts.edits
  /\ \E s \in opts.sizes \cup {Gone} :
       file' = [ver |-> file.ver + 1, mtime |-> file.mtime + 1, size |-> s]
  /\ UNCHANGED <<opts, ops, routes, wk, cap, limit, clock, held, raced, guesses, rids, stats, served>>

Layer(w) ==
  \/ http_client_ip_middleware(w) \/ http_request_id_middleware(w) \/ http_security_middleware(w)
  \/ http_signature_middleware(w) \/ PassDown(w) \/ http_basic_auth_middleware(w)
  \/ http_cors_middleware(w) \/ Return(w)

Limiter(w) ==
  \/ http_rate_limiter_allow(w) \/ FindBucket(w) \/ bucket_for(w) \/ Corrupt(w)
  \/ TestsLast(w) \/ ReadsLast(w) \/ LoadsTokens(w) \/ Refills(w) \/ Clamps(w) \/ StoresBurst(w)
  \/ Touches(w) \/ TestsTokens(w) \/ LoadsAgain(w) \/ Debits(w)

Handler(w) ==
  \/ router_dispatch(w) \/ http_serve_static(w) \/ file_read_all(w) \/ file_read_range(w)

Next == \/ SetUp \/ Tick \/ Edit
        \/ \E w \in Workers : Arrive(w) \/ Layer(w) \/ Limiter(w) \/ Handler(w) \/ Deliver(w)

Spec == Init /\ [][Next]_vars
-----------------------------------------------------------------------------
(* Properties.                                                             *)

(***************************************************************************)
(* include/rate_limit.h:7-9 promises burst instant arrivals and rate       *)
(* tokens a second afterwards; the workers keep to it without a mutex      *)
(* (rate_limit.c:107-127) up to what a race can cost.  The calls that met  *)
(* no other on their key are admitted from the full bucket, from the time  *)
(* since it was added and from one more burst for each call that came      *)
(* while another was in progress; a key whose calls never met has nothing  *)
(* else.  Whatever such calls leave in a bucket, the next one that runs    *)
(* alone brings it below the ceiling and into the account again.  And a    *)
(* wrong password that reached the guard was admitted from the bucket of   *)
(* the account it names, whatever address it came from                     *)
(* (rate_limit.c:144-147).                                                 *)
(***************************************************************************)
Throttled ==
  ~torn =>
    /\ \A key \in DOMAIN ledger :
         LET l    == ledger[key]
             b    == buckets[key]
             most == Burst * (1 + l.joined) + Rate * (clock - l.born)
         IN  /\ Whole * l.alone <= most
             /\ l.joined = 0 => l.admitted = l.alone
             /\ ~l.rough /\ (\A w \in Workers : wk[w].at \in Limiting => wk[w].key # key) =>
                  b.tokens <= Burst /\ b.tokens + Whole * l.alone <= most
    /\ "rate" \in opts.layers =>
         \A u \in DOMAIN guesses : u \in DOMAIN ledger /\ guesses[u] <= ledger[u].admitted

\* The router has just returned.
RouterBack(k) == k.at = "up" /\ k.depth = Len(Chain)

\* What a pattern stands for.
Fits(p, q) ==
  LET n == IF p # << >> /\ Last(p) = Star THEN Len(p) - 1 ELSE Len(p)
  IN  /\ IF n = Len(p) THEN Len(q) = n ELSE Len(q) >= n
      /\ \A i \in 1 .. n : Agrees(p[i], q[i])

(***************************************************************************)
(* router.c:111-189: after any sequence of additions, removals and timeout *)
(* changes, a request reaches the first route of its method (GET for a     *)
(* HEAD) whose pattern fits, with the captures of that pattern in params   *)
(* over the query's values, and with those of other names left alone but   *)
(* for what earlier routes of the method captured.  Without such a route   *)
(* the answer is 405, or 200 for OPTIONS, with exactly the methods the     *)
(* path exists under, or 404 when it exists under none.                    *)
(***************************************************************************)
RightHandler ==
  \A w \in Workers : RouterBack(wk[w]) =>
    LET k    == wk[w]
        path == k.req.path
        fits == {i \in DOMAIN routes : Fits(routes[i].pattern, path)}
        mine == {i \in fits : routes[i].method = Wanted(k.req.method)}
        r    == k.res.route
        Names(i) == {routes[i].pattern[j][2] : j \in {n \in DOMAIN routes[i].pattern : routes[i].pattern[n][1] = "cap"}}
    IN  CASE ~k.req.form -> k.res.status = 400 /\ r = NoRoute
          [] k.req.form /\ mine # {} ->
               /\ r \in mine /\ \A i \in mine : r <= i
               /\ k.res.suppress <=> k.req.method = "HEAD"
               /\ \A n \in Names(r) :
                    \E j \in DOMAIN routes[r].pattern :
                      /\ routes[r].pattern[j] = Cap(n) /\ k.res.params[n] = path[j]
                      /\ \A h \in j + 1 .. Len(routes[r].pattern) : routes[r].pattern[h] # Cap(n)
               /\ \A n \in DOMAIN k.req.query :
                    \/ k.res.params[n] = k.req.query[n]
                    \/ \E i \in 1 .. r : routes[i].method = Wanted(k.req.method) /\ n \in Names(i)
          [] OTHER ->
               /\ r = NoRoute /\ IsInjective(k.res.allow)
               /\ Range(k.res.allow) = {routes[i].method : i \in fits}
               /\ k.res.status = (IF fits = {} THEN 404 ELSE IF k.req.method = "OPTIONS" THEN 200 ELSE 405)

\* The static handler has just answered with this status.
StaticBack(k) == RouterBack(k) /\ k.res.handled /\ k.res.tag # NoTag /\ k.res.status # 404

\* The bytes a spec asks for of a file of this size.
Asked(s, size) ==
  {p \in 0 .. size - 1 : \/ s.from = Empty /\ s.to > 0 /\ p >= size - s.to
                         \/ s.from >= 0 /\ s.to = Empty /\ p >= s.from
                         \/ s.from >= 0 /\ s.from <= p /\ p <= s.to}

(***************************************************************************)
(* static.c:82-179 and 307-335: a 206 carries exactly the bytes the        *)
(* satisfiable specs ask for (of a list, the first MaxRanges of them), in  *)
(* windows that are in order and neither overlap nor touch, so no byte is  *)
(* sent twice; 416 means that no spec asks for a byte the file has; and a  *)
(* request whose If-Range no longer holds gets neither.                    *)
(***************************************************************************)
RangesExact ==
  \A w \in Workers : StaticBack(wk[w]) =>
    LET k     == wk[w]
        specs == k.req.range
        good  == {i \in DOMAIN specs : Asked(specs[i], k.res.size) # {}}
        parts == k.res.parts
    IN  /\ k.res.status = 206 =>
             /\ {b[1] : b \in Bytes(k.res)} =
                  UNION {Asked(specs[i], k.res.size) :
                           i \in {j \in good : Cardinality({h \in good : h < j}) < MaxRanges}}
             /\ \A i \in 1 .. Len(parts) - 1 : parts[i].base + parts[i].n < parts[i + 1].base
        /\ k.res.status = 416 => specs # << >> /\ good = {}
        /\ k.res.status \in {206, 416} =>
             k.req.ifr \in {NoTag, k.res.tag} \/ (k.req.ifr.kind = "date" /\ k.res.lm <= k.req.ifr.val)

(***************************************************************************)
(* static.c:257-335 and etag.c:67-129, seen by the client: as long as no   *)
(* file is replaced between the stat that names it and the read, the copy  *)
(* a client puts together from whole answers and from parts it resumed     *)
(* with If-Range is of one version, the one its tag names; and it is told  *)
(* 304 only when its copy is of the version the server looked at.          *)
(***************************************************************************)
CopyFaithful ==
  ~raced =>
    /\ \A b \in held.bytes : held.tag.val[1] = b[2]
    /\ \A w \in Workers : (RouterBack(wk[w]) /\ wk[w].res.status = 304 /\ wk[w].req.check # {}) => held.tag = wk[w].res.tag

\* The generated 404 page after a miss of the static root.
WipesHeaders(k) == k.res.route # NoRoute /\ routes[k.res.route].handler = "fallback" /\ k.res.status = 404 /\ opts.root

(***************************************************************************)
(* middleware.c:22-92 and template.c:76-106: an answer is the request's    *)
(* own.  It shows the one page that was rendered for this caller, though   *)
(* the thread reuses its capture buffer; one that a guard refused shows    *)
(* none; and the headers of the outer layers are still on it, except on    *)
(* the generated 404 page, which starts over (tools/cweb.c:669).           *)
(***************************************************************************)
OwnAnswer ==
  \A w \in Workers : (wk[w].at = "up" /\ wk[w].depth = 0) =>
    LET k == wk[w]
        want == (IF "security" \in opts.layers THEN {"security"} ELSE {})
                \cup (IF "rate" \in opts.layers /\ k.res.status # 403 THEN {"ratelimit"} ELSE {})
    IN  /\ k.res.page = << >> \/ (Len(k.res.page) = 1 /\ k.res.page[1][1] = k.req.remote)
        /\ k.res.status \in {401, 403, 429} => ~k.res.handled /\ k.res.page = << >> /\ k.res.parts = << >>
        /\ WipesHeaders(k) \/ want \subseteq k.res.hdrs
=============================================================================
