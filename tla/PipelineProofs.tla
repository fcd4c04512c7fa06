--------------------------- MODULE PipelineProofs ---------------------------
(***************************************************************************)
(* Proofs about the way of a request through the generated application:    *)
(* the accounts of a rate limiter that has no mutex, and what an answer    *)
(* still shows of the layers it passed.                                    *)
(***************************************************************************)
EXTENDS Pipeline, WellFoundedInduction, SequenceTheorems, FiniteSetTheorems, TLAPS

-----------------------------------------------------------------------------
(* The chain is the layers that are switched on, in the order of the       *)
(* generated main.                                                         *)

Kinds == {"stats", "client_ip", "request_id", "security", "signature", "rate",
          "basic_auth", "gzip", "etag", "cors"}

\* The place of a layer in the generated main.
Rank == [l \in Kinds |-> CHOOSE m \in 1 .. 10 : Layers[m] = l]

\* c holds those of the first n layers that are switched on, in their order.
Laid(c, n, on) ==
  /\ c \in Seq(Kinds)
  /\ \A i \in 1 .. Len(c) : c[i] \in on /\ Rank[c[i]] <= n
  /\ \A i, j \in 1 .. Len(c) : i < j => Rank[c[i]] < Rank[c[j]]
  /\ \A m \in 1 .. n : Layers[m] \in on => \E i \in 1 .. Len(c) : c[i] = Layers[m]

\* Ten layers, each with its place.
LEMMA RankOf ==
  /\ Len(Layers) = 10
  /\ \A m \in 1 .. 10 : Layers[m] \in Kinds /\ Rank[Layers[m]] = m
<1>1. Len(Layers) = 10 /\ \A m \in 1 .. 10 : Layers[m] \in Kinds
  BY DEF Layers, Kinds
<1>2. ASSUME NEW m \in 1 .. 10, NEW n \in 1 .. 10, Layers[m] = Layers[n]
      PROVE  m = n
  BY <1>2 DEF Layers
<1> QED
  BY <1>1, <1>2 DEF Rank

\* The next layer goes behind those before it.
LEMMA LaidNext ==
  ASSUME NEW on, NEW n \in 0 .. 9, NEW c, Laid(c, n, on)
  PROVE  Laid(IF Layers[n + 1] \in on THEN Append(c, Layers[n + 1]) ELSE c, n + 1, on)
<1> DEFINE l == Layers[n + 1]
<1>1. n + 1 \in 1 .. 10 /\ l \in Kinds /\ Rank[l] = n + 1 /\ c \in Seq(Kinds)
  BY RankOf DEF Laid
<1>2. \A k \in Kinds : Rank[k] \in Int
  BY RankOf DEF Rank, Layers, Kinds
<1>3. CASE l \notin on
  BY <1>1, <1>2, <1>3 DEF Laid
<1>4. CASE l \in on
  <2> DEFINE d == Append(c, l)
  <2>1. d \in Seq(Kinds) /\ Len(d) = Len(c) + 1 /\ d[Len(d)] = l /\ \A i \in 1 .. Len(c) : d[i] = c[i]
    BY <1>1
  <2>2. ASSUME NEW i \in 1 .. Len(d)
        PROVE  d[i] \in on /\ Rank[d[i]] <= n + 1
    BY <1>1, <1>2, <1>4, <2>1, SMTT(40) DEF Laid
  <2>3. ASSUME NEW i \in 1 .. Len(d), NEW j \in 1 .. Len(d), i < j
        PROVE  Rank[d[i]] < Rank[d[j]]
    BY <1>1, <1>2, <2>1, <2>3 DEF Laid
  <2>4. ASSUME NEW m \in 1 .. n + 1, Layers[m] \in on
        PROVE  \E i \in 1 .. Len(d) : d[i] = Layers[m]
    <3>1. CASE m = n + 1
      BY <2>1, <3>1
    <3>2. CASE m # n + 1
      <4>1. m \in 1 .. n
        BY <3>2
      <4>2. PICK i \in 1 .. Len(c) : c[i] = Layers[m]
        BY <2>4, <4>1 DEF Laid
      <4> QED
        BY <2>1, <4>2
    <3> QED
      BY <3>1, <3>2
  <2> HIDE DEF d
  <2>5. Laid(d, n + 1, on)
    BY <2>1, <2>2, <2>3, <2>4 DEF Laid
  <2> QED
    BY <1>4, <2>5 DEF d
<1> QED
  BY <1>3, <1>4

\* The chains of the first layers, up to the nth.
Chosen(f, n, on) ==
  f = [m \in 0 .. n |-> IF m = 0 THEN << >>
                        ELSE IF Layers[m] \in on THEN Append(f[m - 1], Layers[m]) ELSE f[m - 1]]

\* They go on to the next layer.
LEMMA ChosenNext ==
  ASSUME NEW on, NEW n \in 0 .. 9, NEW f, Chosen(f, n, on)
  PROVE  \E g : Chosen(g, n + 1, on)
<1> DEFINE g == [m \in 0 .. n + 1 |-> IF m = n + 1 THEN IF Layers[m] \in on THEN Append(f[n], Layers[m]) ELSE f[n]
                                      ELSE f[m]]
<1>1. ASSUME NEW m \in 0 .. n + 1
      PROVE  g[m] = IF m = 0 THEN << >> ELSE IF Layers[m] \in on THEN Append(g[m - 1], Layers[m]) ELSE g[m - 1]
  <2>1. CASE m = n + 1
    BY <2>1
  <2>2. CASE m # n + 1
    <3>1. m \in 0 .. n /\ (m # 0 => m - 1 \in 0 .. n + 1 /\ m - 1 # n + 1) /\ g[m] = f[m] /\ (m # 0 => g[m - 1] = f[m - 1])
      BY <2>2
    <3>2. f[m] = IF m = 0 THEN << >> ELSE IF Layers[m] \in on THEN Append(f[m - 1], Layers[m]) ELSE f[m - 1]
      BY <3>1 DEF Chosen
    <3> HIDE DEF g
    <3> QED
      BY <3>1, <3>2
  <2> QED
    BY <2>1, <2>2
<1>2. g = [m \in 0 .. n + 1 |-> IF m = 0 THEN << >> ELSE IF Layers[m] \in on THEN Append(g[m - 1], Layers[m]) ELSE g[m - 1]]
  BY <1>1
<1> HIDE DEF g
<1> QED
  BY <1>2 DEF Chosen

\* The chain that http_middleware_build puts together is in order and complete.
LEMMA BuildLaid ==
  ASSUME NEW on
  PROVE  Laid(http_middleware_build(on), 10, on)
<1> DEFINE f == CHOOSE f : Chosen(f, 10, on)
           E(n) == \E g : Chosen(g, n, on)
<1>1. Chosen(f, 10, on)
  <2>0. E(0)
    <3> DEFINE z == [m \in 0 .. 0 |-> << >>]
    <3>1. Chosen(z, 0, on)
      BY DEF Chosen
    <3> QED
      BY <3>1
  <2>n. ASSUME NEW n \in 0 .. 9, E(n)
        PROVE  E(n + 1)
    BY <2>n, ChosenNext
  <2> HIDE DEF E
  <2>1. E(1) /\ (E(1) => E(2)) /\ (E(2) => E(3)) /\ (E(3) => E(4)) /\ (E(4) => E(5))
    <3>1. E(0 + 1) /\ (E(1) => E(1 + 1)) /\ (E(2) => E(2 + 1)) /\ (E(3) => E(3 + 1)) /\ (E(4) => E(4 + 1))
      BY <2>0, <2>n
    <3> QED
      BY <3>1
  <2>2. (E(5) => E(6)) /\ (E(6) => E(7)) /\ (E(7) => E(8)) /\ (E(8) => E(9)) /\ (E(9) => E(10))
    <3>1. (E(5) => E(5 + 1)) /\ (E(6) => E(6 + 1)) /\ (E(7) => E(7 + 1)) /\ (E(8) => E(8 + 1)) /\ (E(9) => E(9 + 1))
      BY <2>n
    <3> QED
      BY <3>1
  <2>3. E(10)
    BY <2>1, <2>2
  <2> QED
    BY <2>3 DEF E
<1>2. http_middleware_build(on) = f[10]
  BY RankOf DEF http_middleware_build, Chosen
<1> HIDE DEF f
<1> DEFINE L(n) == Laid(f[n], n, on)
<1>3. L(0)
  <2>1. f[0] = << >>
    BY <1>1 DEF Chosen
  <2> QED
    BY <2>1 DEF Laid
<1>4. ASSUME NEW n \in 0 .. 9, L(n)
      PROVE  L(n + 1)
  <2> DEFINE m == n + 1
  <2>1. m \in 0 .. 10 /\ m # 0 /\ m - 1 = n
    OBVIOUS
  <2> HIDE DEF m
  <2>3. f[m] = IF m = 0 THEN << >> ELSE IF Layers[m] \in on THEN Append(f[m - 1], Layers[m]) ELSE f[m - 1]
    BY <1>1, <2>1 DEF Chosen
  <2>2. f[n + 1] = IF Layers[n + 1] \in on THEN Append(f[n], Layers[n + 1]) ELSE f[n]
    BY <2>1, <2>3 DEF m
  <2> QED
    BY <1>4, <2>2, LaidNext
<1> HIDE DEF L
<1>5. L(1) /\ (L(1) => L(2)) /\ (L(2) => L(3)) /\ (L(3) => L(4)) /\ (L(4) => L(5))
  <2>1. L(0 + 1) /\ (L(1) => L(1 + 1)) /\ (L(2) => L(2 + 1)) /\ (L(3) => L(3 + 1)) /\ (L(4) => L(4 + 1))
    BY <1>3, <1>4
  <2> QED
    BY <2>1
<1>6. (L(5) => L(6)) /\ (L(6) => L(7)) /\ (L(7) => L(8)) /\ (L(8) => L(9)) /\ (L(9) => L(10))
  <2>1. (L(5) => L(5 + 1)) /\ (L(6) => L(6 + 1)) /\ (L(7) => L(7 + 1)) /\ (L(8) => L(8 + 1)) /\ (L(9) => L(9 + 1))
    BY <1>4
  <2> QED
    BY <2>1
<1>7. L(10)
  BY <1>5, <1>6
<1> QED
  BY <1>2, <1>7 DEF L

\* The chain of the application.
LEMMA ChainLaid ==
  /\ Chain \in Seq(Kinds) /\ Len(Chain) \in Nat
  /\ \A i \in 1 .. Len(Chain) : Chain[i] \in Kinds /\ Chain[i] \in opts.layers
  /\ \A i, j \in 1 .. Len(Chain) : i < j => Rank[Chain[i]] < Rank[Chain[j]]
  /\ \A l \in Kinds : l \in opts.layers => \E i \in 1 .. Len(Chain) : Chain[i] = l
<1>1. Laid(Chain, 10, opts.layers)
  BY BuildLaid DEF Chain
<1> HIDE DEF Chain
<1>2. \A l \in Kinds : \E m \in 1 .. 10 : Layers[m] = l
  BY DEF Kinds, Layers
<1>3. Chain \in Seq(Kinds) /\ Len(Chain) \in Nat /\ \A i \in 1 .. Len(Chain) : Chain[i] \in Kinds
  BY <1>1 DEF Laid
<1>4. \A l \in Kinds : l \in opts.layers => \E i \in 1 .. Len(Chain) : Chain[i] = l
  BY <1>1, <1>2 DEF Laid
<1>5. /\ \A i \in 1 .. Len(Chain) : Chain[i] \in opts.layers
      /\ \A i, j \in 1 .. Len(Chain) : i < j => Rank[Chain[i]] < Rank[Chain[j]]
  BY <1>1, Zenon DEF Laid
<1> QED
  BY <1>3, <1>4, <1>5, Zenon

\* The ranks of the layers whose order matters.
LEMMA Ranks ==
  /\ Rank["security"] = 4 /\ Rank["signature"] = 5 /\ Rank["rate"] = 6 /\ Rank["basic_auth"] = 7
  /\ Rank["cors"] = 10 /\ \A l \in Kinds : Rank[l] \in 1 .. 10
<1>1. Layers[4] = "security" /\ Layers[5] = "signature" /\ Layers[6] = "rate" /\ Layers[7] = "basic_auth" /\ Layers[10] = "cors"
  BY DEF Layers
<1>2. \A l \in Kinds : \E m \in 1 .. 10 : Layers[m] = l
  BY DEF Kinds, Layers
<1> QED
  BY <1>1, <1>2, RankOf

\* No layer is there twice.
LEMMA ChainOnce ==
  ASSUME NEW i \in 1 .. Len(Chain), NEW j \in 1 .. Len(Chain), Chain[i] = Chain[j]
  PROVE  i = j
<1> HIDE DEF Chain
<1>1. Rank[Chain[i]] \in Int /\ Rank[Chain[j]] \in Int
  BY ChainLaid, Ranks
<1> QED
  BY <1>1, ChainLaid

\* The limiter is the layer before the guard.
LEMMA RateThenGuard ==
  ASSUME "rate" \in opts.layers, NEW i \in 1 .. Len(Chain), Chain[i] = "basic_auth"
  PROVE  i - 1 \in 1 .. Len(Chain) /\ Chain[i - 1] = "rate"
<1> HIDE DEF Chain
<1>1. PICK j \in 1 .. Len(Chain) : Chain[j] = "rate"
  BY ChainLaid DEF Kinds
<1>2. j < i
  <2>1. i < j => 7 < 6
    BY <1>1, ChainLaid, Ranks
  <2>2. i # j
    BY <1>1
  <2> QED
    BY <2>1, <2>2
<1>3. j = i - 1
  <2> SUFFICES ASSUME j < i - 1
               PROVE  FALSE
    BY <1>2
  <2>1. i - 1 \in 1 .. Len(Chain) /\ i - 1 < i
    BY <1>2
  <2> DEFINE k == i - 1
  <2>2. k \in 1 .. Len(Chain) /\ k < i /\ j < k
    BY <2>1
  <2> HIDE DEF k
  <2>3. Rank[Chain[j]] < Rank[Chain[k]] /\ Rank[Chain[k]] < Rank[Chain[i]] /\ Rank[Chain[k]] \in 1 .. 10
    BY <2>2, ChainLaid, Ranks
  <2> QED
    BY <1>1, <2>3, Ranks
<1> QED
  BY <1>1, <1>2, <1>3
-----------------------------------------------------------------------------
(* The invariant.  Parts that speak of one worker's task are predicates of *)
(* that task.                                                              *)

Fields    == {"at", "depth", "id", "req", "res", "user", "ip", "key", "now", "dt", "found", "seen", "left"}
ResFields == {"status", "hdrs", "tag", "lm", "size", "parts", "page", "empty", "framed", "gz",
              "suppress", "allow", "route", "params", "handled"}
OnDisk    == {"stat", "whole", "ranges"}
Inbound   == {"down"} \cup Limiting \cup OnDisk

\* A task is a record.  In the limiter it is at the layer "rate", on the disk behind
\* the last layer.
Placed(k) ==
  /\ DOMAIN k = Fields /\ k.depth \in Int
  /\ k.at \in {"idle", "up"} \cup Inbound
  /\ k.at = "down" => k.depth >= 1
  /\ k.at \in Limiting => k.depth \in 1 .. Len(Chain) /\ Chain[k.depth] = "rate"
  /\ k.at \in OnDisk => k.depth = Len(Chain) + 1

\* Nobody is verified before the guard, so the account that credentials name pays.
\* The clock was read before the bucket was looked for.
Charged(k) ==
  /\ k.at \in {"down"} \cup Limiting =>
       \A i \in 1 .. Len(Chain) : Chain[i] = "rate" /\ k.depth <= i => k.user = NoKey
  /\ k.at \in Limiting => k.now \in 0 .. clock /\ (k.req.cred.user # NoKey => k.key = k.req.cred.user)

Buckets == [tokens : Int, last : Nat]
Ledgers == [born : Nat, upto : Nat, admitted : Nat, alone : Nat, joined : Nat, rough : BOOLEAN]

\* What the calls that met no other were admitted from: the first filling and one
\* more for each call that joined another, and the time that was put in.  While a
\* bucket is rough its tokens may be anything; one that is not is in the account.
Account(b, l) ==
  /\ b \in Buckets /\ l \in Ledgers
  /\ l.upto <= clock /\ b.last <= l.upto
  /\ l.rough => l.joined # 0
  /\ l.joined = 0 => l.admitted = l.alone
  /\ Whole * l.alone <= Burst * (IF l.rough THEN l.joined ELSE l.joined + 1) + Rate * (l.upto - l.born)
  /\ l.rough \/ Whole * l.alone + b.tokens <= Burst * (l.joined + 1) + Rate * (l.upto - l.born)

\* A bucket that no call is changing.
Still(b, l) == b.last = l.upto /\ b.tokens <= Burst

\* An array that is not torn has an account for each bucket.
Accounts ==
  ~torn => /\ buckets = [key \in DOMAIN ledger |-> buckets[key]] /\ ledger = [key \in DOMAIN ledger |-> ledger[key]]
           /\ \A key \in DOMAIN ledger : Account(buckets[key], ledger[key])

\* A worker with a pointer has a bucket, and has put its own time into it before it
\* stores that time; one that is about to append found no bucket of its key.
Loaded(k) ==
  ~torn => /\ k.at \in Pointing => k.key \in DOMAIN ledger
           /\ k.at = "make" => k.key \notin k.found
           /\ k.at \in {"load", "refill"} => k.dt \in Int
           /\ k.at \in {"refill", "store"} => k.seen \in Int
           /\ k.at \in {"clamp", "cap", "touch"} => k.now <= ledger[k.key].upto

\* What a call k that met no other knows of its bucket b, step by step.
Lone(k, b, l) ==
  /\ k.at \in {"find", "last", "delta", "load", "refill"} => l.upto <= k.now /\ (l.rough \/ Still(b, l))
  /\ k.at = "delta" => b.last < k.now
  /\ k.at \in {"load", "refill"} => l.rough \/ k.dt = k.now - l.upto
  /\ k.at = "refill" => k.seen = b.tokens
  /\ k.at \in {"clamp", "cap", "touch"} => l.upto = k.now
  /\ k.at = "cap" => b.tokens > Burst
  /\ k.at = "touch" => ~l.rough /\ b.tokens <= Burst
  /\ k.at \in {"test", "debit", "store"} => ~l.rough /\ Still(b, l)
  /\ k.at \in {"debit", "store"} => Whole <= b.tokens
  /\ k.at = "store" => k.seen = b.tokens

\* Worker w is in a call on this key.
Calls(w, key) == wk[w].at \in Limiting /\ wk[w].key = key

\* Calls on one key that are in progress together have met.  A bucket is rough while
\* such a call goes on; else it is as the one call on its key, or none, has left it.
Meetings ==
  ~torn => /\ \A v, w \in Workers : v # w /\ wk[w].at \in Limiting /\ Calls(v, wk[w].key) => w \in mixed
           /\ \A key \in DOMAIN ledger : \A w \in Workers : Calls(w, key) =>
                IF w \in mixed THEN ledger[key].rough ELSE Lone(wk[w], buckets[key], ledger[key])
           /\ \A key \in DOMAIN ledger :
                \/ ledger[key].rough \/ Still(buckets[key], ledger[key])
                \/ \E w \in Workers : Calls(w, key)

\* Workers that were admitted for account u and are at the guard.
Holders(u)  == {w \in Workers : At(w, "basic_auth") /\ wk[w].req.cred.user = u}
Guessed(u)  == IF u \in DOMAIN guesses THEN guesses[u] ELSE 0
Admitted(u) == IF u \in DOMAIN ledger THEN ledger[u].admitted ELSE 0

\* Every guess, and every worker that may be about to make one, has an admission of
\* its own.
Paid(u) == Guessed(u) + Cardinality(Holders(u)) <= Admitted(u)

Guesses == /\ guesses \in [DOMAIN guesses -> Nat \ {0}] /\ NoKey \notin DOMAIN guesses
           /\ ~torn /\ "rate" \in opts.layers => \A u : u # NoKey => Paid(u)

IInv == /\ wk = [w \in Workers |-> wk[w]] /\ opts \in Options /\ clock \in Nat /\ clock <= opts.ticks /\ torn \in BOOLEAN
        /\ \A w \in Workers : Placed(wk[w]) /\ Charged(wk[w]) /\ Loaded(wk[w])
        /\ Accounts /\ Meetings /\ Guesses
-----------------------------------------------------------------------------
(* Steps outside the limiter and the guard.                                *)

\* The application is configured once.
LEMMA ChainSame ==
  ASSUME opts' = opts
  PROVE  Chain' = Chain
BY DEF Chain, http_middleware_build

\* A step of a worker that is not in the limiter touches no account.
LEMMA OutsideKeeps ==
  ASSUME IInv, NEW w \in Workers, NEW r, wk' = [wk EXCEPT ![w] = r], wk[w].at \notin Limiting, r.at \notin Limiting,
         UNCHANGED <<buckets, torn, mixed, ledger, clock>>
  PROVE  Accounts' /\ Meetings' /\ \A v \in Workers : Loaded(wk[v])'
<1>1. \A v \in Workers : wk'[v] = IF v = w THEN r ELSE wk[v]
  BY DEF IInv
<1>2. Accounts'
  BY DEF IInv, Accounts, Account
<1>3. ASSUME NEW v \in Workers
      PROVE  Loaded(wk[v])'
  <2>1. CASE v = w
    BY <1>1, <2>1 DEF Loaded, Limiting, Pointing
  <2>2. CASE v # w
    BY <1>1, <2>2 DEF IInv, Loaded
  <2> QED
    BY <2>1, <2>2
<1>4. \A v \in Workers : (wk'[v].at \in Limiting => wk'[v] = wk[v]) /\ (wk[v].at \in Limiting => wk'[v] = wk[v])
  BY <1>1
<1>5. \A v \in Workers : \A key : Calls(v, key)' <=> Calls(v, key)
  BY <1>4 DEF Calls
<1>6. Meetings'
  <2> SUFFICES ASSUME ~torn
               PROVE  Meetings'
    BY DEF Meetings
  <2>1. ASSUME NEW u \in Workers, NEW v \in Workers, u # v, wk'[v].at \in Limiting, Calls(u, wk[v].key)'
        PROVE  v \in mixed
    BY <1>4, <1>5, <2>1 DEF IInv, Meetings
  <2>2. ASSUME NEW key \in DOMAIN ledger, NEW v \in Workers, Calls(v, key)'
        PROVE  IF v \in mixed THEN ledger[key].rough ELSE Lone(wk'[v], buckets[key], ledger[key])
    <3>1. Calls(v, key) /\ wk'[v] = wk[v]
      BY <1>4, <1>5, <2>2 DEF Calls
    <3> QED
      BY <3>1 DEF IInv, Meetings
  <2>3. ASSUME NEW key \in DOMAIN ledger
        PROVE  \/ ledger[key].rough \/ Still(buckets[key], ledger[key])
               \/ \E v \in Workers : Calls(v, key)'
    BY <1>5 DEF IInv, Meetings
  <2> QED
    BY <2>1, <2>2, <2>3 DEF Meetings, Lone, Still
<1> QED
  BY <1>2, <1>3, <1>6

\* The request that w has in hand goes on, arrives, or leaves.
Moved(w, r) ==
  /\ wk' = [wk EXCEPT ![w] = r] /\ DOMAIN r = Fields /\ r.depth \in Int
  /\ r.at \in {"idle", "up", "down"} \cup OnDisk
  /\ r.at = "down" => \/ r.depth = 1 /\ r.user = NoKey
                      \/ /\ wk[w].at = "down" /\ wk[w].depth \in 1 .. Len(Chain)
                         /\ Chain[wk[w].depth] \notin {"rate", "basic_auth"}
                         /\ r.depth = wk[w].depth + 1 /\ r.user = wk[w].user
  /\ r.at \in OnDisk => r.depth = Len(Chain) + 1

\* Nobody comes to the guard but through the limiter.
LEMMA MovedHolders ==
  ASSUME IInv, NEW w \in Workers, NEW r, Moved(w, r), opts' = opts, "rate" \in opts.layers, NEW u
  PROVE  Holders(u)' \subseteq Holders(u)
<1>1. Chain' = Chain
  BY ChainSame
<1> HIDE DEF Chain
<1> SUFFICES ASSUME NEW v \in Workers, At(v, "basic_auth")', wk'[v].req.cred.user = u
             PROVE  v \in Holders(u)
  BY DEF Holders
<1>2. CASE v # w
  <2>1. wk'[v] = wk[v]
    BY <1>2 DEF Moved, IInv
  <2> QED
    BY <1>1, <2>1 DEF Holders, At
<1>3. CASE v = w
  <2>1. wk'[w] = r
    BY DEF Moved, IInv
  <2>2. r.at = "down" /\ r.depth <= Len(Chain) /\ Chain[r.depth] = "basic_auth" /\ r.depth \in Int
    BY <1>1, <1>3, <2>1 DEF At, Moved
  <2>3. r.depth \in 1 .. Len(Chain)
    BY <2>2, ChainLaid DEF Moved
  <2>4. r.depth - 1 \in 1 .. Len(Chain) /\ Chain[r.depth - 1] = "rate"
    BY <2>2, <2>3, RateThenGuard
  <2>5. r.depth = wk[w].depth + 1 /\ wk[w].depth \in Int /\ Chain[wk[w].depth] # "rate"
    BY <2>2, <2>4 DEF Moved
  <2>6. r.depth - 1 = wk[w].depth
    BY <2>5
  <2> QED
    BY <2>4, <2>5, <2>6
<1> QED
  BY <1>2, <1>3

\* Fewer workers at the guard, no more guesses and no fewer admissions: every guess
\* still has its admission.
LEMMA FewerHolders ==
  ASSUME NEW S \in SUBSET Workers, NEW T \in SUBSET S
  PROVE  Cardinality(T) \in Nat /\ Cardinality(S) \in Nat /\ Cardinality(T) <= Cardinality(S)
<1>1. IsFiniteSet(S)
  BY PipelineConstants, FS_Subset
<1> QED
  BY <1>1, FS_Subset, FS_CardinalityType

\* Such a step keeps the invariant.
LEMMA MovedKeeps ==
  ASSUME IInv, NEW w \in Workers, NEW r, Moved(w, r), wk[w].at \notin Limiting, UNCHANGED <<opts, limit, clock, guesses>>
  PROVE  IInv'
<1>1. Chain' = Chain /\ UNCHANGED <<opts, buckets, torn, mixed, ledger, clock, guesses>>
  BY ChainSame DEF limit
<1> HIDE DEF Chain
<1>2. /\ wk' = [wk EXCEPT ![w] = r] /\ wk' = [v \in Workers |-> wk'[v]]
      /\ \A v \in Workers : wk'[v] = IF v = w THEN r ELSE wk[v]
  BY DEF Moved, IInv
<1>3. ASSUME NEW v \in Workers
      PROVE  Placed(wk[v])' /\ Charged(wk[v])'
  <2>1. CASE v # w
    <3>1. wk'[v] = wk[v]
      BY <1>2, <2>1
    <3> QED
      BY <1>1, <3>1 DEF IInv, Placed, Charged
  <2>2. CASE v = w
    <3>1. wk'[v] = r
      BY <1>2, <2>2
    <3>2. Placed(r)'
      BY <1>1 DEF Moved, Placed, OnDisk, Limiting, Pointing, Inbound
    <3>3. Charged(r)'
      <4> SUFFICES ASSUME r.at = "down", NEW i \in 1 .. Len(Chain), Chain[i] = "rate", r.depth <= i
                   PROVE  r.user = NoKey
        BY <1>1 DEF Moved, Charged, OnDisk, Limiting, Pointing
      <4>1. CASE r.depth = 1 /\ r.user = NoKey
        BY <4>1
      <4>2. CASE wk[w].at = "down" /\ r.depth = wk[w].depth + 1 /\ r.user = wk[w].user /\ wk[w].depth \in Int
        <5>1. wk[w].depth <= i
          BY <4>2
        <5> QED
          BY <4>2, <5>1 DEF IInv, Charged
      <4> QED
        BY <4>1, <4>2 DEF Moved
    <3> QED
      BY <3>1, <3>2, <3>3 DEF Placed, Charged
  <2> QED
    BY <2>1, <2>2
<1>4. Accounts' /\ Meetings' /\ \A v \in Workers : Loaded(wk[v])'
  <2>1. r.at \notin Limiting
    BY DEF Moved, OnDisk, Limiting, Pointing
  <2> QED
    BY <1>1, <1>2, <2>1, OutsideKeeps
<1>5. Guesses'
  <2> SUFFICES ASSUME ~torn, "rate" \in opts.layers, NEW u, u # NoKey
               PROVE  Paid(u)'
    BY <1>1 DEF IInv, Guesses
  <2>1. Holders(u)' \subseteq Holders(u) /\ Holders(u) \subseteq Workers
    BY <1>1, MovedHolders DEF Holders
  <2>2. Paid(u) /\ Guessed(u)' = Guessed(u) /\ Admitted(u)' = Admitted(u)
    BY <1>1 DEF IInv, Guesses, Guessed, Admitted
  <2>3. Guessed(u) \in Nat /\ Admitted(u) \in Nat
    BY DEF IInv, Guesses, Accounts, Account, Guessed, Admitted, Ledgers
  <2>4. Cardinality(Holders(u)') \in Nat /\ Cardinality(Holders(u)) \in Nat /\ Cardinality(Holders(u)') <= Cardinality(Holders(u))
    <3> HIDE DEF Holders
    <3> QED
      BY <2>1, FewerHolders
  <2> QED
    BY <2>2, <2>3, <2>4 DEF Paid
<1> QED
  BY <1>1, <1>2, <1>3, <1>4, <1>5 DEF IInv
\* A worker on its way down is at a layer of the chain.
LEMMA AtLayer ==
  ASSUME IInv, NEW w \in Workers, NEW l, At(w, l)
  PROVE  /\ wk[w].at = "down" /\ wk[w].depth \in 1 .. Len(Chain) /\ Chain[wk[w].depth] = l
         /\ DOMAIN wk[w] = Fields
<1> HIDE DEF Chain
<1> QED
  BY ChainLaid DEF IInv, Placed, At

\* A layer passes the request on or sends it back.
LEMMA LayerMoves ==
  ASSUME IInv, NEW w \in Workers, NEW l, l \notin {"rate", "basic_auth"}, At(w, l),
         NEW k, DOMAIN k = Fields, k.depth = wk[w].depth, k.user = wk[w].user,
         wk' \in {[wk EXCEPT ![w] = Next1(k)], [wk EXCEPT ![w] = Back(k)]}
  PROVE  \E r : Moved(w, r)
<1>0. /\ wk[w].at = "down" /\ wk[w].depth \in 1 .. Len(Chain) /\ Chain[wk[w].depth] \notin {"rate", "basic_auth"}
      /\ wk[w].depth \in Int
  BY AtLayer
<1> HIDE DEF Chain
<1>1. CASE wk' = [wk EXCEPT ![w] = Next1(k)]
  <2>1. /\ DOMAIN Next1(k) = Fields /\ Next1(k).at = "down" /\ Next1(k).depth = wk[w].depth + 1
        /\ Next1(k).user = wk[w].user
    BY DEF Next1, Fields
  <2>2. Moved(w, Next1(k))
    BY <1>0, <1>1, <2>1 DEF Moved, OnDisk
  <2> QED
    BY <2>2
<1>2. CASE wk' = [wk EXCEPT ![w] = Back(k)]
  <2>1. DOMAIN Back(k) = Fields /\ Back(k).at = "up" /\ Back(k).depth = wk[w].depth - 1
    BY DEF Back, Fields
  <2>2. Moved(w, Back(k))
    BY <1>0, <1>2, <2>1 DEF Moved, OnDisk
  <2> QED
    BY <2>2
<1> QED
  BY <1>1, <1>2

\* The layers around the limiter and the guard.
LEMMA LayersMove ==
  ASSUME IInv, NEW w \in Workers,
         \/ http_client_ip_middleware(w) \/ http_request_id_middleware(w) \/ http_security_middleware(w)
         \/ http_signature_middleware(w) \/ PassDown(w) \/ http_cors_middleware(w)
  PROVE  (\E r : Moved(w, r)) /\ UNCHANGED <<opts, limit, clock, guesses>>
<1> DEFINE k == wk[w]
<1>0. ASSUME NEW l, At(w, l)
      PROVE  DOMAIN k = Fields
  BY <1>0, AtLayer
<1>1. ASSUME NEW l, l \notin {"rate", "basic_auth"}, At(w, l), UNCHANGED <<opts, limit, clock, guesses>>,
             NEW m, DOMAIN m = Fields, m.depth = k.depth, m.user = k.user,
             wk' \in {[wk EXCEPT ![w] = Next1(m)], [wk EXCEPT ![w] = Back(m)]}
      PROVE  (\E r : Moved(w, r)) /\ UNCHANGED <<opts, limit, clock, guesses>>
  BY <1>1, LayerMoves
<1>2. CASE http_client_ip_middleware(w)
  <2>1. PICK m : m = [k EXCEPT !.ip = http_client_ip_resolve(k.req.xff, k.req.remote)]
    OBVIOUS
  <2>2. At(w, "client_ip") /\ wk' = [wk EXCEPT ![w] = Next1(m)] /\ UNCHANGED <<opts, limit, clock, guesses>>
    BY <1>2, <2>1 DEF http_client_ip_middleware, Go, Quiet
  <2>3. DOMAIN m = Fields /\ m.depth = k.depth /\ m.user = k.user
    BY <1>0, <2>1, <2>2 DEF Fields
  <2> QED
    BY <1>1, <2>2, <2>3
<1>3. CASE http_request_id_middleware(w)
  <2>1. PICK m : m = k
    OBVIOUS
  <2>2. At(w, "request_id") /\ wk' = [wk EXCEPT ![w] = Next1(m)] /\ UNCHANGED <<opts, limit, clock, guesses>>
    BY <1>3, <2>1 DEF http_request_id_middleware, Go, Quiet
  <2> QED
    BY <1>0, <1>1, <2>1, <2>2
<1>4. CASE http_security_middleware(w)
  <2>1. PICK m : m = Stamp(k, "security")
    OBVIOUS
  <2>2. At(w, "security") /\ wk' = [wk EXCEPT ![w] = Next1(m)] /\ UNCHANGED <<opts, limit, clock, guesses>>
    BY <1>4, <2>1 DEF http_security_middleware, Go, Quiet
  <2>3. DOMAIN m = Fields /\ m.depth = k.depth /\ m.user = k.user
    BY <1>0, <2>1, <2>2 DEF Fields, Stamp
  <2> QED
    BY <1>1, <2>2, <2>3
<1>5. CASE http_signature_middleware(w)
  <2>1. PICK m : m = IF http_request_signature_verify(k.req.sig) THEN k ELSE [k EXCEPT !.res.status = 403]
    OBVIOUS
  <2>2. /\ At(w, "signature") /\ UNCHANGED <<opts, limit, clock, guesses>>
        /\ wk' \in {[wk EXCEPT ![w] = Next1(m)], [wk EXCEPT ![w] = Back(m)]}
    BY <1>5, <2>1, ZenonT(60) DEF http_signature_middleware, Go, Quiet, Answer
  <2>3. DOMAIN m = Fields /\ m.depth = k.depth /\ m.user = k.user
    BY <1>0, <2>1, <2>2 DEF Fields
  <2> QED
    BY <1>1, <2>2, <2>3
<1>6. CASE PassDown(w)
  <2>1. PICK m : m = k
    OBVIOUS
  <2>2. PICK l \in {"stats", "gzip", "etag"} : At(w, l)
    BY <1>6 DEF PassDown
  <2>3. wk' = [wk EXCEPT ![w] = Next1(m)] /\ UNCHANGED <<opts, limit, clock, guesses>>
    BY <1>6, <2>1 DEF PassDown, Go, Quiet
  <2> QED
    BY <1>0, <1>1, <2>1, <2>2, <2>3
<1>7. CASE http_cors_middleware(w)
  <2>1. PICK m : m = IF ~k.req.origin THEN k
                     ELSE IF k.req.method = "OPTIONS" THEN [Stamp(k, "cors") EXCEPT !.res.status = 204]
                     ELSE Stamp(k, "cors")
    OBVIOUS
  <2>2. /\ At(w, "cors") /\ UNCHANGED <<opts, limit, clock, guesses>>
        /\ wk' \in {[wk EXCEPT ![w] = Next1(m)], [wk EXCEPT ![w] = Back(m)]}
    BY <1>7, <2>1 DEF http_cors_middleware, Go, Quiet, Answer
  <2>3. DOMAIN m = Fields /\ m.depth = k.depth /\ m.user = k.user
    BY <1>0, <2>1, <2>2 DEF Fields, Stamp
  <2> QED
    BY <1>1, <2>2, <2>3
<1> QED
  BY <1>2, <1>3, <1>4, <1>5, <1>6, <1>7

\* A worker that is not on its way down sends the request back, or waits for the disk.
LEMMA TurnMoves ==
  ASSUME IInv, NEW w \in Workers, NEW r, wk' = [wk EXCEPT ![w] = r], DOMAIN r = Fields, r.depth \in Int,
         r.at \in {"up", "idle"} \/ (r.at \in OnDisk /\ r.depth = Len(Chain) + 1)
  PROVE  \E q : Moved(w, q)
<1> HIDE DEF Chain
<1>1. Moved(w, r)
  BY DEF Moved, OnDisk
<1> QED
  BY <1>1

\* Arrival, the way up and the client.
LEMMA EndsMove ==
  ASSUME IInv, NEW w \in Workers, Arrive(w) \/ Return(w) \/ Deliver(w)
  PROVE  (\E r : Moved(w, r)) /\ UNCHANGED <<opts, limit, clock, guesses>>
<1>0. DOMAIN wk[w] = Fields /\ wk[w].depth \in Int /\ DOMAIN Idle = Fields /\ Idle.at = "idle" /\ Idle.depth = 0
  BY DEF IInv, Placed, Idle, Fields
<1> HIDE DEF Chain
<1>1. CASE Arrive(w)
  <2>1. PICK q : wk' = [wk EXCEPT ![w] = [Idle EXCEPT !.at = "down", !.depth = 1, !.id = served + 1, !.req = Conditional(q)]]
    BY <1>1 DEF Arrive, Go
  <2>2. PICK r : r = [Idle EXCEPT !.at = "down", !.depth = 1, !.id = served + 1, !.req = Conditional(q)]
    OBVIOUS
  <2>3. DOMAIN r = Fields /\ r.at = "down" /\ r.depth = 1 /\ r.user = NoKey
    BY <2>2 DEF Idle, Fields
  <2>4. Moved(w, r)
    BY <2>1, <2>2, <2>3 DEF Moved, OnDisk
  <2> QED
    BY <1>1, <2>4 DEF Arrive
<1>2. CASE Return(w)
  <2>1. PICK r : r = Back([wk[w] EXCEPT !.res = Finished(Chain[wk[w].depth], wk[w])])
    OBVIOUS
  <2>2. wk' = [wk EXCEPT ![w] = r] /\ UNCHANGED <<opts, limit, clock, guesses>>
    BY <1>2, <2>1 DEF Return, Go, Quiet
  <2>3. DOMAIN r = Fields /\ r.depth \in Int /\ r.at = "up"
    BY <1>0, <2>1 DEF Back, Fields
  <2> QED
    BY <2>2, <2>3, TurnMoves
<1>3. CASE Deliver(w)
  <2>1. PICK r : r = Idle
    OBVIOUS
  <2>2. wk' = [wk EXCEPT ![w] = r] /\ UNCHANGED <<opts, limit, clock, guesses>>
    BY <1>3, <2>1 DEF Deliver, Go, Quiet
  <2>3. DOMAIN r = Fields /\ r.depth \in Int /\ r.at = "idle"
    BY <1>0, <2>1
  <2> QED
    BY <2>2, <2>3, TurnMoves
<1> QED
  BY <1>1, <1>2, <1>3
\* The static handler returns.
LEMMA StaticMoves ==
  ASSUME IInv, NEW w \in Workers, NEW k, DOMAIN k = Fields, k.depth \in Int, StaticReturns(w, k)
  PROVE  \E r : Moved(w, r)
<1> HIDE DEF Chain
<1>1. PICK m : /\ m \in {k, [Page(w, k) EXCEPT !.res.hdrs = {}, !.res.tag = NoTag, !.res.lm = NoDate, !.res.parts = << >>]}
               /\ wk' = [wk EXCEPT ![w] = Back(m)]
  BY DEF StaticReturns, Go
<1>2. DOMAIN m = Fields /\ m.depth \in Int
  BY <1>1 DEF Page, Fields
<1>3. DOMAIN Back(m) = Fields /\ Back(m).depth \in Int /\ Back(m).at = "up"
  BY <1>2 DEF Back, Fields
<1> QED
  BY <1>1, <1>3, TurnMoves

\* The router and the disk.
LEMMA HandlersMove ==
  ASSUME IInv, NEW w \in Workers, Handler(w)
  PROVE  (\E r : Moved(w, r)) /\ UNCHANGED <<opts, limit, clock, guesses>>
<1> DEFINE k == wk[w]
<1>0. DOMAIN k = Fields /\ k.depth \in Int /\ (k.at \in OnDisk => k.depth = Len(Chain) + 1)
  BY DEF IInv, Placed
<1> HIDE DEF Chain
<1>u. UNCHANGED <<opts, limit, clock, guesses>>
  BY DEF Handler, router_dispatch, http_serve_static, file_read_all, file_read_range, Quiet
<1>1. CASE router_dispatch(w)
  <2> DEFINE i == IF request_merge_params(k.req) THEN FirstMatch(routes, k.req.method, k.req.path) ELSE NoRoute
             q == Routed(k, i)
             h == routes[i].handler
  <2>3. PICK p : p = q
    OBVIOUS
  <2>4. DOMAIN p = Fields /\ p.depth = k.depth
    BY <1>0, <2>3 DEF Routed, Fields
  <2>l. PICK lm : lm = IF h = "dated" THEN file.mtime ELSE NoDate
    OBVIOUS
  <2>s. PICK s : s = IF h = "fallback" THEN 404 ELSE 200
    OBVIOUS
  <2>1. /\ AtRouter(w)
        /\ \/ wk' = [wk EXCEPT ![w] = Unrouted(k)]
           \/ wk' = [wk EXCEPT ![w] = [p EXCEPT !.at = "stat"]]
           \/ wk' = [wk EXCEPT ![w] = Answer([Page(w, p) EXCEPT !.res.lm = lm], s)]
    BY <1>1, <2>3, <2>l, <2>s DEF router_dispatch, Go
  <2>2. k.depth = Len(Chain) + 1
    BY <2>1 DEF AtRouter
  <2>5. CASE wk' = [wk EXCEPT ![w] = Unrouted(k)]
    <3>1. PICK a : a = Allow(routes, k.req.path)
      OBVIOUS
    <3>2. PICK t : t = IF ~request_merge_params(k.req) THEN 400
                       ELSE IF a = << >> THEN 404
                       ELSE IF k.req.method = "OPTIONS" THEN 200 ELSE 405
      OBVIOUS
    <3>3. PICK r : r = Back([[k EXCEPT !.res.allow = a] EXCEPT !.res.status = t])
      OBVIOUS
    <3>4. r = Unrouted(k)
      BY <3>1, <3>2, <3>3 DEF Unrouted, Answer
    <3>5. DOMAIN r = Fields /\ r.depth \in Int /\ r.at = "up"
      BY <1>0, <3>3 DEF Back, Fields
    <3> QED
      BY <1>u, <2>5, <3>4, <3>5, TurnMoves
  <2>6. CASE wk' = [wk EXCEPT ![w] = [p EXCEPT !.at = "stat"]]
    <3>1. PICK r : r = [p EXCEPT !.at = "stat"]
      OBVIOUS
    <3>2. DOMAIN r = Fields /\ r.depth = k.depth /\ r.at = "stat"
      BY <2>4, <3>1 DEF Fields
    <3> QED
      BY <1>0, <1>u, <2>2, <2>6, <3>1, <3>2, TurnMoves DEF OnDisk
  <2>7. CASE wk' = [wk EXCEPT ![w] = Answer([Page(w, p) EXCEPT !.res.lm = lm], s)]
    <3>1. PICK r : r = Answer([Page(w, p) EXCEPT !.res.lm = lm], s)
      OBVIOUS
    <3>2. DOMAIN r = Fields /\ r.depth \in Int /\ r.at = "up"
      BY <1>0, <2>4, <3>1 DEF Answer, Back, Page, Fields
    <3> QED
      BY <1>u, <2>7, <3>1, <3>2, TurnMoves
  <2> QED
    BY <2>1, <2>5, <2>6, <2>7
<1>2. CASE http_serve_static(w)
  <2>1. PICK m : m = Stated(k)
    OBVIOUS
  <2>2. DOMAIN m = Fields /\ m.depth = k.depth /\ m.at \in {k.at, "whole", "ranges"}
    BY <1>0, <2>1 DEF Stated, Fields
  <2>3. k.at = "stat" /\ k.depth = Len(Chain) + 1
    BY <1>0, <1>2 DEF http_serve_static, OnDisk
  <2>4. \/ StaticReturns(w, m)
        \/ (m.at # "stat" /\ wk' = [wk EXCEPT ![w] = m])
        \/ \E s : StaticReturns(w, [k EXCEPT !.res.status = s])
    BY <1>2, <2>1, ZenonT(60) DEF http_serve_static, Go
  <2>5. CASE StaticReturns(w, m)
    BY <1>0, <1>u, <2>2, <2>5, StaticMoves
  <2>6. CASE m.at # "stat" /\ wk' = [wk EXCEPT ![w] = m]
    BY <1>0, <1>u, <2>2, <2>3, <2>6, TurnMoves DEF OnDisk
  <2>7. CASE \E s : StaticReturns(w, [k EXCEPT !.res.status = s])
    <3>1. PICK s : StaticReturns(w, [k EXCEPT !.res.status = s])
      BY <2>7
    <3>2. PICK n : n = [k EXCEPT !.res.status = s]
      OBVIOUS
    <3>3. DOMAIN n = Fields /\ n.depth \in Int /\ StaticReturns(w, n)
      BY <1>0, <3>1, <3>2 DEF Fields
    <3> QED
      BY <1>u, <3>3, StaticMoves
  <2> QED
    BY <2>4, <2>5, <2>6, <2>7
<1>3. CASE file_read_all(w)
  <2>1. PICK m : StaticReturns(w, m) /\ m \in {[k EXCEPT !.res.status = 404], [k EXCEPT !.res.parts = <<Part(0, file.size)>>]}
    BY <1>3 DEF file_read_all
  <2>2. DOMAIN m = Fields /\ m.depth \in Int
    BY <1>0, <2>1, ZenonT(60) DEF Fields
  <2> QED
    BY <1>u, <2>1, <2>2, StaticMoves
<1>4. CASE file_read_range(w)
  <2> DEFINE f == Head(k.left)
  <2>1. PICK q : q = [k EXCEPT !.res.parts = Append(@, Part(f.base, f.n)), !.left = Tail(@)]
    OBVIOUS
  <2>2. DOMAIN q = Fields /\ q.depth = k.depth /\ q.at = k.at
    BY <1>0, <2>1 DEF Fields
  <2>3. k.at = "ranges" /\ k.depth = Len(Chain) + 1
    BY <1>0, <1>4 DEF file_read_range, OnDisk
  <2>4. \/ \E m \in {[k EXCEPT !.res.status = 404, !.res.parts = << >>], [q EXCEPT !.res.status = 206]} : StaticReturns(w, m)
        \/ wk' = [wk EXCEPT ![w] = q]
    BY <1>4, <2>1 DEF file_read_range, Go
  <2>5. CASE \E m \in {[k EXCEPT !.res.status = 404, !.res.parts = << >>], [q EXCEPT !.res.status = 206]} : StaticReturns(w, m)
    <3>1. PICK m \in {[k EXCEPT !.res.status = 404, !.res.parts = << >>], [q EXCEPT !.res.status = 206]} : StaticReturns(w, m)
      BY <2>5
    <3>2. DOMAIN m = Fields /\ m.depth \in Int
      BY <1>0, <2>2, <3>1, ZenonT(60) DEF Fields
    <3> QED
      BY <1>u, <3>1, <3>2, StaticMoves
  <2>6. CASE wk' = [wk EXCEPT ![w] = q]
    BY <1>0, <1>u, <2>2, <2>3, <2>6, TurnMoves DEF OnDisk
  <2> QED
    BY <2>4, <2>5, <2>6
<1> QED
  BY <1>1, <1>2, <1>3, <1>4 DEF Handler
-----------------------------------------------------------------------------
(* The limiter.                                                            *)

\* The other workers' tasks stay as they are.
LEMMA TasksKept ==
  ASSUME IInv, NEW w \in Workers, NEW r, wk' = [wk EXCEPT ![w] = r], UNCHANGED <<opts, clock>>, Placed(r), Charged(r)
  PROVE  /\ wk' = [v \in Workers |-> wk'[v]]
         /\ \A v \in Workers : wk'[v] = IF v = w THEN r ELSE wk[v]
         /\ \A v \in Workers : Placed(wk[v])' /\ Charged(wk[v])'
<1>1. Chain' = Chain
  BY ChainSame
<1> HIDE DEF Chain
<1>2. wk' = [v \in Workers |-> wk'[v]] /\ \A v \in Workers : wk'[v] = IF v = w THEN r ELSE wk[v]
  BY DEF IInv
<1>3. ASSUME NEW v \in Workers
      PROVE  Placed(wk[v])' /\ Charged(wk[v])'
  <2>1. PICK k : k = wk'[v] /\ Placed(k) /\ Charged(k)
    BY <1>2 DEF IInv
  <2> QED
    BY <1>1, <2>1 DEF Placed, Charged
<1> QED
  BY <1>2, <1>3

\* A worker that does not come to the guard adds nobody there.
LEMMA HoldersKept ==
  ASSUME IInv, NEW w \in Workers, NEW r, wk' = [wk EXCEPT ![w] = r], opts' = opts,
         r.at = "down" => Chain[r.depth] # "basic_auth", NEW u
  PROVE  Holders(u)' \subseteq Holders(u)
<1>1. Chain' = Chain
  BY ChainSame
<1> HIDE DEF Chain
<1>2. \A v \in Workers : wk'[v] = IF v = w THEN r ELSE wk[v]
  BY DEF IInv
<1> QED
  BY <1>1, <1>2 DEF Holders, At

\* Numbers of guesses, admissions and workers are numbers.
LEMMA GuessNumbers ==
  ASSUME IInv, NEW u
  PROVE  Guessed(u) \in Nat /\ (~torn => Admitted(u) \in Nat) /\ Cardinality(Holders(u)) \in Nat
<1>1. Guessed(u) \in Nat /\ (~torn => Admitted(u) \in Nat)
  BY DEF IInv, Guesses, Accounts, Account, Guessed, Admitted, Ledgers
<1>2. Holders(u) \in SUBSET Workers
  BY DEF Holders
<1>3. Cardinality(Holders(u)) \in Nat
  <2> HIDE DEF Holders
  <2> QED
    BY <1>2, FewerHolders
<1> QED
  BY <1>1, <1>3

\* With no more guesses and workers at the guard and no fewer admissions, every guess
\* still has its admission.
LEMMA GuessesKept ==
  ASSUME IInv, UNCHANGED <<opts, guesses>>, torn => torn',
         ~torn' => \A u : Holders(u)' \subseteq Holders(u) /\ Admitted(u)' \in Nat /\ Admitted(u) <= Admitted(u)'
  PROVE  Guesses'
<1> SUFFICES ASSUME ~torn', "rate" \in opts.layers, NEW u, u # NoKey
             PROVE  Paid(u)'
  BY DEF IInv, Guesses
<1>1. Paid(u) /\ Guessed(u)' = Guessed(u)
  BY DEF IInv, Guesses, Guessed
<1>2. Guessed(u) \in Nat /\ Admitted(u) \in Nat /\ Admitted(u)' \in Nat /\ Admitted(u) <= Admitted(u)'
  BY GuessNumbers
<1>3. Holders(u)' \subseteq Holders(u) /\ Holders(u) \in SUBSET Workers
  BY DEF Holders
<1>4. Cardinality(Holders(u)') \in Nat /\ Cardinality(Holders(u)) \in Nat /\ Cardinality(Holders(u)') <= Cardinality(Holders(u))
  <2> HIDE DEF Holders
  <2> QED
    BY <1>3, FewerHolders
<1> QED
  BY <1>1, <1>2, <1>4 DEF Paid

\* allow() has read the clock.  A call that meets others on its key makes the bucket
\* rough, so that nothing is claimed of the calls that are in progress; one that meets
\* none finds the bucket still.
LEMMA AllowKeeps ==
  ASSUME IInv, NEW w \in Workers, http_rate_limiter_allow(w)
  PROVE  IInv'
<1> DEFINE k == wk[w]
           key == http_rate_limit_user_key(k)
           met == Met(w, key)
<1>1. /\ k.at = "down" /\ k.depth \in 1 .. Len(Chain) /\ Chain[k.depth] = "rate" /\ DOMAIN k = Fields
      /\ Placed(k) /\ Charged(k) /\ clock \in Nat
  BY AtLayer DEF http_rate_limiter_allow, IInv
<1>2. PICK r : r = [k EXCEPT !.at = "find", !.key = key, !.now = clock]
  OBVIOUS
<1>3. /\ wk' = [wk EXCEPT ![w] = r] /\ UNCHANGED <<opts, clock, guesses, torn, buckets>>
      /\ mixed' = IF met = {} THEN mixed \ {w} ELSE mixed \cup met \cup {w}
      /\ ledger' = IF met = {} \/ key \notin DOMAIN ledger THEN ledger
                   ELSE [ledger EXCEPT ![key].joined = @ + 1, ![key].rough = TRUE]
  BY <1>2 DEF http_rate_limiter_allow, Go, Quiet
<1>4. /\ DOMAIN r = Fields /\ r.at = "find" /\ r.depth = k.depth /\ r.user = k.user /\ r.req = k.req
      /\ r.now = clock /\ r.key = key
  BY <1>1, <1>2 DEF Fields
<1>5. Placed(r)
  BY <1>1, <1>4 DEF Placed, Limiting, Pointing, OnDisk, Inbound
<1>6. k.user = NoKey
  BY <1>1 DEF Charged
<1>7. Charged(r)
  <2>1. k.req.cred.user # NoKey => r.key = k.req.cred.user
    BY <1>4, <1>6 DEF http_rate_limit_user_key, http_basic_auth_parse
  <2> QED
    BY <1>1, <1>4, <1>6, <2>1 DEF Charged
<1> HIDE DEF Chain, key
<1>8. \A u : Holders(u)' \subseteq Holders(u)
  BY <1>3, <1>4, HoldersKept
<1>9. /\ wk' = [v \in Workers |-> wk'[v]] /\ \A v \in Workers : Placed(wk[v])' /\ Charged(wk[v])'
      /\ \A v \in Workers : wk'[v] = IF v = w THEN r ELSE wk[v]
  BY <1>3, <1>5, <1>7, TasksKept
<1>10. CASE torn
  BY <1>3, <1>9, <1>10 DEF IInv, Accounts, Meetings, Loaded, Guesses
<1>11. CASE ~torn
  <2>1. /\ DOMAIN ledger' = DOMAIN ledger /\ ledger' = [q \in DOMAIN ledger |-> ledger'[q]]
        /\ \A q \in DOMAIN ledger : q # key => ledger'[q] = ledger[q]
        /\ met = {} => ledger' = ledger
        /\ met # {} /\ key \in DOMAIN ledger =>
             ledger'[key] = [ledger[key] EXCEPT !.joined = @ + 1, !.rough = TRUE]
    BY <1>3, <1>11 DEF IInv, Accounts
  <2>2. ASSUME NEW q \in DOMAIN ledger
        PROVE  /\ Account(buckets[q], ledger'[q]) /\ ledger'[q].upto = ledger[q].upto
               /\ ledger'[q].admitted = ledger[q].admitted /\ (ledger[q].rough => ledger'[q].rough)
               /\ met # {} /\ q = key => ledger'[q].rough
    <3>1. Account(buckets[q], ledger[q])
      BY <1>11 DEF IInv, Accounts
    <3>2. CASE met # {} /\ q = key
      <4> DEFINE l == ledger[q]
                 b == buckets[q]
      <4>1. PICK m : m = [l EXCEPT !.joined = @ + 1, !.rough = TRUE] /\ ledger'[q] = m
        BY <2>1, <3>2
      <4> HIDE DEF l, b
      <4>2. Account(b, l) /\ l \in Ledgers /\ b \in Buckets
        BY <3>1 DEF l, b, Account
      <4>3. /\ m \in Ledgers /\ m.joined = l.joined + 1 /\ m.rough /\ m.upto = l.upto /\ m.born = l.born
            /\ m.alone = l.alone /\ m.admitted = l.admitted /\ m.joined # 0
        <5>1. PICK j : j = l.joined + 1 /\ j \in Nat /\ j # 0
          BY <4>2 DEF Ledgers
        <5>2. m = [l EXCEPT !.joined = j, !.rough = TRUE]
          BY <4>1, <5>1
        <5> QED
          BY <4>2, <5>1, <5>2 DEF Ledgers
      <4>4. Whole * m.alone <= Burst * m.joined + Rate * (m.upto - m.born)
        <5>1. PICK a, p, j, t : a = Whole * l.alone /\ p = Burst * l.joined /\ j = Burst * (l.joined + 1) /\ t = Rate * (l.upto - l.born)
          OBVIOUS
        <5>2. a \in Int /\ p \in Int /\ j \in Int /\ t \in Int /\ p <= j
          <6>1. l.joined \in Nat /\ l.alone \in Nat /\ l.upto \in Nat /\ l.born \in Nat /\ Burst \in Nat /\ Whole \in Nat /\ Rate \in Nat
            BY <4>2, PipelineConstants DEF Ledgers
          <6> QED
            BY <5>1, <6>1
        <5>3. a <= (IF l.rough THEN p ELSE j) + t
          BY <4>2, <5>1 DEF Account
        <5> QED
          BY <4>3, <5>1, <5>2, <5>3
      <4>5. Account(b, m)
        BY <4>2, <4>3, <4>4 DEF Account
      <4> QED
        BY <3>2, <4>1, <4>3, <4>5 DEF l, b
    <3>3. CASE ~(met # {} /\ q = key)
      BY <2>1, <3>1, <3>3
    <3> QED
      BY <3>2, <3>3
  <2>3. Accounts'
    <3>1. ASSUME NEW q \in DOMAIN ledger
          PROVE  Account(buckets[q], ledger[q])'
      <4>1. PICK b, l : b = buckets[q] /\ l = ledger'[q] /\ Account(b, l)
        BY <2>2
      <4> QED
        BY <1>3, <4>1 DEF Account
    <3> QED
      BY <1>3, <1>11, <2>1, <3>1 DEF IInv, Accounts
  <2>4. Guesses'
    <3>1. \A u : Admitted(u)' = Admitted(u)
      BY <2>1, <2>2 DEF Admitted
    <3>2. ~torn' => \A u : Admitted(u)' \in Nat /\ Admitted(u) <= Admitted(u)'
      BY <1>3, <3>1, GuessNumbers
    <3> QED
      BY <1>3, <1>8, <3>2, GuessesKept
  <2>5. ASSUME NEW v \in Workers
        PROVE  Loaded(wk[v])'
    <3>1. CASE v = w
      BY <1>4, <1>9, <3>1 DEF Loaded, Pointing
    <3>2. CASE v # w
      <4>1. wk'[v] = wk[v] /\ Loaded(wk[v])
        BY <1>9, <3>2 DEF IInv
      <4>2. wk[v].at \in {"clamp", "cap", "touch"} => wk[v].now <= ledger'[wk[v].key].upto
        BY <1>11, <2>2, <4>1 DEF Loaded, Pointing
      <4> QED
        BY <1>3, <2>1, <4>1, <4>2 DEF Loaded
    <3> QED
      BY <3>1, <3>2
  <2>6. Meetings'
    <3>1. \A v \in Workers : v # w => (v \in met <=> Calls(v, key))
      BY DEF Met, Calls
    <3>2. /\ \A v \in Workers : v # w => \A q : Calls(v, q)' <=> Calls(v, q)
          /\ \A q : Calls(w, q)' <=> q = key
          /\ \A q : ~Calls(w, q)
      BY <1>1, <1>4, <1>9 DEF Calls, Limiting, Pointing
    <3>3. ASSUME NEW u \in Workers, NEW v \in Workers, u # v, wk'[v].at \in Limiting, Calls(u, wk[v].key)'
          PROVE  v \in mixed'
      <4>1. CASE v = w
        <5>1. u \in met
          BY <1>4, <1>9, <3>1, <3>2, <3>3, <4>1
        <5> QED
          BY <1>3, <4>1, <5>1
      <4>2. CASE u = w
        <5>1. wk'[v] = wk[v] /\ wk[v].key = key
          BY <1>9, <3>2, <3>3, <4>2
        <5>2. v \in met
          BY <3>1, <3>3, <4>2, <5>1 DEF Calls
        <5> QED
          BY <1>3, <5>2
      <4>3. CASE v # w /\ u # w
        <5>1. wk'[v] = wk[v] /\ Calls(u, wk[v].key)
          BY <1>9, <3>2, <3>3, <4>3
        <5>2. v \in mixed
          BY <1>11, <3>3, <5>1 DEF IInv, Meetings
        <5> QED
          BY <1>3, <4>3, <5>2
      <4> QED
        BY <4>1, <4>2, <4>3
    <3>4. ASSUME NEW q \in DOMAIN ledger, NEW v \in Workers, Calls(v, q)'
          PROVE  IF v \in mixed' THEN ledger'[q].rough ELSE Lone(wk'[v], buckets[q], ledger'[q])
      <4>1. CASE v = w
        <5>1. q = key
          BY <3>2, <3>4, <4>1
        <5>2. CASE met # {}
          BY <1>3, <2>2, <4>1, <5>1, <5>2
        <5>3. CASE met = {}
          <6>1. \A x \in Workers : ~Calls(x, q)
            BY <3>1, <3>2, <5>1, <5>3
          <6>2. ledger[q].rough \/ Still(buckets[q], ledger[q])
            BY <1>11, <6>1 DEF IInv, Meetings
          <6>3. v \notin mixed' /\ ledger'[q] = ledger[q] /\ ledger[q].upto <= clock
            BY <1>3, <2>1, <2>2, <4>1, <5>3 DEF Account
          <6>4. Lone(r, buckets[q], ledger[q])
            BY <1>4, <6>2, <6>3 DEF Lone
          <6> QED
            BY <1>9, <4>1, <6>3, <6>4
        <5> QED
          BY <5>2, <5>3
      <4>2. CASE v # w
        <5>1. wk'[v] = wk[v] /\ Calls(v, q)
          BY <1>9, <3>2, <3>4, <4>2
        <5>2. IF v \in mixed THEN ledger[q].rough ELSE Lone(wk[v], buckets[q], ledger[q])
          BY <1>11, <5>1 DEF IInv, Meetings
        <5>3. CASE met # {} /\ q = key
          <6>1. v \in met /\ ledger'[q].rough
            BY <2>2, <3>1, <4>2, <5>1, <5>3
          <6> QED
            BY <1>3, <5>3, <6>1
        <5>4. CASE ~(met # {} /\ q = key)
          <6>1. ledger'[q] = ledger[q]
            BY <2>1, <5>4
          <6>2. v \in mixed' <=> v \in mixed
            <7>1. q # key => v \notin met
              BY <5>1 DEF Met, Calls
            <7> QED
              BY <1>3, <4>2, <5>4, <7>1
          <6> QED
            BY <5>1, <5>2, <6>1, <6>2
        <5> QED
          BY <5>3, <5>4
      <4> QED
        BY <4>1, <4>2
    <3>5. ASSUME NEW q \in DOMAIN ledger
          PROVE  \/ ledger'[q].rough \/ Still(buckets[q], ledger'[q])
                 \/ \E v \in Workers : Calls(v, q)'
      <4>1. CASE q = key
        BY <3>2, <4>1
      <4>2. CASE q # key
        <5>1. ledger'[q] = ledger[q]
          BY <2>1, <4>2
        <5>2. \A v \in Workers : Calls(v, q)' <=> Calls(v, q)
          BY <3>2, <4>2
        <5> QED
          BY <1>11, <5>1, <5>2 DEF IInv, Meetings
      <4> QED
        BY <4>1, <4>2
    <3> QED
      BY <1>3, <2>1, <3>3, <3>4, <3>5 DEF Meetings, Lone, Still
  <2> QED
    BY <1>3, <1>9, <2>3, <2>4, <2>5, <2>6 DEF IInv
<1> QED
  BY <1>10, <1>11

\* The bucket is found, or found missing.
LEMMA FindKeeps ==
  ASSUME IInv, NEW w \in Workers, FindBucket(w)
  PROVE  IInv'
<1> DEFINE k == wk[w]
<1>1. k.at = "find" /\ ~torn /\ Placed(k) /\ Charged(k) /\ DOMAIN buckets = DOMAIN ledger /\ DOMAIN k = Fields
  BY DEF FindBucket, Looks, IInv, Accounts, Placed
<1>2. PICK r : r = IF k.key \in DOMAIN buckets THEN [k EXCEPT !.at = "last"]
                   ELSE [k EXCEPT !.at = "make", !.found = DOMAIN buckets]
  OBVIOUS
<1>3. wk' = [wk EXCEPT ![w] = r] /\ UNCHANGED <<opts, clock, guesses, torn, mixed, buckets, ledger>>
  BY <1>2 DEF FindBucket, Looks, Go, Quiet, limit
<1>4. /\ DOMAIN r = Fields /\ r.depth = k.depth /\ r.user = k.user /\ r.req = k.req /\ r.now = k.now /\ r.key = k.key
      /\ \/ r.at = "last" /\ k.key \in DOMAIN buckets
         \/ r.at = "make" /\ k.key \notin DOMAIN buckets /\ r.found = DOMAIN buckets
  BY <1>1, <1>2 DEF Fields
<1> HIDE DEF Chain
<1>5. Placed(r) /\ Charged(r)
  BY <1>1, <1>4 DEF Placed, Charged, Limiting, Pointing, OnDisk, Inbound
<1>6. \A u : Holders(u)' \subseteq Holders(u)
  BY <1>3, <1>4, HoldersKept
<1>7. Guesses'
  <2>1. \A u : Admitted(u)' = Admitted(u)
    BY <1>3 DEF Admitted
  <2>2. ~torn' => \A u : Admitted(u)' \in Nat /\ Admitted(u) <= Admitted(u)'
    BY <1>3, <2>1, GuessNumbers
  <2> QED
    BY <1>3, <1>6, <2>2, GuessesKept
<1>8. Accounts'
  BY <1>3 DEF IInv, Accounts, Account
<1>9. /\ wk' = [v \in Workers |-> wk'[v]] /\ \A v \in Workers : Placed(wk[v])' /\ Charged(wk[v])'
      /\ \A v \in Workers : wk'[v] = IF v = w THEN r ELSE wk[v]
  BY <1>3, <1>5, TasksKept
<1>10. ASSUME NEW v \in Workers
       PROVE  Loaded(wk[v])'
  <2>1. Loaded(r)
    BY <1>1, <1>4 DEF Loaded, Pointing
  <2>2. PICK m : m = wk'[v] /\ Loaded(m)
    BY <1>9, <2>1 DEF IInv
  <2> QED
    BY <1>3, <2>2 DEF Loaded
<1>11. Meetings'
  <2>1. \A v \in Workers : /\ wk'[v].key = wk[v].key /\ (wk'[v].at \in Limiting <=> wk[v].at \in Limiting)
                          /\ \A q : Calls(v, q)' <=> Calls(v, q)
    BY <1>1, <1>4, <1>9 DEF Calls, Limiting, Pointing
  <2>2. ASSUME NEW u \in Workers, NEW v \in Workers, u # v, wk'[v].at \in Limiting, Calls(u, wk[v].key)'
        PROVE  v \in mixed
    BY <1>1, <2>1, <2>2 DEF IInv, Meetings
  <2>3. ASSUME NEW q \in DOMAIN ledger, NEW v \in Workers, Calls(v, q)'
        PROVE  IF v \in mixed THEN ledger[q].rough ELSE Lone(wk'[v], buckets[q], ledger[q])
    <3>1. Calls(v, q)
      BY <2>1, <2>3
    <3>2. IF v \in mixed THEN ledger[q].rough ELSE Lone(wk[v], buckets[q], ledger[q])
      BY <1>1, <3>1 DEF IInv, Meetings
    <3>3. CASE v = w
      <4>1. q = k.key /\ r.at = "last"
        BY <1>1, <1>4, <3>1, <3>3 DEF Calls
      <4>2. Lone(wk[v], buckets[q], ledger[q]) => Lone(r, buckets[q], ledger[q])
        BY <1>1, <1>4, <3>3, <4>1 DEF Lone
      <4> QED
        BY <1>9, <3>2, <3>3, <4>2
    <3>4. CASE v # w
      BY <1>9, <3>2, <3>4
    <3> QED
      BY <3>3, <3>4
  <2>4. ASSUME NEW q \in DOMAIN ledger
        PROVE  \/ ledger[q].rough \/ Still(buckets[q], ledger[q])
               \/ \E v \in Workers : Calls(v, q)'
    BY <1>1, <2>1 DEF IInv, Meetings
  <2> QED
    BY <1>3, <2>2, <2>3, <2>4 DEF Meetings, Lone, Still
<1> QED
  BY <1>3, <1>7, <1>8, <1>9, <1>10, <1>11 DEF IInv

\* The answer of the limiter: on to the next layer, or back with a 429.
LEMMA LimitedTask ==
  ASSUME NEW k, Placed(k), Charged(k), k.at \in Limiting, NEW ok \in BOOLEAN
  PROVE  /\ Placed(Limited(k, ok)) /\ Charged(Limited(k, ok))
         /\ Limited(k, ok).req = k.req /\ Limited(k, ok).at = IF ok THEN "down" ELSE "up"
         /\ ok => Limited(k, ok).depth = k.depth + 1
<1> DEFINE r == Limited(k, ok)
<1>1. DOMAIN k = Fields /\ k.depth \in 1 .. Len(Chain) /\ Chain[k.depth] = "rate"
  BY DEF Placed
<1>2. /\ DOMAIN r = Fields /\ r.req = k.req /\ r.at = IF ok THEN "down" ELSE "up"
      /\ r.depth = IF ok THEN k.depth + 1 ELSE k.depth - 1
  <2>1. CASE ok
    BY <1>1, <2>1 DEF Limited, Stamp, Next1, Fields
  <2>2. CASE ~ok
    BY <1>1, <2>2 DEF Limited, Stamp, Answer, Back, Fields
  <2> QED
    BY <2>1, <2>2
<1> HIDE DEF Chain, r
<1>3. Placed(r)
  BY <1>1, <1>2 DEF Placed, Limiting, Pointing, OnDisk, Inbound
<1>4. Charged(r)
  <2>1. ASSUME ok, NEW i \in 1 .. Len(Chain), Chain[i] = "rate"
        PROVE  ~(r.depth <= i)
    <3>1. i = k.depth
      BY <1>1, <2>1, ChainOnce
    <3> QED
      BY <1>2, <2>1, <3>1
  <2> QED
    BY <1>2, <2>1 DEF Charged, Limiting, Pointing
<1> QED
  BY <1>2, <1>3, <1>4 DEF r

\* A corrupt array says anything, and nothing is claimed of it any more.
LEMMA CorruptKeeps ==
  ASSUME IInv, NEW w \in Workers, Corrupt(w)
  PROVE  IInv'
<1>1. PICK ok \in BOOLEAN : wk' = [wk EXCEPT ![w] = Limited(wk[w], ok)]
  BY DEF Corrupt, Go
<1>2. UNCHANGED <<opts, clock, guesses, torn>> /\ torn /\ wk[w].at \in Limiting
  BY DEF Corrupt, Quiet, limit
<1>3. PICK r : r = Limited(wk[w], ok)
  OBVIOUS
<1> HIDE DEF Chain
<1>4. Placed(r) /\ Charged(r)
  BY <1>2, <1>3, LimitedTask DEF IInv
<1>5. /\ wk' = [v \in Workers |-> wk'[v]] /\ \A v \in Workers : Placed(wk[v])' /\ Charged(wk[v])'
  BY <1>1, <1>2, <1>3, <1>4, TasksKept
<1>6. Guesses' /\ Accounts' /\ Meetings' /\ \A v \in Workers : Loaded(wk[v])'
  BY <1>2 DEF IInv, Guesses, Accounts, Meetings, Loaded
<1> QED
  BY <1>2, <1>5, <1>6 DEF IInv

\* An account is opened for a new bucket, or the array is torn.
LEMMA BucketForKeeps ==
  ASSUME IInv, NEW w \in Workers, bucket_for(w)
  PROVE  IInv'
<1> DEFINE k == wk[w]
<1>1. /\ k.at = "make" /\ ~torn /\ Placed(k) /\ Charged(k) /\ Loaded(k) /\ DOMAIN k = Fields /\ k.now \in 0 .. clock
      /\ clock \in Nat
  BY DEF bucket_for, IInv, Placed, Charged, Limiting
<1>2. PICK r : r = [k EXCEPT !.at = "last"]
  OBVIOUS
<1>3. wk' = [wk EXCEPT ![w] = r] /\ UNCHANGED <<opts, clock, guesses, mixed>>
  BY <1>2 DEF bucket_for, Go, Quiet
<1>4. /\ DOMAIN r = Fields /\ r.depth = k.depth /\ r.user = k.user /\ r.req = k.req /\ r.now = k.now /\ r.key = k.key
      /\ r.at = "last"
  BY <1>1, <1>2 DEF Fields
<1> HIDE DEF Chain
<1>5. Placed(r) /\ Charged(r)
  BY <1>1, <1>4 DEF Placed, Charged, Limiting, Pointing, OnDisk, Inbound
<1>6. \A u : Holders(u)' \subseteq Holders(u)
  BY <1>3, <1>4, HoldersKept
<1>7. /\ wk' = [v \in Workers |-> wk'[v]] /\ \A v \in Workers : Placed(wk[v])' /\ Charged(wk[v])'
      /\ \A v \in Workers : wk'[v] = IF v = w THEN r ELSE wk[v]
  BY <1>3, <1>5, TasksKept
<1> DEFINE b == [tokens |-> Burst, last |-> k.now]
           l == [born |-> k.now, upto |-> k.now, admitted |-> 0, alone |-> 0,
                 joined |-> IF w \in mixed THEN 1 ELSE 0, rough |-> w \in mixed]
<1>8. \/ torn' = TRUE
      \/ k.found = DOMAIN buckets /\ buckets' = Set(buckets, k.key, b) /\ ledger' = Set(ledger, k.key, l) /\ torn' = torn
  BY DEF bucket_for
<1>9. CASE torn' = TRUE
  <2>1. Guesses' /\ Accounts' /\ Meetings' /\ \A v \in Workers : Loaded(wk[v])'
    BY <1>3, <1>9 DEF IInv, Guesses, Accounts, Meetings, Loaded
  <2> QED
    BY <1>3, <1>7, <1>9, <2>1 DEF IInv
<1>10. CASE /\ k.found = DOMAIN buckets /\ torn' = torn
            /\ buckets' = Set(buckets, k.key, b) /\ ledger' = Set(ledger, k.key, l)
  <2>2. DOMAIN buckets = DOMAIN ledger /\ k.key \notin DOMAIN ledger
    BY <1>1, <1>10 DEF IInv, Accounts, Loaded
  <2>3. /\ Account(b, l) /\ Still(b, l) /\ l.upto = k.now /\ l.admitted = 0 /\ (w \in mixed => l.rough)
        /\ b.tokens = Burst /\ b.last = k.now
    <3>1. Burst \in Nat /\ Rate \in Nat /\ Whole \in Nat /\ k.now \in Nat /\ k.now <= clock
      BY <1>1, PipelineConstants
    <3>2. b \in Buckets /\ l \in Ledgers
      BY <3>1 DEF Buckets, Ledgers
    <3>3. CASE w \in mixed
      <4>1. /\ l.joined = 1 /\ l.rough /\ l.upto = k.now /\ l.born = k.now /\ l.alone = 0 /\ l.admitted = 0
            /\ b.tokens = Burst /\ b.last = k.now
        BY <3>3
      <4> HIDE DEF l, b
      <4>2. Whole * 0 = 0 /\ Burst * 1 = Burst /\ Rate * (k.now - k.now) = 0
        BY <3>1
      <4> QED
        BY <3>1, <3>2, <4>1, <4>2 DEF Account, Still
    <3>4. CASE w \notin mixed
      <4>1. /\ l.joined = 0 /\ ~l.rough /\ l.upto = k.now /\ l.born = k.now /\ l.alone = 0 /\ l.admitted = 0
            /\ b.tokens = Burst /\ b.last = k.now
        BY <3>4
      <4> HIDE DEF l, b
      <4>2. Whole * 0 = 0 /\ Burst * (0 + 1) = Burst /\ Rate * (k.now - k.now) = 0
        BY <3>1
      <4> QED
        BY <3>1, <3>2, <3>4, <4>1, <4>2 DEF Account, Still
    <3> QED
      BY <3>3, <3>4
  <2> HIDE DEF b, l
  <2>4. /\ DOMAIN ledger' = DOMAIN ledger \cup {k.key} /\ DOMAIN buckets' = DOMAIN ledger'
        /\ ledger'[k.key] = l /\ buckets'[k.key] = b
        /\ \A q \in DOMAIN ledger : ledger'[q] = ledger[q] /\ buckets'[q] = buckets[q]
        /\ ledger' = [q \in DOMAIN ledger' |-> ledger'[q]] /\ buckets' = [q \in DOMAIN ledger' |-> buckets'[q]]
    BY <1>10, <2>2 DEF Set
  <2>5. Accounts'
    <3>1. ASSUME NEW q \in DOMAIN ledger'
          PROVE  Account(buckets[q], ledger[q])'
      <4>1. PICK c, m : c = buckets'[q] /\ m = ledger'[q] /\ Account(c, m)
        <5>1. CASE q = k.key
          BY <2>3, <2>4, <5>1
        <5>2. CASE q # k.key
          BY <1>1, <2>4, <5>2 DEF IInv, Accounts
        <5> QED
          BY <5>1, <5>2
      <4> QED
        BY <1>3, <4>1 DEF Account
    <3> QED
      BY <2>4, <3>1 DEF Accounts
  <2>6. ASSUME NEW v \in Workers
        PROVE  Loaded(wk[v])'
    <3>1. CASE v = w
      BY <1>4, <1>7, <2>4, <3>1 DEF Loaded, Pointing
    <3>2. CASE v # w
      <4>1. wk'[v] = wk[v] /\ Loaded(wk[v])
        BY <1>7, <3>2 DEF IInv
      <4>2. wk[v].at \in Pointing => wk[v].key \in DOMAIN ledger /\ ledger'[wk[v].key] = ledger[wk[v].key] /\ wk[v].key \in DOMAIN ledger'
        BY <1>1, <2>4, <4>1 DEF Loaded
      <4> QED
        BY <1>1, <1>10, <4>1, <4>2 DEF Loaded, Pointing
    <3> QED
      BY <3>1, <3>2
  <2>7. Guesses'
    <3>1. ASSUME NEW u
          PROVE  Admitted(u)' = Admitted(u) /\ Admitted(u) \in Nat
      <4>1. Admitted(u) \in Nat
        BY <1>1, GuessNumbers
      <4> QED
        BY <2>2, <2>3, <2>4, <4>1 DEF Admitted
    <3>2. ~torn' => \A u : Admitted(u)' \in Nat /\ Admitted(u) <= Admitted(u)'
      BY <3>1
    <3> QED
      BY <1>3, <1>6, <1>10, <3>2, GuessesKept
  <2>8. Meetings'
    <3>1. \A v \in Workers : /\ wk'[v].key = wk[v].key /\ (wk'[v].at \in Limiting <=> wk[v].at \in Limiting)
                            /\ \A q : Calls(v, q)' <=> Calls(v, q)
      BY <1>1, <1>4, <1>7 DEF Calls, Limiting, Pointing
    <3>2. ASSUME NEW u \in Workers, NEW v \in Workers, u # v, wk'[v].at \in Limiting, Calls(u, wk[v].key)'
          PROVE  v \in mixed
      BY <1>1, <3>1, <3>2 DEF IInv, Meetings
    <3>3. ASSUME NEW q \in DOMAIN ledger', NEW v \in Workers, Calls(v, q)'
          PROVE  IF v \in mixed THEN ledger'[q].rough ELSE Lone(wk'[v], buckets'[q], ledger'[q])
      <4>1. Calls(v, q)
        BY <3>1, <3>3
      <4>2. CASE q # k.key
        <5>1. q \in DOMAIN ledger /\ v # w
          BY <2>4, <4>1, <4>2 DEF Calls
        <5> QED
          BY <1>1, <1>7, <2>4, <4>1, <5>1 DEF IInv, Meetings
      <4>3. CASE q = k.key /\ v = w
        <5>1. Lone(r, b, l)
          BY <1>1, <1>4, <2>3 DEF Lone
        <5> QED
          BY <1>7, <2>3, <2>4, <4>3, <5>1
      <4>4. CASE q = k.key /\ v # w
        <5>1. v \in mixed /\ w \in mixed
          BY <1>1, <4>1, <4>4 DEF IInv, Meetings, Calls, Limiting
        <5> QED
          BY <2>3, <2>4, <4>4, <5>1
      <4> QED
        BY <4>2, <4>3, <4>4
    <3>4. ASSUME NEW q \in DOMAIN ledger'
          PROVE  \/ ledger'[q].rough \/ Still(buckets'[q], ledger'[q])
                 \/ \E v \in Workers : Calls(v, q)'
      <4>1. CASE q # k.key
        <5>1. q \in DOMAIN ledger /\ ledger'[q] = ledger[q] /\ buckets'[q] = buckets[q]
          BY <2>4, <4>1
        <5> QED
          BY <1>1, <3>1, <5>1 DEF IInv, Meetings
      <4>2. CASE q = k.key
        BY <2>3, <2>4, <4>2
      <4> QED
        BY <4>1, <4>2
    <3> QED
      BY <1>3, <3>2, <3>3, <3>4 DEF Meetings, Lone, Still
  <2> QED
    BY <1>1, <1>3, <1>7, <1>10, <2>5, <2>6, <2>7, <2>8 DEF IInv
<1> QED
  BY <1>8, <1>9, <1>10

\* A step of a worker that has a pointer: it leaves b in the bucket, l in the account
\* and goes on with r.  Other calls on its key have met it.
LEMMA CallKeeps ==
  ASSUME IInv, ~torn, NEW w \in Workers, wk[w].at \in Pointing, NEW key, key = wk[w].key, NEW r, NEW b, NEW l,
         wk' = [wk EXCEPT ![w] = r], buckets' = [buckets EXCEPT ![key] = b], ledger' = [ledger EXCEPT ![key] = l],
         UNCHANGED <<opts, clock, guesses, torn, mixed>>,
         Account(b, l), ledger[key].upto <= l.upto, w \in mixed /\ ledger[key].rough => l.rough,
         Placed(r), Charged(r), r.at \notin {"find", "make"}, r.at \in Pointing => r.key = key,
         r.at \in {"load", "refill"} => r.dt \in Int, r.at \in {"refill", "store"} => r.seen \in Int,
         r.at \in {"clamp", "cap", "touch"} => r.now <= l.upto,
         w \notin mixed => IF r.at \in Pointing THEN Lone(r, b, l) ELSE l.rough \/ Still(b, l),
         Guesses'
  PROVE  IInv'
<1> HIDE DEF Chain
<1>1. /\ key \in DOMAIN ledger /\ Loaded(wk[w])
      /\ buckets = [q \in DOMAIN ledger |-> buckets[q]] /\ ledger = [q \in DOMAIN ledger |-> ledger[q]]
  BY DEF IInv, Loaded, Accounts
<1>2. /\ DOMAIN ledger' = DOMAIN ledger /\ DOMAIN buckets' = DOMAIN ledger /\ ledger'[key] = l /\ buckets'[key] = b
      /\ \A q \in DOMAIN ledger : q # key => ledger'[q] = ledger[q] /\ buckets'[q] = buckets[q]
      /\ ledger' = [q \in DOMAIN ledger' |-> ledger'[q]] /\ buckets' = [q \in DOMAIN ledger' |-> buckets'[q]]
  BY <1>1
<1>3. /\ wk' = [v \in Workers |-> wk'[v]] /\ \A v \in Workers : Placed(wk[v])' /\ Charged(wk[v])'
      /\ \A v \in Workers : wk'[v] = IF v = w THEN r ELSE wk[v]
  BY TasksKept
<1>4. Accounts'
  <2>1. ASSUME NEW q \in DOMAIN ledger'
        PROVE  Account(buckets[q], ledger[q])'
    <3>1. PICK c, m : c = buckets'[q] /\ m = ledger'[q] /\ Account(c, m)
      <4>1. CASE q = key
        BY <1>2, <4>1
      <4>2. CASE q # key
        BY <1>2, <4>2 DEF IInv, Accounts
      <4> QED
        BY <4>1, <4>2
    <3> QED
      BY <3>1 DEF Account
  <2> QED
    BY <1>2, <2>1 DEF Accounts
<1>5. ASSUME NEW v \in Workers
      PROVE  Loaded(wk[v])'
  <2>1. CASE v = w
    BY <1>1, <1>2, <1>3, <2>1 DEF Loaded, Pointing
  <2>2. CASE v # w
    <3>1. PICK k : k = wk[v] /\ k = wk'[v] /\ Loaded(k)
      BY <1>3, <2>2 DEF IInv
    <3>2. ASSUME k.at \in {"clamp", "cap", "touch"}
          PROVE  k.now <= ledger'[k.key].upto
      <4>1. k.key \in DOMAIN ledger /\ k.now <= ledger[k.key].upto
        BY <3>1, <3>2 DEF Loaded, Pointing
      <4>2. CASE k.key = key
        <5>1. k.now \in Int
          BY <3>1, <3>2 DEF IInv, Charged, Limiting, Pointing
        <5>2. ledger[key].upto \in Int /\ l.upto \in Int
          BY <1>1 DEF IInv, Accounts, Account, Ledgers
        <5>3. ledger'[k.key] = l /\ k.now <= ledger[key].upto /\ ledger[key].upto <= l.upto
          BY <1>2, <4>1, <4>2
        <5> QED
          BY <5>1, <5>2, <5>3
      <4>3. CASE k.key # key
        BY <1>2, <4>1, <4>3
      <4> QED
        BY <4>2, <4>3
    <3> QED
      BY <1>2, <3>1, <3>2 DEF Loaded
  <2> QED
    BY <2>1, <2>2
<1>6. Meetings'
  <2>1. wk[w].at \in Limiting /\ (r.at \in Limiting <=> r.at \in Pointing)
    BY DEF Limiting
  <2>2. /\ \A v \in Workers : v # w => \A q : Calls(v, q)' <=> Calls(v, q)
        /\ \A q : Calls(w, q)' => q = key /\ r.at \in Pointing
        /\ Calls(w, key) /\ \A q : Calls(w, q) => q = key
        /\ r.at \in Pointing => Calls(w, key)'
    BY <1>3, <2>1 DEF Calls
  <2>3. \A v \in Workers : v # w /\ Calls(v, key) => v \in mixed /\ w \in mixed
    <3> SUFFICES ASSUME NEW v \in Workers, v # w, Calls(v, key)
                 PROVE  v \in mixed /\ w \in mixed
      OBVIOUS
    <3>1. wk[v].at \in Limiting /\ wk[v].key = key
      BY DEF Calls
    <3> QED
      BY <2>1, <2>2, <3>1 DEF IInv, Meetings
  <2>4. ASSUME NEW u \in Workers, NEW v \in Workers, u # v, wk'[v].at \in Limiting, Calls(u, wk[v].key)'
        PROVE  v \in mixed
    <3>1. CASE v = w
      <4>1. wk'[v].key = key
        BY <1>3, <2>1, <2>4, <3>1
      <4> QED
        BY <2>2, <2>3, <2>4, <3>1, <4>1
    <3>2. CASE u = w
      <4>1. wk'[v] = wk[v] /\ wk[v].key = key
        BY <1>3, <2>2, <2>4, <3>2
      <4> QED
        BY <2>3, <2>4, <3>2, <4>1 DEF Calls
    <3>3. CASE u # w /\ v # w
      <4>1. wk'[v] = wk[v] /\ Calls(u, wk[v].key)
        BY <1>3, <2>2, <2>4, <3>3
      <4> QED
        BY <2>4, <4>1 DEF IInv, Meetings
    <3> QED
      BY <3>1, <3>2, <3>3
  <2>5. w \in mixed => ledger[key].rough
    BY <1>1, <2>2 DEF IInv, Meetings
  <2>6. ASSUME NEW q \in DOMAIN ledger, NEW v \in Workers, Calls(v, q)'
        PROVE  IF v \in mixed THEN ledger'[q].rough ELSE Lone(wk'[v], buckets'[q], ledger'[q])
    <3>1. CASE q # key
      <4>1. v # w /\ Calls(v, q) /\ wk'[v] = wk[v]
        BY <1>3, <2>2, <2>6, <3>1
      <4> QED
        BY <1>2, <3>1, <4>1 DEF IInv, Meetings
    <3>2. CASE q = key /\ v = w
      BY <1>2, <1>3, <2>2, <2>5, <2>6, <3>2
    <3>3. CASE q = key /\ v # w
      BY <1>2, <2>2, <2>3, <2>5, <2>6, <3>3
    <3> QED
      BY <3>1, <3>2, <3>3
  <2>7. ASSUME NEW q \in DOMAIN ledger
        PROVE  \/ ledger'[q].rough \/ Still(buckets'[q], ledger'[q])
               \/ \E v \in Workers : Calls(v, q)'
    <3>1. CASE q # key
      <4>1. \A v \in Workers : Calls(v, q) => Calls(v, q)'
        BY <2>2, <3>1
      <4>2. \/ ledger[q].rough \/ Still(buckets[q], ledger[q])
            \/ \E v \in Workers : Calls(v, q)
        BY DEF IInv, Meetings
      <4> QED
        BY <1>2, <3>1, <4>1, <4>2
    <3>2. CASE q = key
      BY <1>2, <2>2, <2>5, <3>2
    <3> QED
      BY <3>1, <3>2
  <2> QED
    BY <1>2, <2>4, <2>6, <2>7 DEF Meetings, Lone, Still
<1> QED
  BY <1>3, <1>4, <1>5, <1>6 DEF IInv

\* A step inside the call, that admits nobody.
LEMMA StepKeeps ==
  ASSUME IInv, ~torn, NEW w \in Workers, wk[w].at \in Pointing, NEW key, key = wk[w].key, NEW r, NEW b, NEW l,
         wk' = [wk EXCEPT ![w] = r], buckets' = [buckets EXCEPT ![key] = b], ledger' = [ledger EXCEPT ![key] = l],
         UNCHANGED <<opts, clock, guesses, torn, mixed>>,
         Account(b, l), ledger[key].upto <= l.upto, w \in mixed /\ ledger[key].rough => l.rough,
         l.admitted = ledger[key].admitted,
         DOMAIN r = Fields, r.at \in Pointing, r.depth = wk[w].depth, r.user = wk[w].user, r.req = wk[w].req,
         r.key = key, r.now = wk[w].now,
         r.at \in {"load", "refill"} => r.dt \in Int, r.at \in {"refill", "store"} => r.seen \in Int,
         r.at \in {"clamp", "cap", "touch"} => r.now <= l.upto,
         w \notin mixed => Lone(r, b, l)
  PROVE  IInv'
<1> HIDE DEF Chain
<1>1. Placed(wk[w]) /\ Charged(wk[w]) /\ wk[w].at \in Limiting /\ r.at \in Limiting
  BY DEF IInv, Limiting
<1>2. Placed(r) /\ Charged(r)
  BY <1>1 DEF Placed, Charged, Limiting, Pointing, OnDisk, Inbound
<1>3. key \in DOMAIN ledger /\ ledger = [q \in DOMAIN ledger |-> ledger[q]]
  BY DEF IInv, Loaded, Accounts
<1>4. \A u : Holders(u)' \subseteq Holders(u)
  <2>1. r.at # "down"
    BY DEF Pointing
  <2> QED
    BY <2>1, HoldersKept
<1>5. Guesses'
  <2>1. \A u : Admitted(u)' = Admitted(u)
    BY <1>3 DEF Admitted
  <2>2. ~torn' => \A u : Admitted(u)' \in Nat /\ Admitted(u) <= Admitted(u)'
    BY <2>1, GuessNumbers
  <2> QED
    BY <1>4, <2>2, GuessesKept
<1>6. r.at \notin {"find", "make"}
  BY DEF Pointing
<1> QED
  BY <1>2, <1>5, <1>6, CallKeeps

\* What a worker with a pointer has before it.
LEMMA InCall ==
  ASSUME IInv, ~torn, NEW w \in Workers, wk[w].at \in Pointing
  PROVE  LET key == wk[w].key
         IN  /\ key \in DOMAIN ledger /\ DOMAIN wk[w] = Fields /\ wk[w].now \in 0 .. clock /\ clock \in Nat
             /\ Account(buckets[key], ledger[key]) /\ buckets[key] \in Buckets /\ ledger[key] \in Ledgers
             /\ Loaded(wk[w]) /\ clock < Wide /\ Wide \in Nat
             /\ IF w \in mixed THEN ledger[key].rough ELSE Lone(wk[w], buckets[key], ledger[key])
             /\ buckets = [buckets EXCEPT ![key] = buckets[key]] /\ ledger = [ledger EXCEPT ![key] = ledger[key]]
<1> DEFINE key == wk[w].key
<1>1. wk[w].at \in Limiting /\ Loaded(wk[w]) /\ Placed(wk[w]) /\ Charged(wk[w])
  BY DEF IInv, Limiting
<1>2. key \in DOMAIN ledger
  BY <1>1 DEF Loaded
<1>3. /\ Account(buckets[key], ledger[key]) /\ buckets[key] \in Buckets /\ ledger[key] \in Ledgers
      /\ buckets = [q \in DOMAIN ledger |-> buckets[q]] /\ ledger = [q \in DOMAIN ledger |-> ledger[q]]
  BY <1>2 DEF IInv, Accounts, Account
<1>4. clock \in Nat /\ clock < Wide /\ Wide \in Nat
  <2>1. opts \in Options /\ clock \in Nat /\ clock <= opts.ticks
    BY DEF IInv
  <2>2. Wide \in Nat /\ \A o \in Options : o.ticks \in 0 .. Wide - 1
    BY PipelineConstants
  <2>3. PICK t : t = opts.ticks /\ t \in 0 .. Wide - 1 /\ clock <= t
    BY <2>1, <2>2
  <2> QED
    BY <2>1, <2>2, <2>3
<1>5. Calls(w, key)
  BY <1>1 DEF Calls
<1>6. IF w \in mixed THEN ledger[key].rough ELSE Lone(wk[w], buckets[key], ledger[key])
  BY <1>2, <1>5 DEF IInv, Meetings
<1>7. buckets = [buckets EXCEPT ![key] = buckets[key]] /\ ledger = [ledger EXCEPT ![key] = ledger[key]]
  BY <1>2, <1>3
<1> QED
  BY <1>1, <1>2, <1>3, <1>4, <1>6, <1>7 DEF Placed, Charged

\* Sums and products.
LEMMA Distributes ==
  ASSUME NEW a \in Nat, NEW x \in Int, NEW d \in Nat
  PROVE  a * (x + d) = a * x + a * d /\ a * d \in Nat /\ a * x \in Int /\ a * (x + d) \in Int
OBVIOUS


\* A worker that only looks at its bucket.
LEMMA LookKeeps ==
  ASSUME IInv, NEW w \in Workers, wk[w].at \in Pointing, NEW r, Looks(w, r),
         DOMAIN r = Fields, r.at \in Pointing, r.depth = wk[w].depth, r.user = wk[w].user, r.req = wk[w].req,
         r.key = wk[w].key, r.now = wk[w].now,
         r.at \in {"load", "refill"} => r.dt \in Int, r.at \in {"refill", "store"} => r.seen \in Int,
         r.at \in {"clamp", "cap", "touch"} => r.now <= ledger[wk[w].key].upto,
         w \notin mixed => Lone(r, buckets[wk[w].key], ledger[wk[w].key])
  PROVE  IInv'
<1>1. PICK key, b, l : key = wk[w].key /\ b = buckets[key] /\ l = ledger[key]
  OBVIOUS
<1>2. wk' = [wk EXCEPT ![w] = r] /\ UNCHANGED <<opts, clock, guesses, torn, mixed>> /\ ~torn
  BY DEF Looks, Go, Quiet, limit
<1>3. /\ buckets' = [buckets EXCEPT ![key] = b] /\ ledger' = [ledger EXCEPT ![key] = l]
      /\ Account(b, l) /\ l \in Ledgers
  <2>1. buckets' = buckets /\ ledger' = ledger
    BY DEF Looks, limit
  <2> QED
    BY <1>1, <1>2, <2>1, InCall
<1>4. ledger[key].upto <= l.upto /\ l.admitted = ledger[key].admitted /\ (w \in mixed /\ ledger[key].rough => l.rough)
  BY <1>1, <1>3 DEF Ledgers
<1>5. /\ r.key = key /\ (r.at \in {"clamp", "cap", "touch"} => r.now <= l.upto)
      /\ w \notin mixed => Lone(r, b, l)
  BY <1>1
<1> QED
  BY <1>1, <1>2, <1>3, <1>4, <1>5, StepKeeps

\* The time a call counts is what has passed since the bucket was touched, if no other
\* call touched it meanwhile.
LEMMA TestsLastKeeps ==
  ASSUME IInv, NEW w \in Workers, TestsLast(w)
  PROVE  IInv'
<1> DEFINE k == wk[w]
           b == buckets[k.key]
           l == ledger[k.key]
<1>1. k.at = "last" /\ k.at \in Pointing /\ ~torn
  BY DEF TestsLast, Looks, Pointing
<1>2. /\ DOMAIN k = Fields /\ k.now \in Nat /\ Account(b, l) /\ b \in Buckets /\ l \in Ledgers
      /\ w \notin mixed => Lone(k, b, l)
  BY <1>1, InCall
<1>3. PICK r : /\ Looks(w, r)
               /\ r = IF k.now > b.last THEN [k EXCEPT !.at = "delta"] ELSE [k EXCEPT !.at = "load", !.dt = 0]
  BY DEF TestsLast
<1>4. /\ DOMAIN r = Fields /\ r.depth = k.depth /\ r.user = k.user /\ r.req = k.req /\ r.key = k.key /\ r.now = k.now
      /\ \/ r.at = "delta" /\ k.now > b.last
         \/ r.at = "load" /\ r.dt = 0 /\ ~(k.now > b.last)
  BY <1>2, <1>3 DEF Fields
<1>5. w \notin mixed => Lone(r, b, l)
  <2> HIDE DEF k, b, l
  <2>1. b.last \in Nat /\ l.upto \in Nat /\ b.last <= l.upto
    BY <1>2 DEF Account, Buckets, Ledgers
  <2>2. ASSUME w \notin mixed
        PROVE  Lone(r, b, l)
    <3>1. l.upto <= k.now /\ (l.rough \/ Still(b, l))
      BY <1>1, <1>2, <2>2 DEF Lone
    <3>2. r.at = "load" => r.dt = k.now - l.upto
      BY <1>2, <1>4, <2>1, <3>1
    <3>3. r.at = "delta" => b.last < k.now
      BY <1>2, <1>4, <2>1
    <3> QED
      BY <1>4, <3>1, <3>2, <3>3 DEF Lone
  <2> QED
    BY <2>2
<1>6. /\ r.at \in Pointing /\ (r.at \in {"load", "refill"} => r.dt \in Int)
      /\ r.at \notin {"refill", "store"} /\ r.at \notin {"clamp", "cap", "touch"}
  BY <1>4 DEF Pointing
<1> QED
  BY <1>1, <1>3, <1>4, <1>5, <1>6, LookKeeps

LEMMA ReadsLastKeeps ==
  ASSUME IInv, NEW w \in Workers, ReadsLast(w)
  PROVE  IInv'
<1> DEFINE k == wk[w]
           b == buckets[k.key]
           l == ledger[k.key]
<1>1. k.at = "delta" /\ k.at \in Pointing /\ ~torn
  BY DEF ReadsLast, Looks, Pointing
<1>2. /\ DOMAIN k = Fields /\ k.now \in 0 .. clock /\ clock \in Nat /\ clock < Wide /\ Wide \in Nat
      /\ Account(b, l) /\ b \in Buckets /\ l \in Ledgers
      /\ w \notin mixed => Lone(k, b, l)
  BY <1>1, InCall
<1>3. PICK r, d : Looks(w, r) /\ d = (k.now - b.last) % Wide /\ r = [k EXCEPT !.at = "load", !.dt = d]
  BY DEF ReadsLast
<1>4. /\ DOMAIN r = Fields /\ r.depth = k.depth /\ r.user = k.user /\ r.req = k.req /\ r.key = k.key /\ r.now = k.now
      /\ r.at = "load" /\ r.dt = d
  BY <1>2, <1>3 DEF Fields
<1>5. d \in Int /\ (b.last < k.now => d = k.now - b.last)
  <2> HIDE DEF k, b, l
  <2>1. PICK x : x = k.now - b.last /\ x \in Int /\ d = x % Wide /\ (b.last < k.now => x \in 0 .. Wide - 1)
    BY <1>2, <1>3 DEF Buckets
  <2>2. Wide > 0
    BY <1>2
  <2> QED
    BY <1>2, <2>1, <2>2
<1>6. w \notin mixed => Lone(r, b, l)
  <2> HIDE DEF k, b, l
  <2>1. ASSUME w \notin mixed
        PROVE  Lone(r, b, l)
    <3>1. l.upto <= k.now /\ (l.rough \/ Still(b, l)) /\ b.last < k.now
      BY <1>1, <1>2, <2>1 DEF Lone
    <3>2. l.rough \/ r.dt = k.now - l.upto
      BY <1>4, <1>5, <3>1 DEF Still
    <3> QED
      BY <1>4, <3>1, <3>2 DEF Lone
  <2> QED
    BY <2>1
<1>7. r.at \in Pointing
  BY <1>4 DEF Pointing
<1> QED
  BY <1>1, <1>3, <1>4, <1>5, <1>6, <1>7, LookKeeps

\* The tokens are loaded, for the refill or for the debit.
LEMMA LoadsTokensKeeps ==
  ASSUME IInv, NEW w \in Workers, LoadsTokens(w) \/ LoadsAgain(w)
  PROVE  IInv'
<1> DEFINE k == wk[w]
           b == buckets[k.key]
           l == ledger[k.key]
<1>1. k.at \in {"load", "debit"} /\ k.at \in Pointing /\ ~torn
  BY DEF LoadsTokens, LoadsAgain, Looks, Pointing
<1>2. /\ DOMAIN k = Fields /\ Account(b, l) /\ b \in Buckets /\ l \in Ledgers /\ Loaded(k)
      /\ w \notin mixed => Lone(k, b, l)
  BY <1>1, InCall
<1>3. PICK r : /\ Looks(w, r)
               /\ \/ k.at = "load" /\ r = [k EXCEPT !.at = "refill", !.seen = b.tokens]
                  \/ k.at = "debit" /\ r = [k EXCEPT !.at = "store", !.seen = b.tokens]
  BY DEF LoadsTokens, LoadsAgain
<1>4. /\ DOMAIN r = Fields /\ r.depth = k.depth /\ r.user = k.user /\ r.req = k.req /\ r.key = k.key /\ r.now = k.now
      /\ r.dt = k.dt /\ r.seen = b.tokens
      /\ (k.at = "load" /\ r.at = "refill") \/ (k.at = "debit" /\ r.at = "store")
  BY <1>2, <1>3 DEF Fields
<1>5. r.seen \in Int /\ (r.at = "refill" => r.dt \in Int)
  BY <1>1, <1>2, <1>4 DEF Buckets, Loaded
<1>6. w \notin mixed => Lone(r, b, l)
  <2> HIDE DEF k, b, l
  <2> QED
    BY <1>2, <1>4 DEF Lone
<1>7. r.at \in Pointing
  BY <1>4 DEF Pointing
<1> QED
  BY <1>1, <1>3, <1>4, <1>5, <1>6, <1>7, LookKeeps

\* Sums in an account.
LEMMA Sums ==
  ASSUME NEW l \in Ledgers
  PROVE  /\ Whole * l.alone \in Int /\ Burst * l.joined \in Int /\ Burst * (l.joined + 1) \in Int
         /\ Burst * (l.joined + 1) = Burst * l.joined + Burst /\ Rate * (l.upto - l.born) \in Int
         /\ Whole * (l.alone + 1) = Whole * l.alone + Whole /\ Burst \in Nat /\ Whole \in Nat /\ Rate \in Nat
<1>1. /\ l.alone \in Nat /\ l.joined \in Nat /\ l.upto \in Nat /\ l.born \in Nat
      /\ Burst \in Nat /\ Whole \in Nat /\ Rate \in Nat
  BY PipelineConstants DEF Ledgers
<1>2. /\ Burst * (l.joined + 1) = Burst * l.joined + Burst * 1 /\ Whole * (l.alone + 1) = Whole * l.alone + Whole * 1
      /\ Burst * 1 = Burst /\ Whole * 1 = Whole
  BY <1>1, Distributes
<1> QED
  BY <1>1, <1>2

\* A refill puts time into the account that had not been put in before, unless the
\* bucket is rough.
LEMMA RefillAccount ==
  ASSUME NEW b, NEW l, Account(b, l), clock \in Nat, NEW c \in Buckets, NEW m \in Ledgers,
         m.born = l.born, m.alone = l.alone, m.admitted = l.admitted, m.joined = l.joined, m.rough = l.rough,
         l.upto <= m.upto, m.upto <= clock, c.last = b.last,
         l.rough \/ c.tokens = b.tokens + Rate * (m.upto - l.upto)
  PROVE  Account(c, m)
<1>1. PICK d : d = m.upto - l.upto
  OBVIOUS
<1>2. b \in Buckets /\ l \in Ledgers /\ c.tokens \in Int
  BY DEF Account, Buckets
<1>3. d \in Nat
  BY <1>1, <1>2 DEF Ledgers
<1>7. PICK x, y : x = Rate * (l.upto - l.born) /\ y = Rate * d
  OBVIOUS
<1>8. Rate * (m.upto - m.born) = x + y /\ x \in Int /\ y \in Nat
  <2>1. l.upto - l.born \in Int /\ m.upto - m.born = (l.upto - l.born) + d
    BY <1>1, <1>2, <1>3 DEF Ledgers
  <2>2. Rate \in Nat
    BY PipelineConstants
  <2> QED
    BY <1>3, <1>7, <2>1, <2>2, Distributes
<1>9. PICK a, p, q : a = Whole * l.alone /\ p = Burst * l.joined /\ q = Burst * (l.joined + 1)
  OBVIOUS
<1>10. a \in Int /\ p \in Int /\ q \in Int
  BY <1>2, <1>9, Sums
<1>11. a <= (IF l.rough THEN p ELSE q) + x /\ (l.rough \/ a + b.tokens <= q + x)
  BY <1>7, <1>9 DEF Account
<1>12. a <= (IF l.rough THEN p ELSE q) + (x + y)
  BY <1>8, <1>10, <1>11
<1>13. l.rough \/ a + c.tokens <= q + (x + y)
  <2>1. CASE ~l.rough
    <3>1. c.tokens = b.tokens + y /\ b.tokens \in Int
      BY <1>1, <1>2, <1>7, <2>1 DEF Buckets
    <3> QED
      BY <1>8, <1>10, <1>11, <2>1, <3>1
  <2> QED
    BY <2>1
<1>14. c.last <= m.upto
  <2>1. b.last <= l.upto /\ b.last \in Nat /\ l.upto \in Nat /\ m.upto \in Nat
    BY <1>2 DEF Account, Buckets, Ledgers
  <2> QED
    BY <2>1
<1>15. (m.rough => m.joined # 0) /\ (m.joined = 0 => m.admitted = m.alone)
  BY DEF Account
<1> QED
  BY <1>8, <1>9, <1>12, <1>13, <1>14, <1>15 DEF Account

LEMMA RefillsKeeps ==
  ASSUME IInv, NEW w \in Workers, Refills(w)
  PROVE  IInv'
<1>0. PICK k, key, b, l : k = wk[w] /\ key = k.key /\ b = buckets[key] /\ l = ledger[key]
  OBVIOUS
<1>1. k.at = "refill" /\ k.at \in Pointing /\ ~torn
  BY <1>0 DEF Refills, Writes, Pointing
<1>2. /\ DOMAIN k = Fields /\ k.now \in 0 .. clock /\ clock \in Nat /\ Account(b, l) /\ b \in Buckets /\ l \in Ledgers
      /\ Loaded(k) /\ IF w \in mixed THEN l.rough ELSE Lone(k, b, l)
  BY <1>0, <1>1, InCall
<1>3. PICK r, c, m, t : /\ r = [k EXCEPT !.at = "clamp"] /\ t = k.seen + Rate * k.dt
                        /\ c = [b EXCEPT !.tokens = t] /\ m = [l EXCEPT !.upto = IF k.now > @ THEN k.now ELSE @]
  OBVIOUS
<1>4. /\ wk' = [wk EXCEPT ![w] = r] /\ UNCHANGED <<opts, clock, guesses, torn, mixed>>
      /\ buckets' = [buckets EXCEPT ![key] = c] /\ ledger' = [ledger EXCEPT ![key] = m]
  BY <1>0, <1>3 DEF Refills, Writes, Go, Quiet
<1>5. /\ DOMAIN r = Fields /\ r.depth = k.depth /\ r.user = k.user /\ r.req = k.req /\ r.key = k.key /\ r.now = k.now
      /\ r.at = "clamp"
  BY <1>2, <1>3 DEF Fields
<1>6. t \in Int
  <2>1. k.seen \in Int /\ k.dt \in Int /\ Rate \in Nat
    BY <1>1, <1>2, PipelineConstants DEF Loaded
  <2> QED
    BY <1>3, <2>1
<1>7. l.rough \/ (l.upto <= k.now /\ t = b.tokens + Rate * (k.now - l.upto))
  <2>1. CASE w \in mixed
    BY <1>2, <2>1
  <2>2. CASE w \notin mixed
    BY <1>1, <1>2, <1>3, <2>2 DEF Lone
  <2> QED
    BY <2>1, <2>2
<1>8. /\ Account(c, m) /\ l.upto <= m.upto /\ k.now <= m.upto /\ (l.upto <= k.now => m.upto = k.now)
      /\ m.rough = l.rough /\ m.admitted = l.admitted
  <2>1. PICK u : u = (IF k.now > l.upto THEN k.now ELSE l.upto)
    OBVIOUS
  <2>2. l.upto \in Nat /\ l.upto <= clock
    BY <1>2 DEF Account, Ledgers
  <2>3. u \in Nat /\ l.upto <= u /\ k.now <= u /\ u <= clock /\ (l.upto <= k.now => u = k.now)
    BY <1>2, <2>1, <2>2
  <2>4. m = [l EXCEPT !.upto = u]
    BY <1>3, <2>1
  <2>5. /\ m \in Ledgers /\ m.born = l.born /\ m.alone = l.alone /\ m.admitted = l.admitted /\ m.joined = l.joined
        /\ m.rough = l.rough /\ m.upto = u
    BY <1>2, <2>3, <2>4 DEF Ledgers
  <2>6. c \in Buckets /\ c.last = b.last /\ c.tokens = t
    BY <1>2, <1>3, <1>6 DEF Buckets
  <2>7. l.rough \/ c.tokens = b.tokens + Rate * (m.upto - l.upto)
    BY <1>7, <2>3, <2>5, <2>6
  <2>8. Account(c, m)
    BY <1>2, <2>3, <2>5, <2>6, <2>7, RefillAccount
  <2> QED
    BY <2>3, <2>5, <2>8
<1>9. w \notin mixed => Lone(r, c, m)
  BY <1>1, <1>2, <1>5, <1>8 DEF Lone
<1>10. r.at \in Pointing
  BY <1>5 DEF Pointing
<1> QED
  BY <1>0, <1>1, <1>4, <1>5, <1>8, <1>9, <1>10, StepKeeps

\* A bucket below the ceiling is in the account again, whatever was in it before.
LEMMA SettledAccount ==
  ASSUME NEW b, NEW l, Account(b, l), NEW c \in Buckets, NEW m \in Ledgers,
         m.born = l.born, m.alone = l.alone, m.admitted = l.admitted, m.joined = l.joined, m.upto = l.upto,
         c.last = b.last, m.rough = l.rough \/ ~m.rough,
         m.rough \/ (c.tokens <= Burst /\ (l.rough \/ c.tokens <= b.tokens))
  PROVE  Account(c, m)
<1>1. b \in Buckets /\ l \in Ledgers /\ c.tokens \in Int /\ b.tokens \in Int
  BY DEF Account, Buckets
<1>2. PICK a, p, q, x : a = Whole * l.alone /\ p = Burst * l.joined /\ q = Burst * (l.joined + 1) /\ x = Rate * (l.upto - l.born)
  OBVIOUS
<1>3. a \in Int /\ p \in Int /\ q \in Int /\ x \in Int /\ q = p + Burst /\ Burst \in Nat
  BY <1>1, <1>2, Sums
<1>4. a <= (IF l.rough THEN p ELSE q) + x /\ (l.rough \/ a + b.tokens <= q + x)
  BY <1>2 DEF Account
<1>5. a <= (IF m.rough THEN p ELSE q) + x /\ (m.rough \/ a + c.tokens <= q + x)
  <2>1. CASE m.rough
    BY <1>4, <2>1
  <2>2. CASE ~m.rough /\ l.rough
    BY <1>1, <1>3, <1>4, <2>2
  <2>3. CASE ~m.rough /\ ~l.rough
    BY <1>1, <1>3, <1>4, <2>3
  <2> QED
    BY <2>1, <2>2, <2>3
<1>6. c.last <= m.upto /\ m.upto <= clock /\ (m.rough => m.joined # 0) /\ (m.joined = 0 => m.admitted = m.alone)
  BY DEF Account
<1> QED
  BY <1>2, <1>5, <1>6 DEF Account

\* The ceiling: a call that met no other leaves the bucket below it.
LEMMA ClampsKeeps ==
  ASSUME IInv, NEW w \in Workers, Clamps(w) \/ StoresBurst(w)
  PROVE  IInv'
<1>0. PICK k, key, b, l : k = wk[w] /\ key = k.key /\ b = buckets[key] /\ l = ledger[key]
  OBVIOUS
<1>1. k.at \in {"clamp", "cap"} /\ k.at \in Pointing /\ ~torn
  BY <1>0 DEF Clamps, StoresBurst, Writes, Pointing
<1>2. /\ DOMAIN k = Fields /\ Account(b, l) /\ b \in Buckets /\ l \in Ledgers /\ key \in DOMAIN ledger
      /\ Loaded(k) /\ IF w \in mixed THEN l.rough ELSE Lone(k, b, l)
  BY <1>0, <1>1, InCall
<1>3. k.now <= l.upto /\ b.tokens \in Int /\ Burst \in Nat
  BY <1>0, <1>1, <1>2, PipelineConstants DEF Loaded, Buckets
<1>4. CASE b.tokens > Burst /\ Looks(w, [k EXCEPT !.at = "cap"]) /\ k.at = "clamp"
  <2>1. PICK r : r = [k EXCEPT !.at = "cap"] /\ Looks(w, r)
    BY <1>4
  <2>2. /\ DOMAIN r = Fields /\ r.depth = k.depth /\ r.user = k.user /\ r.req = k.req /\ r.key = k.key /\ r.now = k.now
        /\ r.at = "cap"
    BY <1>2, <2>1 DEF Fields
  <2>3. w \notin mixed => Lone(r, b, l)
    BY <1>2, <1>4, <2>2 DEF Lone
  <2>4. r.at \in Pointing /\ r.at \notin {"load", "refill"} /\ r.at \notin {"refill", "store"}
    BY <2>2 DEF Pointing
  <2> QED
    BY <1>0, <1>1, <1>3, <2>1, <2>2, <2>3, <2>4, LookKeeps
<1>5. ASSUME NEW t \in Int, t <= Burst, l.rough \/ t <= b.tokens,
             Writes(w, [k EXCEPT !.at = "touch"], [b EXCEPT !.tokens = t], [l EXCEPT !.rough = @ /\ w \in mixed])
      PROVE  IInv'
  <2>1. PICK r, c, m, g : /\ r = [k EXCEPT !.at = "touch"] /\ c = [b EXCEPT !.tokens = t]
                          /\ g = (l.rough /\ w \in mixed) /\ m = [l EXCEPT !.rough = g]
    OBVIOUS
  <2>2. Writes(w, r, c, m)
    BY <1>5, <2>1
  <2>3. /\ wk' = [wk EXCEPT ![w] = r] /\ UNCHANGED <<opts, clock, guesses, torn, mixed>>
        /\ buckets' = [buckets EXCEPT ![key] = c] /\ ledger' = [ledger EXCEPT ![key] = m]
    BY <1>0, <2>2 DEF Writes, Go, Quiet
  <2>4. /\ DOMAIN r = Fields /\ r.depth = k.depth /\ r.user = k.user /\ r.req = k.req /\ r.key = k.key /\ r.now = k.now
        /\ r.at = "touch"
    BY <1>2, <2>1 DEF Fields
  <2>5. g \in BOOLEAN /\ (w \in mixed => g = l.rough) /\ (w \notin mixed => ~g)
    <3>1. l.rough \in BOOLEAN
      BY <1>2 DEF Ledgers
    <3> QED
      BY <2>1, <3>1
  <2>6. /\ m \in Ledgers /\ m.born = l.born /\ m.alone = l.alone /\ m.admitted = l.admitted /\ m.joined = l.joined
        /\ m.upto = l.upto /\ m.rough = g
    BY <1>2, <2>1, <2>5 DEF Ledgers
  <2>7. c \in Buckets /\ c.last = b.last /\ c.tokens = t
    BY <1>2, <1>5, <2>1 DEF Buckets
  <2>8. Account(c, m)
    BY <1>2, <1>5, <2>5, <2>6, <2>7, SettledAccount
  <2>9. w \notin mixed => Lone(r, c, m)
    BY <1>1, <1>2, <1>5, <2>4, <2>5, <2>6, <2>7 DEF Lone
  <2>10. r.at \in Pointing /\ l.upto <= m.upto /\ (w \in mixed /\ l.rough => m.rough) /\ r.now <= m.upto
         /\ r.at \notin {"load", "refill"} /\ r.at \notin {"refill", "store"}
    BY <1>2, <1>3, <2>4, <2>5, <2>6 DEF Pointing, Ledgers
  <2> QED
    BY <1>0, <1>1, <2>3, <2>4, <2>6, <2>8, <2>9, <2>10, StepKeeps
<1>6. CASE b.tokens <= Burst /\ Writes(w, [k EXCEPT !.at = "touch"], b, Settled(w))
  <2>1. b = [b EXCEPT !.tokens = b.tokens]
    BY <1>2 DEF Buckets
  <2>2. Settled(w) = [l EXCEPT !.rough = @ /\ w \in mixed]
    BY <1>0 DEF Settled
  <2>3. Writes(w, [k EXCEPT !.at = "touch"], [b EXCEPT !.tokens = b.tokens], [l EXCEPT !.rough = @ /\ w \in mixed])
    BY <1>6, <2>1, <2>2, Zenon
  <2> QED
    BY <1>3, <1>5, <1>6, <2>3
<1>7. CASE k.at = "cap" /\ Writes(w, [k EXCEPT !.at = "touch"], [b EXCEPT !.tokens = Burst], Settled(w))
  <2>2. Settled(w) = [l EXCEPT !.rough = @ /\ w \in mixed]
    BY <1>0 DEF Settled
  <2>3. l.rough \/ Burst <= b.tokens
    BY <1>2, <1>3, <1>7 DEF Lone
  <2>4. Writes(w, [k EXCEPT !.at = "touch"], [b EXCEPT !.tokens = Burst], [l EXCEPT !.rough = @ /\ w \in mixed])
    BY <1>7, <2>2, Zenon
  <2> QED
    BY <1>3, <1>5, <2>3, <2>4
<1> QED
  BY <1>0, <1>4, <1>6, <1>7 DEF Clamps, StoresBurst

\* The bucket is marked with the time that was put into it.
LEMMA TouchesKeeps ==
  ASSUME IInv, NEW w \in Workers, Touches(w)
  PROVE  IInv'
<1>0. PICK k, key, b, l : k = wk[w] /\ key = k.key /\ b = buckets[key] /\ l = ledger[key]
  OBVIOUS
<1>1. k.at = "touch" /\ k.at \in Pointing /\ ~torn
  BY <1>0 DEF Touches, Writes, Pointing
<1>2. /\ DOMAIN k = Fields /\ Account(b, l) /\ b \in Buckets /\ l \in Ledgers /\ k.now \in Nat
      /\ Loaded(k) /\ IF w \in mixed THEN l.rough ELSE Lone(k, b, l)
  BY <1>0, <1>1, InCall
<1>3. k.now <= l.upto
  BY <1>0, <1>1, <1>2 DEF Loaded
<1>4. PICK r, c : r = [k EXCEPT !.at = "test"] /\ c = [b EXCEPT !.last = k.now]
  OBVIOUS
<1>5. /\ wk' = [wk EXCEPT ![w] = r] /\ UNCHANGED <<opts, clock, guesses, torn, mixed>>
      /\ buckets' = [buckets EXCEPT ![key] = c] /\ ledger' = [ledger EXCEPT ![key] = l]
  BY <1>0, <1>4 DEF Touches, Touched, Writes, Go, Quiet
<1>6. /\ DOMAIN r = Fields /\ r.depth = k.depth /\ r.user = k.user /\ r.req = k.req /\ r.key = k.key /\ r.now = k.now
      /\ r.at = "test"
  BY <1>2, <1>4 DEF Fields
<1>7. c \in Buckets /\ c.last = k.now /\ c.tokens = b.tokens
  BY <1>2, <1>4 DEF Buckets
<1>8. Account(c, l)
  BY <1>2, <1>3, <1>7 DEF Account
<1>9. w \notin mixed => Lone(r, c, l)
  BY <1>1, <1>2, <1>6, <1>7 DEF Lone, Still
<1>10. r.at \in Pointing /\ l.upto <= l.upto /\ r.at \notin {"clamp", "cap", "touch"}
       /\ r.at \notin {"load", "refill"} /\ r.at \notin {"refill", "store"}
  BY <1>2, <1>6 DEF Pointing, Ledgers
<1> QED
  BY <1>0, <1>1, <1>5, <1>6, <1>8, <1>9, <1>10, StepKeeps

\* A call ends: it was refused, or it was admitted, is counted, and carries its
\* admission to the guard.
LEMMA EndKeeps ==
  ASSUME IInv, ~torn, NEW w \in Workers, wk[w].at \in Pointing, NEW key, key = wk[w].key, NEW ok \in BOOLEAN, NEW b, NEW l,
         wk' = [wk EXCEPT ![w] = Limited(wk[w], ok)],
         buckets' = [buckets EXCEPT ![key] = b], ledger' = [ledger EXCEPT ![key] = l],
         UNCHANGED <<opts, clock, guesses, torn, mixed>>,
         Account(b, l), ledger[key].upto <= l.upto, l.rough = ledger[key].rough, w \notin mixed => Still(b, l),
         l.admitted = ledger[key].admitted + (IF ok THEN 1 ELSE 0)
  PROVE  IInv'
<1> DEFINE k == wk[w]
<1>1. /\ key \in DOMAIN ledger /\ k.at \in Limiting /\ Placed(k) /\ Charged(k)
      /\ ledger = [q \in DOMAIN ledger |-> ledger[q]]
  BY DEF IInv, Loaded, Limiting, Accounts
<1>2. PICK r : r = Limited(k, ok)
  OBVIOUS
<1>3. /\ Placed(r) /\ Charged(r) /\ r.req = k.req /\ r.at = (IF ok THEN "down" ELSE "up") /\ wk' = [wk EXCEPT ![w] = r]
  BY <1>1, <1>2, LimitedTask
<1>4. /\ r.at \notin {"find", "make"} /\ r.at \notin Pointing /\ r.at \notin {"load", "refill"}
      /\ r.at \notin {"refill", "store"} /\ r.at \notin {"clamp", "cap", "touch"}
  BY <1>3 DEF Pointing
<1> HIDE DEF Chain
<1>5. \A v \in Workers : wk'[v] = IF v = w THEN r ELSE wk[v]
  BY <1>3, TasksKept
<1>6. ASSUME "rate" \in opts.layers, NEW u, u # NoKey
      PROVE  Paid(u)'
  <2>1. Paid(u) /\ Guessed(u)' = Guessed(u) /\ Guessed(u) \in Nat /\ Cardinality(Holders(u)) \in Nat /\ Admitted(u) \in Nat
    BY <1>6, GuessNumbers DEF IInv, Guesses, Guessed
  <2>2. Admitted(u)' = Admitted(u) + IF ok /\ u = key THEN 1 ELSE 0
    <3>1. CASE u = key
      BY <1>1, <3>1 DEF Admitted
    <3>2. CASE u # key
      <4>1. Admitted(u)' = Admitted(u)
        BY <1>1, <3>2 DEF Admitted
      <4> QED
        BY <2>1, <3>2, <4>1
    <3> QED
      BY <3>1, <3>2
  <2>3. Holders(u)' \subseteq Holders(u) \cup {w}
    <3>1. Chain' = Chain
      BY ChainSame
    <3> QED
      BY <1>5, <3>1 DEF Holders, At
  <2>4. w \in Holders(u)' => ok /\ u = key
    <3> SUFFICES ASSUME w \in Holders(u)'
                 PROVE  ok /\ u = key
      OBVIOUS
    <3>1. wk'[w] = r /\ r.at = "down" /\ r.req.cred.user = u
      BY <1>5 DEF Holders, At
    <3>2. k.req.cred.user = u /\ ok
      BY <1>3, <3>1
    <3> QED
      BY <1>1, <1>6, <3>2 DEF Charged
  <2>5. Holders(u) \in SUBSET Workers
    BY DEF Holders
  <2> HIDE DEF Holders, k
  <2>6. CASE ok /\ u = key
    <3>1. IsFiniteSet(Holders(u))
      BY <2>5, PipelineConstants, FS_Subset
    <3>2. IsFiniteSet(Holders(u) \cup {w}) /\ Cardinality(Holders(u) \cup {w}) <= Cardinality(Holders(u)) + 1
      <4> DEFINE S == Holders(u)
      <4>1. IsFiniteSet(S \cup {w}) /\ Cardinality(S \cup {w}) = (IF w \in S THEN Cardinality(S) ELSE Cardinality(S) + 1)
        <5> HIDE DEF S
        <5> QED
          BY <3>1, FS_AddElement DEF S
      <4> QED
        BY <2>1, <4>1
    <3>3. Cardinality(Holders(u)') <= Cardinality(Holders(u) \cup {w}) /\ Cardinality(Holders(u)') \in Nat
          /\ Cardinality(Holders(u) \cup {w}) \in Nat
      BY <2>3, <3>2, FS_Subset, FS_CardinalityType
    <3>4. Admitted(u)' = Admitted(u) + 1
      BY <2>2, <2>6
    <3> QED
      BY <2>1, <3>2, <3>3, <3>4 DEF Paid
  <2>7. CASE ~(ok /\ u = key)
    <3>1. Holders(u)' \subseteq Holders(u)
      BY <2>3, <2>4, <2>7
    <3>2. Cardinality(Holders(u)') \in Nat /\ Cardinality(Holders(u)') <= Cardinality(Holders(u))
      BY <2>5, <3>1, FewerHolders
    <3>3. Admitted(u)' = Admitted(u)
      BY <2>1, <2>2, <2>7
    <3> QED
      BY <2>1, <3>2, <3>3 DEF Paid
  <2> QED
    BY <2>6, <2>7
<1>7. Guesses'
  BY <1>6 DEF IInv, Guesses
<1> QED
  BY <1>3, <1>4, <1>7, CallKeeps

\* Enough tokens for the debit, or a 429.
LEMMA TestsTokensKeeps ==
  ASSUME IInv, NEW w \in Workers, TestsTokens(w)
  PROVE  IInv'
<1>0. PICK k, key, b, l : k = wk[w] /\ key = k.key /\ b = buckets[key] /\ l = ledger[key]
  OBVIOUS
<1>1. k.at = "test" /\ k.at \in Pointing /\ ~torn
  BY <1>0 DEF TestsTokens, Looks, Pointing
<1>2. /\ DOMAIN k = Fields /\ Account(b, l) /\ b \in Buckets /\ l \in Ledgers
      /\ w \notin mixed => Lone(k, b, l)
  BY <1>0, <1>1, InCall
<1>3. CASE b.tokens >= Whole
  <2>1. PICK r : Looks(w, r) /\ r = [k EXCEPT !.at = "debit"]
    BY <1>0, <1>3 DEF TestsTokens
  <2>2. /\ DOMAIN r = Fields /\ r.depth = k.depth /\ r.user = k.user /\ r.req = k.req /\ r.key = k.key /\ r.now = k.now
        /\ r.at = "debit"
    BY <1>2, <2>1 DEF Fields
  <2>3. w \notin mixed => Lone(r, b, l)
    <3>1. Whole <= b.tokens
      BY <1>2, <1>3, PipelineConstants DEF Buckets
    <3> QED
      BY <1>1, <1>2, <2>2, <3>1 DEF Lone
  <2>4. r.at \in Pointing /\ r.at \notin {"clamp", "cap", "touch"} /\ r.at \notin {"load", "refill"} /\ r.at \notin {"refill", "store"}
    BY <2>2 DEF Pointing
  <2> QED
    BY <1>0, <1>1, <2>1, <2>2, <2>3, <2>4, LookKeeps
<1>4. CASE ~(b.tokens >= Whole)
  <2>1. Looks(w, Limited(k, FALSE))
    BY <1>0, <1>4 DEF TestsTokens
  <2>2. wk' = [wk EXCEPT ![w] = Limited(wk[w], FALSE)] /\ UNCHANGED <<opts, clock, guesses, torn, mixed>>
    BY <1>0, <2>1 DEF Looks, Go, Quiet, limit
  <2>3. buckets' = [buckets EXCEPT ![key] = b] /\ ledger' = [ledger EXCEPT ![key] = l]
    <3>1. buckets' = buckets /\ ledger' = ledger
      BY <2>1 DEF Looks, limit
    <3> QED
      BY <1>0, <1>1, <3>1, InCall
  <2>4. l.upto <= l.upto /\ l.admitted = l.admitted + (IF FALSE THEN 1 ELSE 0)
    BY <1>2 DEF Ledgers
  <2>5. w \notin mixed => Still(b, l)
    BY <1>1, <1>2 DEF Lone
  <2> QED
    BY <1>0, <1>1, <1>2, <2>2, <2>3, <2>4, <2>5, EndKeeps
<1> QED
  BY <1>3, <1>4

\* A debit.  The token comes out of the account if the call met no other.
LEMMA DebitAccount ==
  ASSUME NEW b, NEW l, Account(b, l), NEW c \in Buckets, NEW m \in Ledgers,
         m.born = l.born, m.joined = l.joined, m.upto = l.upto, m.rough = l.rough, m.admitted = l.admitted + 1, c.last = b.last,
         \/ l.rough /\ m.alone = l.alone
         \/ ~l.rough /\ m.alone = l.alone + 1 /\ c.tokens = b.tokens - Whole /\ Whole <= b.tokens
  PROVE  Account(c, m)
<1>1. b \in Buckets /\ l \in Ledgers /\ c.tokens \in Int /\ b.tokens \in Int
  BY DEF Account, Buckets
<1>2. PICK a, p, q, x : a = Whole * l.alone /\ p = Burst * l.joined /\ q = Burst * (l.joined + 1) /\ x = Rate * (l.upto - l.born)
  OBVIOUS
<1>3. a \in Int /\ p \in Int /\ q \in Int /\ x \in Int /\ Whole \in Nat /\ Whole * (l.alone + 1) = a + Whole
  BY <1>1, <1>2, Sums
<1>4. a <= (IF l.rough THEN p ELSE q) + x /\ (l.rough \/ a + b.tokens <= q + x)
  BY <1>2 DEF Account
<1>5. c.last <= m.upto /\ m.upto <= clock /\ (m.rough => m.joined # 0)
  BY DEF Account
<1>6. CASE l.rough /\ m.alone = l.alone
  <2>1. m.joined # 0
    BY <1>6 DEF Account
  <2> QED
    BY <1>2, <1>4, <1>5, <1>6, <2>1 DEF Account
<1>7. CASE ~l.rough /\ m.alone = l.alone + 1 /\ c.tokens = b.tokens - Whole /\ Whole <= b.tokens
  <2>1. a + Whole <= q + x /\ (a + Whole) + c.tokens <= q + x
    BY <1>1, <1>3, <1>4, <1>7
  <2>2. m.joined = 0 => m.admitted = m.alone
    BY <1>7 DEF Account
  <2> QED
    BY <1>2, <1>3, <1>5, <1>7, <2>1, <2>2 DEF Account
<1> QED
  BY <1>6, <1>7

LEMMA DebitsKeeps ==
  ASSUME IInv, NEW w \in Workers, Debits(w)
  PROVE  IInv'
<1>0. PICK k, key, b, l : k = wk[w] /\ key = k.key /\ b = buckets[key] /\ l = ledger[key]
  OBVIOUS
<1>1. k.at = "store" /\ k.at \in Pointing /\ ~torn
  BY <1>0 DEF Debits, Writes, Pointing
<1>2. /\ DOMAIN k = Fields /\ Account(b, l) /\ b \in Buckets /\ l \in Ledgers /\ Loaded(k)
      /\ IF w \in mixed THEN l.rough ELSE Lone(k, b, l)
  BY <1>0, <1>1, InCall
<1>3. PICK t, c, n, a, m : /\ t = k.seen - Whole /\ c = [b EXCEPT !.tokens = t] /\ n = l.admitted + 1
                           /\ a = (IF w \in mixed THEN l.alone ELSE l.alone + 1) /\ m = [l EXCEPT !.admitted = n, !.alone = a]
  OBVIOUS
<1>4. /\ wk' = [wk EXCEPT ![w] = Limited(wk[w], TRUE)] /\ UNCHANGED <<opts, clock, guesses, torn, mixed>>
      /\ buckets' = [buckets EXCEPT ![key] = c] /\ ledger' = [ledger EXCEPT ![key] = m]
  BY <1>0, <1>3 DEF Debits, Writes, Go, Quiet
<1>5. t \in Int /\ n \in Nat /\ a \in Nat /\ Whole \in Nat
  BY <1>1, <1>2, <1>3, PipelineConstants DEF Loaded, Ledgers
<1>6. c \in Buckets /\ c.tokens = t /\ c.last = b.last
  BY <1>2, <1>3, <1>5 DEF Buckets
<1>7. /\ m \in Ledgers /\ m.born = l.born /\ m.joined = l.joined /\ m.upto = l.upto /\ m.rough = l.rough
      /\ m.admitted = n /\ m.alone = a
  BY <1>2, <1>3, <1>5 DEF Ledgers
<1>8. w \notin mixed => ~l.rough /\ Still(b, l) /\ Whole <= b.tokens /\ k.seen = b.tokens
  BY <1>1, <1>2 DEF Lone
<1>9. Account(c, m)
  <2>1. \/ l.rough /\ m.alone = l.alone
        \/ ~l.rough /\ m.alone = l.alone + 1 /\ c.tokens = b.tokens - Whole /\ Whole <= b.tokens
    BY <1>2, <1>3, <1>6, <1>7, <1>8
  <2>2. m.admitted = l.admitted + 1
    BY <1>3, <1>7
  <2> QED
    BY <1>2, <1>6, <1>7, <2>1, <2>2, DebitAccount
<1>10. w \notin mixed => Still(c, m)
  <2>1. b.tokens \in Int /\ Burst \in Nat
    BY <1>2, PipelineConstants DEF Buckets
  <2> QED
    BY <1>3, <1>5, <1>6, <1>7, <1>8, <2>1 DEF Still
<1>11. l.upto <= m.upto /\ m.admitted = l.admitted + (IF TRUE THEN 1 ELSE 0)
  BY <1>2, <1>3, <1>7 DEF Ledgers
<1> QED
  BY <1>0, <1>1, <1>4, <1>7, <1>9, <1>10, <1>11, EndKeeps

-----------------------------------------------------------------------------
(* The guard, and the theorem.                                             *)

\* The guard lets the owner through.  A wrong password that names an account uses up
\* the admission its worker came with.
LEMMA GuardKeeps ==
  ASSUME IInv, NEW w \in Workers, http_basic_auth_middleware(w)
  PROVE  IInv'
<1> DEFINE k == wk[w]
           u == k.req.cred.user
<1>1. /\ k.at = "down" /\ k.depth \in 1 .. Len(Chain) /\ Chain[k.depth] = "basic_auth" /\ DOMAIN k = Fields
      /\ At(w, "basic_auth")
  BY AtLayer DEF http_basic_auth_middleware
<1>2. UNCHANGED <<opts, clock, torn, mixed, buckets, ledger>>
  BY DEF http_basic_auth_middleware, Quiet, limit
<1>3. PICK r : /\ wk' = [wk EXCEPT ![w] = r]
               /\ r \in {Next1([k EXCEPT !.user = u]), Answer(Stamp(k, "challenge"), 401)}
  BY DEF http_basic_auth_middleware, Go, http_basic_auth_parse
<1>4. guesses' \in {guesses, Set(guesses, u, 1 + Guessed(u))} /\ (guesses' # guesses => u # NoKey)
  BY DEF http_basic_auth_middleware, http_basic_auth_parse, Guessed
<1>5. /\ DOMAIN r = Fields /\ r.depth \in Int
      /\ r.at = "up" \/ (r.at = "down" /\ r.depth = k.depth + 1)
  <2>1. CASE r = Next1([k EXCEPT !.user = u])
    BY <1>1, <2>1 DEF Next1, Fields
  <2>2. CASE r = Answer(Stamp(k, "challenge"), 401)
    BY <1>1, <2>2 DEF Answer, Stamp, Back, Fields
  <2> QED
    BY <1>3, <2>1, <2>2
<1> HIDE DEF Chain
<1>6. Placed(r)
  BY <1>1, <1>5 DEF Placed, Limiting, Pointing, OnDisk, Inbound
<1>7. Charged(r)
  <2>1. ASSUME r.at = "down", NEW i \in 1 .. Len(Chain), Chain[i] = "rate"
        PROVE  ~(r.depth <= i)
    <3>1. "rate" \in opts.layers
      BY <2>1, ChainLaid
    <3>2. k.depth - 1 \in 1 .. Len(Chain) /\ Chain[k.depth - 1] = "rate"
      BY <1>1, <3>1, RateThenGuard
    <3>3. i = k.depth - 1
      BY <2>1, <3>2, ChainOnce
    <3> QED
      BY <1>1, <1>5, <2>1, <3>3
  <2> QED
    BY <1>5, <2>1 DEF Charged, Limiting, Pointing
<1>8. /\ wk' = [v \in Workers |-> wk'[v]] /\ \A v \in Workers : Placed(wk[v])' /\ Charged(wk[v])'
      /\ \A v \in Workers : wk'[v] = IF v = w THEN r ELSE wk[v]
  BY <1>2, <1>3, <1>6, <1>7, TasksKept, ZenonT(60)
<1>9. Accounts' /\ Meetings' /\ \A v \in Workers : Loaded(wk[v])'
  <2>1. wk[w].at \notin Limiting /\ r.at \notin Limiting
    BY <1>1, <1>5 DEF Limiting, Pointing
  <2> QED
    BY <1>2, <1>3, <2>1, OutsideKeeps
<1>11. ASSUME NEW x
       PROVE  Holders(x)' \subseteq Holders(x) \ {w}
  <2>1. Chain' = Chain
    BY <1>2, ChainSame
  <2>2. ~At(w, "basic_auth")'
    <3>1. r.at = "down" /\ r.depth <= Len(Chain) => Chain[r.depth] # "basic_auth"
      <4> SUFFICES ASSUME r.at = "down", r.depth <= Len(Chain), Chain[r.depth] = "basic_auth"
                   PROVE  FALSE
        OBVIOUS
      <4>1. r.depth \in 1 .. Len(Chain)
        BY <1>1, <1>5, ChainLaid
      <4>2. r.depth = k.depth
        BY <1>1, <4>1, ChainOnce
      <4> QED
        BY <1>1, <1>5, <4>2
    <3> QED
      BY <1>8, <2>1, <3>1 DEF At
  <2> QED
    BY <1>8, <2>1, <2>2 DEF Holders, At
<1>12. Guessed(u) \in Nat
  BY GuessNumbers
<1>13. guesses' \in [DOMAIN guesses' -> Nat \ {0}] /\ NoKey \notin DOMAIN guesses'
  <2>0. guesses \in [DOMAIN guesses -> Nat \ {0}] /\ NoKey \notin DOMAIN guesses
    BY DEF IInv, Guesses
  <2>1. CASE guesses' = guesses
    BY <2>0, <2>1
  <2>2. CASE guesses' # guesses
    <3>1. PICK n \in Nat \ {0} : guesses' = Set(guesses, u, n)
      BY <1>4, <1>12, <2>2
    <3> QED
      BY <1>4, <2>0, <2>2, <3>1 DEF Set
  <2> QED
    BY <2>1, <2>2
<1>14. ASSUME ~torn, "rate" \in opts.layers, NEW x, x # NoKey
       PROVE  Paid(x)'
  <2>1. /\ Paid(x) /\ Admitted(x)' = Admitted(x) /\ Admitted(x) \in Nat /\ Guessed(x) \in Nat
        /\ Cardinality(Holders(x)) \in Nat
    BY <1>2, <1>14, GuessNumbers DEF IInv, Guesses, Admitted
  <2>2. Guessed(x)' = Guessed(x) \/ (x = u /\ Guessed(x)' = 1 + Guessed(x))
    BY <1>4 DEF Guessed, Set
  <2>3. Holders(x)' \subseteq Holders(x) \ {w} /\ Holders(x) \in SUBSET Workers /\ (x = u => w \in Holders(x))
    BY <1>1, <1>11 DEF Holders
  <2> DEFINE S == Holders(x)
             T == Holders(x)'
  <2>4. IsFiniteSet(S) /\ T \subseteq S \ {w} /\ Cardinality(S) \in Nat
    BY <2>1, <2>3, PipelineConstants, FS_Subset
  <2>5. Cardinality(T) \in Nat /\ Cardinality(T) <= Cardinality(S) /\ (w \in S => Cardinality(T) <= Cardinality(S) - 1)
    <3> HIDE DEF S, T
    <3>1. Cardinality(T) \in Nat /\ Cardinality(T) <= Cardinality(S)
      BY <2>4, FS_Subset, FS_CardinalityType
    <3>2. ASSUME w \in S
          PROVE  Cardinality(T) <= Cardinality(S) - 1
      <4>1. IsFiniteSet(S \ {w}) /\ Cardinality(S \ {w}) = Cardinality(S) - 1
        BY <2>4, <3>2, FS_RemoveElement
      <4> QED
        BY <2>4, <4>1, FS_Subset
    <3> QED
      BY <3>1, <3>2
  <2>6. CASE Guessed(x)' = Guessed(x)
    BY <2>1, <2>5, <2>6 DEF Paid
  <2>7. CASE x = u /\ Guessed(x)' = 1 + Guessed(x)
    <3>1. Cardinality(T) <= Cardinality(S) - 1
      BY <2>3, <2>5, <2>7
    <3> QED
      BY <2>1, <2>5, <2>7, <3>1 DEF Paid
  <2> QED
    BY <2>2, <2>6, <2>7
<1>15. Guesses'
  BY <1>2, <1>13, <1>14 DEF Guesses
<1> QED
  BY <1>2, <1>8, <1>9, <1>15 DEF IInv

\* Time passes, routes are set up, the file is replaced.
LEMMA WorldKeeps ==
  ASSUME IInv, UNCHANGED <<opts, wk, limit, guesses>>, clock' = clock \/ (clock' = clock + 1 /\ clock < opts.ticks)
  PROVE  IInv'
<1>0. opts \in Options /\ clock \in Nat /\ opts.ticks \in Nat
  BY PipelineConstants DEF IInv
<1>1. /\ Chain' = Chain /\ UNCHANGED <<buckets, torn, mixed, ledger>> /\ clock' \in Nat /\ clock <= clock'
      /\ clock' <= opts.ticks
  BY <1>0, ChainSame DEF limit, IInv
<1> HIDE DEF Chain
<1>2. ASSUME NEW b, NEW l, Account(b, l)
      PROVE  Account(b, l)'
  <2>1. l.upto \in Nat /\ l.upto <= clock
    BY <1>2 DEF Account, Ledgers
  <2>2. l.upto <= clock'
    BY <1>0, <1>1, <2>1
  <2> QED
    BY <1>2, <2>2 DEF Account
<1>3. Accounts'
  <2>1. ASSUME NEW q \in DOMAIN ledger, ~torn
        PROVE  Account(buckets[q], ledger[q])'
    <3>1. PICK b, l : b = buckets[q] /\ l = ledger[q] /\ Account(b, l)
      BY <2>1 DEF IInv, Accounts
    <3>2. Account(b, l)'
      BY <1>2, <3>1
    <3> QED
      BY <1>1, <3>1, <3>2 DEF Account
  <2> QED
    BY <1>1, <2>1 DEF IInv, Accounts
<1>4. ASSUME NEW v \in Workers
      PROVE  Placed(wk[v])' /\ Charged(wk[v])' /\ Loaded(wk[v])'
  <2>1. Placed(wk[v]) /\ Charged(wk[v]) /\ Loaded(wk[v])
    BY DEF IInv
  <2>2. Placed(wk[v])'
    BY <1>1, <2>1 DEF Placed
  <2>3. Charged(wk[v])'
    BY <1>0, <1>1, <2>1 DEF Charged
  <2>4. Loaded(wk[v])'
    BY <1>1, <2>1 DEF Loaded
  <2> QED
    BY <2>2, <2>3, <2>4
<1>5. Guesses'
  <2>1. \A u : Paid(u) => Paid(u)'
    BY <1>1 DEF Paid, Guessed, Admitted, Holders, At
  <2> QED
    BY <1>1, <2>1 DEF IInv, Guesses
<1>6. Meetings'
  BY <1>1 DEF IInv, Meetings, Calls, Lone, Still
<1> QED
  BY <1>1, <1>3, <1>4, <1>5, <1>6 DEF IInv

\* Before the first request every worker is idle and nothing has been counted.
LEMMA InitKeeps ==
  ASSUME Init
  PROVE  IInv
<1> HIDE DEF Chain
<1>1. /\ wk = [w \in Workers |-> wk[w]] /\ opts \in Options /\ clock = 0 /\ torn \in BOOLEAN /\ ~torn
      /\ \A w \in Workers : wk[w] = Idle
      /\ buckets = << >> /\ ledger = << >> /\ guesses = << >>
  BY DEF Init
<1>2. DOMAIN Idle = Fields /\ Idle.depth \in Int /\ Idle.at = "idle"
  BY DEF Idle, Fields
<1>3. \A w \in Workers : Placed(wk[w]) /\ Charged(wk[w]) /\ Loaded(wk[w]) /\ wk[w].at \notin Limiting
  BY <1>1, <1>2 DEF Placed, Charged, Loaded, Limiting, Pointing, OnDisk, Inbound
<1>4. Accounts /\ Meetings
  BY <1>1, <1>3 DEF Accounts, Meetings
<1>5. Guesses
  <2>1. ASSUME NEW u
        PROVE  Paid(u)
    <3>1. Holders(u) = {}
      BY <1>1, <1>2 DEF Holders, At
    <3>2. Guessed(u) = 0 /\ Admitted(u) = 0
      BY <1>1 DEF Guessed, Admitted
    <3> QED
      BY <3>1, <3>2, FS_EmptySet DEF Paid
  <2> QED
    BY <1>1, <2>1 DEF Guesses
<1>6. opts.ticks \in Nat /\ clock \in Nat /\ clock <= opts.ticks
  BY <1>1, PipelineConstants
<1> QED
  BY <1>1, <1>3, <1>4, <1>5, <1>6 DEF IInv

\* Every step keeps the invariant.
LEMMA NextKeeps == IInv /\ [Next]_vars => IInv'
<1> SUFFICES ASSUME IInv, [Next]_vars
             PROVE  IInv'
  OBVIOUS
<1>1. CASE SetUp \/ Tick \/ Edit \/ UNCHANGED vars
  <2>1. UNCHANGED <<opts, wk, limit, guesses>> /\ (clock' = clock \/ (clock' = clock + 1 /\ clock < opts.ticks))
    BY <1>1 DEF SetUp, Tick, Edit, vars
  <2> QED
    BY <2>1, WorldKeeps
<1>2. ASSUME NEW w \in Workers, Arrive(w) \/ Layer(w) \/ Limiter(w) \/ Handler(w) \/ Deliver(w)
      PROVE  IInv'
  <2>1. CASE http_basic_auth_middleware(w)
    BY <2>1, GuardKeeps
  <2>2. CASE Limiter(w)
    BY <2>2, AllowKeeps, FindKeeps, BucketForKeeps, CorruptKeeps, TestsLastKeeps, ReadsLastKeeps, LoadsTokensKeeps,
       RefillsKeeps, ClampsKeeps, TouchesKeeps, TestsTokensKeeps, DebitsKeeps DEF Limiter
  <2>3. ASSUME (\E r : Moved(w, r)) /\ UNCHANGED <<opts, limit, clock, guesses>>, wk[w].at \notin Limiting
        PROVE  IInv'
    BY <2>3, MovedKeeps
  <2>4. CASE Arrive(w) \/ Return(w) \/ Deliver(w)
    <3>1. wk[w].at \in {"idle", "up"}
      BY <2>4 DEF Arrive, Return, Deliver
    <3> QED
      BY <2>3, <2>4, <3>1, EndsMove DEF Limiting, Pointing
  <2>5. CASE Handler(w)
    <3>1. wk[w].at \in {"down"} \cup OnDisk
      BY <2>5 DEF Handler, router_dispatch, AtRouter, http_serve_static, file_read_all, file_read_range, OnDisk
    <3> QED
      BY <2>3, <2>5, <3>1, HandlersMove DEF Limiting, Pointing, OnDisk
  <2>6. CASE \/ http_client_ip_middleware(w) \/ http_request_id_middleware(w) \/ http_security_middleware(w)
             \/ http_signature_middleware(w) \/ PassDown(w) \/ http_cors_middleware(w)
    <3>1. wk[w].at = "down"
      BY <2>6 DEF http_client_ip_middleware, http_request_id_middleware, http_security_middleware,
                  http_signature_middleware, PassDown, http_cors_middleware, At
    <3> QED
      BY <2>3, <2>6, <3>1, LayersMove DEF Limiting, Pointing
  <2> QED
    BY <1>2, <2>1, <2>2, <2>4, <2>5, <2>6 DEF Layer
<1> QED
  BY <1>1, <1>2 DEF Next

\* For every configuration, any number of workers and requests, any rates and any
\* interleaving of the limiter's loads and stores (rate_limit.c:77-127): a bucket is in
\* its account, or rough since a call joined another on its key; and each call that met
\* no other knows what its bucket holds at every step.
THEOREM PipelineInvariant == Spec => []IInv
<1>1. Init => IInv
  BY InitKeeps
<1>2. IInv /\ [Next]_vars => IInv'
  BY NextKeeps
<1> QED
  BY <1>1, <1>2, PTL DEF Spec

\* Without a mutex the limiter admits calls that met no other on their key from the
\* burst, the time that passed and one more burst for each call that joined another;
\* a key whose calls never met keeps to its rate; what races leave in a bucket is gone
\* when a call has run alone; and every wrong password that reached the guard was
\* admitted from the bucket of the account it names (rate_limit.c:107-127, 144-147).
THEOREM PipelineThrottled == Spec => []Throttled
<1>1. IInv => Throttled
  <2> SUFFICES ASSUME IInv, ~torn
               PROVE  Throttled
    BY DEF Throttled
  <2>1. ASSUME NEW key \in DOMAIN ledger, NEW l, l = ledger[key], NEW b, b = buckets[key],
               NEW most, most = Burst * (1 + l.joined) + Rate * (clock - l.born)
        PROVE  /\ Whole * l.alone <= most
               /\ l.joined = 0 => l.admitted = l.alone
               /\ ~l.rough /\ (\A w \in Workers : wk[w].at \in Limiting => wk[w].key # key) =>
                    b.tokens <= Burst /\ b.tokens + Whole * l.alone <= most
    <3>1. Account(b, l) /\ b \in Buckets /\ l \in Ledgers /\ clock \in Nat
      BY <2>1 DEF IInv, Accounts, Account
    <3>2. b.tokens \in Int /\ l.upto \in Nat /\ l.born \in Nat /\ l.joined \in Nat /\ l.upto <= clock /\ Rate \in Nat
      BY <3>1, PipelineConstants DEF Account, Buckets, Ledgers
    <3>3. PICK a, p, q, x, d : /\ a = Whole * l.alone /\ p = Burst * l.joined /\ q = Burst * (l.joined + 1)
                               /\ x = Rate * (l.upto - l.born) /\ d = clock - l.upto
      OBVIOUS
    <3>4. a \in Int /\ p \in Int /\ q \in Int /\ x \in Int /\ q = p + Burst /\ Burst \in Nat
      BY <3>1, <3>3, Sums
    <3>5. a <= (IF l.rough THEN p ELSE q) + x /\ (l.rough \/ a + b.tokens <= q + x)
      BY <3>1, <3>3 DEF Account
    <3>6. PICK y : y = Rate * d /\ y \in Nat /\ most = q + (x + y)
      <4>1. d \in Nat /\ l.upto - l.born \in Int /\ clock - l.born = (l.upto - l.born) + d
        BY <3>1, <3>2, <3>3
      <4>2. Rate * (clock - l.born) = x + Rate * d /\ Rate * d \in Nat
        BY <3>2, <3>3, <4>1, Distributes
      <4>3. 1 + l.joined = l.joined + 1
        BY <3>2
      <4> QED
        BY <2>1, <3>3, <4>2, <4>3
    <3>7. a <= most
      BY <3>4, <3>5, <3>6
    <3>8. l.joined = 0 => l.admitted = l.alone
      BY <3>1 DEF Account
    <3>9. ASSUME ~l.rough, \A w \in Workers : wk[w].at \in Limiting => wk[w].key # key
          PROVE  b.tokens <= Burst /\ b.tokens + a <= most
      <4>1. Still(b, l)
        BY <2>1, <3>9 DEF IInv, Meetings, Calls
      <4> QED
        BY <3>2, <3>4, <3>5, <3>6, <3>9, <4>1 DEF Still
    <3> QED
      BY <3>3, <3>7, <3>8, <3>9
  <2>2. ASSUME "rate" \in opts.layers, NEW u \in DOMAIN guesses
        PROVE  u \in DOMAIN ledger /\ guesses[u] <= ledger[u].admitted
    <3>1. u # NoKey /\ guesses[u] \in Nat \ {0} /\ Guessed(u) = guesses[u]
      BY DEF IInv, Guesses, Guessed
    <3>2. Paid(u) /\ Admitted(u) \in Nat /\ Cardinality(Holders(u)) \in Nat
      BY <2>2, <3>1, GuessNumbers DEF IInv, Guesses
    <3>3. guesses[u] <= Admitted(u) /\ Admitted(u) # 0
      BY <3>1, <3>2 DEF Paid
    <3> QED
      BY <3>3 DEF Admitted
  <2> QED
    BY <2>1, <2>2 DEF Throttled
<1> QED
  BY <1>1, PipelineInvariant, PTL
-----------------------------------------------------------------------------
(* An answer is the request's own.                                         *)
\* What a guard answers, and an answer nobody has filled in.
Refusals == {401, 403, 429}
Bare(k)  == ~k.res.handled /\ k.res.page = << >> /\ k.res.parts = << >>

\* The mark that layer l leaves.
Stamped(l, hdrs) == (l = "security" => "security" \in hdrs) /\ (l = "rate" => "ratelimit" \in hdrs)

\* What an answer of this status has to carry.
Want(k) == (IF "security" \in opts.layers THEN {"security"} ELSE {})
           \cup (IF "rate" \in opts.layers /\ k.res.status # 403 THEN {"ratelimit"} ELSE {})

\* The page is the caller's; what the layers passed so far mark is marked, up to the
\* generated 404 page; and nothing is filled in before the router has called a route.
Own(k) ==
  /\ DOMAIN k.res = ResFields
  /\ k.res.page = << >> \/ (Len(k.res.page) = 1 /\ k.res.page[1][1] = k.req.remote)
  /\ k.at \in OnDisk => k.res.route # NoRoute /\ FromDisk(routes[k.res.route].handler)
  /\ k.at \in Inbound => k.res.status \notin Refusals
  /\ k.at \in {"down"} \cup Limiting \/ (k.at = "up" /\ k.res.status \in Refusals) => Bare(k)
  /\ k.at \in Inbound => \A i \in 1 .. Len(Chain) : i < k.depth => Stamped(Chain[i], k.res.hdrs)
  /\ k.at = "up" => WipesHeaders(k) \/ Want(k) \subseteq k.res.hdrs

\* The routes are fixed before the first request.
Answers == /\ served \in Nat /\ (served = 0 => \A w \in Workers : wk[w].at = "idle")
           /\ \A w \in Workers : Own(wk[w])
\* The other workers' answers stay as they are.
LEMMA AnswersKept ==
  ASSUME IInv, Answers, NEW w \in Workers, NEW r, wk' = [wk EXCEPT ![w] = r], UNCHANGED <<opts, routes>>, Own(r),
         served' = served + 1 \/ (served' = served /\ wk[w].at # "idle")
  PROVE  Answers'
<1>1. Chain' = Chain
  BY ChainSame
<1> HIDE DEF Chain
<1>2. \A v \in Workers : wk'[v] = IF v = w THEN r ELSE wk[v]
  BY DEF IInv
<1>3. ASSUME NEW v \in Workers
      PROVE  Own(wk[v])'
  <2>1. PICK k : k = wk'[v] /\ Own(k)
    BY <1>2 DEF Answers
  <2> QED
    BY <1>1, <2>1 DEF Own, FromDisk, WipesHeaders, Want, Bare
<1>4. served' \in Nat /\ served' # 0
  BY DEF Answers
<1> QED
  BY <1>3, <1>4 DEF Answers

\* On the way down nothing is filled in, and the marks of the layers are there.
LEMMA Marked ==
  ASSUME NEW k, Own(k), k.at \in {"down"} \cup Limiting
  PROVE  /\ Bare(k) /\ k.res.status \notin Refusals /\ DOMAIN k.res = ResFields
         /\ \A i \in 1 .. Len(Chain) : i < k.depth => Stamped(Chain[i], k.res.hdrs)
<1> HIDE DEF Chain
<1> QED
  BY DEF Own, Inbound, Limiting, Pointing

\* A layer marks the request, or does not have to, and passes it on.
LEMMA PassOwn ==
  ASSUME NEW k, Own(k), k.at \in {"down"} \cup Limiting, k.depth \in 1 .. Len(Chain),
         NEW m, DOMAIN m = Fields, m.depth = k.depth, DOMAIN m.res = ResFields, m.res.page = k.res.page,
         m.res.parts = k.res.parts, m.res.handled = k.res.handled, m.res.status = k.res.status,
         k.res.hdrs \subseteq m.res.hdrs, Stamped(Chain[k.depth], m.res.hdrs)
  PROVE  Own(Next1(m))
<1> DEFINE r == Next1(m)
<1>1. r.at = "down" /\ r.depth = k.depth + 1 /\ r.res = m.res
  BY DEF Next1, Fields
<1>2. Bare(r) /\ r.res.status \notin Refusals
  BY <1>1, Marked DEF Bare
<1> HIDE DEF Chain, r
<1>3. ASSUME NEW i \in 1 .. Len(Chain), i < r.depth
      PROVE  Stamped(Chain[i], r.res.hdrs)
  <2>1. CASE i = k.depth
    BY <1>1, <2>1
  <2>2. CASE i < k.depth
    BY <1>1, <2>2, Marked DEF Stamped
  <2> QED
    BY <1>1, <1>3, <2>1, <2>2
<1>4. r.res.page = << >> /\ DOMAIN r.res = ResFields /\ r.at \notin OnDisk
  BY <1>1, <1>2 DEF Bare, OnDisk
<1>5. Own(r)
  BY <1>1, <1>2, <1>3, <1>4 DEF Own
<1> QED
  BY <1>5 DEF r

\* What the layers before the nth have marked.
LEMMA MarksBefore ==
  ASSUME NEW n \in 1 .. Len(Chain), NEW hdrs,
         \A i \in 1 .. Len(Chain) : i < n => Stamped(Chain[i], hdrs),
         NEW l \in {"security", "rate"}, l \in opts.layers, Rank[l] < Rank[Chain[n]]
  PROVE  Stamped(l, hdrs)
<1> HIDE DEF Chain
<1>1. PICK i \in 1 .. Len(Chain) : Chain[i] = l
  BY ChainLaid DEF Kinds
<1>2. Chain[n] \in Kinds /\ Chain[i] \in Kinds
  BY ChainLaid
<1>3. Rank[Chain[n]] \in Int /\ Rank[Chain[i]] \in Int /\ Rank[Chain[i]] < Rank[Chain[n]]
  BY <1>1, <1>2, Ranks
<1>4. ~(n < i) /\ n # i
  BY <1>3, ChainLaid
<1> QED
  BY <1>1, <1>4

\* A layer sends the request back with an answer of its own.
LEMMA RefuseOwn ==
  ASSUME NEW k, Own(k), k.at \in {"down"} \cup Limiting, k.depth \in 1 .. Len(Chain),
         NEW m, DOMAIN m = Fields, DOMAIN m.res = ResFields, m.res.page = k.res.page,
         m.res.parts = k.res.parts, m.res.handled = k.res.handled,
         k.res.hdrs \subseteq m.res.hdrs, NEW s,
         Rank[Chain[k.depth]] > 4, s = 403 \/ "ratelimit" \in m.res.hdrs \/ Rank[Chain[k.depth]] > 6
  PROVE  Own(Answer(m, s))
<1> DEFINE r == Answer(m, s)
<1>1. /\ r.at = "up" /\ r.res.status = s /\ DOMAIN r.res = ResFields /\ r.res.page = m.res.page
      /\ r.res.parts = m.res.parts /\ r.res.handled = m.res.handled /\ r.res.hdrs = m.res.hdrs
  BY DEF Answer, Back, Fields, ResFields
<1> HIDE DEF Chain, r
<1>2. Bare(r)
  BY <1>1, Marked DEF Bare
<1>3. "security" \in opts.layers => "security" \in r.res.hdrs
  <2>1. "security" \in opts.layers => Stamped("security", k.res.hdrs)
    BY Marked, MarksBefore, Ranks
  <2> QED
    BY <1>1, <2>1 DEF Stamped
<1>4. "rate" \in opts.layers /\ s # 403 => "ratelimit" \in r.res.hdrs
  <2>1. "rate" \in opts.layers /\ Rank[Chain[k.depth]] > 6 => Stamped("rate", k.res.hdrs)
    BY Marked, MarksBefore, Ranks
  <2> QED
    BY <1>1, <2>1 DEF Stamped
<1>5. Want(r) \subseteq r.res.hdrs
  BY <1>1, <1>3, <1>4 DEF Want
<1>6. Own(r)
  BY <1>1, <1>2, <1>5 DEF Own, Bare, Inbound, Limiting, Pointing, OnDisk
<1> QED
  BY <1>6 DEF r
\* A mark is added to the headers of the answer.
LEMMA StampOf ==
  ASSUME NEW k, DOMAIN k = Fields, DOMAIN k.res = ResFields, NEW h
  PROVE  /\ DOMAIN Stamp(k, h) = Fields /\ DOMAIN Stamp(k, h).res = ResFields
         /\ Stamp(k, h).depth = k.depth /\ Stamp(k, h).req = k.req
         /\ Stamp(k, h).res.page = k.res.page /\ Stamp(k, h).res.parts = k.res.parts
         /\ Stamp(k, h).res.handled = k.res.handled /\ Stamp(k, h).res.status = k.res.status
         /\ Stamp(k, h).res.hdrs = k.res.hdrs \cup {h}
BY DEF Stamp, Fields, ResFields

\* A layer w passes: marks are kept, and the layer's own is added.
LEMMA LayerPasses ==
  ASSUME IInv, Answers, NEW w \in Workers, NEW l, At(w, l), UNCHANGED <<opts, routes, served>>,
         NEW m, DOMAIN m = Fields, m.depth = wk[w].depth, DOMAIN m.res = ResFields, m.res.page = wk[w].res.page,
         m.res.parts = wk[w].res.parts, m.res.handled = wk[w].res.handled, m.res.status = wk[w].res.status,
         wk[w].res.hdrs \subseteq m.res.hdrs, Stamped(l, m.res.hdrs), wk' = [wk EXCEPT ![w] = Next1(m)]
  PROVE  Answers'
<1>1. PICK k : k = wk[w]
  OBVIOUS
<1>2. k.at = "down" /\ k.depth \in 1 .. Len(Chain) /\ Chain[k.depth] = l /\ Own(k)
  BY <1>1, AtLayer DEF Answers
<1> HIDE DEF Chain
<1>3. Own(Next1(m))
  BY <1>1, <1>2, PassOwn
<1>4. PICK r : r = Next1(m)
  OBVIOUS
<1> QED
  BY <1>1, <1>2, <1>3, <1>4, AnswersKept

\* A layer w refuses: whoever refuses stands behind the headers that must be there.
LEMMA LayerRefuses ==
  ASSUME IInv, Answers, NEW w \in Workers, UNCHANGED <<opts, routes, served>>,
         NEW m, DOMAIN m = Fields, DOMAIN m.res = ResFields, m.res.page = wk[w].res.page,
         m.res.parts = wk[w].res.parts, m.res.handled = wk[w].res.handled, wk[w].res.hdrs \subseteq m.res.hdrs,
         \/ At(w, "signature") /\ wk' = [wk EXCEPT ![w] = Answer(m, 403)]
         \/ At(w, "basic_auth") /\ wk' = [wk EXCEPT ![w] = Answer(m, 401)]
         \/ At(w, "cors") /\ wk' = [wk EXCEPT ![w] = Answer(m, 204)]
  PROVE  Answers'
<1>1. PICK k : k = wk[w]
  OBVIOUS
<1>l. PICK l, s : /\ At(w, l) /\ wk' = [wk EXCEPT ![w] = Answer(m, s)]
                  /\ <<l, s>> \in {<<"signature", 403>>, <<"basic_auth", 401>>, <<"cors", 204>>}
  OBVIOUS
<1>2. k.at = "down" /\ k.depth \in 1 .. Len(Chain) /\ Chain[k.depth] = l /\ Own(k)
  BY <1>1, <1>l, AtLayer DEF Answers
<1> HIDE DEF Chain
<1>3. Rank[Chain[k.depth]] > 4 /\ (s = 403 \/ Rank[Chain[k.depth]] > 6)
  BY <1>l, <1>2, Ranks
<1>4. PICK r : r = Answer(m, s)
  OBVIOUS
<1>5. Own(r)
  BY <1>1, <1>2, <1>3, <1>4, RefuseOwn
<1> QED
  BY <1>1, <1>l, <1>2, <1>4, <1>5, AnswersKept

\* The layers, on the way down.
LEMMA LayersOwn ==
  ASSUME IInv, Answers, NEW w \in Workers,
         \/ http_client_ip_middleware(w) \/ http_request_id_middleware(w) \/ http_security_middleware(w)
         \/ http_signature_middleware(w) \/ PassDown(w) \/ http_cors_middleware(w) \/ http_basic_auth_middleware(w)
  PROVE  Answers'
<1> DEFINE k == wk[w]
<1>0. DOMAIN k = Fields /\ DOMAIN k.res = ResFields
  BY DEF IInv, Placed, Answers, Own
<1>u. UNCHANGED <<opts, routes, served>>
  BY DEF http_client_ip_middleware, http_request_id_middleware, http_security_middleware, http_signature_middleware,
         PassDown, http_cors_middleware, http_basic_auth_middleware, Quiet
<1>1. CASE http_client_ip_middleware(w)
  <2>1. PICK m : m = [k EXCEPT !.ip = http_client_ip_resolve(k.req.xff, k.req.remote)]
    OBVIOUS
  <2>2. At(w, "client_ip") /\ wk' = [wk EXCEPT ![w] = Next1(m)]
    BY <1>1, <2>1 DEF http_client_ip_middleware, Go
  <2>3. DOMAIN m = Fields /\ m.depth = k.depth /\ m.res = k.res
    BY <1>0, <2>1 DEF Fields
  <2>4. Stamped("client_ip", m.res.hdrs)
    BY DEF Stamped
  <2> QED
    BY <1>0, <1>u, <2>2, <2>3, <2>4, LayerPasses
<1>2. CASE http_request_id_middleware(w)
  <2>1. PICK m : m = k
    OBVIOUS
  <2>2. At(w, "request_id") /\ wk' = [wk EXCEPT ![w] = Next1(m)] /\ Stamped("request_id", m.res.hdrs)
    BY <1>2, <2>1 DEF http_request_id_middleware, Go, Stamped
  <2> QED
    BY <1>0, <1>u, <2>1, <2>2, LayerPasses
<1>3. CASE http_security_middleware(w)
  <2>1. PICK m : m = Stamp(k, "security")
    OBVIOUS
  <2>2. At(w, "security") /\ wk' = [wk EXCEPT ![w] = Next1(m)]
    BY <1>3, <2>1 DEF http_security_middleware, Go
  <2>3. /\ DOMAIN m = Fields /\ m.depth = k.depth /\ DOMAIN m.res = ResFields /\ m.res.page = k.res.page
        /\ m.res.parts = k.res.parts /\ m.res.handled = k.res.handled /\ m.res.status = k.res.status
        /\ k.res.hdrs \subseteq m.res.hdrs /\ Stamped("security", m.res.hdrs)
    BY <1>0, <2>1, StampOf DEF Stamped
  <2> QED
    BY <1>u, <2>2, <2>3, LayerPasses
<1>4. CASE http_signature_middleware(w)
  <2>1. PICK m : m = k
    OBVIOUS
  <2>2. At(w, "signature") /\ wk' \in {[wk EXCEPT ![w] = Next1(m)], [wk EXCEPT ![w] = Answer(m, 403)]}
    BY <1>4, <2>1 DEF http_signature_middleware, Go
  <2>3. Stamped("signature", m.res.hdrs)
    BY DEF Stamped
  <2>4. CASE wk' = [wk EXCEPT ![w] = Next1(m)]
    BY <1>0, <1>u, <2>1, <2>2, <2>3, <2>4, LayerPasses
  <2>5. CASE wk' = [wk EXCEPT ![w] = Answer(m, 403)]
    BY <1>0, <1>u, <2>1, <2>2, <2>5, LayerRefuses, ZenonT(60)
  <2> QED
    BY <2>2, <2>4, <2>5
<1>5. CASE PassDown(w)
  <2>1. PICK m : m = k
    OBVIOUS
  <2>2. PICK l \in {"stats", "gzip", "etag"} : At(w, l)
    BY <1>5 DEF PassDown
  <2>3. wk' = [wk EXCEPT ![w] = Next1(m)] /\ Stamped(l, m.res.hdrs)
    BY <1>5, <2>1 DEF PassDown, Go, Stamped
  <2> QED
    BY <1>0, <1>u, <2>1, <2>2, <2>3, LayerPasses
<1>6. CASE http_cors_middleware(w)
  <2>1. PICK m : m = IF ~k.req.origin THEN k ELSE Stamp(k, "cors")
    OBVIOUS
  <2>2. At(w, "cors") /\ wk' \in {[wk EXCEPT ![w] = Next1(m)], [wk EXCEPT ![w] = Answer(m, 204)]}
    BY <1>6, <2>1 DEF http_cors_middleware, Go
  <2>3. /\ DOMAIN m = Fields /\ m.depth = k.depth /\ DOMAIN m.res = ResFields /\ m.res.page = k.res.page
        /\ m.res.parts = k.res.parts /\ m.res.handled = k.res.handled /\ m.res.status = k.res.status
        /\ k.res.hdrs \subseteq m.res.hdrs /\ Stamped("cors", m.res.hdrs)
    BY <1>0, <2>1, StampOf DEF Stamped
  <2>4. CASE wk' = [wk EXCEPT ![w] = Next1(m)]
    BY <1>u, <2>2, <2>3, <2>4, LayerPasses
  <2>5. CASE wk' = [wk EXCEPT ![w] = Answer(m, 204)]
    BY <1>u, <2>2, <2>3, <2>5, LayerRefuses
  <2> QED
    BY <2>2, <2>4, <2>5
<1>7. CASE http_basic_auth_middleware(w)
  <2>1. At(w, "basic_auth")
    BY <1>7 DEF http_basic_auth_middleware
  <2>2. PICK m, n : m = [k EXCEPT !.user = k.req.cred.user] /\ n = Stamp(k, "challenge")
    OBVIOUS
  <2>3. wk' \in {[wk EXCEPT ![w] = Next1(m)], [wk EXCEPT ![w] = Answer(n, 401)]}
    BY <1>7, <2>2 DEF http_basic_auth_middleware, http_basic_auth_parse, Go
  <2>4. DOMAIN m = Fields /\ m.depth = k.depth /\ m.res = k.res /\ Stamped("basic_auth", m.res.hdrs)
    BY <1>0, <2>2 DEF Fields, Stamped
  <2>5. /\ DOMAIN n = Fields /\ DOMAIN n.res = ResFields /\ n.res.page = k.res.page
        /\ n.res.parts = k.res.parts /\ n.res.handled = k.res.handled /\ k.res.hdrs \subseteq n.res.hdrs
    BY <1>0, <2>2, StampOf
  <2>6. CASE wk' = [wk EXCEPT ![w] = Next1(m)]
    BY <1>0, <1>u, <2>1, <2>4, <2>6, LayerPasses
  <2>7. CASE wk' = [wk EXCEPT ![w] = Answer(n, 401)]
    BY <1>u, <2>1, <2>5, <2>7, LayerRefuses
  <2> QED
    BY <2>3, <2>6, <2>7
<1> QED
  BY <1>1, <1>2, <1>3, <1>4, <1>5, <1>6, <1>7

\* A step of the limiter: the call goes on with the answer as it was, or it ends.
LEMMA LimiterSteps ==
  ASSUME IInv, NEW w \in Workers, Limiter(w)
  PROVE  /\ UNCHANGED <<opts, routes, served, file, held>> /\ wk[w].at \in {"down"} \cup Limiting
         /\ \/ \E r : /\ wk' = [wk EXCEPT ![w] = r] /\ r.at \in Limiting
                      /\ r.res = wk[w].res /\ r.req = wk[w].req /\ r.depth = wk[w].depth
            \/ wk[w].at \in Limiting /\ \E ok \in BOOLEAN : wk' = [wk EXCEPT ![w] = Limited(wk[w], ok)]
<1>1. PICK k : k = wk[w]
  OBVIOUS
<1>0. DOMAIN k = Fields
  BY <1>1 DEF IInv, Placed
<1>u. UNCHANGED <<opts, routes, served, file, held>>
  BY DEF Limiter, http_rate_limiter_allow, FindBucket, bucket_for, Corrupt, TestsLast, ReadsLast, LoadsTokens, Refills,
         Clamps, StoresBurst, Touches, TestsTokens, LoadsAgain, Debits, Looks, Writes, Quiet, disk
<1>a. k.at \in {"down"} \cup Limiting
  BY <1>1 DEF Limiter, http_rate_limiter_allow, FindBucket, bucket_for, Corrupt, TestsLast, ReadsLast, LoadsTokens, Refills,
              Clamps, StoresBurst, Touches, TestsTokens, LoadsAgain, Debits, At, Limiting, Pointing
<1> DEFINE On(r)  == r.at \in Limiting /\ r.res = k.res /\ r.req = k.req /\ r.depth = k.depth
           Goal   == \/ \E r : wk' = [wk EXCEPT ![w] = r] /\ On(r)
                     \/ k.at \in Limiting /\ \E ok \in BOOLEAN : wk' = [wk EXCEPT ![w] = Limited(k, ok)]
<1> SUFFICES Goal
  BY <1>1, <1>u, <1>a, Zenon
<1>o. ASSUME NEW r, wk' = [wk EXCEPT ![w] = r], On(r)
      PROVE  Goal
  BY <1>o
<1>e. ASSUME NEW ok \in BOOLEAN, wk' = [wk EXCEPT ![w] = Limited(k, ok)], k.at \in Limiting
      PROVE  Goal
  BY <1>e
<1> HIDE DEF Goal
<1>2. CASE http_rate_limiter_allow(w)
  <2>1. PICK key, n : key = http_rate_limit_user_key(k) /\ n = clock
    OBVIOUS
  <2>2. PICK r : r = [k EXCEPT !.at = "find", !.key = key, !.now = n]
    OBVIOUS
  <2>3. wk' = [wk EXCEPT ![w] = r]
    BY <1>1, <1>2, <2>1, <2>2 DEF http_rate_limiter_allow, Go
  <2>4. On(r)
    BY <1>0, <2>2 DEF Fields, Limiting, Pointing
  <2> QED
    BY <1>o, <2>3, <2>4
<1>3. CASE FindBucket(w) \/ bucket_for(w)
  <2>1. PICK r : /\ r \in {[k EXCEPT !.at = "last"], [k EXCEPT !.at = "make", !.found = DOMAIN buckets]}
                 /\ wk' = [wk EXCEPT ![w] = r]
    BY <1>1, <1>3 DEF FindBucket, bucket_for, Looks, Go
  <2>2. On(r)
    BY <1>0, <2>1 DEF Fields, Limiting, Pointing
  <2> QED
    BY <1>o, <2>1, <2>2
<1>4. CASE TestsLast(w) \/ ReadsLast(w)
  <2>1. PICK n : /\ wk' \in {[wk EXCEPT ![w] = [k EXCEPT !.at = "delta"]],
                             [wk EXCEPT ![w] = [k EXCEPT !.at = "load", !.dt = n]]}
    BY <1>1, <1>4 DEF TestsLast, ReadsLast, Looks, Go
  <2>2. PICK r : r \in {[k EXCEPT !.at = "delta"], [k EXCEPT !.at = "load", !.dt = n]} /\ wk' = [wk EXCEPT ![w] = r]
    BY <2>1
  <2>3. On(r)
    BY <1>0, <2>2 DEF Fields, Limiting, Pointing
  <2> QED
    BY <1>o, <2>2, <2>3
<1>5. CASE LoadsTokens(w) \/ LoadsAgain(w)
  <2>1. PICK n : n = buckets[k.key].tokens
    OBVIOUS
  <2>2. PICK r : r \in {[k EXCEPT !.at = "refill", !.seen = n], [k EXCEPT !.at = "store", !.seen = n]} /\ wk' = [wk EXCEPT ![w] = r]
    BY <1>1, <1>5, <2>1 DEF LoadsTokens, LoadsAgain, Looks, Go
  <2>3. On(r)
    BY <1>0, <2>2 DEF Fields, Limiting, Pointing
  <2> QED
    BY <1>o, <2>2, <2>3
<1>6. CASE Refills(w) \/ Clamps(w) \/ StoresBurst(w) \/ Touches(w)
  <2>1. PICK s \in {"clamp", "cap", "touch", "test"} : wk' = [wk EXCEPT ![w] = [k EXCEPT !.at = s]]
    BY <1>1, <1>6 DEF Refills, Clamps, StoresBurst, Touches, Looks, Writes, Go
  <2>2. PICK r : r = [k EXCEPT !.at = s]
    OBVIOUS
  <2>3. On(r)
    BY <1>0, <2>1, <2>2 DEF Fields, Limiting, Pointing
  <2> QED
    BY <1>o, <2>1, <2>2, <2>3
<1>7. CASE TestsTokens(w)
  <2>1. k.at \in Limiting /\ wk' \in {[wk EXCEPT ![w] = [k EXCEPT !.at = "debit"]], [wk EXCEPT ![w] = Limited(k, FALSE)]}
    BY <1>1, <1>7 DEF TestsTokens, Looks, Go, Limiting, Pointing
  <2>2. PICK r : r = [k EXCEPT !.at = "debit"]
    OBVIOUS
  <2>3. On(r)
    BY <1>0, <2>2 DEF Fields, Limiting, Pointing
  <2> QED
    BY <1>o, <1>e, <2>1, <2>2, <2>3
<1>8. CASE Debits(w) \/ Corrupt(w)
  <2>1. k.at \in Limiting /\ \E ok \in BOOLEAN : wk' = [wk EXCEPT ![w] = Limited(k, ok)]
    BY <1>1, <1>8 DEF Debits, Corrupt, Writes, Go, Limiting, Pointing
  <2> QED
    BY <1>e, <2>1
<1> QED
  BY <1>2, <1>3, <1>4, <1>5, <1>6, <1>7, <1>8 DEF Limiter

\* The limiter marks every request it has seen.
LEMMA LimiterOwn ==
  ASSUME IInv, Answers, NEW w \in Workers, Limiter(w)
  PROVE  Answers'
<1>1. PICK k : k = wk[w]
  OBVIOUS
<1>0. DOMAIN k = Fields /\ DOMAIN k.res = ResFields /\ Own(k) /\ Placed(k)
  BY <1>1 DEF IInv, Placed, Answers, Own
<1>u. UNCHANGED <<opts, routes, served>> /\ k.at \in {"down"} \cup Limiting
  BY <1>1, LimiterSteps
<1>2. CASE \E r : wk' = [wk EXCEPT ![w] = r] /\ r.at \in Limiting /\ r.res = k.res /\ r.req = k.req /\ r.depth = k.depth
  <2>2. PICK r : wk' = [wk EXCEPT ![w] = r] /\ r.at \in Limiting /\ r.res = k.res /\ r.req = k.req /\ r.depth = k.depth
    BY <1>2
  <2> HIDE DEF Chain
  <2>3. Own(r)
    BY <1>0, <1>u, <2>2 DEF Own, Bare, Inbound, Limiting, Pointing, OnDisk
  <2>4. k.at # "idle"
    BY <1>u DEF Limiting, Pointing
  <2> QED
    BY <1>1, <1>u, <2>2, <2>3, <2>4, AnswersKept
<1>3. CASE k.at \in Limiting /\ \E ok \in BOOLEAN : wk' = [wk EXCEPT ![w] = Limited(k, ok)]
  <2>1. PICK ok \in BOOLEAN : wk' = [wk EXCEPT ![w] = Limited(k, ok)]
    BY <1>3
  <2>2. k.at \in Limiting /\ k.depth \in 1 .. Len(Chain) /\ Chain[k.depth] = "rate"
    BY <1>0, <1>3 DEF Limiting, Pointing, Placed
  <2>3. PICK m : m = Stamp(k, "ratelimit")
    OBVIOUS
  <2>4. /\ DOMAIN m = Fields /\ m.depth = k.depth /\ DOMAIN m.res = ResFields /\ m.res.page = k.res.page
        /\ m.res.parts = k.res.parts /\ m.res.handled = k.res.handled /\ m.res.status = k.res.status
        /\ k.res.hdrs \subseteq m.res.hdrs /\ "ratelimit" \in m.res.hdrs /\ Stamped("rate", m.res.hdrs)
    BY <1>0, <2>3, StampOf DEF Stamped
  <2> HIDE DEF Chain
  <2>5. Own(Next1(m))
    BY <1>0, <2>2, <2>4, PassOwn
  <2>6. Own(Answer(m, 429))
    BY <1>0, <2>2, <2>4, RefuseOwn, Ranks
  <2>7. PICK r : r = Limited(k, ok)
    OBVIOUS
  <2>8. Own(r) /\ k.at # "idle"
    BY <2>2, <2>3, <2>5, <2>6, <2>7 DEF Limited, Limiting, Pointing
  <2> QED
    BY <1>1, <1>u, <2>1, <2>7, <2>8, AnswersKept
<1> QED
  BY <1>1, <1>2, <1>3, LimiterSteps
\* What a layer does on the way up: it marks, and of the status it changes at most a
\* success into a 304.
LEMMA FinishedOf ==
  ASSUME NEW k, DOMAIN k.res = ResFields, NEW l
  PROVE  /\ DOMAIN Finished(l, k) = ResFields /\ Finished(l, k).page = k.res.page
         /\ Finished(l, k).parts = k.res.parts /\ Finished(l, k).handled = k.res.handled
         /\ Finished(l, k).route = k.res.route /\ k.res.hdrs \subseteq Finished(l, k).hdrs
         /\ \/ Finished(l, k).status = k.res.status
            \/ k.res.status \in 200 .. 299 /\ Finished(l, k).status = 304
<1>1. CASE l = "etag"
  <2>1. Finished(l, k) = Etagged(k.req, k.res)
    BY <1>1 DEF Finished
  <2>2. PICK n : n = Unchanged(k.req, k.res)
    OBVIOUS
  <2>3. Etagged(k.req, k.res) = IF k.res.status \notin 200 .. 299 \/ ~HasBody(k.res) THEN k.res
                                ELSE [k.res EXCEPT !.tag = TagOf(k.res), !.status = IF n THEN 304 ELSE @, !.empty = n]
    BY <2>2 DEF Etagged
  <2> QED
    BY <2>1, <2>3 DEF ResFields
<1>2. CASE l = "gzip"
  <2>1. Finished(l, k) = Gzipped(k.req, k.res)
    BY <1>2 DEF Finished
  <2>2. Gzipped(k.req, k.res) \in {k.res, [k.res EXCEPT !.gz = TRUE, !.hdrs = @ \cup {"vary"}]}
    BY DEF Gzipped
  <2>3. PICK q : q = k.res /\ DOMAIN q = ResFields
    OBVIOUS
  <2>4. PICK z : z = [q EXCEPT !.gz = TRUE, !.hdrs = @ \cup {"vary"}]
    OBVIOUS
  <2>5. /\ DOMAIN z = ResFields /\ z.page = q.page /\ z.parts = q.parts /\ z.handled = q.handled /\ z.route = q.route
        /\ q.hdrs \subseteq z.hdrs /\ z.status = q.status
    BY <2>3, <2>4 DEF ResFields
  <2>6. Finished(l, k) \in {q, z}
    BY <2>1, <2>2, <2>3, <2>4
  <2> QED
    BY <2>3, <2>5, <2>6
<1>3. CASE l = "request_id"
  <2>1. Finished(l, k) = [k.res EXCEPT !.hdrs = @ \cup {"request_id"}]
    BY <1>3 DEF Finished
  <2> QED
    BY <2>1 DEF ResFields
<1>4. CASE l \notin {"etag", "gzip", "request_id"}
  BY <1>4 DEF Finished
<1> QED
  BY <1>1, <1>2, <1>3, <1>4

\* Back up the chain.
LEMMA ReturnOwn ==
  ASSUME IInv, Answers, NEW w \in Workers, Return(w)
  PROVE  Answers'
<1>1. PICK k : k = wk[w]
  OBVIOUS
<1>0. DOMAIN k = Fields /\ DOMAIN k.res = ResFields /\ Own(k) /\ k.at = "up"
  BY <1>1 DEF IInv, Placed, Answers, Own, Return
<1>u. UNCHANGED <<opts, routes, served>>
  BY DEF Return, Quiet
<1>2. PICK q : q = Finished(Chain[k.depth], k)
  OBVIOUS
<1>3. PICK r : r = Back([k EXCEPT !.res = q])
  OBVIOUS
<1>4. wk' = [wk EXCEPT ![w] = r]
  BY <1>1, <1>2, <1>3 DEF Return, Go
<1> HIDE DEF Chain
<1>5. r.at = "up" /\ r.res = q /\ r.req = k.req
  BY <1>0, <1>3 DEF Back, Fields
<1>6. /\ DOMAIN q = ResFields /\ q.page = k.res.page /\ q.parts = k.res.parts /\ q.handled = k.res.handled
      /\ q.route = k.res.route /\ k.res.hdrs \subseteq q.hdrs
      /\ q.status = k.res.status \/ (k.res.status \in 200 .. 299 /\ q.status = 304)
  BY <1>0, <1>2, FinishedOf
<1>7. r.res.status \in Refusals => Bare(r)
  <2>1. r.res.status \in Refusals => k.res.status = r.res.status
    BY <1>5, <1>6 DEF Refusals
  <2>2. k.res.status \in Refusals => Bare(k)
    BY <1>0 DEF Own
  <2> QED
    BY <1>5, <1>6, <2>1, <2>2 DEF Bare
<1>8. WipesHeaders(r) \/ Want(r) \subseteq r.res.hdrs
  <2>1. WipesHeaders(k) \/ Want(k) \subseteq k.res.hdrs
    BY <1>0 DEF Own
  <2>2. CASE WipesHeaders(k)
    <3>1. q.status = k.res.status
      BY <1>6, <2>2 DEF WipesHeaders
    <3> QED
      BY <1>5, <1>6, <2>2, <3>1 DEF WipesHeaders
  <2>3. CASE Want(k) \subseteq k.res.hdrs
    <3>1. k.res.status = 403 => q.status = 403
      BY <1>6
    <3>2. Want(r) \subseteq Want(k)
      BY <1>5, <3>1 DEF Want
    <3> QED
      BY <1>5, <1>6, <2>3, <3>2
  <2> QED
    BY <2>1, <2>2, <2>3
<1>9. q.page = << >> \/ (Len(q.page) = 1 /\ q.page[1][1] = r.req.remote)
  BY <1>0, <1>5, <1>6 DEF Own
<1>10. Own(r)
  BY <1>5, <1>6, <1>7, <1>8, <1>9 DEF Own, Inbound, Limiting, Pointing, OnDisk
<1> QED
  BY <1>0, <1>1, <1>u, <1>4, <1>10, AnswersKept

\* A request comes in with nothing filled in, and a worker that is done has nothing.
LEMMA EndsOwn ==
  ASSUME IInv, Answers, NEW w \in Workers, Arrive(w) \/ Deliver(w)
  PROVE  Answers'
<1> HIDE DEF Chain
<1>0. DOMAIN Blank = ResFields /\ Blank.page = << >> /\ Blank.parts = << >> /\ Blank.handled = FALSE /\ Blank.status = 200
  BY DEF Blank, ResFields
<1>1. CASE Arrive(w)
  <2>1. PICK q : wk' = [wk EXCEPT ![w] = [Idle EXCEPT !.at = "down", !.depth = 1, !.id = served + 1, !.req = Conditional(q)]]
    BY <1>1 DEF Arrive, Go
  <2>2. PICK r : r = [Idle EXCEPT !.at = "down", !.depth = 1, !.id = served + 1, !.req = Conditional(q)]
    OBVIOUS
  <2>3. r.at = "down" /\ r.depth = 1 /\ r.res = Blank
    BY <2>2 DEF Idle, Fields
  <2>4. Own(r)
    BY <1>0, <2>3, ChainLaid DEF Own, Bare, Refusals, Inbound, Limiting, Pointing, OnDisk
  <2>5. UNCHANGED <<opts, routes>> /\ served' = served + 1
    BY <1>1 DEF Arrive
  <2> QED
    BY <2>1, <2>2, <2>4, <2>5, AnswersKept
<1>2. CASE Deliver(w)
  <2>1. PICK r : r = Idle
    OBVIOUS
  <2>2. wk' = [wk EXCEPT ![w] = r] /\ UNCHANGED <<opts, routes, served>> /\ wk[w].at # "idle"
    BY <1>2, <2>1 DEF Deliver, Go, Quiet
  <2>3. r.at = "idle" /\ r.res = Blank
    BY <2>1 DEF Idle
  <2>4. Own(r)
    BY <1>0, <2>3 DEF Own, Inbound, Limiting, Pointing, OnDisk
  <2> QED
    BY <2>2, <2>4, AnswersKept
<1> QED
  BY <1>1, <1>2

\* Behind the last layer every mark is there.
LEMMA AllMarked ==
  ASSUME NEW k, Own(k), k.at \in Inbound, k.depth = Len(Chain) + 1
  PROVE  /\ "security" \in opts.layers => "security" \in k.res.hdrs
         /\ "rate" \in opts.layers => "ratelimit" \in k.res.hdrs
<1> HIDE DEF Chain
<1>1. \A i \in 1 .. Len(Chain) : Stamped(Chain[i], k.res.hdrs)
  BY ChainLaid DEF Own
<1>2. \A l \in {"security", "rate"} : l \in opts.layers => \E i \in 1 .. Len(Chain) : Chain[i] = l
  BY ChainLaid DEF Kinds
<1> QED
  BY <1>1, <1>2 DEF Stamped

\* A page is rendered for the one who asked, into an empty buffer.
LEMMA PageOf ==
  ASSUME NEW w, NEW k, DOMAIN k = Fields, DOMAIN k.res = ResFields
  PROVE  /\ DOMAIN Page(w, k) = Fields /\ DOMAIN Page(w, k).res = ResFields /\ Page(w, k).req = k.req
         /\ Page(w, k).depth = k.depth
         /\ Len(Page(w, k).res.page) = 1 /\ Page(w, k).res.page[1][1] = k.req.remote
         /\ Page(w, k).res.hdrs = k.res.hdrs /\ Page(w, k).res.status = k.res.status
         /\ Page(w, k).res.route = k.res.route /\ Page(w, k).res.handled = k.res.handled
         /\ Page(w, k).res.params = k.res.params /\ Page(w, k).res.suppress = k.res.suppress
         /\ Page(w, k).res.tag = k.res.tag
<1>1. PICK p : p = Rendered(w, k)
  OBVIOUS
<1>2. p = <<Content(k)>>
  BY <1>1 DEF Rendered, capture_begin
<1>3. Len(p) = 1 /\ p[1][1] = k.req.remote
  BY <1>2 DEF Content
<1>4. PICK f : f = opts.layout
  OBVIOUS
<1>5. Page(w, k) = [k EXCEPT !.res.page = p, !.res.framed = f]
  BY <1>1, <1>4 DEF Page
<1>6. PICK q : q = k.res /\ DOMAIN q = ResFields
  OBVIOUS
<1>7. PICK z : z = [q EXCEPT !.page = p, !.framed = f]
  OBVIOUS
<1>8. /\ DOMAIN z = ResFields /\ z.page = p /\ z.hdrs = q.hdrs /\ z.status = q.status /\ z.route = q.route
      /\ z.handled = q.handled /\ z.params = q.params /\ z.suppress = q.suppress /\ z.tag = q.tag
  BY <1>6, <1>7 DEF ResFields
<1>9. DOMAIN Page(w, k) = Fields /\ Page(w, k).req = k.req /\ Page(w, k).depth = k.depth /\ Page(w, k).res = z
  BY <1>5, <1>6, <1>7 DEF Fields
<1> QED
  BY <1>3, <1>6, <1>8, <1>9

\* The router and the disk send an answer back that no guard gives.
LEMMA ServedOwn ==
  ASSUME NEW r, r.at = "up", DOMAIN r.res = ResFields, r.res.status \notin Refusals,
         r.res.page = << >> \/ (Len(r.res.page) = 1 /\ r.res.page[1][1] = r.req.remote),
         \/ WipesHeaders(r)
         \/ /\ "security" \in opts.layers => "security" \in r.res.hdrs
            /\ "rate" \in opts.layers => "ratelimit" \in r.res.hdrs
  PROVE  Own(r)
<1> HIDE DEF Chain
<1>1. WipesHeaders(r) \/ Want(r) \subseteq r.res.hdrs
  BY DEF Want
<1> QED
  BY <1>1 DEF Own, Inbound, Limiting, Pointing, OnDisk
\* The static handler returns: with the headers it was called with, or with the
\* generated 404 page.
LEMMA StaticOwn ==
  ASSUME IInv, Answers, NEW w \in Workers, wk[w].at \in OnDisk, UNCHANGED <<opts, routes, served>>,
         NEW m, DOMAIN m = Fields, DOMAIN m.res = ResFields, m.req = wk[w].req, m.res.hdrs = wk[w].res.hdrs,
         m.res.page = wk[w].res.page, m.res.route = wk[w].res.route, m.res.status \notin Refusals,
         StaticReturns(w, m)
  PROVE  Answers'
<1>1. PICK k : k = wk[w]
  OBVIOUS
<1>2. Own(k) /\ k.at \in OnDisk /\ k.at \in Inbound /\ k.depth = Len(Chain) + 1 /\ k.at # "idle"
  BY <1>1 DEF Answers, IInv, Placed, Inbound, OnDisk
<1> HIDE DEF Chain
<1>3. /\ "security" \in opts.layers => "security" \in m.res.hdrs
      /\ "rate" \in opts.layers => "ratelimit" \in m.res.hdrs
      /\ m.res.page = << >> \/ (Len(m.res.page) = 1 /\ m.res.page[1][1] = m.req.remote)
      /\ m.res.route # NoRoute /\ FromDisk(routes[m.res.route].handler)
  <2>1. /\ "security" \in opts.layers => "security" \in k.res.hdrs
        /\ "rate" \in opts.layers => "ratelimit" \in k.res.hdrs
    BY <1>2, AllMarked
  <2> QED
    BY <1>1, <1>2, <2>1 DEF Own
<1>4. CASE wk' = [wk EXCEPT ![w] = Back(m)]
  <2>1. PICK r : r = Back(m)
    OBVIOUS
  <2>2. r.at = "up" /\ r.res = m.res /\ r.req = m.req
    BY <2>1 DEF Back, Fields
  <2>3. Own(r)
    BY <1>3, <2>2, ServedOwn
  <2> QED
    BY <1>1, <1>2, <1>4, <2>1, <2>3, AnswersKept
<1>5. CASE ~(wk' = [wk EXCEPT ![w] = Back(m)])
  <2>1. PICK p : p = Page(w, m)
    OBVIOUS
  <2>2. PICK q : q = [p EXCEPT !.res.hdrs = {}, !.res.tag = NoTag, !.res.lm = NoDate, !.res.parts = << >>]
    OBVIOUS
  <2>3. wk' = [wk EXCEPT ![w] = Back(q)] /\ routes[m.res.route].handler # "mount" /\ m.res.status = 404
    BY <1>5, <2>1, <2>2 DEF StaticReturns, Go
  <2>4. /\ DOMAIN p = Fields /\ DOMAIN p.res = ResFields /\ p.req = m.req /\ Len(p.res.page) = 1
        /\ p.res.page[1][1] = m.req.remote /\ p.res.status = 404 /\ p.res.route = m.res.route
    BY <2>1, <2>3, PageOf
  <2>5. PICK z : z = [p.res EXCEPT !.hdrs = {}, !.tag = NoTag, !.lm = NoDate, !.parts = << >>]
    OBVIOUS
  <2>6. DOMAIN z = ResFields /\ z.page = p.res.page /\ z.status = 404 /\ z.route = m.res.route
    BY <2>4, <2>5 DEF ResFields
  <2>7. DOMAIN q = Fields /\ q.req = m.req /\ q.res = z
    BY <2>2, <2>4, <2>5 DEF Fields
  <2>8. PICK r : r = Back(q)
    OBVIOUS
  <2>9. r.at = "up" /\ r.res = z /\ r.req = m.req
    BY <2>7, <2>8 DEF Back, Fields
  <2>10. WipesHeaders(r)
    BY <1>3, <2>3, <2>6, <2>9 DEF WipesHeaders, FromDisk
  <2>11. Own(r)
    BY <2>4, <2>6, <2>9, <2>10, ServedOwn DEF Refusals
  <2> QED
    BY <1>1, <1>2, <2>3, <2>8, <2>11, AnswersKept
<1> QED
  BY <1>4, <1>5

\* The disk is still at work.
LEMMA WaitOwn ==
  ASSUME IInv, Answers, NEW w \in Workers, wk[w].at \in OnDisk, UNCHANGED <<opts, routes, served>>,
         NEW r, DOMAIN r = Fields, DOMAIN r.res = ResFields, r.at \in OnDisk, r.depth = wk[w].depth, r.req = wk[w].req,
         r.res.hdrs = wk[w].res.hdrs, r.res.page = wk[w].res.page, r.res.route = wk[w].res.route,
         r.res.status = wk[w].res.status, wk' = [wk EXCEPT ![w] = r]
  PROVE  Answers'
<1>1. Own(wk[w]) /\ wk[w].at # "idle"
  BY DEF Answers, OnDisk
<1> HIDE DEF Chain
<1>2. Own(r)
  BY <1>1 DEF Own, Inbound, OnDisk, Limiting, Pointing
<1> QED
  BY <1>1, <1>2, AnswersKept

\* What the disk leaves of a task it has taken on.
SameCall(m, k) ==
  /\ DOMAIN m = Fields /\ DOMAIN m.res = ResFields /\ m.req = k.req /\ m.depth = k.depth
  /\ m.res.hdrs = k.res.hdrs /\ m.res.page = k.res.page /\ m.res.route = k.res.route
  /\ m.res.params = k.res.params /\ m.res.suppress = k.res.suppress

\* A step on the disk answers, or goes on with the same call.
LEMMA DiskSteps ==
  ASSUME IInv, Answers, NEW w \in Workers, http_serve_static(w) \/ file_read_all(w) \/ file_read_range(w)
  PROVE  /\ wk[w].at \in OnDisk /\ UNCHANGED <<opts, routes, served>>
         /\ \E m : /\ SameCall(m, wk[w])
                  /\ \/ StaticReturns(w, m) /\ m.res.status \notin Refusals
                     \/ m.at \in OnDisk /\ m.res.status = wk[w].res.status /\ wk' = [wk EXCEPT ![w] = m]
<1>1. PICK k : k = wk[w]
  OBVIOUS
<1>0. /\ DOMAIN k = Fields /\ DOMAIN k.res = ResFields /\ k.at \in OnDisk /\ k.res.status \notin Refusals
  BY <1>1 DEF IInv, Placed, Answers, Own, http_serve_static, file_read_all, file_read_range, OnDisk, Inbound
<1>u. UNCHANGED <<opts, routes, served>> /\ wk[w].at \in OnDisk
  BY <1>0, <1>1 DEF http_serve_static, file_read_all, file_read_range, Quiet
<1> DEFINE Goal == \E m : /\ SameCall(m, k)
                         /\ \/ StaticReturns(w, m) /\ m.res.status \notin Refusals
                            \/ m.at \in OnDisk /\ m.res.status = k.res.status /\ wk' = [wk EXCEPT ![w] = m]
<1> SUFFICES Goal
  BY <1>1, <1>u, Zenon
<1>a. ASSUME NEW m, SameCall(m, k), StaticReturns(w, m), m.res.status \notin Refusals
      PROVE  Goal
  BY <1>a, Zenon
<1>b. ASSUME NEW m, SameCall(m, k), m.at \in OnDisk, m.res.status = k.res.status, wk' = [wk EXCEPT ![w] = m]
      PROVE  Goal
  BY <1>b, Zenon
<1> HIDE DEF Chain, Goal
<1>s. ASSUME NEW s, s \notin Refusals, NEW m, m = [k EXCEPT !.res.status = s], StaticReturns(w, m)
      PROVE  Goal
  <2>1. SameCall(m, k) /\ m.res.status = s
    BY <1>0, <1>s DEF SameCall, Fields, ResFields
  <2> QED
    BY <1>s, <1>a, <2>1
<1>2. CASE http_serve_static(w)
  <2> DEFINE tag == StaticTag(file.mtime, file.size)
             ws == parse_ranges(k.req.range, file.size)
  <2>1. PICK q : q = [k.res EXCEPT !.tag = tag, !.lm = file.mtime, !.size = file.size]
    OBVIOUS
  <2>2. PICK n : n = [k EXCEPT !.res = q, !.now = file.ver]
    OBVIOUS
  <2>3. n = [k EXCEPT !.res.tag = tag, !.res.lm = file.mtime, !.res.size = file.size, !.now = file.ver]
    BY <1>0, <2>1, <2>2 DEF Fields, ResFields
  <2>4. /\ DOMAIN q = ResFields /\ q.hdrs = k.res.hdrs /\ q.page = k.res.page /\ q.route = k.res.route
        /\ q.status = k.res.status /\ q.params = k.res.params /\ q.suppress = k.res.suppress
    BY <1>0, <2>1 DEF ResFields
  <2>5. DOMAIN n = Fields /\ n.res = q /\ n.req = k.req /\ n.at = k.at /\ n.depth = k.depth
    BY <1>0, <2>2 DEF Fields
  <2>6. PICK r : r = Stated(k)
    OBVIOUS
  <2> HIDE DEF tag
  <2>7. r \in {[n EXCEPT !.res.status = 304], [n EXCEPT !.at = "whole"], [n EXCEPT !.res.status = 416],
               [n EXCEPT !.at = "ranges", !.left = ws]}
    BY <2>3, <2>6 DEF Stated, tag
  <2>8. k.at = "stat"
    BY <1>1, <1>2 DEF http_serve_static
  <2>9. \/ \E s \in {400, 404} : StaticReturns(w, [k EXCEPT !.res.status = s])
        \/ r.at = "stat" /\ StaticReturns(w, r)
        \/ r.at # "stat" /\ wk' = [wk EXCEPT ![w] = r]
    BY <1>1, <1>2, <2>6 DEF http_serve_static, Go
  <2>10. CASE \E s \in {400, 404} : StaticReturns(w, [k EXCEPT !.res.status = s])
    BY <1>s, <2>10 DEF Refusals
  <2>11. ASSUME NEW s \in {304, 416}, r = [n EXCEPT !.res.status = s]
         PROVE  Goal
    <3>1. SameCall(r, n) /\ r.at = n.at /\ r.res.status = s
      BY <2>4, <2>5, <2>11 DEF SameCall, Fields, ResFields
    <3>2. SameCall(r, k) /\ r.at = k.at /\ r.res.status \notin Refusals
      BY <2>4, <2>5, <3>1 DEF SameCall, Refusals
    <3>3. StaticReturns(w, r) => Goal
      BY <1>a, <3>2
    <3> QED
      BY <2>8, <2>9, <2>10, <3>2, <3>3
  <2>12. ASSUME r \in {[n EXCEPT !.at = "whole"], [n EXCEPT !.at = "ranges", !.left = ws]}
         PROVE  Goal
    <3>1. DOMAIN r = Fields /\ r.res = q /\ r.req = k.req /\ r.at \in {"whole", "ranges"} /\ r.depth = k.depth
      <4> HIDE DEF ws
      <4> QED
        BY <2>5, <2>12 DEF Fields
    <3>2. SameCall(r, k) /\ r.at \in OnDisk /\ r.res.status = k.res.status
      BY <2>4, <3>1 DEF SameCall, OnDisk
    <3>3. wk' = [wk EXCEPT ![w] = r] => Goal
      BY <1>b, <3>2
    <3> QED
      BY <2>9, <2>10, <3>1, <3>3
  <2> QED
    BY <2>7, <2>11, <2>12
<1>3. CASE file_read_all(w)
  <2>1. PICK m : /\ m \in {[k EXCEPT !.res.status = 404], [k EXCEPT !.res.parts = <<Part(0, file.size)>>]}
                 /\ StaticReturns(w, m)
    BY <1>1, <1>3 DEF file_read_all
  <2>2. CASE m = [k EXCEPT !.res.status = 404]
    BY <1>s, <2>1, <2>2 DEF Refusals
  <2>3. CASE m = [k EXCEPT !.res.parts = <<Part(0, file.size)>>]
    <3>1. SameCall(m, k) /\ m.res.status = k.res.status
      BY <1>0, <2>3 DEF SameCall, Fields, ResFields
    <3> QED
      BY <1>0, <1>a, <2>1, <3>1
  <2> QED
    BY <2>1, <2>2, <2>3
<1>4. CASE file_read_range(w)
  <2> DEFINE f == Head(k.left)
             x == Append(k.res.parts, Part(f.base, f.n))
  <2>1. PICK n : n = [k EXCEPT !.res.parts = x]
    OBVIOUS
  <2>2. PICK q : q = [n EXCEPT !.left = Tail(@)]
    OBVIOUS
  <2>3. q = [k EXCEPT !.res.parts = Append(@, Part(f.base, f.n)), !.left = Tail(@)]
    BY <1>0, <2>1, <2>2 DEF Fields, ResFields
  <2>4. \/ StaticReturns(w, [k EXCEPT !.res.status = 404, !.res.parts = << >>])
        \/ StaticReturns(w, [q EXCEPT !.res.status = 206])
        \/ wk' = [wk EXCEPT ![w] = q]
    BY <1>1, <1>4, <2>3 DEF file_read_range, Go
  <2> HIDE DEF x
  <2>5. SameCall(n, k) /\ n.at = k.at /\ n.res.status = k.res.status
    BY <1>0, <2>1 DEF SameCall, Fields, ResFields
  <2>6. SameCall(q, k) /\ q.at = k.at /\ q.res.status = k.res.status
    <3>1. DOMAIN q = Fields /\ q.res = n.res /\ q.req = n.req /\ q.at = n.at /\ q.depth = n.depth
      BY <2>2, <2>5 DEF SameCall, Fields
    <3> QED
      BY <2>5, <3>1 DEF SameCall
  <2>7. CASE StaticReturns(w, [k EXCEPT !.res.status = 404, !.res.parts = << >>])
    <3>1. PICK m : m = [k EXCEPT !.res.status = 404, !.res.parts = << >>]
      OBVIOUS
    <3>2. PICK z : z = [k.res EXCEPT !.status = 404, !.parts = << >>]
      OBVIOUS
    <3>3. /\ DOMAIN z = ResFields /\ z.hdrs = k.res.hdrs /\ z.page = k.res.page /\ z.route = k.res.route
          /\ z.status = 404 /\ z.params = k.res.params /\ z.suppress = k.res.suppress
      BY <1>0, <3>2 DEF ResFields
    <3>4. /\ DOMAIN m = Fields /\ m.res = z /\ m.req = k.req /\ m.at = k.at /\ m.depth = k.depth
      BY <1>0, <3>1, <3>2 DEF Fields
    <3>5. SameCall(m, k) /\ m.res.status \notin Refusals
      BY <3>3, <3>4 DEF SameCall, Refusals
    <3>6. StaticReturns(w, m)
      BY <2>7, <3>1
    <3> QED
      BY <1>a, <3>5, <3>6
  <2>8. CASE StaticReturns(w, [q EXCEPT !.res.status = 206])
    <3>0. DOMAIN q = Fields /\ DOMAIN q.res = ResFields
      BY <2>6 DEF SameCall
    <3>1. PICK m : m = [q EXCEPT !.res.status = 206]
      OBVIOUS
    <3>2. SameCall(m, q) /\ m.res.status = 206
      BY <3>0, <3>1 DEF SameCall, Fields, ResFields
    <3>3. SameCall(m, k) /\ m.res.status \notin Refusals
      BY <2>6, <3>2 DEF SameCall, Refusals
    <3>4. StaticReturns(w, m)
      BY <2>8, <3>1
    <3> QED
      BY <1>a, <3>3, <3>4
  <2>9. CASE wk' = [wk EXCEPT ![w] = q]
    BY <1>0, <1>b, <2>6, <2>9
  <2> QED
    BY <2>4, <2>7, <2>8, <2>9
<1> QED
  BY <1>2, <1>3, <1>4

\* The static files.
LEMMA DiskOwn ==
  ASSUME IInv, Answers, NEW w \in Workers, http_serve_static(w) \/ file_read_all(w) \/ file_read_range(w)
  PROVE  Answers'
<1>1. wk[w].at \in OnDisk /\ UNCHANGED <<opts, routes, served>>
  BY DiskSteps
<1>2. PICK m : /\ SameCall(m, wk[w])
               /\ \/ StaticReturns(w, m) /\ m.res.status \notin Refusals
                  \/ m.at \in OnDisk /\ m.res.status = wk[w].res.status /\ wk' = [wk EXCEPT ![w] = m]
  BY DiskSteps
<1>3. CASE StaticReturns(w, m) /\ m.res.status \notin Refusals
  BY <1>1, <1>2, <1>3, StaticOwn DEF SameCall
<1>4. CASE m.at \in OnDisk /\ m.res.status = wk[w].res.status /\ wk' = [wk EXCEPT ![w] = m]
  BY <1>1, <1>2, <1>4, WaitOwn DEF SameCall
<1> QED
  BY <1>2, <1>3, <1>4

\* The router.
LEMMA RouterOwn ==
  ASSUME IInv, Answers, NEW w \in Workers, router_dispatch(w)
  PROVE  Answers'
<1>1. PICK k : k = wk[w]
  OBVIOUS
<1>0. DOMAIN k = Fields /\ DOMAIN k.res = ResFields /\ Own(k) /\ k.at = "down" /\ k.depth = Len(Chain) + 1
  BY <1>1 DEF IInv, Placed, Answers, Own, router_dispatch, AtRouter
<1>u. UNCHANGED <<opts, routes, served>> /\ wk[w].at # "idle"
  BY <1>0, <1>1 DEF router_dispatch, Quiet
<1> HIDE DEF Chain
<1>2. /\ "security" \in opts.layers => "security" \in k.res.hdrs
      /\ "rate" \in opts.layers => "ratelimit" \in k.res.hdrs
      /\ Bare(k) /\ k.res.status \notin Refusals
  BY <1>0, AllMarked, Marked DEF Inbound
<1> DEFINE i == IF request_merge_params(k.req) THEN FirstMatch(routes, k.req.method, k.req.path) ELSE NoRoute
           h == routes[i].handler
           params == ParamsAt(routes, k.req.method, k.req.path, i, k.req.query)
<1>3. PICK q : q = [k.res EXCEPT !.route = i, !.handled = TRUE, !.params = params, !.suppress = (k.req.method = "HEAD")]
  OBVIOUS
<1>4. PICK p : p = [k EXCEPT !.res = q]
  OBVIOUS
<1>5. p = Routed(k, i)
  BY <1>0, <1>3, <1>4 DEF Routed, Fields, ResFields
<1>6. PICK lm, s : lm = (IF h = "dated" THEN file.mtime ELSE NoDate) /\ s = (IF h = "fallback" THEN 404 ELSE 200)
  OBVIOUS
<1>7. \/ wk' = [wk EXCEPT ![w] = Unrouted(k)]
      \/ i # NoRoute /\ FromDisk(h) /\ wk' = [wk EXCEPT ![w] = [p EXCEPT !.at = "stat"]]
      \/ wk' = [wk EXCEPT ![w] = Answer([Page(w, p) EXCEPT !.res.lm = lm], s)]
  BY <1>1, <1>5, <1>6 DEF router_dispatch, Go
<1> HIDE DEF params
<1>8. /\ DOMAIN q = ResFields /\ q.hdrs = k.res.hdrs /\ q.page = k.res.page /\ q.route = i /\ q.status = k.res.status
  BY <1>0, <1>3 DEF ResFields
<1>9. DOMAIN p = Fields /\ p.res = q /\ p.req = k.req /\ p.depth = k.depth
  BY <1>0, <1>4 DEF Fields
<1>10. CASE wk' = [wk EXCEPT ![w] = Unrouted(k)]
  <2>1. PICK a : a = Allow(routes, k.req.path)
    OBVIOUS
  <2>2. PICK t : t = IF ~request_merge_params(k.req) THEN 400
                     ELSE IF a = << >> THEN 404
                     ELSE IF k.req.method = "OPTIONS" THEN 200 ELSE 405
    OBVIOUS
  <2>3. PICK z : z = [k.res EXCEPT !.allow = a, !.status = t]
    OBVIOUS
  <2>4. PICK r : r = Back([k EXCEPT !.res = z])
    OBVIOUS
  <2>5. r = Unrouted(k)
    <3>1. [k EXCEPT !.res = z] = [[k EXCEPT !.res.allow = a] EXCEPT !.res.status = t]
      BY <1>0, <2>3 DEF Fields, ResFields
    <3> QED
      BY <2>1, <2>2, <2>4, <3>1 DEF Unrouted, Answer
  <2>6. DOMAIN z = ResFields /\ z.page = k.res.page /\ z.hdrs = k.res.hdrs /\ z.status = t
    BY <1>0, <2>3 DEF ResFields
  <2>7. r.at = "up" /\ r.res = z /\ r.req = k.req
    BY <1>0, <2>4 DEF Back, Fields
  <2>8. Own(r)
    BY <1>2, <2>2, <2>6, <2>7, ServedOwn DEF Bare, Refusals
  <2> QED
    BY <1>u, <1>10, <2>5, <2>8, AnswersKept
<1>11. CASE i # NoRoute /\ FromDisk(h) /\ wk' = [wk EXCEPT ![w] = [p EXCEPT !.at = "stat"]]
  <2>1. PICK r : r = [p EXCEPT !.at = "stat"]
    OBVIOUS
  <2>2. r.at = "stat" /\ r.res = q /\ r.depth = k.depth /\ r.req = k.req
    BY <1>9, <2>1 DEF Fields
  <2>3. \A j \in 1 .. Len(Chain) : j < k.depth => Stamped(Chain[j], k.res.hdrs)
    BY <1>0, Marked
  <2>4. Own(r)
    <3>1. q.route # NoRoute /\ FromDisk(routes[q.route].handler)
      BY <1>8, <1>11
    <3> QED
      BY <1>2, <1>8, <2>2, <2>3, <3>1 DEF Own, Bare, Inbound, OnDisk, Limiting, Pointing
  <2> QED
    BY <1>u, <1>11, <2>1, <2>4, AnswersKept
<1>12. CASE wk' = [wk EXCEPT ![w] = Answer([Page(w, p) EXCEPT !.res.lm = lm], s)]
  <2>1. PICK g : g = Page(w, p)
    OBVIOUS
  <2>2. /\ DOMAIN g = Fields /\ DOMAIN g.res = ResFields /\ g.req = k.req /\ Len(g.res.page) = 1
        /\ g.res.page[1][1] = k.req.remote /\ g.res.hdrs = k.res.hdrs
    BY <1>8, <1>9, <2>1, PageOf
  <2>3. PICK z : z = [g.res EXCEPT !.lm = lm, !.status = s]
    OBVIOUS
  <2>4. DOMAIN z = ResFields /\ z.page = g.res.page /\ z.hdrs = k.res.hdrs /\ z.status = s
    BY <2>2, <2>3 DEF ResFields
  <2>5. PICK r : r = Back([g EXCEPT !.res = z])
    OBVIOUS
  <2>6. r.at = "up" /\ r.res = z /\ r.req = k.req
    BY <2>2, <2>5 DEF Back, Fields
  <2>7. r = Answer([Page(w, p) EXCEPT !.res.lm = lm], s)
    <3>1. [g EXCEPT !.res = z] = [[g EXCEPT !.res.lm = lm] EXCEPT !.res.status = s]
      BY <2>2, <2>3 DEF Fields, ResFields
    <3> QED
      BY <2>1, <2>5, <3>1 DEF Answer
  <2>8. Own(r)
    BY <1>2, <1>6, <2>2, <2>4, <2>6, ServedOwn DEF Refusals
  <2> QED
    BY <1>u, <1>12, <2>7, <2>8, AnswersKept
<1> QED
  BY <1>7, <1>10, <1>11, <1>12

\* Routes are only set up while no request is in hand, and what the outside world does
\* touches no answer.
LEMMA WorldOwn ==
  ASSUME IInv, Answers, SetUp \/ Tick \/ Edit \/ UNCHANGED vars
  PROVE  Answers'
<1>1. UNCHANGED <<opts, wk, served>> /\ (UNCHANGED routes \/ served = 0)
  BY DEF SetUp, Tick, Edit, vars
<1>2. Chain' = Chain
  BY <1>1, ChainSame
<1> HIDE DEF Chain
<1>3. ASSUME NEW v \in Workers
      PROVE  Own(wk[v])'
  <2>1. PICK k : k = wk[v] /\ Own(k)
    BY DEF Answers
  <2>2. CASE UNCHANGED routes
    BY <1>1, <1>2, <2>1, <2>2 DEF Own, Bare, Want, WipesHeaders, FromDisk
  <2>3. CASE served = 0
    <3>1. k.at = "idle"
      BY <2>1, <2>3 DEF Answers
    <3>2. DOMAIN k.res = ResFields
      BY <2>1 DEF Own
    <3> QED
      BY <1>1, <2>1, <3>1, <3>2 DEF Own, Inbound, Limiting, Pointing, OnDisk
  <2> QED
    BY <1>1, <2>2, <2>3
<1> QED
  BY <1>1, <1>3 DEF Answers

\* An idle worker has no answer yet.
LEMMA InitOwn ==
  ASSUME Init
  PROVE  Answers
<1> HIDE DEF Chain
<1>0. DOMAIN Blank = ResFields /\ Blank.page = << >>
  BY DEF Blank, ResFields
<1>1. Idle.at = "idle" /\ Idle.res = Blank
  BY DEF Idle
<1>2. served = 0 /\ wk = [w \in Workers |-> Idle]
  BY Zenon DEF Init
<1>3. ASSUME NEW w \in Workers
      PROVE  Own(wk[w]) /\ wk[w].at = "idle"
  <2>1. wk[w].at = "idle" /\ wk[w].res = Blank
    BY <1>1, <1>2
  <2> QED
    BY <1>0, <2>1 DEF Own, Inbound, Limiting, Pointing, OnDisk
<1> QED
  BY <1>2, <1>3 DEF Answers

\* Every step keeps the answers with their requests.
LEMMA NextOwn == IInv /\ Answers /\ [Next]_vars => Answers'
<1> SUFFICES ASSUME IInv, Answers, [Next]_vars
             PROVE  Answers'
  OBVIOUS
<1>1. CASE SetUp \/ Tick \/ Edit \/ UNCHANGED vars
  BY <1>1, WorldOwn
<1>2. ASSUME NEW w \in Workers, Arrive(w) \/ Layer(w) \/ Limiter(w) \/ Handler(w) \/ Deliver(w)
      PROVE  Answers'
  <2>1. CASE Arrive(w) \/ Deliver(w)
    BY <2>1, EndsOwn
  <2>2. CASE Return(w)
    BY <2>2, ReturnOwn
  <2>3. CASE Limiter(w)
    BY <2>3, LimiterOwn
  <2>4. CASE Handler(w)
    BY <2>4, RouterOwn, DiskOwn DEF Handler
  <2>5. CASE \/ http_client_ip_middleware(w) \/ http_request_id_middleware(w) \/ http_security_middleware(w)
             \/ http_signature_middleware(w) \/ PassDown(w) \/ http_cors_middleware(w) \/ http_basic_auth_middleware(w)
    BY <2>5, LayersOwn
  <2> QED
    BY <1>2, <2>1, <2>2, <2>3, <2>4, <2>5 DEF Layer
<1> QED
  BY <1>1, <1>2 DEF Next

\* Whatever the workers do at the same time, a request that is on its way back carries
\* what its own layers, its own page and nobody else's put on the answer (middleware.c:22-92).
THEOREM PipelineAnswers == Spec => []Answers
<1>1. Init => Answers
  BY InitOwn
<1>2. IInv /\ Answers /\ [Next]_vars => Answers'
  BY NextOwn
<1> QED
  BY <1>1, <1>2, PipelineInvariant, PTL DEF Spec

\* An answer shows the one page rendered for its caller, one that a guard refused shows
\* none, and the headers of the outer layers are still on it, but for the generated 404
\* page (middleware.c:22-92, template.c:76-106, tools/cweb.c:669).
THEOREM PipelineOwnAnswer == Spec => []OwnAnswer
<1>1. Answers => OwnAnswer
  BY DEF Answers, Own, Bare, Refusals, Want, OwnAnswer
<1> QED
  BY <1>1, PipelineAnswers, PTL
-----------------------------------------------------------------------------
(***************************************************************************)
(* Induction and recursion for the functions of Routing and StaticFiles,   *)
(* in a form that can be cited: what holds is a set of numbers, and a step *)
(* is a function on the values it goes through.                            *)
(***************************************************************************)

\* A nonempty set of natural numbers has a least element.
LEMMA LeastNumber ==
  ASSUME NEW T, T \subseteq Nat, T # {}
  PROVE  \E n \in T : \A m \in T : n <= m
<1>1. \E n \in T : \A m \in T : ~(<<m, n>> \in OpToRel(<, Nat))
  <2> HIDE DEF OpToRel
  <2> QED
    BY WFMin, NatLessThanWellFounded, Zenon
<1>2. PICK n \in T : \A m \in T : ~(<<m, n>> \in OpToRel(<, Nat))
  BY <1>1, Zenon
<1>3. ASSUME NEW m \in T
      PROVE  n <= m
  <2>1. <<m, n>> \in Nat \X Nat
    OBVIOUS
  <2>2. ~(m < n)
    BY <1>2, <2>1 DEF OpToRel
  <2> QED
    BY <2>2
<1> QED
  BY <1>3

\* Induction up to a bound, for a set: it holds 0 and with n also n + 1.
LEMMA Induction ==
  ASSUME NEW N \in Nat, NEW S, 0 \in S,
         \A n \in 0 .. N - 1 : n \in S => n + 1 \in S
  PROVE  0 .. N \subseteq S
<1> DEFINE T == {n \in 0 .. N : n \notin S}
<1> SUFFICES ASSUME T # {}
             PROVE  FALSE
  OBVIOUS
<1>1. PICK n \in T : \A m \in T : n <= m
  <2>1. T \subseteq Nat
    OBVIOUS
  <2> HIDE DEF T
  <2> QED
    BY <2>1, LeastNumber
<1>2. n - 1 \in 0 .. N - 1 /\ n - 1 \notin T
  BY <1>1
<1> QED
  BY <1>1, <1>2

\* g says how N values of D follow on one another; f starts at b and goes on like that.
Steps(g, N, D) == g \in [0 .. N - 1 -> [D -> D]]
Follows(f, g, b, N, D) ==
  f \in [0 .. N -> D] /\ f[0] = b /\ \A n \in 0 .. N - 1 : f[n + 1] = g[n][f[n]]

\* There is such a function.
LEMMA Recursion ==
  ASSUME NEW N \in Nat, NEW D, NEW b \in D, NEW g, Steps(g, N, D)
  PROVE  \E f : Follows(f, g, b, N, D)
<1>0. g \in [0 .. N - 1 -> [D -> D]]
  BY DEF Steps
<1> DEFINE P(n, f) == f[0] = b /\ \A m \in 0 .. n - 1 : f[m + 1] = g[m][f[m]]
           S == {n \in 0 .. N : \E f \in [0 .. n -> D] : P(n, f)}
<1>1. 0 \in S
  <2> DEFINE z == [m \in 0 .. 0 |-> b]
  <2>1. z \in [0 .. 0 -> D] /\ P(0, z) /\ 0 \in 0 .. N
    OBVIOUS
  <2> HIDE DEF P, z
  <2> QED
    BY <2>1
<1>2. ASSUME NEW n \in 0 .. N - 1, n \in S
      PROVE  n + 1 \in S
  <2>1. PICK f \in [0 .. n -> D] : P(n, f)
    BY <1>2
  <2> DEFINE h == [m \in 0 .. n + 1 |-> IF m = n + 1 THEN g[n][f[n]] ELSE f[m]]
  <2>2. g[n] \in [D -> D] /\ f[n] \in D
    BY <1>0
  <2>3. h \in [0 .. n + 1 -> D]
    BY <2>2
  <2>4. h[0] = b /\ \A m \in 0 .. n : h[m] = f[m]
    BY <2>1
  <2>5. h[n + 1] = g[n][f[n]]
    OBVIOUS
  <2> HIDE DEF h
  <2>6. ASSUME NEW m \in 0 .. n
        PROVE  h[m + 1] = g[m][h[m]]
    <3>1. CASE m = n
      BY <2>4, <2>5, <3>1
    <3>2. CASE m # n
      <4>1. m \in 0 .. n - 1 /\ m + 1 \in 0 .. n
        BY <3>2
      <4> QED
        BY <2>1, <2>4, <4>1
    <3> QED
      BY <3>1, <3>2
  <2>7. (n + 1) - 1 = n /\ n + 1 \in 0 .. N
    OBVIOUS
  <2>8. P(n + 1, h)
    BY <2>4, <2>6, <2>7
  <2> HIDE DEF P
  <2> QED
    BY <2>3, <2>7, <2>8
<1>3. 0 .. N \subseteq S
  <2> HIDE DEF S
  <2> QED
    BY <1>1, <1>2, Induction
<1>4. N \in S
  <2> HIDE DEF S
  <2> QED
    BY <1>3
<1> QED
  BY <1>4 DEF Follows

-----------------------------------------------------------------------------
(* The router: a pattern is walked once, and what it captures is written   *)
(* into the parameters on the way.                                         *)

\* The walk stops at the first place where pattern and path part.
LEMMA WalkStops ==
  ASSUME NEW p \in Seq(Segments), NEW q \in Seq(STRING)
  PROVE  /\ WalkEnd(p, q) \in 1 .. Len(p) + 1
         /\ WalkEnd(p, q) > Len(p) \/ WalkEnd(p, q) > Len(q) \/ ~Agrees(p[WalkEnd(p, q)], q[WalkEnd(p, q)])
         /\ \A j \in 1 .. WalkEnd(p, q) - 1 : j <= Len(q) /\ Agrees(p[j], q[j])
<1> DEFINE T == {i \in 1 .. Len(p) + 1 : i > Len(p) \/ i > Len(q) \/ ~Agrees(p[i], q[i])}
<1>0. Len(p) \in Nat /\ Len(q) \in Nat
  OBVIOUS
<1>1. Len(p) + 1 \in T /\ T \subseteq Nat
  BY <1>0
<1>2. PICK n \in T : \A m \in T : n <= m
  <2> HIDE DEF T
  <2> QED
    BY <1>1, LeastNumber
<1>3. ASSUME NEW j \in 1 .. n - 1
      PROVE  j <= Len(q) /\ Agrees(p[j], q[j])
  <2>1. j \in 1 .. Len(p) + 1 /\ j \notin T
    BY <1>0, <1>2
  <2> QED
    BY <1>0, <2>1
<1>4. \E i \in 1 .. Len(p) + 1 : /\ i > Len(p) \/ i > Len(q) \/ ~Agrees(p[i], q[i])
                                 /\ \A j \in 1 .. i - 1 : j <= Len(q) /\ Agrees(p[j], q[j])
  BY <1>2, <1>3
<1> HIDE DEF T
<1> QED
  BY <1>4, Zenon DEF WalkEnd

\* A star agrees with nothing, and a segment that captures is no star.
LEMMA StarAgrees ==
  /\ \A x : ~Agrees(Star, x) /\ Star[1] # "cap"
  /\ \A s \in Segments : s[1] = "cap" => s = Cap(s[2]) /\ s[2] \in STRING
  /\ \A s \in Segments : \A x : s = Cap(x) => s[1] = "cap" /\ s[2] = x
BY DEF Agrees, Star, Lit, Cap, Segments

\* route_path_matches decides whether the pattern stands for the path.
LEMMA MatchesFits ==
  ASSUME NEW p \in Seq(Segments), NEW q \in Seq(STRING)
  PROVE  route_path_matches(p, q) <=> Fits(p, q)
<1>0. Len(p) \in Nat /\ Len(q) \in Nat
  OBVIOUS
<1>1. PICK i : i = WalkEnd(p, q)
  OBVIOUS
<1>2. /\ i \in 1 .. Len(p) + 1 /\ (i > Len(p) \/ i > Len(q) \/ ~Agrees(p[i], q[i]))
      /\ \A j \in 1 .. i - 1 : j <= Len(q) /\ Agrees(p[j], q[j])
  BY <1>1, WalkStops
<1>3. PICK n : n = IF p # << >> /\ Last(p) = Star THEN Len(p) - 1 ELSE Len(p)
  OBVIOUS
<1>4. n \in Int /\ (p = << >> => Len(p) = 0) /\ (p # << >> => Len(p) >= 1) /\ n >= 0
  BY <1>0, <1>3
<1>5. Fits(p, q) <=> (IF n = Len(p) THEN Len(q) = n ELSE Len(q) >= n) /\ \A j \in 1 .. n : Agrees(p[j], q[j])
  BY <1>3 DEF Fits
<1>6. route_path_matches(p, q) <=> IF i <= Len(p) /\ p[i] = Star THEN i = Len(p) ELSE i > Len(p) /\ i > Len(q)
  BY <1>1 DEF route_path_matches
<1>7. CASE i <= Len(p) /\ p[i] = Star /\ i = Len(p)
  <2>1. n = Len(p) - 1 /\ n = i - 1
    BY <1>0, <1>2, <1>3, <1>7 DEF Last
  <2>2. Len(q) >= n
    <3>1. CASE n = 0
      BY <1>0, <3>1
    <3>2. CASE n # 0
      BY <1>0, <1>2, <1>4, <2>1, <3>2
    <3> QED
      BY <3>1, <3>2
  <2> QED
    BY <1>0, <1>2, <1>5, <1>6, <1>7, <2>1, <2>2
<1>8. CASE i <= Len(p) /\ ~(p[i] = Star /\ i = Len(p))
  <2>1. ~route_path_matches(p, q)
    BY <1>0, <1>2, <1>6, <1>8
  <2>2. i \in 1 .. n
    BY <1>0, <1>2, <1>3, <1>8 DEF Last
  <2>3. ~Fits(p, q)
    <3> SUFFICES ASSUME Fits(p, q)
                 PROVE  FALSE
      OBVIOUS
    <3>1. Len(q) >= n /\ Agrees(p[i], q[i])
      BY <1>0, <1>4, <1>5, <2>2
    <3> QED
      BY <1>0, <1>2, <1>4, <1>8, <2>2, <3>1
  <2> QED
    BY <2>1, <2>3
<1>9. CASE i > Len(p)
  <2>1. i = Len(p) + 1 /\ i - 1 = Len(p)
    BY <1>0, <1>2, <1>9
  <2>2. \A j \in 1 .. Len(p) : j <= Len(q) /\ Agrees(p[j], q[j])
    BY <1>2, <2>1
  <2>3. n = Len(p)
    <3>1. p # << >> => Last(p) # Star
      BY <1>0, <1>4, <2>2, StarAgrees DEF Last
    <3> QED
      BY <1>3, <3>1
  <2>4. Len(q) >= Len(p)
    <3>1. CASE Len(p) = 0
      BY <1>0, <3>1
    <3>2. CASE Len(p) # 0
      BY <1>0, <2>2, <3>2
    <3> QED
      BY <3>1, <3>2
  <2>5. Fits(p, q) <=> Len(q) = Len(p)
    BY <1>5, <2>2, <2>3
  <2>6. route_path_matches(p, q) <=> i > Len(q)
    <3>1. ~(i <= Len(p) /\ p[i] = Star) /\ i > Len(p)
      BY <1>0, <1>9, <2>1
    <3> QED
      BY <1>6, <3>1, Zenon
  <2>7. i > Len(q) <=> Len(q) = Len(p)
    BY <1>0, <2>1, <2>4
  <2> QED
    BY <2>5, <2>6, <2>7
<1> QED
  BY <1>0, <1>2, <1>7, <1>8, <1>9

\* A pattern that matches is walked past all it captures.
LEMMA MatchesWalk ==
  ASSUME NEW p \in Seq(Segments), NEW q \in Seq(STRING), route_path_matches(p, q),
         NEW j \in 1 .. Len(p), p[j][1] = "cap"
  PROVE  j \in 1 .. WalkEnd(p, q) - 1
<1>1. PICK i : i = WalkEnd(p, q) /\ i \in 1 .. Len(p) + 1
  BY WalkStops
<1>2. Len(p) \in Nat /\ p[j] # Star
  BY StarAgrees
<1>3. i > Len(p) \/ (i = Len(p) /\ p[i] = Star)
  BY <1>1, <1>2 DEF route_path_matches
<1> QED
  BY <1>1, <1>2, <1>3

\* Parameters.
Maps == UNION {[S -> STRING] : S \in SUBSET STRING}

\* A parameter is set.
LEMMA SetOf ==
  ASSUME NEW m \in Maps, NEW k \in STRING, NEW v \in STRING
  PROVE  /\ Set(m, k, v) \in Maps /\ DOMAIN Set(m, k, v) = DOMAIN m \cup {k} /\ Set(m, k, v)[k] = v
         /\ \A x \in DOMAIN m : x # k => Set(m, k, v)[x] = m[x]
<1>1. PICK S \in SUBSET STRING : m \in [S -> STRING]
  BY DEF Maps
<1> DEFINE T == S \cup {k}
<1>2. T \in SUBSET STRING /\ Set(m, k, v) \in [T -> STRING]
  BY <1>1 DEF Set
<1>3. Set(m, k, v) \in Maps
  BY <1>2 DEF Maps
<1> QED
  BY <1>1, <1>3 DEF Set

\* What the first n segments of p leave in the parameters: the last value captured
\* under each name, over those that were there.
Filled(m, params, p, q, n) ==
  /\ \A x \in STRING : (\E j \in 1 .. n : p[j] = Cap(x)) =>
       x \in DOMAIN m /\ \E j \in 1 .. n : p[j] = Cap(x) /\ m[x] = q[j] /\ \A h \in j + 1 .. n : p[h] # Cap(x)
  /\ \A x \in DOMAIN params : x \in DOMAIN m /\ (m[x] = params[x] \/ \E j \in 1 .. n : p[j] = Cap(x))

\* One segment more.
LEMMA FilledNext ==
  ASSUME NEW p \in Seq(Segments), NEW q \in Seq(STRING), NEW params \in Maps, NEW n \in Nat,
         n + 1 <= Len(p), n + 1 <= Len(q), NEW m \in Maps, Filled(m, params, p, q, n),
         NEW r, r = IF p[n + 1][1] = "cap" THEN Set(m, p[n + 1][2], q[n + 1]) ELSE m
  PROVE  r \in Maps /\ Filled(r, params, p, q, n + 1)
<1> DEFINE s == p[n + 1]
           v == q[n + 1]
<1>0. s \in Segments /\ v \in STRING /\ \A j \in 1 .. n + 1 : p[j] \in Segments
  OBVIOUS
<1>1. CASE s[1] # "cap"
  <2>1. r = m /\ \A x : s # Cap(x)
    BY <1>0, <1>1, StarAgrees
  <2>2. ASSUME NEW x \in STRING, NEW i \in 1 .. n + 1, p[i] = Cap(x)
        PROVE  x \in DOMAIN r /\ \E j \in 1 .. n + 1 : p[j] = Cap(x) /\ r[x] = q[j] /\ \A h \in j + 1 .. n + 1 : p[h] # Cap(x)
    <3>1. i \in 1 .. n
      BY <2>1, <2>2
    <3>2. PICK j \in 1 .. n : x \in DOMAIN m /\ p[j] = Cap(x) /\ m[x] = q[j] /\ \A h \in j + 1 .. n : p[h] # Cap(x)
      BY <2>2, <3>1 DEF Filled
    <3>3. \A h \in j + 1 .. n + 1 : p[h] # Cap(x)
      <4> SUFFICES ASSUME NEW h \in j + 1 .. n + 1 PROVE p[h] # Cap(x)
        OBVIOUS
      <4>1. h \in j + 1 .. n \/ h = n + 1
        OBVIOUS
      <4> QED
        BY <2>1, <3>2, <4>1
    <3>4. j \in 1 .. n + 1
      OBVIOUS
    <3> QED
      BY <2>1, <3>2, <3>3, <3>4
  <2>3. \A j \in 1 .. n : j \in 1 .. n + 1
    OBVIOUS
  <2>4. \A x \in DOMAIN params : x \in DOMAIN r /\ (r[x] = params[x] \/ \E j \in 1 .. n + 1 : p[j] = Cap(x))
    BY <2>1, <2>3 DEF Filled
  <2> QED
    BY <2>1, <2>2, <2>4 DEF Filled
<1>2. CASE s[1] = "cap"
  <2>1. s = Cap(s[2]) /\ s[2] \in STRING /\ \A x : s = Cap(x) => x = s[2]
    BY <1>0, <1>2, StarAgrees
  <2>2. PICK k : k = s[2] /\ k \in STRING /\ r = Set(m, k, v) /\ s = Cap(k) /\ \A x : s = Cap(x) => x = k
    BY <1>2, <2>1
  <2>3. r \in Maps /\ DOMAIN r = DOMAIN m \cup {k} /\ r[k] = v /\ \A x \in DOMAIN m : x # k => r[x] = m[x]
    <3>1. PICK y : y = v /\ y \in STRING
      BY <1>0
    <3>2. /\ Set(m, k, y) \in Maps /\ DOMAIN Set(m, k, y) = DOMAIN m \cup {k} /\ Set(m, k, y)[k] = y
          /\ \A x \in DOMAIN m : x # k => Set(m, k, y)[x] = m[x]
      BY <2>2, <3>1, SetOf
    <3> HIDE DEF v, s
    <3> QED
      BY <2>2, <3>1, <3>2
  <2>4. ASSUME NEW x \in STRING, NEW i \in 1 .. n + 1, p[i] = Cap(x)
        PROVE  x \in DOMAIN r /\ \E j \in 1 .. n + 1 : p[j] = Cap(x) /\ r[x] = q[j] /\ \A h \in j + 1 .. n + 1 : p[h] # Cap(x)
    <3>1. CASE x = k
      <4>1. n + 1 \in 1 .. n + 1 /\ (n + 1) + 1 .. n + 1 = {}
        OBVIOUS
      <4> QED
        BY <2>2, <2>3, <3>1, <4>1
    <3>2. CASE x # k
      <4>1. i \in 1 .. n
        <5>1. i = n + 1 => s = Cap(x)
          BY <2>4
        <5>2. i # n + 1
          <6> HIDE DEF s
          <6> QED
            BY <2>2, <3>2, <5>1
        <5> QED
          BY <5>2
      <4>2. PICK j \in 1 .. n : x \in DOMAIN m /\ p[j] = Cap(x) /\ m[x] = q[j] /\ \A h \in j + 1 .. n : p[h] # Cap(x)
        BY <2>4, <4>1 DEF Filled
      <4>3. \A h \in j + 1 .. n + 1 : p[h] # Cap(x)
        <5> SUFFICES ASSUME NEW h \in j + 1 .. n + 1 PROVE p[h] # Cap(x)
          OBVIOUS
        <5>1. h \in j + 1 .. n \/ h = n + 1
          OBVIOUS
        <5> QED
          BY <2>2, <3>2, <4>2, <5>1
      <4>4. j \in 1 .. n + 1
        OBVIOUS
      <4>5. r[x] = m[x]
        BY <2>3, <3>2, <4>2
      <4> QED
        BY <2>3, <4>2, <4>3, <4>4, <4>5
    <3> QED
      BY <3>1, <3>2
  <2>5. ASSUME NEW x \in DOMAIN params
        PROVE  x \in DOMAIN r /\ (r[x] = params[x] \/ \E j \in 1 .. n + 1 : p[j] = Cap(x))
    <3>1. x \in DOMAIN m /\ (m[x] = params[x] \/ \E j \in 1 .. n : p[j] = Cap(x))
      BY DEF Filled
    <3>2. CASE x = k
      <4>1. n + 1 \in 1 .. n + 1 /\ p[n + 1] = Cap(x)
        BY <2>2, <3>2
      <4> QED
        BY <2>3, <3>2, <4>1
    <3>3. CASE x # k
      <4>1. \A j \in 1 .. n : j \in 1 .. n + 1
        OBVIOUS
      <4> QED
        BY <2>3, <3>1, <3>3, <4>1
    <3> QED
      BY <3>2, <3>3
  <2> QED
    BY <2>3, <2>4, <2>5 DEF Filled
<1> QED
  BY <1>1, <1>2

\* e is the parameters after each of the first N segments.
CapturesTo(e, p, q, params, N) ==
  e = [n \in 0 .. N |-> IF n = 0 THEN params
                        ELSE IF p[n][1] = "cap" THEN Set(e[n - 1], p[n][2], q[n]) ELSE e[n - 1]]

\* There is such a function.
LEMMA CapturesExist ==
  ASSUME NEW p \in Seq(Segments), NEW q \in Seq(STRING), NEW params \in Maps, NEW N \in Nat,
         N <= Len(p), N <= Len(q)
  PROVE  \E e : CapturesTo(e, p, q, params, N)
<1> DEFINE St(n, m) == IF p[n + 1][1] = "cap" THEN Set(m, p[n + 1][2], q[n + 1]) ELSE m
           g == [n \in 0 .. N - 1 |-> [m \in Maps |-> St(n, m)]]
<1>1. ASSUME NEW n \in 0 .. N - 1, NEW m \in Maps
      PROVE  St(n, m) \in Maps
  <2>1. p[n + 1] \in Segments /\ q[n + 1] \in STRING
    OBVIOUS
  <2>2. p[n + 1][1] = "cap" => p[n + 1][2] \in STRING
    BY <2>1, StarAgrees
  <2>3. PICK k, v : k = p[n + 1][2] /\ v = q[n + 1]
    OBVIOUS
  <2>4. p[n + 1][1] = "cap" => Set(m, k, v) \in Maps
    BY <2>1, <2>2, <2>3, SetOf
  <2> QED
    BY <2>3, <2>4
<1>2. Steps(g, N, Maps) /\ \A n \in 0 .. N - 1 : \A m \in Maps : g[n][m] = St(n, m)
  <2> HIDE DEF St
  <2> QED
    BY <1>1 DEF Steps
<1>3a. PICK f : Follows(f, g, params, N, Maps)
  <2> HIDE DEF g, Maps
  <2> QED
    BY <1>2, Recursion
<1>3. f \in [0 .. N -> Maps] /\ f[0] = params /\ \A n \in 0 .. N - 1 : f[n + 1] = g[n][f[n]]
  BY <1>3a DEF Follows
<1>4. ASSUME NEW n \in 0 .. N
      PROVE  f[n] = IF n = 0 THEN params
                    ELSE IF p[n][1] = "cap" THEN Set(f[n - 1], p[n][2], q[n]) ELSE f[n - 1]
  <2>1. CASE n = 0
    BY <1>3, <2>1
  <2>2. CASE n # 0
    <3>1. PICK k : k = n - 1 /\ k \in 0 .. N - 1 /\ k + 1 = n /\ f[k] \in Maps
      BY <1>3, <2>2
    <3>2. f[n] = St(k, f[k])
      <4> HIDE DEF St, g
      <4> QED
        BY <1>2, <1>3, <3>1
    <3> QED
      BY <2>2, <3>1, <3>2
  <2> QED
    BY <2>1, <2>2
<1>5. f = [n \in 0 .. N |-> f[n]]
  BY <1>3
<1>6. CapturesTo(f, p, q, params, N)
  BY <1>4, <1>5 DEF CapturesTo
<1> QED
  BY <1>6

\* Captured fills the parameters from the segments the walk has passed.
LEMMA CapturedFills ==
  ASSUME NEW p \in Seq(Segments), NEW q \in Seq(STRING), NEW params \in Maps
  PROVE  /\ Captured(p, q, params) \in Maps
         /\ Filled(Captured(p, q, params), params, p, q, WalkEnd(p, q) - 1)
<1>1. PICK N : N = WalkEnd(p, q) - 1
  OBVIOUS
<1>2. N \in Nat /\ N <= Len(p) /\ N <= Len(q)
  <2>1. WalkEnd(p, q) \in 1 .. Len(p) + 1 /\ \A j \in 1 .. WalkEnd(p, q) - 1 : j <= Len(q)
    BY WalkStops
  <2>2. Len(p) \in Nat /\ Len(q) \in Nat
    OBVIOUS
  <2>3. N \in Nat /\ N <= Len(p)
    BY <1>1, <2>1, <2>2
  <2>4. N # 0 => N \in 1 .. WalkEnd(p, q) - 1
    BY <1>1, <2>1, <2>3
  <2> QED
    BY <2>1, <2>2, <2>3, <2>4
<1>3. PICK e : e = CHOOSE h : CapturesTo(h, p, q, params, N)
  OBVIOUS
<1>4. CapturesTo(e, p, q, params, N)
  BY <1>2, <1>3, CapturesExist
<1>5. Captured(p, q, params) = e[N]
  BY <1>1, <1>3 DEF Captured, CapturesTo
<1>6. /\ e[0] = params
      /\ \A n \in 0 .. N - 1 : e[n + 1] = IF p[n + 1][1] = "cap" THEN Set(e[n], p[n + 1][2], q[n + 1]) ELSE e[n]
  <2>1. \A n \in 0 .. N : e[n] = IF n = 0 THEN params
                                 ELSE IF p[n][1] = "cap" THEN Set(e[n - 1], p[n][2], q[n]) ELSE e[n - 1]
    BY <1>4 DEF CapturesTo
  <2>2. 0 \in 0 .. N /\ \A n \in 0 .. N - 1 : n + 1 \in 0 .. N /\ n + 1 # 0 /\ (n + 1) - 1 = n
    BY <1>2
  <2> QED
    BY <2>1, <2>2
<1> DEFINE S == {n \in 0 .. N : e[n] \in Maps /\ Filled(e[n], params, p, q, n)}
<1>7. 0 \in S
  <2>1. Filled(params, params, p, q, 0)
    BY DEF Filled
  <2> QED
    BY <1>2, <1>6, <2>1
<1>8. ASSUME NEW n \in 0 .. N - 1, n \in S
      PROVE  n + 1 \in S
  <2>1. PICK m, r : m = e[n] /\ r = e[n + 1]
    OBVIOUS
  <2>2. r \in Maps /\ Filled(r, params, p, q, n + 1)
    <3>1. n \in Nat /\ n + 1 <= Len(p) /\ n + 1 <= Len(q)
      BY <1>2
    <3>2. m \in Maps /\ Filled(m, params, p, q, n)
      BY <1>8, <2>1
    <3>3. r = IF p[n + 1][1] = "cap" THEN Set(m, p[n + 1][2], q[n + 1]) ELSE m
      BY <1>6, <2>1
    <3> QED
      BY <3>1, <3>2, <3>3, FilledNext
  <2>3. n + 1 \in 0 .. N
    BY <1>2
  <2> QED
    BY <2>1, <2>2, <2>3
<1>9. N \in S
  <2> HIDE DEF S
  <2>1. 0 .. N \subseteq S
    BY <1>2, <1>7, <1>8, Induction
  <2> QED
    BY <1>2, <2>1
<1> QED
  BY <1>1, <1>5, <1>9

\* Tables of routes.
Route == [method : STRING, pattern : Seq(Segments), handler : STRING, timeout : Nat]

\* A route of a table.
LEMMA RouteAt ==
  ASSUME NEW table \in Seq(Route), NEW i \in 1 .. Len(table)
  PROVE  /\ table[i] \in Route /\ table[i].pattern \in Seq(Segments) /\ table[i].method \in STRING
         /\ DOMAIN table = 1 .. Len(table)
<1>1. table[i] \in Route
  OBVIOUS
<1> QED
  BY <1>1 DEF Route

\* A parameter of this name is captured by one of the first n routes of this method.
Named(table, method, n, x) ==
  \E h \in 1 .. n : /\ table[h].method = Wanted(method)
                    /\ \E j \in 1 .. Len(table[h].pattern) : table[h].pattern[j] = Cap(x)

\* The values of the query are still there, up to what the first n routes captured.
Over(m, params, table, method, n) ==
  \A x \in DOMAIN params : x \in DOMAIN m /\ (m[x] = params[x] \/ Named(table, method, n, x))

\* One route more.
LEMMA OverNext ==
  ASSUME NEW table \in Seq(Route), NEW method, NEW path \in Seq(STRING), NEW params \in Maps, NEW n \in Nat,
         n + 1 <= Len(table), NEW m \in Maps, Over(m, params, table, method, n),
         NEW r, r = IF table[n + 1].method = Wanted(method) THEN Captured(table[n + 1].pattern, path, m) ELSE m
  PROVE  r \in Maps /\ Over(r, params, table, method, n + 1)
<1>1. PICK p : p = table[n + 1].pattern /\ p \in Seq(Segments)
  <2>1. n + 1 \in 1 .. Len(table)
    OBVIOUS
  <2> QED
    BY <2>1, RouteAt
<1>2. ASSUME NEW x, Named(table, method, n, x)
      PROVE  Named(table, method, n + 1, x)
  <2>1. \A h \in 1 .. n : h \in 1 .. n + 1
    OBVIOUS
  <2> QED
    BY <1>2, <2>1 DEF Named
<1>3. CASE table[n + 1].method # Wanted(method)
  BY <1>2, <1>3 DEF Over
<1>4. CASE table[n + 1].method = Wanted(method)
  <2>1. r = Captured(p, path, m)
    BY <1>1, <1>4
  <2>2. r \in Maps /\ Filled(r, m, p, path, WalkEnd(p, path) - 1)
    BY <1>1, <2>1, CapturedFills
  <2>3. ASSUME NEW x \in DOMAIN params
        PROVE  x \in DOMAIN r /\ (r[x] = params[x] \/ Named(table, method, n + 1, x))
    <3>1. x \in DOMAIN m /\ (m[x] = params[x] \/ Named(table, method, n, x))
      BY DEF Over
    <3>2. x \in DOMAIN r /\ (r[x] = m[x] \/ \E j \in 1 .. WalkEnd(p, path) - 1 : p[j] = Cap(x))
      BY <2>2, <3>1 DEF Filled
    <3>3. ASSUME NEW j \in 1 .. WalkEnd(p, path) - 1, p[j] = Cap(x)
          PROVE  Named(table, method, n + 1, x)
      <4>1. WalkEnd(p, path) \in 1 .. Len(p) + 1 /\ Len(p) \in Nat
        BY <1>1, WalkStops
      <4>2. j \in 1 .. Len(p) /\ n + 1 \in 1 .. n + 1
        BY <4>1
      <4>3. \E h \in 1 .. n + 1 : /\ table[h].method = Wanted(method)
                                  /\ \E l \in 1 .. Len(table[h].pattern) : table[h].pattern[l] = Cap(x)
        BY <1>1, <1>4, <3>3, <4>2
      <4> QED
        BY <4>3 DEF Named
    <3> QED
      BY <1>2, <3>1, <3>2, <3>3
  <2> QED
    BY <2>2, <2>3 DEF Over
<1> QED
  BY <1>3, <1>4

\* e is the parameters after each of the first N routes.
ParamsTo(e, table, method, path, params, N) ==
  e = [n \in 0 .. N |-> IF n = 0 THEN params
                        ELSE IF table[n].method = Wanted(method) THEN Captured(table[n].pattern, path, e[n - 1])
                        ELSE e[n - 1]]

\* There is such a function.
LEMMA ParamsExist ==
  ASSUME NEW table \in Seq(Route), NEW method, NEW path \in Seq(STRING), NEW params \in Maps, NEW N \in Nat,
         N <= Len(table)
  PROVE  \E e : ParamsTo(e, table, method, path, params, N)
<1> DEFINE St(n, m) == IF table[n + 1].method = Wanted(method) THEN Captured(table[n + 1].pattern, path, m) ELSE m
           g == [n \in 0 .. N - 1 |-> [m \in Maps |-> St(n, m)]]
<1>1. ASSUME NEW n \in 0 .. N - 1, NEW m \in Maps
      PROVE  St(n, m) \in Maps
  <2>1. PICK p : p = table[n + 1].pattern /\ p \in Seq(Segments)
    <3>1. n + 1 \in 1 .. Len(table)
      OBVIOUS
    <3> QED
      BY <3>1, RouteAt
  <2>2. Captured(p, path, m) \in Maps
    BY <2>1, CapturedFills
  <2> QED
    BY <2>1, <2>2
<1>2. Steps(g, N, Maps) /\ \A n \in 0 .. N - 1 : \A m \in Maps : g[n][m] = St(n, m)
  <2> HIDE DEF St
  <2> QED
    BY <1>1 DEF Steps
<1>3. PICK f : Follows(f, g, params, N, Maps)
  <2> HIDE DEF g, Maps
  <2> QED
    BY <1>2, Recursion
<1>4. f \in [0 .. N -> Maps] /\ f[0] = params /\ \A n \in 0 .. N - 1 : f[n + 1] = g[n][f[n]]
  BY <1>3 DEF Follows
<1>5. ASSUME NEW n \in 0 .. N
      PROVE  f[n] = IF n = 0 THEN params
                    ELSE IF table[n].method = Wanted(method) THEN Captured(table[n].pattern, path, f[n - 1])
                    ELSE f[n - 1]
  <2>1. CASE n = 0
    BY <1>4, <2>1
  <2>2. CASE n # 0
    <3>1. PICK k : k = n - 1 /\ k \in 0 .. N - 1 /\ k + 1 = n /\ f[k] \in Maps
      BY <1>4, <2>2
    <3>2. f[n] = St(k, f[k])
      <4> HIDE DEF St, g
      <4> QED
        BY <1>2, <1>4, <3>1
    <3> QED
      BY <2>2, <3>1, <3>2
  <2> QED
    BY <2>1, <2>2
<1>6. f = [n \in 0 .. N |-> f[n]]
  BY <1>4
<1>7. ParamsTo(f, table, method, path, params, N)
  BY <1>5, <1>6 DEF ParamsTo
<1> QED
  BY <1>7

\* Under each name of the pattern stands what it captured last.
Taken(r, p, path) ==
  \A x \in STRING : (\E j \in 1 .. Len(p) : p[j] = Cap(x)) =>
    \E j \in 1 .. Len(p) : p[j] = Cap(x) /\ r[x] = path[j] /\ \A h \in j + 1 .. Len(p) : p[h] # Cap(x)

\* What a route is called with: its own captures, and the query's values but for what
\* routes before it captured.
LEMMA ParamsOf ==
  ASSUME NEW table \in Seq(Route), NEW method, NEW path \in Seq(STRING), NEW params \in Maps,
         NEW i \in 1 .. Len(table), table[i].method = Wanted(method), NEW p, p = table[i].pattern,
         route_path_matches(p, path), NEW r, r = ParamsAt(table, method, path, i, params)
  PROVE  Over(r, params, table, method, i) /\ Taken(r, p, path)
<1>0. Len(table) \in Nat /\ i \in Nat /\ i <= Len(table) /\ p \in Seq(Segments) /\ Len(p) \in Nat
  BY RouteAt
<1>1. PICK e : e = CHOOSE h : ParamsTo(h, table, method, path, params, i)
  OBVIOUS
<1>2. ParamsTo(e, table, method, path, params, i)
  BY <1>0, <1>1, ParamsExist
<1>3. r = e[i]
  BY <1>1 DEF ParamsAt, ParamsTo
<1>4. /\ e[0] = params
      /\ \A n \in 0 .. i - 1 :
           e[n + 1] = IF table[n + 1].method = Wanted(method) THEN Captured(table[n + 1].pattern, path, e[n]) ELSE e[n]
  <2>1. \A n \in 0 .. i : e[n] = IF n = 0 THEN params
                                 ELSE IF table[n].method = Wanted(method) THEN Captured(table[n].pattern, path, e[n - 1])
                                 ELSE e[n - 1]
    BY <1>2 DEF ParamsTo
  <2>2. 0 \in 0 .. i /\ \A n \in 0 .. i - 1 : n + 1 \in 0 .. i /\ n + 1 # 0 /\ (n + 1) - 1 = n
    BY <1>0
  <2> QED
    BY <2>1, <2>2
<1> DEFINE S == {n \in 0 .. i : e[n] \in Maps /\ Over(e[n], params, table, method, n)}
<1>5. 0 \in S
  <2>1. Over(params, params, table, method, 0)
    BY DEF Over
  <2> QED
    BY <1>0, <1>4, <2>1
<1>6. ASSUME NEW n \in 0 .. i - 1, n \in S
      PROVE  n + 1 \in S
  <2>1. PICK m, v : m = e[n] /\ v = e[n + 1]
    OBVIOUS
  <2>2. v \in Maps /\ Over(v, params, table, method, n + 1)
    <3>1. n \in Nat /\ n + 1 <= Len(table)
      BY <1>0
    <3>2. m \in Maps /\ Over(m, params, table, method, n)
      BY <1>6, <2>1
    <3>3. v = IF table[n + 1].method = Wanted(method) THEN Captured(table[n + 1].pattern, path, m) ELSE m
      BY <1>4, <2>1
    <3> QED
      BY <3>1, <3>2, <3>3, OverNext
  <2>3. n + 1 \in 0 .. i
    BY <1>0
  <2> QED
    BY <2>1, <2>2, <2>3
<1>7. 0 .. i \subseteq S
  <2> HIDE DEF S
  <2> QED
    BY <1>0, <1>5, <1>6, Induction
<1>8. i \in S /\ i - 1 \in S
  <2> HIDE DEF S
  <2> QED
    BY <1>0, <1>7
<1>9. Over(r, params, table, method, i)
  BY <1>3, <1>8
<1>10. PICK m : m = e[i - 1] /\ m \in Maps /\ r = Captured(p, path, m)
  <2>1. PICK n : n = i - 1 /\ n \in 0 .. i - 1 /\ n + 1 = i
    BY <1>0
  <2>2. e[n + 1] = Captured(table[n + 1].pattern, path, e[n])
    BY <1>4, <2>1
  <2> QED
    BY <1>3, <1>8, <2>1, <2>2
<1>11. PICK n : n = WalkEnd(p, path) - 1
  OBVIOUS
<1>12. Filled(r, m, p, path, n) /\ n \in Nat /\ n <= Len(p)
  <2>1. WalkEnd(p, path) \in 1 .. Len(p) + 1
    BY <1>0, WalkStops
  <2> QED
    BY <1>0, <1>10, <1>11, <2>1, CapturedFills
<1>13. \A j \in 1 .. Len(p) : \A x : p[j] = Cap(x) => j \in 1 .. n
  <2> SUFFICES ASSUME NEW j \in 1 .. Len(p), NEW x, p[j] = Cap(x)
               PROVE  j \in 1 .. n
    OBVIOUS
  <2>1. p[j] \in Segments
    BY <1>0
  <2>2. p[j][1] = "cap"
    BY <2>1, StarAgrees
  <2> QED
    BY <1>0, <1>11, <2>2, MatchesWalk
<1>14. ASSUME NEW x \in STRING, NEW l \in 1 .. Len(p), p[l] = Cap(x)
       PROVE  \E j \in 1 .. Len(p) : p[j] = Cap(x) /\ r[x] = path[j] /\ \A h \in j + 1 .. Len(p) : p[h] # Cap(x)
  <2>1. l \in 1 .. n
    BY <1>13, <1>14
  <2>2. PICK j \in 1 .. n : p[j] = Cap(x) /\ r[x] = path[j] /\ \A h \in j + 1 .. n : p[h] # Cap(x)
    BY <1>12, <1>14, <2>1 DEF Filled
  <2>3. ASSUME NEW h \in j + 1 .. Len(p)
        PROVE  p[h] # Cap(x)
    <3>1. h \in 1 .. Len(p) /\ (h \in 1 .. n => h \in j + 1 .. n)
      BY <1>0, <1>12
    <3> QED
      BY <1>13, <2>2, <3>1
  <2>4. j \in 1 .. Len(p)
    BY <1>0, <1>12
  <2> QED
    BY <2>2, <2>3, <2>4
<1>15. Taken(r, p, path)
  BY <1>14 DEF Taken
<1> QED
  BY <1>9, <1>15

\* One element more.
LEMMA Appended ==
  ASSUME NEW S, NEW a \in Seq(S), NEW v \in S, NEW r, r = Append(a, v)
  PROVE  r \in Seq(S) /\ Len(r) = Len(a) + 1 /\ r[Len(a) + 1] = v /\ \A j \in 1 .. Len(a) : r[j] = a[j]
OBVIOUS

\* A is a list without repetitions of the methods under which one of the first n
\* routes stands for the path.
Listed(a, table, path, n) ==
  /\ a \in Seq(STRING) /\ IsInjective(a)
  /\ \A x : (\E j \in 1 .. Len(a) : a[j] = x) <=>
              \E h \in 1 .. n : table[h].method = x /\ route_path_matches(table[h].pattern, path)

\* One route more.
LEMMA ListedNext ==
  ASSUME NEW table \in Seq(Route), NEW path, NEW n \in Nat, n + 1 <= Len(table), NEW a, Listed(a, table, path, n),
         NEW r, r = IF route_path_matches(table[n + 1].pattern, path) /\ ~Contains(a, table[n + 1].method)
                    THEN Append(a, table[n + 1].method) ELSE a
  PROVE  Listed(r, table, path, n + 1)
<1>1. PICK v : v = table[n + 1].method /\ v \in STRING
  <2>1. n + 1 \in 1 .. Len(table)
    OBVIOUS
  <2> QED
    BY <2>1, RouteAt
<1> DEFINE M(h) == route_path_matches(table[h].pattern, path)
           In(x) == \E j \in 1 .. Len(a) : a[j] = x
<1>2. /\ a \in Seq(STRING) /\ Len(a) \in Nat /\ IsInjective(a)
      /\ \A x : In(x) <=> \E h \in 1 .. n : table[h].method = x /\ M(h)
  <2>1. a \in Seq(STRING) /\ IsInjective(a)
    BY Zenon DEF Listed
  <2>2. \A x : In(x) <=> \E h \in 1 .. n : table[h].method = x /\ M(h)
    BY Zenon DEF Listed
  <2>3. Len(a) \in Nat
    BY <2>1
  <2> QED
    BY <2>1, <2>2, <2>3, Zenon
<1>3. r = IF M(n + 1) /\ ~In(v) THEN Append(a, v) ELSE a
  BY <1>1 DEF Contains
<1> HIDE DEF M, In
<1>4. \A x : (\E h \in 1 .. n + 1 : table[h].method = x /\ M(h)) <=>
               (\E h \in 1 .. n : table[h].method = x /\ M(h)) \/ (x = v /\ M(n + 1))
  <2>1. \A h : h \in 1 .. n + 1 <=> h \in 1 .. n \/ h = n + 1
    OBVIOUS
  <2> QED
    BY <1>1, <2>1
<1>5. CASE M(n + 1) /\ ~In(v)
  <2>1. r = Append(a, v)
    BY <1>3, <1>5
  <2>2. r \in Seq(STRING) /\ Len(r) = Len(a) + 1 /\ r[Len(a) + 1] = v /\ \A j \in 1 .. Len(a) : r[j] = a[j]
    <3>1. a \in Seq(STRING) /\ v \in STRING
      BY <1>1, <1>2
    <3>2. r \in Seq(STRING)
      BY <2>1, <3>1, Appended
    <3>3. Len(r) = Len(a) + 1 /\ r[Len(a) + 1] = v
      BY <2>1, <3>1, Appended
    <3>4. \A j \in 1 .. Len(a) : r[j] = a[j]
      BY <2>1, <3>1, Appended
    <3> QED
      BY <3>2, <3>3, <3>4
  <2>3. \A j : j \in 1 .. Len(r) <=> j \in 1 .. Len(a) \/ j = Len(a) + 1
    BY <1>2, <2>2
  <2>4. \A x : (\E j \in 1 .. Len(r) : r[j] = x) <=> In(x) \/ x = v
    BY <2>2, <2>3 DEF In
  <2>5. DOMAIN r = 1 .. Len(r) /\ DOMAIN a = 1 .. Len(a)
    BY <1>2, <2>2
  <2>6. IsInjective(r)
    <3> SUFFICES ASSUME NEW i \in DOMAIN r, NEW j \in DOMAIN r, r[i] = r[j]
                 PROVE  i = j
      BY DEF IsInjective
    <3>1. i \in 1 .. Len(a) => r[i] # v
      BY <1>5, <2>2 DEF In
    <3>2. j \in 1 .. Len(a) => r[j] # v
      BY <1>5, <2>2 DEF In
    <3>3. i \in 1 .. Len(a) /\ j \in 1 .. Len(a) => i = j
      BY <1>2, <2>2, <2>5 DEF IsInjective
    <3> QED
      BY <2>2, <2>3, <2>5, <3>1, <3>2, <3>3
  <2>7. \A x : (\E j \in 1 .. Len(r) : r[j] = x) <=> \E h \in 1 .. n + 1 : table[h].method = x /\ M(h)
    BY <1>2, <1>4, <1>5, <2>4
  <2> QED
    BY <2>2, <2>6, <2>7 DEF Listed, M
<1>6. CASE ~(M(n + 1) /\ ~In(v))
  <2>1. r = a
    BY <1>3, <1>6
  <2>2. \A x : (\E j \in 1 .. Len(r) : r[j] = x) <=> \E h \in 1 .. n + 1 : table[h].method = x /\ M(h)
    BY <1>2, <1>4, <1>6, <2>1 DEF In
  <2>3. r \in Seq(STRING) /\ IsInjective(r)
    BY <1>2, <2>1
  <2> QED
    BY <2>2, <2>3 DEF Listed, M
<1> QED
  BY <1>5, <1>6

\* e is the list after each of the first N routes.
AllowTo(e, table, path, N) ==
  e = [n \in 0 .. N |-> IF n = 0 THEN << >>
                        ELSE IF route_path_matches(table[n].pattern, path) /\ ~Contains(e[n - 1], table[n].method)
                        THEN Append(e[n - 1], table[n].method) ELSE e[n - 1]]

\* There is such a function.
LEMMA AllowExist ==
  ASSUME NEW table \in Seq(Route), NEW path, NEW N \in Nat, N <= Len(table)
  PROVE  \E e : AllowTo(e, table, path, N)
<1> DEFINE D == Seq(STRING)
           St(n, a) == IF route_path_matches(table[n + 1].pattern, path) /\ ~Contains(a, table[n + 1].method)
                       THEN Append(a, table[n + 1].method) ELSE a
           g == [n \in 0 .. N - 1 |-> [a \in D |-> St(n, a)]]
<1>1. ASSUME NEW n \in 0 .. N - 1, NEW a \in D
      PROVE  St(n, a) \in D
  <2>1. PICK v : v = table[n + 1].method /\ v \in STRING
    <3>1. n + 1 \in 1 .. Len(table)
      OBVIOUS
    <3> QED
      BY <3>1, RouteAt
  <2>2. Append(a, v) \in D
    BY <2>1
  <2> QED
    BY <2>1, <2>2
<1>2. Steps(g, N, D) /\ \A n \in 0 .. N - 1 : \A a \in D : g[n][a] = St(n, a)
  <2> HIDE DEF St, D
  <2> QED
    BY <1>1 DEF Steps
<1>3. PICK f : Follows(f, g, << >>, N, D)
  <2>1. << >> \in D
    OBVIOUS
  <2> HIDE DEF g, D
  <2> QED
    BY <1>2, <2>1, Recursion
<1>4. f \in [0 .. N -> D] /\ f[0] = << >> /\ \A n \in 0 .. N - 1 : f[n + 1] = g[n][f[n]]
  BY <1>3 DEF Follows
<1>5. ASSUME NEW n \in 0 .. N
      PROVE  f[n] = IF n = 0 THEN << >>
                    ELSE IF route_path_matches(table[n].pattern, path) /\ ~Contains(f[n - 1], table[n].method)
                    THEN Append(f[n - 1], table[n].method) ELSE f[n - 1]
  <2>1. CASE n = 0
    BY <1>4, <2>1
  <2>2. CASE n # 0
    <3>1. PICK k : k = n - 1 /\ k \in 0 .. N - 1 /\ k + 1 = n /\ f[k] \in D
      BY <1>4, <2>2
    <3>2. f[n] = St(k, f[k])
      <4> HIDE DEF St, g, D
      <4> QED
        BY <1>2, <1>4, <3>1
    <3> QED
      BY <2>2, <3>1, <3>2
  <2> QED
    BY <2>1, <2>2
<1>6. f = [n \in 0 .. N |-> f[n]]
  BY <1>4
<1>7. AllowTo(f, table, path, N)
  BY <1>5, <1>6 DEF AllowTo
<1> QED
  BY <1>7

\* Allow lists the methods under which a route of the table stands for the path, each
\* of them once.
LEMMA AllowLists ==
  ASSUME NEW table \in Seq(Route), NEW path
  PROVE  Listed(Allow(table, path), table, path, Len(table))
<1>0. Len(table) \in Nat
  OBVIOUS
<1>1. PICK N : N = Len(table) /\ N \in Nat
  BY <1>0
<1>2. PICK e : e = CHOOSE h : AllowTo(h, table, path, N)
  OBVIOUS
<1>3. AllowTo(e, table, path, N)
  <2>1. N <= Len(table)
    BY <1>1
  <2>2. \E h : AllowTo(h, table, path, N)
    BY <1>1, <2>1, AllowExist
  <2> QED
    BY <1>2, <2>2
<1>4. Allow(table, path) = e[N]
  BY <1>1, <1>2 DEF Allow, AllowTo
<1>5. /\ e[0] = << >>
      /\ \A n \in 0 .. N - 1 :
           e[n + 1] = IF route_path_matches(table[n + 1].pattern, path) /\ ~Contains(e[n], table[n + 1].method)
                      THEN Append(e[n], table[n + 1].method) ELSE e[n]
  <2>1. \A n \in 0 .. N : e[n] = IF n = 0 THEN << >>
                        ELSE IF route_path_matches(table[n].pattern, path) /\ ~Contains(e[n - 1], table[n].method)
                        THEN Append(e[n - 1], table[n].method) ELSE e[n - 1]
    BY <1>3 DEF AllowTo
  <2>2. 0 \in 0 .. N /\ \A n \in 0 .. N - 1 : n + 1 \in 0 .. N /\ n + 1 # 0 /\ (n + 1) - 1 = n
    BY <1>1
  <2> QED
    BY <2>1, <2>2
<1> DEFINE S == {n \in 0 .. N : Listed(e[n], table, path, n)}
<1>6. 0 \in S
  <2>1. Listed(<< >>, table, path, 0)
    BY DEF Listed, IsInjective
  <2> QED
    BY <1>1, <1>5, <2>1
<1>7. ASSUME NEW n \in 0 .. N - 1, n \in S
      PROVE  n + 1 \in S
  <2>1. PICK a, r : a = e[n] /\ r = e[n + 1]
    OBVIOUS
  <2>2. Listed(r, table, path, n + 1)
    <3>1. n \in Nat /\ n + 1 <= Len(table)
      BY <1>1
    <3>2. Listed(a, table, path, n)
      BY <1>7, <2>1
    <3>3. r = IF route_path_matches(table[n + 1].pattern, path) /\ ~Contains(a, table[n + 1].method)
              THEN Append(a, table[n + 1].method) ELSE a
      BY <1>5, <2>1
    <3> QED
      BY <3>1, <3>2, <3>3, ListedNext
  <2>3. n + 1 \in 0 .. N
    BY <1>1
  <2> QED
    BY <2>1, <2>2, <2>3
<1>8. N \in S
  <2> HIDE DEF S
  <2>1. 0 .. N \subseteq S
    BY <1>1, <1>6, <1>7, Induction
  <2> QED
    BY <1>1, <2>1
<1> QED
  BY <1>1, <1>4, <1>8

\* The least number of a set.
LEMMA MinOf ==
  ASSUME NEW T, T \subseteq Nat, T # {}
  PROVE  Min(T) \in T /\ \A m \in T : Min(T) <= m
<1>1. \E n \in T : \A m \in T : n <= m
  BY LeastNumber
<1> QED
  BY <1>1, Zenon DEF Min

\* The router picks the first route of the method that matches.
LEMMA FirstMatchOf ==
  ASSUME NEW table \in Seq(Route), NEW method, NEW path, NEW i, i = FirstMatch(table, method, path)
  PROVE  LET Hit(h) == table[h].method = Wanted(method) /\ route_path_matches(table[h].pattern, path)
         IN  \/ i = NoRoute /\ \A h \in 1 .. Len(table) : ~Hit(h)
             \/ i \in 1 .. Len(table) /\ Hit(i) /\ \A h \in 1 .. Len(table) : Hit(h) => i <= h
<1> DEFINE Hit(h) == table[h].method = Wanted(method) /\ route_path_matches(table[h].pattern, path)
           T == {h \in 1 .. Len(table) : Hit(h)}
<1>1. i = IF T # {} THEN Min(T) ELSE 0
  BY DEF FirstMatch, SelectInSeq
<1>2. T \subseteq Nat
  OBVIOUS
<1>3. T # {} => Min(T) \in T /\ \A m \in T : Min(T) <= m
  <2> HIDE DEF T
  <2> QED
    BY <1>2, MinOf
<1>4. CASE T = {}
  BY <1>1, <1>4 DEF NoRoute
<1>5. CASE T # {}
  BY <1>1, <1>3, <1>5
<1> QED
  BY <1>4, <1>5

\* A registration starts without a timeout.
LEMMA AddedRoute ==
  ASSUME NEW table \in Seq(Route), NEW s \in Registration
  PROVE  router_add(table, s.method, s.pattern, s.handler) \in Seq(Route)
<1>1. [method |-> s.method, pattern |-> s.pattern, handler |-> s.handler, timeout |-> 0] \in Route
  BY DEF Registration, Route
<1>2. PICK r : r = [method |-> s.method, pattern |-> s.pattern, handler |-> s.handler, timeout |-> 0] /\ r \in Route
  BY <1>1
<1>3. router_add(table, s.method, s.pattern, s.handler) = Append(table, r)
  BY <1>2 DEF router_add
<1> HIDE DEF Route
<1> QED
  BY <1>2, <1>3

\* e is the table after each of the first N registrations.
RegisteredTo(e, table, N) ==
  e = [n \in 0 .. N |-> IF n = 0 THEN router_init
                        ELSE router_add(e[n - 1], table[n].method, table[n].pattern, table[n].handler)]

\* What the generated main registers is a table of routes.
LEMMA RegisteredRoutes ==
  ASSUME NEW table \in Seq(Registration)
  PROVE  Registered(table) \in Seq(Route)
<1>0. PICK N : N = Len(table) /\ N \in Nat
  OBVIOUS
<1> DEFINE D == Seq(Route)
           St(n, a) == router_add(a, table[n + 1].method, table[n + 1].pattern, table[n + 1].handler)
           g == [n \in 0 .. N - 1 |-> [a \in D |-> St(n, a)]]
<1>1. ASSUME NEW n \in 0 .. N - 1, NEW a \in D
      PROVE  St(n, a) \in D
  <2>1. PICK s : s = table[n + 1] /\ s \in Registration
    <3>1. n + 1 \in 1 .. Len(table)
      BY <1>0
    <3> HIDE DEF Registration
    <3> QED
      BY <3>1
  <2> QED
    BY <2>1, AddedRoute
<1>2. Steps(g, N, D) /\ \A n \in 0 .. N - 1 : \A a \in D : g[n][a] = St(n, a)
  <2> HIDE DEF St, D
  <2> QED
    BY <1>1 DEF Steps
<1>3. router_init \in D
  BY DEF router_init
<1>4. PICK f : Follows(f, g, router_init, N, D)
  <2> HIDE DEF g, D
  <2> QED
    BY <1>0, <1>2, <1>3, Recursion
<1>5. f \in [0 .. N -> D] /\ f[0] = router_init /\ \A n \in 0 .. N - 1 : f[n + 1] = g[n][f[n]]
  BY <1>4 DEF Follows
<1>6. ASSUME NEW n \in 0 .. N
      PROVE  f[n] = IF n = 0 THEN router_init
                    ELSE router_add(f[n - 1], table[n].method, table[n].pattern, table[n].handler)
  <2>1. CASE n = 0
    BY <1>5, <2>1
  <2>2. CASE n # 0
    <3>1. PICK k : k = n - 1 /\ k \in 0 .. N - 1 /\ k + 1 = n /\ f[k] \in D
      BY <1>0, <1>5, <2>2
    <3>2. f[n] = St(k, f[k])
      <4> HIDE DEF St, g, D
      <4> QED
        BY <1>2, <1>5, <3>1
    <3> QED
      BY <2>2, <3>1, <3>2
  <2> QED
    BY <2>1, <2>2
<1>7. f = [n \in 0 .. N |-> f[n]]
  BY <1>5
<1>8. \E h : RegisteredTo(h, table, N)
  BY <1>6, <1>7 DEF RegisteredTo
<1>9. PICK e : e = CHOOSE h : RegisteredTo(h, table, N)
  OBVIOUS
<1>10. RegisteredTo(e, table, N)
  BY <1>8, <1>9
<1>11. Registered(table) = e[N]
  BY <1>0, <1>9 DEF Registered, RegisteredTo
<1>12. e[0] = router_init /\ \A n \in 0 .. N - 1 : e[n + 1] = St(n, e[n])
  <2>1. \A n \in 0 .. N : e[n] = IF n = 0 THEN router_init
                        ELSE router_add(e[n - 1], table[n].method, table[n].pattern, table[n].handler)
    BY <1>10 DEF RegisteredTo
  <2>2. 0 \in 0 .. N /\ \A n \in 0 .. N - 1 : n + 1 \in 0 .. N /\ n + 1 # 0 /\ (n + 1) - 1 = n
    BY <1>0
  <2> QED
    BY <2>1, <2>2
<1> DEFINE S == {n \in 0 .. N : e[n] \in D}
<1> HIDE DEF D, St
<1>13. 0 \in S
  BY <1>0, <1>3, <1>12
<1>14. ASSUME NEW n \in 0 .. N - 1, n \in S
       PROVE  n + 1 \in S
  BY <1>0, <1>1, <1>12, <1>14
<1>15. N \in S
  <2> HIDE DEF S
  <2>1. 0 .. N \subseteq S
    BY <1>0, <1>13, <1>14, Induction
  <2> QED
    BY <1>0, <2>1
<1> QED
  BY <1>11, <1>15 DEF D

\* Every operation leaves a table of routes.
LEMMA ChangedRoutes ==
  ASSUME NEW table \in Seq(Route), NEW s \in Registration, NEW t,
         t \in {router_add(table, s.method, s.pattern, s.handler), router_set_timeout(table, s.method, s.pattern, 1),
                router_remove(table, s.method, s.pattern)}
  PROVE  t \in Seq(Route)
<1>0. PICK i : i = Slot(table, s.method, s.pattern)
  OBVIOUS
<1>1. i = NoRoute \/ i \in 1 .. Len(table)
  <2> DEFINE T == {h \in 1 .. Len(table) : table[h].method = s.method /\ table[h].pattern = s.pattern}
  <2>1. i = IF T # {} THEN Min(T) ELSE 0
    BY <1>0 DEF Slot, SelectInSeq
  <2>2. T \subseteq Nat
    OBVIOUS
  <2>3. T # {} => Min(T) \in T
    <3> HIDE DEF T
    <3> QED
      BY <2>2, MinOf
  <2> QED
    BY <2>1, <2>3 DEF NoRoute
<1>2. CASE t = router_add(table, s.method, s.pattern, s.handler)
  BY <1>2, AddedRoute
<1>3. CASE t = router_set_timeout(table, s.method, s.pattern, 1)
  <2>1. t = IF i = NoRoute THEN table ELSE [table EXCEPT ![i].timeout = 1]
    BY <1>0, <1>3 DEF router_set_timeout
  <2>2. ASSUME i \in 1 .. Len(table)
        PROVE  [table EXCEPT ![i].timeout = 1] \in Seq(Route)
    <3>1. PICK r : r = [table[i] EXCEPT !.timeout = 1]
      OBVIOUS
    <3>2. table[i] \in Route
      BY <2>2, RouteAt
    <3>3. r \in Route
      BY <3>1, <3>2 DEF Route
    <3>4. [table EXCEPT ![i] = r] \in Seq(Route)
      <4> HIDE DEF Route
      <4> QED
        BY <2>2, <3>3
    <3> QED
      BY <3>1, <3>4
  <2> QED
    BY <1>1, <2>1, <2>2
<1>4. CASE t = router_remove(table, s.method, s.pattern)
  <2>1. t = IF i = NoRoute THEN table ELSE SubSeq(table, 1, i - 1) \o SubSeq(table, i + 1, Len(table))
    BY <1>0, <1>4 DEF router_remove, RemoveAt
  <2>2. ASSUME i \in 1 .. Len(table)
        PROVE  SubSeq(table, 1, i - 1) \o SubSeq(table, i + 1, Len(table)) \in Seq(Route)
    <3> HIDE DEF Route
    <3>1. SubSeq(table, 1, i - 1) \in Seq(Route)
      BY <2>2, SubSeqProperties
    <3>2. SubSeq(table, i + 1, Len(table)) \in Seq(Route)
      BY <2>2, SubSeqProperties
    <3> QED
      BY <3>1, <3>2, ConcatProperties
  <2> QED
    BY <1>1, <2>1, <2>2
<1> QED
  BY <1>2, <1>3, <1>4
-----------------------------------------------------------------------------
(* A request reaches the right handler.                                    *)

\* The routes whose pattern stands for the path, and those among them of the method.
Fitting(k) == {i \in DOMAIN routes : Fits(routes[i].pattern, k.req.path)}
Mine(k)    == {i \in Fitting(k) : routes[i].method = Wanted(k.req.method)}
Names(i)   == {routes[i].pattern[j][2] : j \in {n \in DOMAIN routes[i].pattern : routes[i].pattern[n][1] = "cap"}}

\* The router has called the first of these, with the parameters that are its due.
Called(k) ==
  /\ k.req.form /\ k.res.route \in Mine(k) /\ \A i \in Mine(k) : k.res.route <= i
  /\ k.res.suppress <=> k.req.method = "HEAD"
  /\ \A n \in Names(k.res.route) :
       \E j \in DOMAIN routes[k.res.route].pattern :
         /\ routes[k.res.route].pattern[j] = Cap(n) /\ k.res.params[n] = k.req.path[j]
         /\ \A h \in j + 1 .. Len(routes[k.res.route].pattern) : routes[k.res.route].pattern[h] # Cap(n)
  /\ \A n \in DOMAIN k.req.query :
       \/ k.res.params[n] = k.req.query[n]
       \/ \E i \in 1 .. k.res.route : routes[i].method = Wanted(k.req.method) /\ n \in Names(i)

\* There was none to call.
Declined(k) ==
  /\ k.res.route = NoRoute
  /\ \/ ~k.req.form /\ k.res.status = 400
     \/ /\ k.req.form /\ Mine(k) = {} /\ IsInjective(k.res.allow)
        /\ Range(k.res.allow) = {routes[i].method : i \in Fitting(k)}
        /\ k.res.status = (IF Fitting(k) = {} THEN 404 ELSE IF k.req.method = "OPTIONS" THEN 200 ELSE 405)

\* What a request carries.
Asks(q) == q.path \in Seq(STRING) /\ q.form \in BOOLEAN /\ q.query \in Maps

\* No route is chosen before the router; on the disk and right behind the router the
\* choice is the right one; and whoever turns back stands before the router.
Steer(k) ==
  /\ k.at # "idle" => Asks(k.req)
  /\ k.at \in {"down"} \cup Limiting => k.res.route = NoRoute
  /\ k.at = "up" => k.depth <= Len(Chain)
  /\ k.at \in OnDisk => Called(k)
  /\ RouterBack(k) => Called(k) \/ Declined(k)

Steered == opts \in Options /\ routes \in Seq(Route) /\ \A w \in Workers : Steer(wk[w])

\* The other workers' requests stay where they are.
LEMMA SteeredKept ==
  ASSUME IInv, Steered, NEW w \in Workers, NEW r, wk' = [wk EXCEPT ![w] = r], UNCHANGED <<opts, routes>>, Steer(r)
  PROVE  Steered'
<1>1. Chain' = Chain
  BY ChainSame
<1> HIDE DEF Chain
<1>2. \A v \in Workers : wk'[v] = IF v = w THEN r ELSE wk[v]
  BY DEF IInv
<1>3. ASSUME NEW v \in Workers
      PROVE  Steer(wk[v])'
  <2>1. PICK k : k = wk'[v] /\ Steer(k)
    BY <1>2 DEF Steered
  <2>2. Mine(k)' = Mine(k) /\ Fitting(k)' = Fitting(k) /\ \A i : Names(i)' = Names(i)
    BY DEF Mine, Fitting, Names
  <2>3. Called(k)' <=> Called(k)
    BY <2>2 DEF Called
  <2>4. Declined(k)' <=> Declined(k)
    BY <2>2 DEF Declined
  <2>5. RouterBack(k)' <=> RouterBack(k)
    BY <1>1 DEF RouterBack
  <2>6. Steer(k)'
    BY <1>1, <2>1, <2>3, <2>4, <2>5 DEF Steer
  <2> QED
    BY <2>1, <2>6
<1> QED
  BY <1>3 DEF Steered

\* A layer passes the request on as it is, or sends it back before the router saw it.
Passed(r, k) ==
  /\ r.req = k.req /\ r.res.route = k.res.route /\ r.res.tag = k.res.tag /\ r.res.parts = k.res.parts
  /\ \/ r.at \in {"down"} \cup Limiting /\ r.res.status = k.res.status
     \/ r.at = "up" /\ r.depth \in Int /\ r.depth < Len(Chain)

\* A layer calls the next one, or answers.
LEMMA TurnPasses ==
  ASSUME NEW k, k.depth \in 1 .. Len(Chain), NEW m, DOMAIN m = Fields, DOMAIN m.res = ResFields, m.req = k.req,
         m.depth = k.depth, m.res.route = k.res.route, m.res.tag = k.res.tag, m.res.parts = k.res.parts,
         m.res.status = k.res.status, NEW s, NEW r, r = Next1(m) \/ r = Answer(m, s)
  PROVE  Passed(r, k)
<1>1. Len(Chain) \in Nat /\ k.depth \in Int
  BY ChainLaid
<1> HIDE DEF Chain
<1>2. CASE r = Next1(m)
  <2>1. r.at = "down" /\ r.req = m.req /\ r.res = m.res
    BY <1>2 DEF Next1, Fields
  <2> QED
    BY <2>1 DEF Passed
<1>3. CASE r = Answer(m, s)
  <2>1. PICK q : q = [m.res EXCEPT !.status = s]
    OBVIOUS
  <2>2. r.at = "up" /\ r.req = m.req /\ r.depth = m.depth - 1 /\ r.res = q
    BY <1>3, <2>1 DEF Answer, Back, Fields
  <2>3. q.route = m.res.route /\ q.tag = m.res.tag /\ q.parts = m.res.parts
    BY <2>1 DEF ResFields
  <2>4. r.depth \in Int /\ r.depth < Len(Chain)
    BY <1>1, <2>2
  <2> QED
    BY <2>2, <2>3, <2>4 DEF Passed
<1> QED
  BY <1>2, <1>3

\* The layers, on the way down.
LEMMA LayersPass ==
  ASSUME IInv, Answers, NEW w \in Workers,
         \/ http_client_ip_middleware(w) \/ http_request_id_middleware(w) \/ http_security_middleware(w)
         \/ http_signature_middleware(w) \/ PassDown(w) \/ http_cors_middleware(w) \/ http_basic_auth_middleware(w)
  PROVE  /\ wk[w].at \in {"down"} \cup Limiting /\ UNCHANGED <<opts, routes, file, held>>
         /\ \E r : wk' = [wk EXCEPT ![w] = r] /\ Passed(r, wk[w])
<1> DEFINE k == wk[w]
<1>0. DOMAIN k = Fields /\ DOMAIN k.res = ResFields
  BY DEF IInv, Placed, Answers, Own
<1>u. UNCHANGED <<opts, routes, file, held>>
  BY DEF http_client_ip_middleware, http_request_id_middleware, http_security_middleware, http_signature_middleware,
         PassDown, http_cors_middleware, http_basic_auth_middleware, Quiet, disk
<1>1. k.at = "down" /\ k.depth \in 1 .. Len(Chain)
  <2>1. \E l : At(w, l)
    BY DEF http_client_ip_middleware, http_request_id_middleware, http_security_middleware, http_signature_middleware,
           PassDown, http_cors_middleware, http_basic_auth_middleware
  <2> QED
    BY <2>1, AtLayer
<1> DEFINE Sent(m) == \/ m \in {k, Stamp(k, "security"), Stamp(k, "cors"), Stamp(k, "challenge")}
                     \/ m = [k EXCEPT !.ip = http_client_ip_resolve(k.req.xff, k.req.remote)]
                     \/ m = [k EXCEPT !.user = k.req.cred.user]
           Turn(m, s, r) == Sent(m) /\ (r = Next1(m) \/ r = Answer(m, s)) /\ wk' = [wk EXCEPT ![w] = r]
<1>2. \E m, s, r : Turn(m, s, r)
  <2>1. CASE http_client_ip_middleware(w)
    BY <2>1 DEF http_client_ip_middleware, Go
  <2>2. CASE http_request_id_middleware(w)
    BY <2>2 DEF http_request_id_middleware, Go
  <2>3. CASE http_security_middleware(w)
    BY <2>3 DEF http_security_middleware, Go
  <2>4. CASE http_signature_middleware(w)
    <3>1. Turn(k, 403, Next1(k)) \/ Turn(k, 403, Answer(k, 403))
      BY <2>4 DEF http_signature_middleware, Go
    <3> HIDE DEF Turn
    <3> QED
      BY <3>1
  <2>5. CASE PassDown(w)
    BY <2>5 DEF PassDown, Go
  <2>6. CASE http_cors_middleware(w)
    <3>1. PICK m : m = IF ~k.req.origin THEN k ELSE Stamp(k, "cors")
      OBVIOUS
    <3>2. Turn(m, 204, Next1(m)) \/ Turn(m, 204, Answer(m, 204))
      BY <2>6, <3>1 DEF http_cors_middleware, Go
    <3> HIDE DEF Turn
    <3> QED
      BY <3>2
  <2>7. CASE http_basic_auth_middleware(w)
    BY <2>7 DEF http_basic_auth_middleware, http_basic_auth_parse, Go
  <2> QED
    BY <2>1, <2>2, <2>3, <2>4, <2>5, <2>6, <2>7
<1>3. PICK m, s, r : Turn(m, s, r)
  BY <1>2
<1>4. /\ DOMAIN m = Fields /\ DOMAIN m.res = ResFields /\ m.req = k.req /\ m.depth = k.depth /\ m.res.route = k.res.route
      /\ m.res.tag = k.res.tag /\ m.res.parts = k.res.parts /\ m.res.status = k.res.status
  BY <1>0, <1>3 DEF Stamp, Fields, ResFields
<1> HIDE DEF Chain
<1>5. Passed(r, k)
  BY <1>1, <1>3, <1>4, TurnPasses
<1> QED
  BY <1>u, <1>1, <1>3, <1>5

\* The limiter.
LEMMA LimiterPasses ==
  ASSUME IInv, Answers, NEW w \in Workers, Limiter(w)
  PROVE  /\ wk[w].at \in {"down"} \cup Limiting /\ UNCHANGED <<opts, routes, file, held>>
         /\ \E r : wk' = [wk EXCEPT ![w] = r] /\ Passed(r, wk[w])
<1>1. PICK k : k = wk[w]
  OBVIOUS
<1>0. DOMAIN k = Fields /\ DOMAIN k.res = ResFields /\ Placed(k)
  BY <1>1 DEF IInv, Placed, Answers, Own
<1>u. UNCHANGED <<opts, routes, file, held>> /\ k.at \in {"down"} \cup Limiting
  BY <1>1, LimiterSteps
<1>2. CASE \E r : wk' = [wk EXCEPT ![w] = r] /\ r.at \in Limiting /\ r.res = k.res /\ r.req = k.req /\ r.depth = k.depth
  <2>2. PICK r : wk' = [wk EXCEPT ![w] = r] /\ r.at \in Limiting /\ r.res = k.res /\ r.req = k.req
    BY <1>2
  <2> HIDE DEF Chain
  <2>3. Passed(r, k)
    BY <2>2 DEF Passed
  <2> QED
    BY <1>u, <1>1, <2>2, <2>3
<1>3. CASE k.at \in Limiting /\ \E ok \in BOOLEAN : wk' = [wk EXCEPT ![w] = Limited(k, ok)]
  <2>1. \E ok \in BOOLEAN : wk' = [wk EXCEPT ![w] = Limited(k, ok)]
    BY <1>3
  <2>2. k.at \in Limiting /\ k.depth \in 1 .. Len(Chain)
    BY <1>0, <1>3 DEF Limiting, Pointing, Placed
  <2>3. PICK m, s : m = Stamp(k, "ratelimit") /\ s = 429
    OBVIOUS
  <2>4. PICK r : (r = Next1(m) \/ r = Answer(m, s)) /\ wk' = [wk EXCEPT ![w] = r]
    BY <2>1, <2>3 DEF Limited
  <2>5. /\ DOMAIN m = Fields /\ DOMAIN m.res = ResFields /\ m.req = k.req /\ m.depth = k.depth /\ m.res.route = k.res.route
        /\ m.res.tag = k.res.tag /\ m.res.parts = k.res.parts /\ m.res.status = k.res.status
    BY <1>0, <2>3 DEF Stamp, Fields, ResFields
  <2> HIDE DEF Chain
  <2>6. Passed(r, k)
    BY <2>2, <2>4, <2>5, TurnPasses
  <2> QED
    BY <1>1, <1>u, <2>2, <2>4, <2>6
<1> QED
  BY <1>1, <1>2, <1>3, LimiterSteps

\* A request that is passed on has no route yet, and one that is sent back is away
\* from the router.
LEMMA PassSteers ==
  ASSUME IInv, Answers, Steered, NEW w \in Workers,
         \/ Limiter(w) \/ http_client_ip_middleware(w) \/ http_request_id_middleware(w) \/ http_security_middleware(w)
         \/ http_signature_middleware(w) \/ PassDown(w) \/ http_cors_middleware(w) \/ http_basic_auth_middleware(w)
  PROVE  Steered'
<1>1. PICK k : k = wk[w] /\ Steer(k)
  BY DEF Steered
<1>2. k.at \in {"down"} \cup Limiting /\ UNCHANGED <<opts, routes>>
  BY <1>1, LayersPass, LimiterPasses
<1>3. PICK r : wk' = [wk EXCEPT ![w] = r] /\ Passed(r, k)
  BY <1>1, LayersPass, LimiterPasses
<1>4. Len(Chain) \in Nat /\ r.at # "idle"
  BY <1>3, ChainLaid DEF Passed, Limiting, Pointing
<1> HIDE DEF Chain
<1>5. Asks(r.req) /\ r.res.route = NoRoute
  BY <1>1, <1>2, <1>3 DEF Steer, Passed, Limiting, Pointing
<1>6. CASE r.at \in {"down"} \cup Limiting
  <2>1. Steer(r)
    BY <1>5, <1>6 DEF Steer, Limiting, Pointing, OnDisk, RouterBack
  <2> QED
    BY <1>2, <1>3, <2>1, SteeredKept
<1>7. CASE r.at = "up" /\ r.depth \in Int /\ r.depth < Len(Chain)
  <2>1. Steer(r)
    BY <1>4, <1>5, <1>7 DEF Steer, Limiting, Pointing, OnDisk, RouterBack
  <2> QED
    BY <1>2, <1>3, <2>1, SteeredKept
<1> QED
  BY <1>3, <1>6, <1>7 DEF Passed

\* Back up the chain, away from the router.
LEMMA ReturnSteers ==
  ASSUME IInv, Answers, Steered, NEW w \in Workers, Return(w)
  PROVE  Steered'
<1>1. PICK k : k = wk[w] /\ Steer(k)
  BY DEF Steered
<1>0. DOMAIN k = Fields /\ k.at = "up" /\ k.depth \in Int /\ Len(Chain) \in Nat
  BY <1>1, ChainLaid DEF IInv, Placed, Return
<1>u. UNCHANGED <<opts, routes>>
  BY DEF Return, Quiet
<1>2. PICK q : q = Finished(Chain[k.depth], k)
  OBVIOUS
<1>3. PICK r : r = Back([k EXCEPT !.res = q])
  OBVIOUS
<1>4. wk' = [wk EXCEPT ![w] = r]
  BY <1>1, <1>2, <1>3 DEF Return, Go
<1> HIDE DEF Chain
<1>5. r.at = "up" /\ r.req = k.req /\ r.depth = k.depth - 1
  BY <1>0, <1>3 DEF Back, Fields
<1>6. Asks(k.req) /\ k.depth <= Len(Chain)
  BY <1>0, <1>1 DEF Steer
<1>7. Steer(r)
  BY <1>0, <1>5, <1>6 DEF Steer, Limiting, Pointing, OnDisk, RouterBack
<1> QED
  BY <1>u, <1>4, <1>7, SteeredKept

\* The routes the walk matches are those whose pattern stands for the path.
LEMMA FittingMatch ==
  ASSUME routes \in Seq(Route), NEW k, Asks(k.req)
  PROVE  /\ Fitting(k) = {i \in 1 .. Len(routes) : route_path_matches(routes[i].pattern, k.req.path)}
         /\ Mine(k) = {i \in 1 .. Len(routes) : /\ routes[i].method = Wanted(k.req.method)
                                               /\ route_path_matches(routes[i].pattern, k.req.path)}
<1>1. DOMAIN routes = 1 .. Len(routes)
  OBVIOUS
<1>2. ASSUME NEW i \in 1 .. Len(routes)
      PROVE  Fits(routes[i].pattern, k.req.path) <=> route_path_matches(routes[i].pattern, k.req.path)
  BY RouteAt, MatchesFits DEF Asks
<1>3. Fitting(k) = {i \in 1 .. Len(routes) : route_path_matches(routes[i].pattern, k.req.path)}
  BY <1>1, <1>2 DEF Fitting
<1> QED
  BY <1>3 DEF Mine

\* The router calls the route it has picked.
LEMMA PickedCalled ==
  ASSUME routes \in Seq(Route), NEW k, Asks(k.req), k.req.form, NEW i, i # NoRoute,
         i = FirstMatch(routes, k.req.method, k.req.path), k.res.route = i,
         k.res.params = ParamsAt(routes, k.req.method, k.req.path, i, k.req.query),
         k.res.suppress = (k.req.method = "HEAD")
  PROVE  Called(k)
<1> DEFINE Hit(h) == routes[h].method = Wanted(k.req.method) /\ route_path_matches(routes[h].pattern, k.req.path)
<1>1. i \in 1 .. Len(routes) /\ Hit(i) /\ \A h \in 1 .. Len(routes) : Hit(h) => i <= h
  BY FirstMatchOf
<1>2. Mine(k) = {h \in 1 .. Len(routes) : Hit(h)}
  BY FittingMatch
<1>3. k.res.route \in Mine(k) /\ \A h \in Mine(k) : k.res.route <= h
  <2> HIDE DEF Hit
  <2> QED
    BY <1>1, <1>2
<1>4. PICK p : p = routes[i].pattern
  OBVIOUS
<1>5. p \in Seq(Segments) /\ DOMAIN p = 1 .. Len(p)
  BY <1>1, <1>4, RouteAt
<1>6. PICK params, method, path, query : /\ params = k.res.params /\ method = k.req.method /\ path = k.req.path /\ query = k.req.query
                                         /\ path \in Seq(STRING) /\ query \in Maps
  BY DEF Asks
<1>7. /\ \A x \in DOMAIN query : params[x] = query[x] \/ Named(routes, method, i, x)
      /\ \A x \in STRING : (\E j \in 1 .. Len(p) : p[j] = Cap(x)) =>
           \E j \in 1 .. Len(p) : p[j] = Cap(x) /\ params[x] = path[j] /\ \A h \in j + 1 .. Len(p) : p[h] # Cap(x)
  <2>1. params = ParamsAt(routes, method, path, i, query) /\ routes[i].method = Wanted(method) /\ route_path_matches(p, path)
    BY <1>1, <1>4, <1>6
  <2>2. Over(params, query, routes, method, i) /\ Taken(params, p, path)
    BY <1>1, <1>4, <1>6, <2>1, ParamsOf
  <2> QED
    BY <2>2 DEF Over, Taken
<1>8. ASSUME NEW h \in 1 .. Len(routes), NEW x
      PROVE  x \in Names(h) <=> \E j \in 1 .. Len(routes[h].pattern) : routes[h].pattern[j] = Cap(x)
  <2>1. PICK s : s = routes[h].pattern /\ s \in Seq(Segments) /\ DOMAIN s = 1 .. Len(s)
    BY RouteAt
  <2>2. Names(h) = {s[j][2] : j \in {n \in 1 .. Len(s) : s[n][1] = "cap"}}
    BY <2>1 DEF Names
  <2>3. \A j \in 1 .. Len(s) : s[j] \in Segments
    BY <2>1
  <2>4. \A j \in 1 .. Len(s) : (s[j] = Cap(x) <=> s[j][1] = "cap" /\ s[j][2] = x)
    BY <2>3, StarAgrees
  <2> QED
    BY <2>1, <2>2, <2>4
<1>9. ASSUME NEW n \in Names(i)
      PROVE  \E j \in DOMAIN p : p[j] = Cap(n) /\ params[n] = path[j] /\ \A h \in j + 1 .. Len(p) : p[h] # Cap(n)
  <2>1. PICK j \in 1 .. Len(p) : p[j] = Cap(n)
    BY <1>1, <1>4, <1>8, <1>9
  <2>2. p[j] \in Segments
    BY <1>5
  <2>3. n \in STRING
    BY <2>1, <2>2, StarAgrees
  <2> QED
    BY <1>5, <1>7, <2>1, <2>3
<1>10. ASSUME NEW n \in DOMAIN query
       PROVE  params[n] = query[n] \/ \E h \in 1 .. i : routes[h].method = Wanted(method) /\ n \in Names(h)
  <2>1. CASE Named(routes, method, i, n)
    <3>1. PICK h \in 1 .. i : /\ routes[h].method = Wanted(method)
                              /\ \E j \in 1 .. Len(routes[h].pattern) : routes[h].pattern[j] = Cap(n)
      BY <2>1 DEF Named
    <3>2. h \in 1 .. Len(routes)
      BY <1>1
    <3>3. n \in Names(h)
      BY <1>8, <3>1, <3>2
    <3> QED
      BY <3>1, <3>3
  <2> QED
    BY <1>7, <2>1
<1> HIDE DEF Hit
<1>11. \A n \in Names(k.res.route) :
         \E j \in DOMAIN routes[k.res.route].pattern :
           /\ routes[k.res.route].pattern[j] = Cap(n) /\ k.res.params[n] = k.req.path[j]
           /\ \A h \in j + 1 .. Len(routes[k.res.route].pattern) : routes[k.res.route].pattern[h] # Cap(n)
  BY <1>4, <1>6, <1>9
<1>12. \A n \in DOMAIN k.req.query :
         \/ k.res.params[n] = k.req.query[n]
         \/ \E h \in 1 .. k.res.route : routes[h].method = Wanted(k.req.method) /\ n \in Names(h)
  BY <1>6, <1>10, Zenon
<1>13. k.res.suppress <=> k.req.method = "HEAD"
  BY Zenon
<1> QED
  BY <1>3, <1>11, <1>12, <1>13, Zenon DEF Called

\* Without a route to call, the answer names the methods there are.
LEMMA UnroutedDeclined ==
  ASSUME routes \in Seq(Route), NEW k, Asks(k.req), k.res.route = NoRoute,
         k.req.form => FirstMatch(routes, k.req.method, k.req.path) = NoRoute,
         k.res.allow = Allow(routes, k.req.path),
         k.res.status = IF ~k.req.form THEN 400
                        ELSE IF k.res.allow = << >> THEN 404
                        ELSE IF k.req.method = "OPTIONS" THEN 200 ELSE 405
  PROVE  Declined(k)
<1>1. CASE ~k.req.form
  BY <1>1 DEF Declined
<1>2. CASE k.req.form
  <2> DEFINE Hit(h) == routes[h].method = Wanted(k.req.method) /\ route_path_matches(routes[h].pattern, k.req.path)
  <2>1. \A h \in 1 .. Len(routes) : ~Hit(h)
    <3>1. FirstMatch(routes, k.req.method, k.req.path) \notin 1 .. Len(routes)
      BY <1>2 DEF NoRoute
    <3> QED
      BY <3>1, FirstMatchOf
  <2>2. Mine(k) = {}
    BY <2>1, FittingMatch
  <2>3. PICK a : a = k.res.allow /\ Listed(a, routes, k.req.path, Len(routes))
    BY AllowLists
  <2>4. a \in Seq(STRING) /\ IsInjective(a) /\ DOMAIN a = 1 .. Len(a)
    BY <2>3 DEF Listed
  <2>5. Fitting(k) = {i \in 1 .. Len(routes) : route_path_matches(routes[i].pattern, k.req.path)}
    BY FittingMatch
  <2>6. \A x : (\E j \in 1 .. Len(a) : a[j] = x) <=> \E i \in Fitting(k) : routes[i].method = x
    BY <2>3, <2>5 DEF Listed
  <2>7. Range(a) = {routes[i].method : i \in Fitting(k)}
    <3>0. PICK R, M : R = Range(a) /\ M = {routes[i].method : i \in Fitting(k)}
      OBVIOUS
    <3>1. \A x : x \in R <=> \E j \in 1 .. Len(a) : a[j] = x
      BY <2>4, <3>0 DEF Range
    <3>2. \A x : x \in M <=> \E i \in Fitting(k) : routes[i].method = x
      BY <3>0
    <3>3. \A x : x \in R <=> x \in M
      BY <2>6, <3>1, <3>2, Zenon
    <3>4. R = M
      BY <3>3
    <3> QED
      BY <3>0, <3>4
  <2>8. a = << >> <=> Fitting(k) = {}
    <3>1. CASE a = << >>
      <4>1. \A i \in Fitting(k) : \E j \in 1 .. Len(a) : a[j] = routes[i].method
        BY <2>6, Zenon
      <4>2. 1 .. Len(a) = {}
        BY <3>1
      <4> QED
        BY <3>1, <4>1, <4>2, Zenon
    <3>2. CASE a # << >>
      <4>1. 1 \in 1 .. Len(a)
        BY <2>4, <3>2
      <4>2. \E i \in Fitting(k) : routes[i].method = a[1]
        BY <2>6, <4>1, Zenon
      <4> QED
        BY <3>2, <4>2, Zenon
    <3> QED
      BY <3>1, <3>2
  <2>9. k.res.status = (IF Fitting(k) = {} THEN 404 ELSE IF k.req.method = "OPTIONS" THEN 200 ELSE 405)
    BY <1>2, <2>3, <2>8
  <2> QED
    BY <1>2, <2>2, <2>3, <2>4, <2>7, <2>9 DEF Declined
<1> QED
  BY <1>1, <1>2 DEF Asks

\* A request comes in, and a worker that is done has none.
LEMMA EndsSteer ==
  ASSUME IInv, Steered, NEW w \in Workers, Arrive(w) \/ Deliver(w)
  PROVE  Steered'
<1> HIDE DEF Chain
<1>1. CASE Arrive(w)
  <2>1. PICK q : /\ q \in Requests[opts.name]
                 /\ wk' = [wk EXCEPT ![w] = [Idle EXCEPT !.at = "down", !.depth = 1, !.id = served + 1, !.req = Conditional(q)]]
    BY <1>1, Zenon DEF Arrive, Go
  <2>2. PICK r : r = [Idle EXCEPT !.at = "down", !.depth = 1, !.id = served + 1, !.req = Conditional(q)]
    OBVIOUS
  <2>3. r.at = "down" /\ r.res = Blank /\ r.req = Conditional(q)
    BY <2>2 DEF Idle
  <2>4. /\ DOMAIN q = {"method", "path", "query", "form", "cred", "remote", "xff", "sig", "origin",
                       "inm", "ims", "range", "ifr", "gz", "check"}
        /\ q.path \in Seq(STRING) /\ DOMAIN q.query \subseteq STRING /\ q.query \in [DOMAIN q.query -> STRING]
        /\ q.form \in BOOLEAN
    BY <2>1, Shapes DEF Steered
  <2>5. r.req.path = q.path /\ r.req.query = q.query /\ r.req.form = q.form
    BY <2>3, <2>4 DEF Conditional
  <2>6. q.query \in Maps
    BY <2>4 DEF Maps
  <2>7. Asks(r.req) /\ r.res.route = NoRoute
    BY <2>3, <2>4, <2>5, <2>6 DEF Asks, Blank
  <2>8. Steer(r)
    BY <2>3, <2>7 DEF Steer, Limiting, Pointing, OnDisk, RouterBack
  <2>9. UNCHANGED <<opts, routes>>
    BY <1>1, Zenon DEF Arrive
  <2> QED
    BY <2>1, <2>2, <2>8, <2>9, SteeredKept
<1>2. CASE Deliver(w)
  <2>1. PICK r : r = Idle
    OBVIOUS
  <2>2. wk' = [wk EXCEPT ![w] = r] /\ UNCHANGED <<opts, routes>>
    BY <1>2, <2>1 DEF Deliver, Go, Quiet
  <2>3. r.at = "idle"
    BY <2>1 DEF Idle
  <2>4. Steer(r)
    BY <2>3 DEF Steer, Limiting, Pointing, OnDisk, RouterBack
  <2> QED
    BY <2>2, <2>4, SteeredKept
<1> QED
  BY <1>1, <1>2

\* What the static handler returns has the route, the parameters and the request it
\* was called with.
LEMMA Returned ==
  ASSUME NEW w \in Workers, NEW m, DOMAIN m = Fields, DOMAIN m.res = ResFields, StaticReturns(w, m)
  PROVE  \E r : /\ wk' = [wk EXCEPT ![w] = r] /\ r.at = "up" /\ r.depth = m.depth - 1 /\ r.req = m.req
                /\ r.res.route = m.res.route /\ r.res.params = m.res.params /\ r.res.suppress = m.res.suppress
                /\ r.res = m.res \/ (r.res.status = 404 /\ r.res.tag = NoTag)
<1>1. CASE wk' = [wk EXCEPT ![w] = Back(m)]
  <2>1. PICK r : r = Back(m)
    OBVIOUS
  <2>2. r.at = "up" /\ r.depth = m.depth - 1 /\ r.req = m.req /\ r.res = m.res
    BY <2>1 DEF Back, Fields
  <2> QED
    BY <1>1, <2>1, <2>2
<1>2. CASE ~(wk' = [wk EXCEPT ![w] = Back(m)])
  <2>0. m.res.status = 404
    BY <1>2 DEF StaticReturns, Go
  <2>1. PICK p : p = Page(w, m)
    OBVIOUS
  <2>2. PICK q : q = [p EXCEPT !.res.hdrs = {}, !.res.tag = NoTag, !.res.lm = NoDate, !.res.parts = << >>]
    OBVIOUS
  <2>3. wk' = [wk EXCEPT ![w] = Back(q)]
    BY <1>2, <2>1, <2>2 DEF StaticReturns, Go
  <2>4. /\ DOMAIN p = Fields /\ DOMAIN p.res = ResFields /\ p.req = m.req /\ p.depth = m.depth
        /\ p.res.route = m.res.route /\ p.res.params = m.res.params /\ p.res.suppress = m.res.suppress
        /\ p.res.status = m.res.status
    BY <2>1, PageOf
  <2>5. PICK z : z = [p.res EXCEPT !.hdrs = {}, !.tag = NoTag, !.lm = NoDate, !.parts = << >>]
    OBVIOUS
  <2>6. /\ z.route = m.res.route /\ z.params = m.res.params /\ z.suppress = m.res.suppress
        /\ z.status = 404 /\ z.tag = NoTag
    BY <2>0, <2>4, <2>5 DEF ResFields
  <2>7. DOMAIN q = Fields /\ q.req = m.req /\ q.res = z /\ q.depth = m.depth
    BY <2>2, <2>4, <2>5 DEF Fields
  <2>8. PICK r : r = Back(q)
    OBVIOUS
  <2>9. r.at = "up" /\ r.res = z /\ r.req = m.req /\ r.depth = m.depth - 1
    BY <2>7, <2>8 DEF Back, Fields
  <2> QED
    BY <2>3, <2>6, <2>8, <2>9
<1> QED
  BY <1>1, <1>2

\* The same call is still the right one.
LEMMA SameCalled ==
  ASSUME NEW k, Called(k), NEW m, m.req = k.req, m.res.route = k.res.route, m.res.params = k.res.params,
         m.res.suppress = k.res.suppress
  PROVE  Called(m)
<1>1. Fitting(m) = Fitting(k) /\ Mine(m) = Mine(k)
  BY DEF Fitting, Mine
<1> QED
  BY <1>1 DEF Called

\* The static files.
LEMMA DiskSteers ==
  ASSUME IInv, Answers, Steered, NEW w \in Workers, http_serve_static(w) \/ file_read_all(w) \/ file_read_range(w)
  PROVE  Steered'
<1>1. PICK k : k = wk[w] /\ Steer(k)
  BY DEF Steered
<1>2. k.at \in OnDisk /\ UNCHANGED <<opts, routes>>
  BY <1>1, DiskSteps
<1>3. PICK m : /\ SameCall(m, k)
               /\ \/ StaticReturns(w, m)
                  \/ m.at \in OnDisk /\ wk' = [wk EXCEPT ![w] = m]
  BY <1>1, DiskSteps
<1>4. k.depth = Len(Chain) + 1 /\ Len(Chain) \in Nat
  BY <1>1, <1>2, ChainLaid DEF IInv, Placed
<1> HIDE DEF Chain
<1>5. Asks(k.req) /\ Called(k)
  BY <1>1, <1>2 DEF Steer, OnDisk
<1>6. CASE StaticReturns(w, m)
  <2>1. PICK r : /\ wk' = [wk EXCEPT ![w] = r] /\ r.at = "up" /\ r.depth = m.depth - 1 /\ r.req = m.req
                 /\ r.res.route = m.res.route /\ r.res.params = m.res.params /\ r.res.suppress = m.res.suppress
    BY <1>3, <1>6, Returned DEF SameCall
  <2>2. r.depth = Len(Chain) /\ r.req = k.req
    BY <1>3, <1>4, <2>1 DEF SameCall
  <2>3. Called(r)
    BY <1>3, <1>5, <2>1, <2>2, SameCalled DEF SameCall
  <2>4. Steer(r)
    BY <1>4, <1>5, <2>1, <2>2, <2>3 DEF Steer, Limiting, Pointing, OnDisk
  <2> QED
    BY <1>2, <2>1, <2>4, SteeredKept
<1>7. CASE m.at \in OnDisk /\ wk' = [wk EXCEPT ![w] = m]
  <2>1. Called(m) /\ m.req = k.req
    BY <1>3, <1>5, SameCalled DEF SameCall
  <2>2. Steer(m)
    BY <1>5, <1>7, <2>1 DEF Steer, Limiting, Pointing, OnDisk, RouterBack
  <2> QED
    BY <1>2, <1>7, <2>2, SteeredKept
<1> QED
  BY <1>3, <1>6, <1>7

\* The router.
LEMMA RouterSteers ==
  ASSUME IInv, Answers, Steered, NEW w \in Workers, router_dispatch(w)
  PROVE  Steered'
<1>1. PICK k : k = wk[w] /\ Steer(k)
  BY DEF Steered
<1>0. DOMAIN k = Fields /\ DOMAIN k.res = ResFields /\ k.at = "down" /\ k.depth = Len(Chain) + 1 /\ Len(Chain) \in Nat
  BY <1>1, ChainLaid DEF IInv, Placed, Answers, Own, router_dispatch, AtRouter
<1>u. UNCHANGED <<opts, routes>> /\ routes \in Seq(Route)
  BY DEF router_dispatch, Quiet, Steered
<1> HIDE DEF Chain
<1>2. Asks(k.req) /\ k.res.route = NoRoute
  BY <1>0, <1>1 DEF Steer
<1> DEFINE i == IF request_merge_params(k.req) THEN FirstMatch(routes, k.req.method, k.req.path) ELSE NoRoute
           h == routes[i].handler
           params == ParamsAt(routes, k.req.method, k.req.path, i, k.req.query)
<1>3. PICK q : q = [k.res EXCEPT !.route = i, !.handled = TRUE, !.params = params, !.suppress = (k.req.method = "HEAD")]
  OBVIOUS
<1>4. PICK p : p = [k EXCEPT !.res = q]
  OBVIOUS
<1>5. p = Routed(k, i)
  BY <1>0, <1>3, <1>4 DEF Routed, Fields, ResFields
<1>6. PICK lm, s : lm = (IF h = "dated" THEN file.mtime ELSE NoDate) /\ s = (IF h = "fallback" THEN 404 ELSE 200)
  OBVIOUS
<1>7. \/ i = NoRoute /\ wk' = [wk EXCEPT ![w] = Unrouted(k)]
      \/ i # NoRoute /\ wk' = [wk EXCEPT ![w] = [p EXCEPT !.at = "stat"]]
      \/ i # NoRoute /\ wk' = [wk EXCEPT ![w] = Answer([Page(w, p) EXCEPT !.res.lm = lm], s)]
  BY <1>1, <1>5, <1>6 DEF router_dispatch, Go
<1> HIDE DEF params
<1>8. DOMAIN q = ResFields /\ q.route = i /\ q.params = params /\ q.suppress = (k.req.method = "HEAD")
  BY <1>0, <1>3 DEF ResFields
<1>9. DOMAIN p = Fields /\ p.res = q /\ p.req = k.req /\ p.depth = k.depth
  BY <1>0, <1>4 DEF Fields
<1>10. ASSUME i # NoRoute
       PROVE  Called(p)
  <2>1. k.req.form /\ i = FirstMatch(routes, k.req.method, k.req.path)
    BY <1>10 DEF request_merge_params
  <2>2. PICK j : j = i
    OBVIOUS
  <2>3. /\ p.req.form /\ Asks(p.req) /\ j # NoRoute /\ j = FirstMatch(routes, p.req.method, p.req.path) /\ p.res.route = j
        /\ p.res.params = ParamsAt(routes, p.req.method, p.req.path, j, p.req.query)
        /\ p.res.suppress = (p.req.method = "HEAD")
    BY <1>2, <1>8, <1>9, <1>10, <2>1, <2>2 DEF params
  <2> HIDE DEF i
  <2> QED
    BY <1>u, <2>3, PickedCalled
<1>11. CASE i = NoRoute /\ wk' = [wk EXCEPT ![w] = Unrouted(k)]
  <2>1. PICK a : a = Allow(routes, k.req.path)
    OBVIOUS
  <2>2. PICK t : t = IF ~k.req.form THEN 400
                     ELSE IF a = << >> THEN 404
                     ELSE IF k.req.method = "OPTIONS" THEN 200 ELSE 405
    OBVIOUS
  <2>3. PICK z : z = [k.res EXCEPT !.allow = a, !.status = t]
    OBVIOUS
  <2>4. PICK r : r = Back([k EXCEPT !.res = z])
    OBVIOUS
  <2>5. r = Unrouted(k)
    <3>1. [k EXCEPT !.res = z] = [[k EXCEPT !.res.allow = a] EXCEPT !.res.status = t]
      BY <1>0, <2>3 DEF Fields, ResFields
    <3> QED
      BY <2>1, <2>2, <2>4, <3>1 DEF Unrouted, Answer, request_merge_params
  <2>6. z.allow = a /\ z.status = t /\ z.route = NoRoute
    BY <1>0, <1>2, <2>3 DEF ResFields
  <2>7. r.at = "up" /\ r.res = z /\ r.req = k.req /\ r.depth = Len(Chain)
    BY <1>0, <2>4 DEF Back, Fields
  <2>8. r.req.form => FirstMatch(routes, r.req.method, r.req.path) = NoRoute
    BY <1>11, <2>7 DEF request_merge_params
  <2>9. Declined(r)
    BY <1>u, <1>2, <2>1, <2>2, <2>6, <2>7, <2>8, UnroutedDeclined
  <2>10. Steer(r)
    BY <1>0, <1>2, <2>7, <2>9 DEF Steer, Limiting, Pointing, OnDisk
  <2> QED
    BY <1>u, <1>11, <2>5, <2>10, SteeredKept
<1>12. CASE i # NoRoute /\ wk' = [wk EXCEPT ![w] = [p EXCEPT !.at = "stat"]]
  <2>1. PICK r : r = [p EXCEPT !.at = "stat"]
    OBVIOUS
  <2>2. r.at = "stat" /\ r.res = p.res /\ r.req = p.req
    BY <1>9, <2>1 DEF Fields
  <2>3. Called(r)
    BY <1>10, <1>12, <2>2, SameCalled
  <2>4. Steer(r)
    BY <1>2, <1>9, <2>2, <2>3 DEF Steer, OnDisk, Limiting, Pointing, RouterBack
  <2> QED
    BY <1>u, <1>12, <2>1, <2>4, SteeredKept
<1>13. CASE i # NoRoute /\ wk' = [wk EXCEPT ![w] = Answer([Page(w, p) EXCEPT !.res.lm = lm], s)]
  <2>1. PICK g : g = Page(w, p)
    OBVIOUS
  <2>2. /\ DOMAIN g = Fields /\ DOMAIN g.res = ResFields /\ g.req = p.req /\ g.depth = p.depth
        /\ g.res.route = p.res.route /\ g.res.params = p.res.params /\ g.res.suppress = p.res.suppress
    BY <1>8, <1>9, <2>1, PageOf
  <2>3. PICK z : z = [g.res EXCEPT !.lm = lm, !.status = s]
    OBVIOUS
  <2>4. z.route = p.res.route /\ z.params = p.res.params /\ z.suppress = p.res.suppress
    BY <2>2, <2>3 DEF ResFields
  <2>5. PICK r : r = Back([g EXCEPT !.res = z])
    OBVIOUS
  <2>6. r.at = "up" /\ r.res = z /\ r.req = p.req /\ r.depth = Len(Chain)
    BY <1>0, <1>9, <2>2, <2>5 DEF Back, Fields
  <2>7. r = Answer([Page(w, p) EXCEPT !.res.lm = lm], s)
    <3>1. [g EXCEPT !.res = z] = [[g EXCEPT !.res.lm = lm] EXCEPT !.res.status = s]
      BY <2>2, <2>3 DEF Fields, ResFields
    <3> QED
      BY <2>1, <2>5, <3>1 DEF Answer
  <2>8. Called(r)
    BY <1>10, <1>13, <2>4, <2>6, SameCalled
  <2>9. Steer(r)
    BY <1>0, <1>2, <1>9, <2>6, <2>8 DEF Steer, Limiting, Pointing, OnDisk
  <2> QED
    BY <1>u, <1>13, <2>7, <2>9, SteeredKept
<1> QED
  BY <1>7, <1>11, <1>12, <1>13

\* Routes are changed while no request is in hand, and stay routes.
LEMMA WorldSteers ==
  ASSUME IInv, Answers, Steered, SetUp \/ Tick \/ Edit \/ UNCHANGED vars
  PROVE  Steered'
<1>1. UNCHANGED <<opts, wk>> /\ (UNCHANGED routes \/ (served = 0 /\ SetUp))
  BY DEF SetUp, Tick, Edit, vars
<1>2. Chain' = Chain
  BY <1>1, ChainSame
<1> HIDE DEF Chain
<1>3. CASE UNCHANGED routes
  <2>1. ASSUME NEW v \in Workers
        PROVE  Steer(wk[v])'
    <3>1. PICK k : k = wk[v] /\ Steer(k)
      BY DEF Steered
    <3>2. Mine(k)' = Mine(k) /\ Fitting(k)' = Fitting(k) /\ \A i : Names(i)' = Names(i)
      BY <1>3 DEF Mine, Fitting, Names
    <3>3. Called(k)' <=> Called(k)
      BY <1>3, <3>2 DEF Called
    <3>4. Declined(k)' <=> Declined(k)
      BY <1>3, <3>2 DEF Declined
    <3>5. RouterBack(k)' <=> RouterBack(k)
      BY <1>2 DEF RouterBack
    <3>6. Steer(k)'
      BY <1>2, <3>1, <3>3, <3>4, <3>5 DEF Steer
    <3> QED
      BY <1>1, <3>1, <3>6
  <2> QED
    BY <1>1, <1>3, <2>1 DEF Steered
<1>4. CASE served = 0 /\ SetUp
  <2>1. ASSUME NEW v \in Workers
        PROVE  Steer(wk[v])'
    <3>1. wk'[v].at = "idle"
      BY <1>1, <1>4 DEF Answers
    <3> QED
      BY <3>1 DEF Steer, Limiting, Pointing, OnDisk, RouterBack
  <2>2. routes' \in Seq(Route)
    <3>1. PICK s \in opts.specs :
            routes' \in {router_add(routes, s.method, s.pattern, s.handler),
                         router_set_timeout(routes, s.method, s.pattern, 1),
                         router_remove(routes, s.method, s.pattern)}
      BY <1>4 DEF SetUp
    <3>2. s \in Registration
      BY Shapes DEF Steered
    <3> QED
      BY <3>1, <3>2, ChangedRoutes DEF Steered
  <2> QED
    BY <1>1, <2>1, <2>2 DEF Steered
<1> QED
  BY <1>1, <1>3, <1>4

\* An idle worker has no request.
LEMMA InitSteers ==
  ASSUME Init
  PROVE  Steered
<1> HIDE DEF Chain
<1>1. opts \in Options /\ routes = Registered(opts.table) /\ wk = [w \in Workers |-> Idle]
  BY Zenon DEF Init
<1>2. Idle.at = "idle"
  BY DEF Idle
<1>3. ASSUME NEW w \in Workers
      PROVE  Steer(wk[w])
  <2>1. wk[w].at = "idle"
    BY <1>1, <1>2
  <2> QED
    BY <2>1 DEF Steer, Limiting, Pointing, OnDisk, RouterBack
<1>4. routes \in Seq(Route)
  BY <1>1, Shapes, RegisteredRoutes
<1> QED
  BY <1>1, <1>3, <1>4 DEF Steered

\* Every step keeps the requests on their way.
LEMMA NextSteers == IInv /\ Answers /\ Steered /\ [Next]_vars => Steered'
<1> SUFFICES ASSUME IInv, Answers, Steered, [Next]_vars
             PROVE  Steered'
  OBVIOUS
<1>1. CASE SetUp \/ Tick \/ Edit \/ UNCHANGED vars
  BY <1>1, WorldSteers
<1>2. ASSUME NEW w \in Workers, Arrive(w) \/ Layer(w) \/ Limiter(w) \/ Handler(w) \/ Deliver(w)
      PROVE  Steered'
  <2>1. CASE Arrive(w) \/ Deliver(w)
    BY <2>1, EndsSteer
  <2>2. CASE Return(w)
    BY <2>2, ReturnSteers
  <2>3. CASE Limiter(w)
    BY <2>3, PassSteers
  <2>4. CASE Handler(w)
    BY <2>4, RouterSteers, DiskSteers DEF Handler
  <2>5. CASE \/ http_client_ip_middleware(w) \/ http_request_id_middleware(w) \/ http_security_middleware(w)
             \/ http_signature_middleware(w) \/ PassDown(w) \/ http_cors_middleware(w) \/ http_basic_auth_middleware(w)
    BY <2>5, PassSteers
  <2> QED
    BY <1>2, <2>1, <2>2, <2>3, <2>4, <2>5 DEF Layer
<1> QED
  BY <1>1, <1>2 DEF Next

\* After any sequence of route operations, and in whatever order the workers go on, a
\* request reaches the first route of its method whose pattern stands for its path,
\* with that pattern's captures in its parameters; without one it is answered 400, 404,
\* 405 or, for OPTIONS, 200 with exactly the methods there are (router.c:111-189).
THEOREM PipelineRightHandler == Spec => []RightHandler
<1>1. Init => Steered
  BY InitSteers
<1>2. IInv /\ Answers /\ Steered /\ [Next]_vars => Steered'
  BY NextSteers
<1>3. Steered => RightHandler
  <2> HIDE DEF Chain
  <2> SUFFICES ASSUME Steered, NEW w \in Workers, RouterBack(wk[w])
               PROVE  RightHandler!(w)!2
    BY DEF RightHandler
  <2>1. PICK k : k = wk[w] /\ Steer(k) /\ RouterBack(k)
    BY DEF Steered
  <2>2. k.req.form \in BOOLEAN /\ (Called(k) \/ Declined(k))
    BY <2>1 DEF Steer, RouterBack, Asks
  <2>3. Called(k) => k.req.form /\ Mine(k) # {}
    BY DEF Called
  <2>4. CASE ~k.req.form
    BY <2>1, <2>2, <2>3, <2>4 DEF Declined
  <2>5. CASE k.req.form /\ Mine(k) # {}
    <3>1. Called(k)
      BY <2>2, <2>5 DEF Declined
    <3> QED
      BY <2>1, <2>5, <3>1 DEF Called, Mine, Fitting, Names
  <2>6. CASE k.req.form /\ Mine(k) = {}
    <3>1. /\ k.res.route = NoRoute /\ IsInjective(k.res.allow)
          /\ Range(k.res.allow) = {routes[i].method : i \in Fitting(k)}
          /\ k.res.status = (IF Fitting(k) = {} THEN 404 ELSE IF k.req.method = "OPTIONS" THEN 200 ELSE 405)
      BY <2>2, <2>3, <2>6 DEF Declined
    <3> QED
      BY <2>1, <2>6, <3>1 DEF Mine, Fitting
  <2>7. (~k.req.form) \/ (k.req.form /\ Mine(k) # {}) \/ (k.req.form /\ Mine(k) = {})
    BY <2>2
  <2> QED
    BY <2>4, <2>5, <2>6, <2>7, Zenon
<1> QED
  BY <1>1, <1>2, <1>3, PipelineInvariant, PipelineAnswers, PTL DEF Spec
-----------------------------------------------------------------------------
(* Byte ranges.                                                            *)

\* Windows with bytes in them, and the bytes of one and of several.
Windows == [base : Nat, n : Nat \ {0}]
Inside(p, w) == w.base <= p /\ p < w.base + w.n
Covers(ws, p) == \E i \in 1 .. Len(ws) : Inside(p, ws[i])

\* A spec that asks for bytes the file has is given the window of these bytes.
LEMMA SpecWindow ==
  ASSUME NEW s \in Specs, NEW size \in Nat, NEW w, w = range_spec(s, size)
  PROVE  /\ w = NoWindow => Asked(s, size) = {}
         /\ w # NoWindow => w \in Windows /\ Asked(s, size) # {} /\ \A p \in Nat : Inside(p, w) <=> p \in Asked(s, size)
<1> DEFINE f == s.from
           t == s.to
<1>0. f \in Nat \cup {-1, -2} /\ t \in Nat \cup {-1, -2}
  BY DEF Specs, Empty, Junk
<1>1. \A p : p \in Asked(s, size) <=> /\ p \in 0 .. size - 1
                                      /\ \/ f = -1 /\ t > 0 /\ p >= size - t
                                         \/ f >= 0 /\ t = -1 /\ p >= f
                                         \/ f >= 0 /\ f <= p /\ p <= t
  BY DEF Asked, Empty
<1>2. w = (CASE f = -1 /\ t > 0 /\ size > 0 -> Window(size - Least(t, size), Least(t, size))
             [] f \in 0 .. size - 1 /\ t = -1 -> Window(f, size - f)
             [] f \in 0 .. size - 1 /\ t >= f -> Window(f, Least(t - f + 1, size - f))
             [] OTHER -> NoWindow)
  BY DEF range_spec, Empty
<1>3. PICK A : A = Asked(s, size)
  OBVIOUS
<1> HIDE DEF f, t
<1> DEFINE Good(b, n) == w = Window(b, n) /\ b \in Nat /\ n \in Nat \ {0} /\ \A p \in Nat : p \in A <=> b <= p /\ p < b + n
<1>4. ASSUME NEW b, NEW n, Good(b, n)
      PROVE  w # NoWindow /\ w \in Windows /\ A # {} /\ \A p \in Nat : Inside(p, w) <=> p \in A
  <2>1. w.base = b /\ w.n = n /\ w \in Windows /\ w # NoWindow
    BY <1>4 DEF Window, Windows, NoWindow
  <2>2. b \in A
    BY <1>4
  <2> QED
    BY <1>4, <2>1, <2>2 DEF Inside
<1>5. CASE f = -1 /\ t > 0 /\ size > 0
  <2>1. w = Window(size - Least(t, size), Least(t, size))
    BY <1>2, <1>5
  <2>2. Good(size - Least(t, size), Least(t, size))
    BY <1>0, <1>1, <1>3, <1>5, <2>1 DEF Least
  <2> QED
    BY <1>3, <1>4, <2>2
<1>6. CASE f \in 0 .. size - 1 /\ t = -1
  <2>1. w = Window(f, size - f)
    BY <1>2, <1>6
  <2>2. Good(f, size - f)
    BY <1>0, <1>1, <1>3, <1>6, <2>1
  <2> QED
    BY <1>3, <1>4, <2>2
<1>7. CASE f \in 0 .. size - 1 /\ t >= f
  <2>1. w = Window(f, Least(t - f + 1, size - f))
    BY <1>0, <1>2, <1>7
  <2>2. Good(f, Least(t - f + 1, size - f))
    BY <1>0, <1>1, <1>3, <1>7, <2>1 DEF Least
  <2> QED
    BY <1>3, <1>4, <2>2
<1>8. CASE /\ ~(f = -1 /\ t > 0 /\ size > 0) /\ ~(f \in 0 .. size - 1 /\ t = -1)
           /\ ~(f \in 0 .. size - 1 /\ t >= f)
  <2>1. w = NoWindow
    BY <1>2, <1>8
  <2>2. \A p : p \notin A
    BY <1>0, <1>1, <1>3, <1>8
  <2> QED
    BY <1>3, <2>1, <2>2
<1> QED
  BY <1>5, <1>6, <1>7, <1>8

\* One window more.
LEMMA CoversNext ==
  ASSUME NEW ws \in Seq(Windows), NEW w \in Windows, NEW p \in Nat, NEW r, r = Append(ws, w)
  PROVE  r \in Seq(Windows) /\ (Covers(r, p) <=> Covers(ws, p) \/ Inside(p, w))
<1>1. r \in Seq(Windows) /\ Len(r) = Len(ws) + 1 /\ r[Len(ws) + 1] = w /\ \A j \in 1 .. Len(ws) : r[j] = ws[j]
  <2> HIDE DEF Windows
  <2> QED
    BY Appended
<1>2. Len(ws) \in Nat
  OBVIOUS
<1> QED
  BY <1>1, <1>2 DEF Covers

-----------------------------------------------------------------------------
(* The specs that are satisfiable.                                         *)

Satisfiable(specs, size) == {i \in DOMAIN specs : Asked(specs[i], size) # {}}
Before(good, j)          == Cardinality({h \in good : h < j})

\* ws are the windows of those among the first n specs, but for the ones after MaxRanges.
Picked(ws, specs, size, n) ==
  LET good == Satisfiable(specs, size)
  IN  /\ ws \in Seq(Windows)
      /\ Len(ws) = Least(MaxRanges, Before(good, n + 1))
      /\ \A p \in Nat : Covers(ws, p) <=>
           \E j \in good : j <= n /\ Before(good, j) < MaxRanges /\ p \in Asked(specs[j], size)

\* One number more to count.
LEMMA BeforeNext ==
  ASSUME NEW N \in Nat, NEW good, good \subseteq 1 .. N, NEW j \in Nat
  PROVE  /\ Before(good, j) \in Nat
         /\ Before(good, j + 1) = Before(good, j) + (IF j \in good THEN 1 ELSE 0)
<1> DEFINE B == {h \in good : h < j}
           C == {h \in good : h < j + 1}
<1>1. IsFiniteSet(B)
  <2>1. IsFiniteSet(1 .. N)
    BY FS_Interval
  <2>2. B \subseteq 1 .. N
    OBVIOUS
  <2> QED
    BY <2>1, <2>2, FS_Subset
<1>2. Cardinality(B) \in Nat
  BY <1>1, FS_CardinalityType
<1>3. C = IF j \in good THEN B \cup {j} ELSE B
  <2>1. good \subseteq Nat
    OBVIOUS
  <2>2. \A h \in Nat : h < j + 1 <=> h < j \/ h = j
    OBVIOUS
  <2>3. \A h : h \in C <=> h \in B \/ (h = j /\ j \in good)
    BY <2>1, <2>2
  <2> HIDE DEF B, C
  <2>4. CASE j \in good
    BY <2>3, <2>4
  <2>5. CASE j \notin good
    BY <2>3, <2>5
  <2> QED
    BY <2>4, <2>5
<1>4. j \notin B
  OBVIOUS
<1>5. Cardinality(B \cup {j}) = Cardinality(B) + 1
  <2> HIDE DEF B
  <2> QED
    BY <1>1, <1>4, FS_AddElement
<1> HIDE DEF B, C
<1>6. Before(good, j) = Cardinality(B) /\ Before(good, j + 1) = Cardinality(C)
  BY DEF Before, B, C
<1> QED
  BY <1>2, <1>3, <1>5, <1>6

\* One spec more.
LEMMA PickedNext ==
  ASSUME NEW specs \in Seq(Specs), NEW size \in Nat, NEW n \in Nat, n + 1 <= Len(specs),
         NEW ws, Picked(ws, specs, size, n), NEW w, w = range_spec(specs[n + 1], size),
         NEW r, r = IF Len(ws) < MaxRanges /\ w # NoWindow THEN Append(ws, w) ELSE ws
  PROVE  Picked(r, specs, size, n + 1)
<1>1. PICK good, N : good = Satisfiable(specs, size) /\ N = Len(specs) /\ N \in Nat
  OBVIOUS
<1> DEFINE Gets(m, p) == \E j \in good : j <= m /\ Before(good, j) < MaxRanges /\ p \in Asked(specs[j], size)
<1>2. good \subseteq 1 .. N /\ (n + 1 \in good <=> Asked(specs[n + 1], size) # {})
  BY <1>1 DEF Satisfiable
<1>3. /\ ws \in Seq(Windows) /\ Len(ws) = Least(MaxRanges, Before(good, n + 1))
      /\ \A p \in Nat : Covers(ws, p) <=> Gets(n, p)
  BY <1>1, Zenon DEF Picked
<1>4. specs[n + 1] \in Specs
  BY <1>1
<1>5. /\ n + 1 \in good <=> w # NoWindow
      /\ w # NoWindow => w \in Windows /\ \A p \in Nat : Inside(p, w) <=> p \in Asked(specs[n + 1], size)
  BY <1>2, <1>4, SpecWindow
<1>6. PICK b : b = Before(good, n + 1) /\ b \in Nat /\ Before(good, n + 2) = b + (IF n + 1 \in good THEN 1 ELSE 0)
  <2>1. n + 1 \in Nat /\ (n + 1) + 1 = n + 2
    OBVIOUS
  <2> QED
    BY <1>1, <1>2, <2>1, BeforeNext
<1>7. \A p \in Nat : Gets(n + 1, p) <=> Gets(n, p) \/ (n + 1 \in good /\ b < MaxRanges /\ p \in Asked(specs[n + 1], size))
  <2>1. \A j \in good : j <= n + 1 <=> j <= n \/ j = n + 1
    BY <1>1, <1>2
  <2> QED
    BY <1>6, <2>1, Zenon
<1> HIDE DEF Gets
<1>8. MaxRanges \in Nat /\ Len(ws) \in Nat
  BY <1>3, MaxRangesAssumption
<1>9. /\ r \in Seq(Windows) /\ Len(r) = Least(MaxRanges, Before(good, n + 2))
      /\ \A p \in Nat : Covers(r, p) <=> Gets(n + 1, p)
  <2>1. CASE Len(ws) < MaxRanges /\ w # NoWindow
    <3>1. b < MaxRanges /\ Len(ws) = b /\ n + 1 \in good /\ r = Append(ws, w) /\ w \in Windows
      BY <1>3, <1>5, <1>6, <1>8, <2>1 DEF Least
    <3>2. r \in Seq(Windows) /\ Len(r) = Len(ws) + 1
      <4>1. ws \in Seq(Windows)
        BY <1>3
      <4> HIDE DEF Windows
      <4>2. r \in Seq(Windows)
        BY <3>1, <4>1
      <4>3. Len(r) = Len(ws) + 1
        BY <3>1, <4>1
      <4> QED
        BY <4>2, <4>3
    <3>3. \A p \in Nat : Covers(r, p) <=> Covers(ws, p) \/ Inside(p, w)
      BY <1>3, <3>1, CoversNext
    <3>4. Len(r) = Least(MaxRanges, Before(good, n + 2))
      BY <1>6, <1>8, <3>1, <3>2 DEF Least
    <3> QED
      BY <1>3, <1>5, <1>7, <3>1, <3>2, <3>3, <3>4
  <2>2. CASE ~(Len(ws) < MaxRanges) \/ w = NoWindow
    <3>1. r = ws /\ ~(n + 1 \in good /\ b < MaxRanges)
      BY <1>3, <1>5, <1>6, <1>8, <2>2 DEF Least
    <3>2. Len(r) = Least(MaxRanges, Before(good, n + 2))
      BY <1>3, <1>6, <1>8, <3>1 DEF Least
    <3> QED
      BY <1>3, <1>7, <3>1, <3>2
  <2> QED
    BY <2>1, <2>2
<1>10. (n + 1) + 1 = n + 2
  OBVIOUS
<1> QED
  BY <1>1, <1>9, <1>10, Zenon DEF Picked, Gets

\* e is the list after each of the first N specs.
RawTo(e, specs, size, N) ==
  e = [n \in 0 .. N |-> IF n = 0 THEN << >>
                        ELSE IF Len(e[n - 1]) < MaxRanges /\ range_spec(specs[n], size) # NoWindow
                        THEN Append(e[n - 1], range_spec(specs[n], size)) ELSE e[n - 1]]

\* There is such a function.
LEMMA RawExist ==
  ASSUME NEW specs \in Seq(Specs), NEW size \in Nat, NEW N \in Nat, N <= Len(specs)
  PROVE  \E e : RawTo(e, specs, size, N)
<1> DEFINE D == Seq(Windows)
           St(n, a) == IF Len(a) < MaxRanges /\ range_spec(specs[n + 1], size) # NoWindow
                       THEN Append(a, range_spec(specs[n + 1], size)) ELSE a
           g == [n \in 0 .. N - 1 |-> [a \in D |-> St(n, a)]]
<1>1. ASSUME NEW n \in 0 .. N - 1, NEW a \in D
      PROVE  St(n, a) \in D
  <2>1. PICK v : v = range_spec(specs[n + 1], size)
    OBVIOUS
  <2>2. specs[n + 1] \in Specs
    OBVIOUS
  <2>3. v # NoWindow => v \in Windows
    BY <2>1, <2>2, SpecWindow
  <2>4. v \in Windows => Append(a, v) \in D
    <3> HIDE DEF Windows
    <3> QED
      OBVIOUS
  <2> QED
    BY <2>1, <2>3, <2>4
<1>2. Steps(g, N, D) /\ \A n \in 0 .. N - 1 : \A a \in D : g[n][a] = St(n, a)
  <2> HIDE DEF St, D
  <2> QED
    BY <1>1 DEF Steps
<1>3. PICK f : Follows(f, g, << >>, N, D)
  <2>1. << >> \in D
    OBVIOUS
  <2> HIDE DEF g, D
  <2> QED
    BY <1>2, <2>1, Recursion
<1>4. f \in [0 .. N -> D] /\ f[0] = << >> /\ \A n \in 0 .. N - 1 : f[n + 1] = g[n][f[n]]
  BY <1>3 DEF Follows
<1>5. ASSUME NEW n \in 0 .. N
      PROVE  f[n] = IF n = 0 THEN << >>
                    ELSE IF Len(f[n - 1]) < MaxRanges /\ range_spec(specs[n], size) # NoWindow
                    THEN Append(f[n - 1], range_spec(specs[n], size)) ELSE f[n - 1]
  <2>1. CASE n = 0
    BY <1>4, <2>1
  <2>2. CASE n # 0
    <3>1. PICK k : k = n - 1 /\ k \in 0 .. N - 1 /\ k + 1 = n /\ f[k] \in D
      <4> HIDE DEF D
      <4> QED
        BY <1>4, <2>2
    <3>2. f[n] = St(k, f[k])
      <4> HIDE DEF St, g, D
      <4> QED
        BY <1>2, <1>4, <3>1
    <3> QED
      BY <2>2, <3>1, <3>2
  <2> QED
    BY <2>1, <2>2
<1>6. f = [n \in 0 .. N |-> f[n]]
  <2> HIDE DEF D
  <2> QED
    BY <1>4
<1>7. RawTo(f, specs, size, N)
  BY <1>5, <1>6 DEF RawTo
<1> QED
  BY <1>7

\* The first MaxRanges satisfiable specs are picked.
LEMMA RawPicks ==
  ASSUME NEW specs \in Seq(Specs), NEW size \in Nat
  PROVE  Picked(Raw(specs, size), specs, size, Len(specs))
<1>1. PICK N : N = Len(specs) /\ N \in Nat
  OBVIOUS
<1>2. PICK e : e = CHOOSE h : RawTo(h, specs, size, N)
  OBVIOUS
<1>3. RawTo(e, specs, size, N)
  <2>1. N <= Len(specs)
    BY <1>1
  <2>2. \E h : RawTo(h, specs, size, N)
    BY <1>1, <2>1, RawExist
  <2> QED
    BY <1>2, <2>2
<1>4. Raw(specs, size) = e[N]
  BY <1>1, <1>2 DEF Raw, RawTo
<1>5. /\ e[0] = << >>
      /\ \A n \in 0 .. N - 1 :
           e[n + 1] = IF Len(e[n]) < MaxRanges /\ range_spec(specs[n + 1], size) # NoWindow
                      THEN Append(e[n], range_spec(specs[n + 1], size)) ELSE e[n]
  <2>1. \A n \in 0 .. N : e[n] = IF n = 0 THEN << >>
                        ELSE IF Len(e[n - 1]) < MaxRanges /\ range_spec(specs[n], size) # NoWindow
                        THEN Append(e[n - 1], range_spec(specs[n], size)) ELSE e[n - 1]
    BY <1>3 DEF RawTo
  <2>2. 0 \in 0 .. N /\ \A n \in 0 .. N - 1 : n + 1 \in 0 .. N /\ n + 1 # 0 /\ (n + 1) - 1 = n
    BY <1>1
  <2> QED
    BY <2>1, <2>2
<1> DEFINE S == {n \in 0 .. N : Picked(e[n], specs, size, n)}
<1>6. 0 \in S
  <2>0. DOMAIN specs = 1 .. N
    BY <1>1
  <2>1. PICK good : good = Satisfiable(specs, size) /\ good \subseteq 1 .. N
    BY <2>0, Zenon DEF Satisfiable
  <2>2. Before(good, 1) = 0
    <3>1. {h \in good : h < 1} = {}
      BY <1>1, <2>1
    <3> QED
      BY <3>1, FS_EmptySet DEF Before
  <2>3. ~\E j \in good : j <= 0
    BY <1>1, <2>1
  <2>4. Len(<< >>) = Least(MaxRanges, Before(good, 1))
    BY <2>2, MaxRangesAssumption DEF Least
  <2>5. \A p : ~Covers(<< >>, p)
    BY DEF Covers
  <2>6. << >> \in Seq(Windows)
    OBVIOUS
  <2>7. 0 + 1 = 1
    OBVIOUS
  <2>8. Picked(<< >>, specs, size, 0)
    BY <2>1, <2>3, <2>4, <2>5, <2>6, <2>7, Zenon DEF Picked
  <2> QED
    BY <1>1, <1>5, <2>8
<1>7. ASSUME NEW n \in 0 .. N - 1, n \in S
      PROVE  n + 1 \in S
  <2>1. PICK v, r : v = range_spec(specs[n + 1], size) /\ r = e[n + 1]
    OBVIOUS
  <2>2. r = IF Len(e[n]) < MaxRanges /\ v # NoWindow THEN Append(e[n], v) ELSE e[n]
    BY <1>5, <2>1
  <2>3. n \in Nat /\ n + 1 <= Len(specs) /\ n + 1 \in 0 .. N
    BY <1>1
  <2>4. Picked(e[n], specs, size, n)
    BY <1>7
  <2>5. Picked(r, specs, size, n + 1)
    BY <2>1, <2>2, <2>3, <2>4, PickedNext
  <2> QED
    BY <2>1, <2>3, <2>5
<1>8. 0 .. N \subseteq S
  <2> HIDE DEF S
  <2> QED
    BY <1>1, <1>6, <1>7, Induction
<1>9. N \in S
  BY <1>1, <1>8
<1> QED
  BY <1>1, <1>4, <1>9
-----------------------------------------------------------------------------
(* The windows in order.                                                   *)

Sorted(ws) == \A i, j \in 1 .. Len(ws) : i <= j => ws[i].base <= ws[j].base

\* A window put in its place.
LEMMA InsertedInOrder ==
  ASSUME NEW ws \in Seq(Windows), Sorted(ws), NEW w \in Windows, NEW r, r = Inserted(ws, w)
  PROVE  r \in Seq(Windows) /\ Sorted(r) /\ \A p \in Nat : Covers(r, p) <=> Covers(ws, p) \/ Inside(p, w)
<1> DEFINE L == Len(ws)
           later == {i \in 1 .. Len(ws) : ws[i].base > w.base} \cup {Len(ws) + 1}
<1>1. PICK k : k = Min(later)
  OBVIOUS
<1>2. L \in Nat /\ later \subseteq Nat /\ later # {}
  OBVIOUS
<1>3. k \in 1 .. L + 1 /\ (\A i \in 1 .. k - 1 : ~(ws[i].base > w.base)) /\ (k <= L => ws[k].base > w.base)
  <2>1. k \in later /\ \A m \in later : k <= m
    <3> HIDE DEF later
    <3> QED
      BY <1>1, <1>2, MinOf
  <2> QED
    BY <1>2, <2>1
<1>4. r = [i \in 1 .. L + 1 |-> IF i < k THEN ws[i] ELSE IF i = k THEN w ELSE ws[i - 1]]
  BY <1>1 DEF Inserted
<1> HIDE DEF later
<1>5. /\ r \in Seq(Windows) /\ Len(r) = L + 1
      /\ \A j \in 1 .. L + 1 : r[j] = IF j < k THEN ws[j] ELSE IF j = k THEN w ELSE ws[j - 1]
  <2> HIDE DEF Windows
  <2>1. \A i \in 1 .. L : ws[i] \in Windows
    BY ElementOfSeq
  <2>2. \A i \in 1 .. L + 1 : (IF i < k THEN ws[i] ELSE IF i = k THEN w ELSE ws[i - 1]) \in Windows
    BY <1>2, <1>3, <2>1
  <2> QED
    BY <1>2, <1>4, <2>2
<1>6. \A i \in 1 .. L : ws[i] \in Windows /\ ws[i].base \in Nat
  <2>1. \A i \in 1 .. L : ws[i] \in Windows
    <3> HIDE DEF Windows
    <3> QED
      BY ElementOfSeq
  <2> QED
    BY <2>1 DEF Windows
<1>7. w.base \in Nat
  BY DEF Windows
<1>8. Sorted(r)
  <2> SUFFICES ASSUME NEW i \in 1 .. L + 1, NEW j \in 1 .. L + 1, i <= j
               PROVE  r[i].base <= r[j].base
    BY <1>5 DEF Sorted
  <2>1. \A x, y \in 1 .. L : x <= y => ws[x].base <= ws[y].base
    BY DEF Sorted
  <2>2. \A x \in 1 .. L : x < k => ws[x].base <= w.base
    BY <1>2, <1>3, <1>6, <1>7
  <2>3. \A x \in 1 .. L : k <= x => w.base <= ws[x].base
    <3> SUFFICES ASSUME NEW x \in 1 .. L, k <= x
                 PROVE  w.base <= ws[x].base
      OBVIOUS
    <3>1. k \in 1 .. L /\ ws[k].base > w.base /\ ws[k].base <= ws[x].base
      BY <1>2, <1>3, <2>1
    <3> QED
      BY <1>6, <1>7, <3>1
  <2>4. CASE j < k
    <3>1. r[i] = ws[i] /\ r[j] = ws[j] /\ i \in 1 .. L /\ j \in 1 .. L
      BY <1>2, <1>3, <1>5, <2>4
    <3> QED
      BY <2>1, <3>1
  <2>5. CASE j = k
    <3>1. r[j] = w /\ (i = k \/ (i < k /\ i \in 1 .. L))
      BY <1>2, <1>3, <1>5, <2>5
    <3>2. i < k => r[i] = ws[i]
      BY <1>5
    <3>3. i = k => r[i] = w
      BY <1>5, <1>2, <1>3
    <3> QED
      BY <1>7, <2>2, <3>1, <3>2, <3>3
  <2>6. CASE j > k
    <3>1. r[j] = ws[j - 1] /\ j - 1 \in 1 .. L /\ k <= j - 1
      BY <1>2, <1>3, <1>5, <2>6
    <3>2. CASE i < k
      <4>1. r[i] = ws[i] /\ i \in 1 .. L /\ i <= j - 1
        BY <1>2, <1>3, <1>5, <3>1, <3>2
      <4> QED
        BY <2>1, <3>1, <4>1
    <3>3. CASE i = k
      <4>1. r[i] = w
        BY <1>2, <1>3, <1>5, <3>3
      <4> QED
        BY <2>3, <3>1, <4>1
    <3>4. CASE i > k
      <4>1. r[i] = ws[i - 1] /\ i - 1 \in 1 .. L /\ i - 1 <= j - 1
        BY <1>2, <1>3, <1>5, <3>4
      <4> QED
        BY <2>1, <3>1, <4>1
    <3> QED
      BY <1>2, <1>3, <3>2, <3>3, <3>4
  <2> QED
    BY <1>2, <1>3, <2>4, <2>5, <2>6
<1>9. ASSUME NEW p \in Nat
      PROVE  Covers(r, p) <=> Covers(ws, p) \/ Inside(p, w)
  <2>1. ASSUME Covers(r, p)
        PROVE  Covers(ws, p) \/ Inside(p, w)
    <3>1. PICK j \in 1 .. L + 1 : Inside(p, r[j])
      BY <1>5, <2>1 DEF Covers
    <3>2. r[j] = w \/ \E i \in 1 .. L : r[j] = ws[i]
      BY <1>2, <1>3, <1>5
    <3> QED
      BY <3>1, <3>2 DEF Covers
  <2>2. ASSUME Covers(ws, p)
        PROVE  Covers(r, p)
    <3>1. PICK i \in 1 .. L : Inside(p, ws[i])
      BY <2>2 DEF Covers
    <3>2. \E j \in 1 .. L + 1 : r[j] = ws[i]
      <4>1. i < k => i \in 1 .. L + 1 /\ r[i] = ws[i]
        BY <1>2, <1>5
      <4>2. ~(i < k) => i + 1 \in 1 .. L + 1 /\ r[i + 1] = ws[i]
        BY <1>2, <1>3, <1>5
      <4> QED
        BY <4>1, <4>2
    <3> QED
      BY <1>5, <3>1, <3>2 DEF Covers
  <2>3. ASSUME Inside(p, w)
        PROVE  Covers(r, p)
    <3>1. k \in 1 .. L + 1 /\ r[k] = w
      BY <1>2, <1>3, <1>5
    <3> QED
      BY <1>5, <2>3, <3>1 DEF Covers
  <2> QED
    BY <2>1, <2>2, <2>3
<1> QED
  BY <1>5, <1>8, <1>9

\* out has the first n windows in order.
Ordered(out, ws, n) ==
  /\ out \in Seq(Windows) /\ Sorted(out)
  /\ \A p \in Nat : Covers(out, p) <=> \E i \in 1 .. n : Inside(p, ws[i])

\* One window more.
LEMMA OrderedNext ==
  ASSUME NEW ws \in Seq(Windows), NEW n \in Nat, n + 1 <= Len(ws), NEW out, Ordered(out, ws, n),
         NEW r, r = Inserted(out, ws[n + 1])
  PROVE  Ordered(r, ws, n + 1)
<1>1. PICK w : w = ws[n + 1] /\ w \in Windows
  <2>1. n + 1 \in 1 .. Len(ws)
    OBVIOUS
  <2> HIDE DEF Windows
  <2> QED
    BY <2>1, ElementOfSeq
<1>2. out \in Seq(Windows) /\ Sorted(out) /\ \A p \in Nat : Covers(out, p) <=> \E i \in 1 .. n : Inside(p, ws[i])
  BY DEF Ordered
<1>3. r \in Seq(Windows) /\ Sorted(r) /\ \A p \in Nat : Covers(r, p) <=> Covers(out, p) \/ Inside(p, w)
  BY <1>1, <1>2, InsertedInOrder
<1>4. \A i : i \in 1 .. n + 1 <=> i \in 1 .. n \/ i = n + 1
  OBVIOUS
<1>5. \A p \in Nat : Covers(r, p) <=> \E i \in 1 .. n + 1 : Inside(p, ws[i])
  BY <1>1, <1>2, <1>3, <1>4, Zenon
<1> QED
  BY <1>3, <1>5 DEF Ordered

\* e is the list after each of the first N windows.
SortTo(e, ws, N) ==
  e = [n \in 0 .. N |-> IF n = 0 THEN << >> ELSE Inserted(e[n - 1], ws[n])]

\* There is such a function.
LEMMA SortExist ==
  ASSUME NEW ws \in Seq(Windows), NEW N \in Nat, N <= Len(ws)
  PROVE  \E e : SortTo(e, ws, N)
<1> DEFINE D == {out \in Seq(Windows) : Sorted(out)}
           g == [n \in 0 .. N - 1 |-> [a \in D |-> Inserted(a, ws[n + 1])]]
<1>1. ASSUME NEW n \in 0 .. N - 1, NEW a \in D
      PROVE  Inserted(a, ws[n + 1]) \in D
  <2>1. PICK v : v = ws[n + 1] /\ v \in Windows
    <3>1. n + 1 \in 1 .. Len(ws)
      OBVIOUS
    <3> HIDE DEF Windows
    <3> QED
      BY <3>1, ElementOfSeq
  <2>2. PICK r : r = Inserted(a, v)
    OBVIOUS
  <2>3. r \in D
    BY <2>1, <2>2, InsertedInOrder
  <2> QED
    BY <2>1, <2>2, <2>3
<1>2. Steps(g, N, D) /\ \A n \in 0 .. N - 1 : \A a \in D : g[n][a] = Inserted(a, ws[n + 1])
  <2> HIDE DEF D
  <2> QED
    BY <1>1 DEF Steps
<1>3. PICK f : Follows(f, g, << >>, N, D)
  <2>1. << >> \in D
    BY DEF Sorted
  <2> HIDE DEF g, D
  <2> QED
    BY <1>2, <2>1, Recursion
<1> HIDE DEF D
<1>4. f \in [0 .. N -> D] /\ f[0] = << >> /\ \A n \in 0 .. N - 1 : f[n + 1] = g[n][f[n]]
  BY <1>3 DEF Follows
<1>5. ASSUME NEW n \in 0 .. N
      PROVE  f[n] = IF n = 0 THEN << >> ELSE Inserted(f[n - 1], ws[n])
  <2>1. CASE n = 0
    BY <1>4, <2>1
  <2>2. CASE n # 0
    <3>1. PICK k : k = n - 1 /\ k \in 0 .. N - 1 /\ k + 1 = n /\ f[k] \in D
      BY <1>4, <2>2
    <3>2. f[n] = Inserted(f[k], ws[k + 1])
      <4> HIDE DEF g
      <4> QED
        BY <1>2, <1>4, <3>1
    <3> QED
      BY <2>2, <3>1, <3>2
  <2> QED
    BY <2>1, <2>2
<1>6. f = [n \in 0 .. N |-> f[n]]
  BY <1>4
<1>7. SortTo(f, ws, N)
  BY <1>5, <1>6 DEF SortTo
<1> QED
  BY <1>7

\* The windows are put in order.
LEMMA QsortOrders ==
  ASSUME NEW ws \in Seq(Windows)
  PROVE  Ordered(qsort(ws), ws, Len(ws))
<1>1. PICK N : N = Len(ws) /\ N \in Nat
  OBVIOUS
<1>2. PICK e : e = CHOOSE h : SortTo(h, ws, N)
  OBVIOUS
<1>3. SortTo(e, ws, N)
  <2>1. N <= Len(ws)
    BY <1>1
  <2>2. \E h : SortTo(h, ws, N)
    BY <1>1, <2>1, SortExist
  <2> QED
    BY <1>2, <2>2
<1>4. qsort(ws) = e[N]
  BY <1>1, <1>2 DEF qsort, SortTo
<1>5. e[0] = << >> /\ \A n \in 0 .. N - 1 : e[n + 1] = Inserted(e[n], ws[n + 1])
  <2>1. \A n \in 0 .. N : e[n] = IF n = 0 THEN << >> ELSE Inserted(e[n - 1], ws[n])
    BY <1>3 DEF SortTo
  <2>2. 0 \in 0 .. N /\ \A n \in 0 .. N - 1 : n + 1 \in 0 .. N /\ n + 1 # 0 /\ (n + 1) - 1 = n
    BY <1>1
  <2> QED
    BY <2>1, <2>2
<1> DEFINE S == {n \in 0 .. N : Ordered(e[n], ws, n)}
<1>6. 0 \in S
  <2>1. Ordered(<< >>, ws, 0)
    BY DEF Ordered, Covers, Sorted
  <2> QED
    BY <1>1, <1>5, <2>1
<1>7. ASSUME NEW n \in 0 .. N - 1, n \in S
      PROVE  n + 1 \in S
  <2>1. PICK r : r = e[n + 1] /\ r = Inserted(e[n], ws[n + 1])
    BY <1>5
  <2>2. n \in Nat /\ n + 1 <= Len(ws) /\ n + 1 \in 0 .. N
    BY <1>1
  <2>3. Ordered(e[n], ws, n)
    BY <1>7
  <2>4. Ordered(r, ws, n + 1)
    BY <2>1, <2>2, <2>3, OrderedNext
  <2> QED
    BY <2>1, <2>2, <2>4
<1>8. 0 .. N \subseteq S
  <2> HIDE DEF S
  <2> QED
    BY <1>1, <1>6, <1>7, Induction
<1>9. N \in S
  BY <1>1, <1>8
<1> QED
  BY <1>1, <1>4, <1>9
-----------------------------------------------------------------------------
(* The windows joined.                                                     *)

\* Each window starts behind the end of the one before.
Apart(ws) == \A i \in 1 .. Len(ws) - 1 : ws[i].base + ws[i].n < ws[i + 1].base

\* A window joined to the last one, or put behind it.
LEMMA CoalescedApart ==
  ASSUME NEW out \in Seq(Windows), NEW w \in Windows, NEW r, r = Coalesced(out, w)
  PROVE  /\ r \in Seq(Windows) /\ Len(r) > 0
         /\ Apart(out) /\ (Len(out) > 0 => out[Len(out)].base <= w.base) =>
              Apart(r) /\ r[Len(r)].base <= w.base /\ \A p \in Nat : Covers(r, p) <=> Covers(out, p) \/ Inside(p, w)
<1>1. PICK L : L = Len(out) /\ L \in Nat
  OBVIOUS
<1>2. \A i \in 1 .. L : out[i] \in Windows /\ out[i].base \in Nat /\ out[i].n \in Nat \ {0}
  <2>1. \A i \in 1 .. L : out[i] \in Windows
    <3> HIDE DEF Windows
    <3> QED
      BY <1>1, ElementOfSeq
  <2> QED
    BY <2>1 DEF Windows
<1>3. w.base \in Nat /\ w.n \in Nat \ {0}
  BY DEF Windows
<1>4. CASE ~Joins(out, w)
  <2>1. r = Append(out, w)
    BY <1>4 DEF Coalesced
  <2>2. r \in Seq(Windows) /\ Len(r) = L + 1 /\ r[L + 1] = w /\ \A j \in 1 .. L : r[j] = out[j]
    <3> HIDE DEF Windows
    <3>1. r \in Seq(Windows)
      BY <2>1
    <3>2. Len(r) = L + 1 /\ r[L + 1] = w
      BY <1>1, <2>1
    <3>3. \A j \in 1 .. L : r[j] = out[j]
      BY <1>1, <2>1
    <3> QED
      BY <3>1, <3>2, <3>3
  <2>3. L > 0 => out[L].base + out[L].n < w.base
    BY <1>1, <1>2, <1>3, <1>4 DEF Joins, Last
  <2>4. ASSUME Apart(out)
        PROVE  Apart(r)
    <3> SUFFICES ASSUME NEW i \in 1 .. L
                 PROVE  r[i].base + r[i].n < r[i + 1].base
      BY <1>1, <2>2 DEF Apart
    <3>1. CASE i = L
      BY <1>1, <2>2, <2>3, <3>1
    <3>2. CASE i < L
      <4>1. i \in 1 .. L - 1 /\ i + 1 \in 1 .. L
        BY <1>1, <3>2
      <4> QED
        BY <1>1, <2>2, <2>4, <4>1 DEF Apart
    <3> QED
      BY <1>1, <3>1, <3>2
  <2>5. \A p \in Nat : Covers(r, p) <=> Covers(out, p) \/ Inside(p, w)
    BY <2>1, CoversNext
  <2> QED
    BY <1>1, <1>3, <2>2, <2>4, <2>5
<1>5. CASE Joins(out, w)
  <2>1. PICK l : l = out[L] /\ L > 0 /\ l \in Windows /\ l.base \in Nat /\ l.n \in Nat \ {0} /\ w.base <= l.base + l.n
    BY <1>1, <1>2, <1>5 DEF Joins, Last
  <2>2. PICK end : end = w.base + w.n /\ end \in Nat
    BY <1>3
  <2>3. r = IF end <= l.base + l.n THEN out ELSE [out EXCEPT ![L].n = end - l.base]
    BY <1>1, <1>5, <2>1, <2>2 DEF Coalesced, Last
  <2>4. CASE end <= l.base + l.n
    <3>1. r = out
      BY <2>3, <2>4
    <3>2. ASSUME l.base <= w.base
          PROVE  \A p \in Nat : Inside(p, w) => Covers(out, p)
      <4>1. \A p \in Nat : Inside(p, w) => Inside(p, out[L])
        BY <1>3, <2>1, <2>2, <2>4, <3>2 DEF Inside
      <4> QED
        BY <1>1, <2>1, <4>1 DEF Covers
    <3> QED
      BY <1>1, <2>1, <3>1, <3>2
  <2>5. CASE ~(end <= l.base + l.n)
    <3>1. PICK m : m = [l EXCEPT !.n = end - l.base]
      OBVIOUS
    <3>2. r = [out EXCEPT ![L] = m]
      BY <2>1, <2>3, <2>5, <3>1
    <3>3. m.base = l.base /\ m.n = end - l.base /\ m.n \in Nat \ {0} /\ m \in Windows
      <4>1. end - l.base \in Nat \ {0}
        BY <2>1, <2>2, <2>5
      <4>2. m = [base |-> l.base, n |-> end - l.base]
        BY <2>1, <3>1 DEF Windows
      <4> QED
        BY <2>1, <4>1, <4>2 DEF Windows
    <3>4. r \in Seq(Windows) /\ Len(r) = L /\ r[L] = m /\ \A j \in 1 .. L : j # L => r[j] = out[j]
      <4> HIDE DEF Windows
      <4>1. L \in 1 .. Len(out)
        BY <1>1, <2>1
      <4> QED
        BY <1>1, <3>2, <3>3, <4>1, ExceptSeq
    <3>5. ASSUME Apart(out)
          PROVE  Apart(r)
      <4> SUFFICES ASSUME NEW i \in 1 .. L - 1
                   PROVE  r[i].base + r[i].n < r[i + 1].base
        BY <3>4 DEF Apart
      <4>1. r[i] = out[i] /\ r[i + 1].base = out[i + 1].base
        BY <1>1, <2>1, <3>3, <3>4
      <4> QED
        BY <1>1, <3>5, <4>1 DEF Apart
    <3>6. ASSUME l.base <= w.base, NEW p \in Nat
          PROVE  Covers(r, p) <=> Covers(out, p) \/ Inside(p, w)
      <4>1. Inside(p, m) <=> Inside(p, l) \/ Inside(p, w)
        <5>1. PICK a, b, c, d : a = l.base /\ b = l.n /\ c = w.base /\ d = w.n /\ {a, b, c, d} \subseteq Nat
          BY <1>3, <2>1
        <5>2. a <= c /\ c <= a + b /\ ~(c + d <= a + b) /\ m.base = a /\ m.n = c + d - a
          BY <2>1, <2>2, <2>5, <3>3, <3>6, <5>1
        <5>3. (a <= p /\ p < a + (c + d - a)) <=> (a <= p /\ p < a + b) \/ (c <= p /\ p < c + d)
          BY <5>1, <5>2
        <5> QED
          BY <5>1, <5>2, <5>3 DEF Inside
      <4>2. Covers(r, p) <=> Inside(p, m) \/ \E i \in 1 .. L : i # L /\ Inside(p, out[i])
        BY <1>1, <2>1, <3>4 DEF Covers
      <4>3. Covers(out, p) <=> Inside(p, l) \/ \E i \in 1 .. L : i # L /\ Inside(p, out[i])
        BY <1>1, <2>1 DEF Covers
      <4> QED
        BY <4>1, <4>2, <4>3
    <3> QED
      BY <1>1, <2>1, <3>3, <3>4, <3>5, <3>6
  <2> QED
    BY <2>4, <2>5
<1> QED
  BY <1>4, <1>5

\* out has the first n windows joined.
Joined(out, ws, n) ==
  /\ out \in Seq(Windows) /\ Apart(out)
  /\ n > 0 => Len(out) > 0 /\ out[Len(out)].base <= ws[n].base
  /\ n = 0 => out = << >>
  /\ \A p \in Nat : Covers(out, p) <=> \E i \in 1 .. n : Inside(p, ws[i])

\* One window more.
LEMMA JoinedNext ==
  ASSUME NEW ws \in Seq(Windows), Sorted(ws), NEW n \in Nat, n + 1 <= Len(ws), NEW out, Joined(out, ws, n),
         NEW r, r = Coalesced(out, ws[n + 1])
  PROVE  Joined(r, ws, n + 1)
<1>1. PICK w : w = ws[n + 1] /\ w \in Windows
  <2>1. n + 1 \in 1 .. Len(ws)
    OBVIOUS
  <2> HIDE DEF Windows
  <2> QED
    BY <2>1, ElementOfSeq
<1>2. /\ out \in Seq(Windows) /\ Apart(out)
      /\ n > 0 => Len(out) > 0 /\ out[Len(out)].base <= ws[n].base
      /\ n = 0 => out = << >>
      /\ \A p \in Nat : Covers(out, p) <=> \E i \in 1 .. n : Inside(p, ws[i])
  BY Zenon DEF Joined
<1>3. Len(out) > 0 => out[Len(out)].base <= w.base
  <2> SUFFICES ASSUME Len(out) > 0
               PROVE  out[Len(out)].base <= w.base
    OBVIOUS
  <2>1. n > 0
    BY <1>2
  <2>2. n \in 1 .. Len(ws) /\ n + 1 \in 1 .. Len(ws) /\ n <= n + 1
    BY <2>1
  <2>3. ws[n].base <= w.base
    BY <1>1, <2>2 DEF Sorted
  <2>4. ws[n] \in Windows /\ out[Len(out)] \in Windows
    <3>1. Len(out) \in 1 .. Len(out)
      BY <1>2
    <3> HIDE DEF Windows
    <3> QED
      BY <1>2, <2>2, <3>1, ElementOfSeq
  <2>5. w.base \in Nat /\ ws[n].base \in Nat /\ out[Len(out)].base \in Nat
    BY <1>1, <2>4 DEF Windows
  <2>6. out[Len(out)].base <= ws[n].base
    BY <1>2, <2>1
  <2> QED
    BY <2>3, <2>5, <2>6
<1>4. /\ r \in Seq(Windows) /\ Len(r) > 0 /\ Apart(r) /\ r[Len(r)].base <= w.base
      /\ \A p \in Nat : Covers(r, p) <=> Covers(out, p) \/ Inside(p, w)
  <2>1. r = Coalesced(out, w) /\ out \in Seq(Windows)
    BY <1>1, <1>2
  <2> QED
    BY <1>1, <1>2, <1>3, <2>1, CoalescedApart
<1>5. \A i : i \in 1 .. n + 1 <=> i \in 1 .. n \/ i = n + 1
  OBVIOUS
<1>6. \A p \in Nat : Covers(r, p) <=> \E i \in 1 .. n + 1 : Inside(p, ws[i])
  BY <1>1, <1>2, <1>4, <1>5, Zenon
<1>7. n + 1 > 0 /\ n + 1 # 0
  OBVIOUS
<1> QED
  BY <1>1, <1>4, <1>6, <1>7 DEF Joined

\* e is the list after each of the first N windows.
JoinTo(e, ws, N) ==
  e = [n \in 0 .. N |-> IF n = 0 THEN << >> ELSE Coalesced(e[n - 1], ws[n])]

\* There is such a function.
LEMMA JoinExist ==
  ASSUME NEW ws \in Seq(Windows), NEW N \in Nat, N <= Len(ws)
  PROVE  \E e : JoinTo(e, ws, N)
<1> DEFINE D == Seq(Windows)
           g == [n \in 0 .. N - 1 |-> [a \in D |-> Coalesced(a, ws[n + 1])]]
<1>1. ASSUME NEW n \in 0 .. N - 1, NEW a \in D
      PROVE  Coalesced(a, ws[n + 1]) \in D
  <2>1. PICK v : v = ws[n + 1] /\ v \in Windows
    <3>1. n + 1 \in 1 .. Len(ws)
      OBVIOUS
    <3> HIDE DEF Windows
    <3> QED
      BY <3>1, ElementOfSeq
  <2>2. PICK r : r = Coalesced(a, v)
    OBVIOUS
  <2>3. r \in D
    BY <2>1, <2>2, CoalescedApart
  <2> QED
    BY <2>1, <2>2, <2>3
<1>2. Steps(g, N, D) /\ \A n \in 0 .. N - 1 : \A a \in D : g[n][a] = Coalesced(a, ws[n + 1])
  <2> HIDE DEF D
  <2> QED
    BY <1>1 DEF Steps
<1>3. PICK f : Follows(f, g, << >>, N, D)
  <2>1. << >> \in D
    OBVIOUS
  <2> HIDE DEF g, D
  <2> QED
    BY <1>2, <2>1, Recursion
<1> HIDE DEF D
<1>4. f \in [0 .. N -> D] /\ f[0] = << >> /\ \A n \in 0 .. N - 1 : f[n + 1] = g[n][f[n]]
  BY <1>3 DEF Follows
<1>5. ASSUME NEW n \in 0 .. N
      PROVE  f[n] = IF n = 0 THEN << >> ELSE Coalesced(f[n - 1], ws[n])
  <2>1. CASE n = 0
    BY <1>4, <2>1
  <2>2. CASE n # 0
    <3>1. PICK k : k = n - 1 /\ k \in 0 .. N - 1 /\ k + 1 = n /\ f[k] \in D
      BY <1>4, <2>2
    <3>2. f[n] = Coalesced(f[k], ws[k + 1])
      <4> HIDE DEF g
      <4> QED
        BY <1>2, <1>4, <3>1
    <3> QED
      BY <2>2, <3>1, <3>2
  <2> QED
    BY <2>1, <2>2
<1>6. f = [n \in 0 .. N |-> f[n]]
  BY <1>4
<1>7. JoinTo(f, ws, N)
  BY <1>5, <1>6 DEF JoinTo
<1> QED
  BY <1>7

\* Windows in order are joined, so that no two of them overlap or touch.
LEMMA CoalesceJoins ==
  ASSUME NEW ws \in Seq(Windows), Sorted(ws)
  PROVE  Joined(Coalesce(ws), ws, Len(ws))
<1>1. PICK N : N = Len(ws) /\ N \in Nat
  OBVIOUS
<1>2. PICK e : e = CHOOSE h : JoinTo(h, ws, N)
  OBVIOUS
<1>3. JoinTo(e, ws, N)
  <2>1. N <= Len(ws)
    BY <1>1
  <2>2. \E h : JoinTo(h, ws, N)
    BY <1>1, <2>1, JoinExist
  <2> QED
    BY <1>2, <2>2
<1>4. Coalesce(ws) = e[N]
  BY <1>1, <1>2 DEF Coalesce, JoinTo
<1>5. e[0] = << >> /\ \A n \in 0 .. N - 1 : e[n + 1] = Coalesced(e[n], ws[n + 1])
  <2>1. \A n \in 0 .. N : e[n] = IF n = 0 THEN << >> ELSE Coalesced(e[n - 1], ws[n])
    BY <1>3 DEF JoinTo
  <2>2. 0 \in 0 .. N /\ \A n \in 0 .. N - 1 : n + 1 \in 0 .. N /\ n + 1 # 0 /\ (n + 1) - 1 = n
    BY <1>1
  <2> QED
    BY <2>1, <2>2
<1> DEFINE S == {n \in 0 .. N : Joined(e[n], ws, n)}
<1>6. 0 \in S
  <2>1. Joined(<< >>, ws, 0)
    BY DEF Joined, Covers, Apart
  <2> QED
    BY <1>1, <1>5, <2>1
<1>7. ASSUME NEW n \in 0 .. N - 1, n \in S
      PROVE  n + 1 \in S
  <2>1. PICK r : r = e[n + 1] /\ r = Coalesced(e[n], ws[n + 1])
    BY <1>5
  <2>2. n \in Nat /\ n + 1 <= Len(ws) /\ n + 1 \in 0 .. N
    BY <1>1
  <2>3. Joined(e[n], ws, n)
    BY <1>7
  <2>4. Joined(r, ws, n + 1)
    BY <2>1, <2>2, <2>3, JoinedNext
  <2> QED
    BY <2>1, <2>2, <2>4
<1>8. 0 .. N \subseteq S
  <2> HIDE DEF S
  <2> QED
    BY <1>1, <1>6, <1>7, Induction
<1>9. N \in S
  BY <1>1, <1>8
<1> QED
  BY <1>1, <1>4, <1>9

\* ws are windows apart from each other, with exactly the bytes that the first MaxRanges
\* satisfiable specs ask for.
Due(ws, specs, size) ==
  LET good == Satisfiable(specs, size)
  IN  /\ ws \in Seq(Windows) /\ Apart(ws) /\ (ws = << >> => good = {})
      /\ \A p \in Nat : Covers(ws, p) <=>
           \E j \in good : Before(good, j) < MaxRanges /\ p \in Asked(specs[j], size)

\* What parse_ranges computes.
LEMMA RangesParsed ==
  ASSUME NEW specs \in Seq(Specs), NEW size \in Nat
  PROVE  Due(parse_ranges(specs, size), specs, size)
<1>1. PICK good, N, raw : good = Satisfiable(specs, size) /\ N = Len(specs) /\ N \in Nat /\ raw = Raw(specs, size)
  OBVIOUS
<1> DEFINE Gets(p) == \E j \in good : Before(good, j) < MaxRanges /\ p \in Asked(specs[j], size)
<1>2. DOMAIN specs = 1 .. N /\ good \subseteq 1 .. N
  <2>1. DOMAIN specs = 1 .. N
    BY <1>1
  <2> QED
    BY <1>1, <2>1, Zenon DEF Satisfiable
<1>3. /\ raw \in Seq(Windows) /\ Len(raw) = Least(MaxRanges, Before(good, N + 1))
      /\ \A p \in Nat : Covers(raw, p) <=> Gets(p)
  <2>1. Picked(raw, specs, size, N)
    BY <1>1, RawPicks
  <2>2. /\ raw \in Seq(Windows) /\ Len(raw) = Least(MaxRanges, Before(good, N + 1))
        /\ \A p \in Nat : Covers(raw, p) <=>
             \E j \in good : j <= N /\ Before(good, j) < MaxRanges /\ p \in Asked(specs[j], size)
    BY <1>1, <2>1, Zenon DEF Picked
  <2>3. \A j \in good : j <= N
    BY <1>1, <1>2
  <2> QED
    BY <2>2, <2>3, Zenon
<1> HIDE DEF Gets
<1>4. raw = << >> => good = {}
  <2> SUFFICES ASSUME raw = << >>
               PROVE  good = {}
    OBVIOUS
  <2>1. {h \in good : h < N + 1} = good
    BY <1>1, <1>2
  <2>2. IsFiniteSet(good)
    <3>1. IsFiniteSet(1 .. N)
      BY <1>1, FS_Interval
    <3> QED
      BY <1>2, <3>1, FS_Subset
  <2>3. Before(good, N + 1) = Cardinality(good) /\ Cardinality(good) \in Nat
    BY <2>1, <2>2, FS_CardinalityType DEF Before
  <2>4. Cardinality(good) = 0
    BY <1>3, <2>3, MaxRangesAssumption DEF Least
  <2> QED
    BY <2>2, <2>4, FS_EmptySet
<1>5. CASE N = 1
  <2>1. parse_ranges(specs, size) = raw
    BY <1>1, <1>5 DEF parse_ranges
  <2>2. Len(raw) <= 1
    <3>1. PICK b : b = Before(good, 1) /\ b \in Nat /\ Before(good, 2) = b + (IF 1 \in good THEN 1 ELSE 0)
      <4>1. 1 \in Nat /\ 1 + 1 = 2
        OBVIOUS
      <4> QED
        BY <1>1, <1>2, <4>1, BeforeNext
    <3>2. b = 0
      <4>1. {h \in good : h < 1} = {}
        <5>1. \A h \in 1 .. N : ~(h < 1)
          BY <1>1
        <5> QED
          BY <1>2, <5>1, Zenon
      <4> QED
        BY <3>1, <4>1, FS_EmptySet DEF Before
    <3>3. N + 1 = 2
      BY <1>5
    <3>4. Len(raw) = Least(MaxRanges, Before(good, 2))
      BY <1>3, <3>3
    <3>5. Before(good, 2) \in 0 .. 1
      BY <3>1, <3>2
    <3> QED
      BY <3>4, <3>5, MaxRangesAssumption DEF Least
  <2>3. Apart(raw)
    BY <1>3, <2>2 DEF Apart
  <2>4. Due(raw, specs, size)
    BY <1>1, <1>3, <1>4, <2>3, Zenon DEF Due, Gets
  <2> QED
    BY <2>1, <2>4
<1>6. CASE N # 1
  <2>1. PICK s, ws : s = qsort(raw) /\ ws = Coalesce(s)
    OBVIOUS
  <2>2. parse_ranges(specs, size) = ws
    BY <1>1, <1>6, <2>1 DEF parse_ranges
  <2>3. Ordered(s, raw, Len(raw))
    BY <1>3, <2>1, QsortOrders
  <2>4. s \in Seq(Windows) /\ Sorted(s) /\ \A p \in Nat : Covers(s, p) <=> Covers(raw, p)
    BY <2>3, Zenon DEF Ordered, Covers
  <2>5. Joined(ws, s, Len(s))
    BY <2>1, <2>4, CoalesceJoins
  <2>6. /\ ws \in Seq(Windows) /\ Apart(ws) /\ (Len(s) > 0 => Len(ws) > 0)
        /\ \A p \in Nat : Covers(ws, p) <=> Covers(s, p)
    BY <2>5, Zenon DEF Joined, Covers
  <2>7. ws = << >> => good = {}
    <3> SUFFICES ASSUME ws = << >>
                 PROVE  raw = << >>
      BY <1>4
    <3>1. \A p \in Nat : ~Covers(ws, p)
      BY DEF Covers
    <3>2. \A p \in Nat : ~Covers(raw, p)
      BY <2>4, <2>6, <3>1
    <3> SUFFICES ASSUME raw # << >>
                 PROVE  FALSE
      OBVIOUS
    <3>3. 1 \in 1 .. Len(raw)
      BY <1>3
    <3>4. raw[1] \in Windows
      <4> HIDE DEF Windows
      <4> QED
        BY <1>3, <3>3, ElementOfSeq
    <3>5. raw[1].base \in Nat /\ Inside(raw[1].base, raw[1])
      BY <3>4 DEF Windows, Inside
    <3> QED
      BY <3>2, <3>3, <3>5 DEF Covers
  <2>8. \A p \in Nat : Covers(ws, p) <=> Gets(p)
    BY <1>3, <2>4, <2>6
  <2>9. Due(ws, specs, size)
    BY <1>1, <2>6, <2>7, <2>8, Zenon DEF Due, Gets
  <2> QED
    BY <2>2, <2>9
<1> QED
  BY <1>5, <1>6
-----------------------------------------------------------------------------
(* The static handler answers with the ranges that are due.                *)

IsTag(t) == t = [kind |-> t.kind, val |-> t.val]
Parts    == [base : Nat, n : Nat, ver : Nat]

\* If-Range holds.
Valid(k) == k.req.ifr \in {NoTag, k.res.tag} \/ (k.req.ifr.kind = "date" /\ k.res.lm <= k.req.ifr.val)

\* The first windows have become parts and the others are left to read.
Serving(ws, parts, left) ==
  /\ parts \in Seq(Parts) /\ left \in Seq(Windows) /\ Len(ws) = Len(parts) + Len(left)
  /\ \A i \in 1 .. Len(parts) : parts[i].base = ws[i].base /\ parts[i].n = ws[i].n
  /\ \A i \in 1 .. Len(left) : left[i] = ws[Len(parts) + i]

\* The answer has the parts of the windows that are due, or none are.
Exact(k) ==
  /\ k.res.status = 206 =>
       /\ k.req.range \in Seq(Specs) /\ k.res.size \in Nat /\ Valid(k)
       /\ \E ws : Due(ws, k.req.range, k.res.size) /\ Serving(ws, k.res.parts, << >>)
  /\ k.res.status = 416 => k.req.range # << >> /\ Satisfiable(k.req.range, k.res.size) = {} /\ Valid(k)

\* Before the disk there is no tag and no part; the windows that are read are the ones
\* the stat decided on; and tags are tags.
Slice(k) ==
  /\ IsTag(k.res.tag)
  /\ k.at # "idle" => IsTag(k.req.ifr) /\ k.req.range \in Seq(Specs)
  /\ k.at \in {"down", "stat"} \cup Limiting => k.res.parts = << >> /\ k.res.status = 200
  /\ k.at = "whole" => k.res.status = 200
  /\ k.at = "ranges" => /\ k.res.size \in Nat /\ Valid(k) /\ k.left # << >>
                        /\ \E ws : Due(ws, k.req.range, k.res.size) /\ Serving(ws, k.res.parts, k.left)
  /\ RouterBack(k) => Exact(k)

Sliced == /\ opts \in Options /\ file.size \in Nat \cup {Gone} /\ file.ver \in Nat
          /\ DOMAIN held = {"tag", "lm", "bytes"} /\ IsTag(held.tag) /\ \A w \in Workers : Slice(wk[w])

\* The other workers' requests stay where they are.
LEMMA SlicedKept ==
  ASSUME IInv, Sliced, NEW w \in Workers, NEW r, wk' = [wk EXCEPT ![w] = r], UNCHANGED <<opts, file>>,
         held' = held \/ (DOMAIN held' = {"tag", "lm", "bytes"} /\ IsTag(held'.tag)), Slice(r)
  PROVE  Sliced'
<1>1. Chain' = Chain
  BY ChainSame
<1> HIDE DEF Chain
<1>2. \A v \in Workers : wk'[v] = IF v = w THEN r ELSE wk[v]
  BY DEF IInv
<1>3. ASSUME NEW v \in Workers
      PROVE  Slice(wk[v])'
  <2>1. PICK k : k = wk'[v] /\ Slice(k)
    BY <1>2 DEF Sliced
  <2>2. RouterBack(k)' <=> RouterBack(k)
    BY <1>1 DEF RouterBack
  <2>3. Slice(k)'
    BY <2>1, <2>2 DEF Slice
  <2> QED
    BY <2>1, <2>3
<1> QED
  BY <1>3 DEF Sliced

\* Before the router.
LEMMA PassSlices ==
  ASSUME IInv, Answers, Sliced, NEW w \in Workers,
         \/ Limiter(w) \/ http_client_ip_middleware(w) \/ http_request_id_middleware(w) \/ http_security_middleware(w)
         \/ http_signature_middleware(w) \/ PassDown(w) \/ http_cors_middleware(w) \/ http_basic_auth_middleware(w)
  PROVE  Sliced'
<1>1. PICK k : k = wk[w] /\ Slice(k)
  BY DEF Sliced
<1>2. k.at \in {"down"} \cup Limiting /\ UNCHANGED <<opts, file, held>>
  BY <1>1, LayersPass, LimiterPasses
<1>3. PICK r : wk' = [wk EXCEPT ![w] = r] /\ Passed(r, k)
  BY <1>1, LayersPass, LimiterPasses
<1>4. Len(Chain) \in Nat
  BY ChainLaid
<1> HIDE DEF Chain
<1>5. /\ IsTag(r.res.tag) /\ IsTag(r.req.ifr) /\ r.req.range \in Seq(Specs) /\ r.res.parts = << >>
      /\ k.res.status = 200
  BY <1>1, <1>2, <1>3 DEF Slice, Passed, Limiting, Pointing
<1>6. CASE r.at \in {"down"} \cup Limiting /\ r.res.status = k.res.status
  <2>1. Slice(r)
    BY <1>5, <1>6 DEF Slice, Limiting, Pointing, RouterBack
  <2> QED
    BY <1>2, <1>3, <2>1, SlicedKept
<1>7. CASE r.at = "up" /\ r.depth \in Int /\ r.depth < Len(Chain)
  <2>1. Slice(r)
    BY <1>4, <1>5, <1>7 DEF Slice, Limiting, Pointing, RouterBack
  <2> QED
    BY <1>2, <1>3, <2>1, SlicedKept
<1> QED
  BY <1>3, <1>6, <1>7 DEF Passed

\* Back up the chain a page may be given a tag.
LEMMA ReturnSlices ==
  ASSUME IInv, Answers, Steered, Sliced, NEW w \in Workers, Return(w)
  PROVE  Sliced'
<1>1. PICK k : k = wk[w] /\ Slice(k) /\ Steer(k)
  BY DEF Sliced, Steered
<1>0. DOMAIN k = Fields /\ DOMAIN k.res = ResFields /\ k.at = "up" /\ k.depth \in Int /\ Len(Chain) \in Nat
  BY <1>1, ChainLaid DEF IInv, Placed, Answers, Own, Return
<1>u. UNCHANGED <<opts, file, held>>
  BY DEF Return, Quiet, disk
<1>2. PICK q : q = Finished(Chain[k.depth], k)
  OBVIOUS
<1>3. PICK r : r = Back([k EXCEPT !.res = q])
  OBVIOUS
<1>4. wk' = [wk EXCEPT ![w] = r]
  BY <1>1, <1>2, <1>3 DEF Return, Go
<1>5. q.tag \in {k.res.tag, TagOf(k.res)}
  <2>1. PICK l, x, y : l = Chain[k.depth] /\ x = TagOf(k.res) /\ y = Unchanged(k.req, k.res)
    OBVIOUS
  <2> HIDE DEF Chain
  <2>2. CASE l = "etag"
    <3>1. q = Etagged(k.req, k.res)
      BY <1>2, <2>1, <2>2 DEF Finished
    <3>2. q = k.res \/ q = [k.res EXCEPT !.tag = x, !.status = IF y THEN 304 ELSE @, !.empty = y]
      BY <2>1, <3>1 DEF Etagged
    <3>3. CASE q = [k.res EXCEPT !.tag = x, !.status = IF y THEN 304 ELSE @, !.empty = y]
      BY <1>0, <2>1, <3>3 DEF ResFields
    <3> QED
      BY <3>2, <3>3
  <2>3. CASE l = "gzip"
    <3>1. q = Gzipped(k.req, k.res)
      BY <1>2, <2>1, <2>3 DEF Finished
    <3>2. q = k.res \/ q = [k.res EXCEPT !.gz = TRUE, !.hdrs = @ \cup {"vary"}]
      BY <3>1 DEF Gzipped
    <3> QED
      BY <1>0, <3>2 DEF ResFields
  <2>4. CASE l = "request_id"
    <3>1. q = [k.res EXCEPT !.hdrs = @ \cup {"request_id"}]
      BY <1>2, <2>1, <2>4 DEF Finished
    <3> QED
      BY <1>0, <3>1 DEF ResFields
  <2>5. CASE l \notin {"etag", "gzip", "request_id"}
    <3>1. q = k.res
      BY <1>2, <2>1, <2>5 DEF Finished
    <3> QED
      BY <3>1
  <2> QED
    BY <2>2, <2>3, <2>4, <2>5
<1>6. IsTag(q.tag)
  <2>1. IsTag(k.res.tag)
    BY <1>1 DEF Slice
  <2>2. IsTag(TagOf(k.res))
    BY <2>1 DEF TagOf, IsTag
  <2> QED
    BY <1>5, <2>1, <2>2
<1> HIDE DEF Chain
<1>7. r.at = "up" /\ r.req = k.req /\ r.depth = k.depth - 1 /\ r.res = q
  BY <1>0, <1>3 DEF Back, Fields
<1>8. k.depth <= Len(Chain) /\ IsTag(k.req.ifr) /\ k.req.range \in Seq(Specs)
  BY <1>0, <1>1 DEF Steer, Slice
<1>9. Slice(r)
  BY <1>0, <1>6, <1>7, <1>8 DEF Slice, Limiting, Pointing, RouterBack
<1> QED
  BY <1>u, <1>4, <1>9, SlicedKept

\* A request comes in with the validators of a copy, and the client keeps what it got
\* under the tag it came with.
LEMMA EndsSlice ==
  ASSUME IInv, Sliced, NEW w \in Workers, Arrive(w) \/ Deliver(w)
  PROVE  Sliced'
<1> HIDE DEF Chain
<1>1. CASE Arrive(w)
  <2>1. PICK q : /\ q \in Requests[opts.name]
                 /\ wk' = [wk EXCEPT ![w] = [Idle EXCEPT !.at = "down", !.depth = 1, !.id = served + 1, !.req = Conditional(q)]]
    BY <1>1, Zenon DEF Arrive, Go
  <2>2. PICK r : r = [Idle EXCEPT !.at = "down", !.depth = 1, !.id = served + 1, !.req = Conditional(q)]
    OBVIOUS
  <2>3. r.at = "down" /\ r.res = Blank /\ r.req = Conditional(q)
    BY <2>2 DEF Idle
  <2>4. /\ DOMAIN q = {"method", "path", "query", "form", "cred", "remote", "xff", "sig", "origin",
                       "inm", "ims", "range", "ifr", "gz", "check"}
        /\ q.range \in Seq(Specs) /\ q.ifr = [kind |-> q.ifr.kind, val |-> q.ifr.val]
    BY <2>1, Shapes DEF Sliced
  <2>5. PICK d : d = [kind |-> "date", val |-> held.lm] /\ IsTag(d)
    <3>1. PICK v : v = held.lm
      OBVIOUS
    <3>2. IsTag([kind |-> "date", val |-> v])
      BY DEF IsTag
    <3> QED
      BY <3>1, <3>2
  <2>6. r.req.range = q.range /\ r.req.ifr \in {q.ifr, held.tag, d}
    BY <2>3, <2>4, <2>5 DEF Conditional
  <2>7. IsTag(r.req.ifr)
    BY <2>4, <2>5, <2>6 DEF IsTag, Sliced
  <2>8. r.res.parts = << >> /\ r.res.status = 200 /\ IsTag(r.res.tag)
    BY <2>3 DEF Blank, NoTag, IsTag
  <2>9. Slice(r)
    BY <2>3, <2>4, <2>6, <2>7, <2>8 DEF Slice, Limiting, Pointing, RouterBack
  <2>10. UNCHANGED <<opts, file, held>>
    BY <1>1, Zenon DEF Arrive, disk
  <2> QED
    BY <2>1, <2>2, <2>9, <2>10, SlicedKept
<1>2. CASE Deliver(w)
  <2>1. PICK r : r = Idle
    OBVIOUS
  <2>2. wk' = [wk EXCEPT ![w] = r] /\ UNCHANGED <<opts, file>> /\ held' = Kept(wk[w])
    BY <1>2, <2>1 DEF Deliver, Go, Quiet
  <2>3. r.at = "idle" /\ IsTag(r.res.tag)
    BY <2>1 DEF Idle, Blank, NoTag, IsTag
  <2>4. Slice(r)
    BY <2>3 DEF Slice, Limiting, Pointing, RouterBack
  <2>5. IsTag(held.tag) /\ DOMAIN held = {"tag", "lm", "bytes"} /\ IsTag(wk[w].res.tag)
    BY DEF Sliced, Slice
  <2>6. PICK b, c, lm : b = Bytes(wk[w].res) /\ c = held.bytes \cup b /\ lm = wk[w].res.lm
    OBVIOUS
  <2>7. held' \in {held, [held EXCEPT !.bytes = c], [tag |-> wk[w].res.tag, lm |-> lm, bytes |-> b]}
    BY <2>2, <2>5, <2>6 DEF Kept
  <2>8. DOMAIN held' = {"tag", "lm", "bytes"} /\ held'.tag \in {held.tag, wk[w].res.tag}
    BY <2>5, <2>7
  <2>9. IsTag(held'.tag)
    BY <2>5, <2>8
  <2> QED
    BY <2>2, <2>4, <2>8, <2>9, SlicedKept
<1> QED
  BY <1>1, <1>2

\* One window read.
LEMMA ServingNext ==
  ASSUME NEW ws, ws \in Seq(Windows), NEW parts, NEW left, Serving(ws, parts, left), left # << >>, NEW v \in Nat
  PROVE  Serving(ws, Append(parts, [base |-> Head(left).base, n |-> Head(left).n, ver |-> v]), Tail(left))
<1>0. parts \in Seq(Parts) /\ left \in Seq(Windows)
  BY DEF Serving
<1>1. PICK a, b, t : a = Len(parts) /\ b = Len(left) /\ t = Tail(left) /\ a \in Nat /\ b \in Nat /\ b > 0
  <2> HIDE DEF Parts, Windows
  <2>1. Len(parts) \in Nat
    BY <1>0, LenProperties
  <2>2. Len(left) \in Nat /\ Len(left) # 0
    BY <1>0, LenProperties, EmptySeq
  <2>3. Len(left) > 0
    BY <2>2
  <2> QED
    BY <2>1, <2>2, <2>3, Zenon
<1>2. /\ parts \in Seq(Parts) /\ left \in Seq(Windows) /\ Len(ws) = a + b
      /\ \A i \in 1 .. a : parts[i].base = ws[i].base /\ parts[i].n = ws[i].n
      /\ \A i \in 1 .. b : left[i] = ws[a + i]
  BY <1>1 DEF Serving
<1>3. t \in Seq(Windows) /\ Len(t) = b - 1 /\ \A i \in 1 .. b - 1 : t[i] = left[i + 1]
  <2> HIDE DEF Windows
  <2> QED
    BY <1>1, <1>2, HeadTailProperties
<1>4. PICK f : f = Head(left) /\ f = left[1] /\ 1 \in 1 .. b
  <2>1. Head(left) = left[1]
    <3> HIDE DEF Windows
    <3> QED
      BY <1>2, HeadTailProperties
  <2>2. 1 \in 1 .. b
    BY <1>1
  <2> QED
    BY <2>1, <2>2, Zenon
<1>5. f \in Windows /\ f = ws[a + 1]
  <2>1. left[1] \in Windows
    <3> HIDE DEF Windows
    <3> QED
      BY <1>1, <1>2, <1>4, ElementOfSeq
  <2> QED
    BY <1>2, <1>4, <2>1
<1>6. PICK y : y = [base |-> f.base, n |-> f.n, ver |-> v] /\ y \in Parts /\ y.base = f.base /\ y.n = f.n
  <2>1. PICK c, d : c = f.base /\ d = f.n /\ c \in Nat /\ d \in Nat
    BY <1>5 DEF Windows
  <2>2. PICK y : y = [base |-> c, n |-> d, ver |-> v]
    OBVIOUS
  <2>3. y \in Parts /\ y.base = c /\ y.n = d
    BY <2>1, <2>2 DEF Parts
  <2> QED
    BY <2>1, <2>2, <2>3, Zenon
<1>7. PICK x : /\ x = Append(parts, y) /\ x \in Seq(Parts) /\ Len(x) = a + 1 /\ x[a + 1] = y
               /\ \A i \in 1 .. a : x[i] = parts[i]
  <2> HIDE DEF Parts
  <2>1. PICK x : x = Append(parts, y)
    OBVIOUS
  <2>2. x \in Seq(Parts)
    BY <1>2, <1>6, <2>1, AppendProperties
  <2>3. Len(x) = a + 1 /\ x[a + 1] = y /\ \A i \in 1 .. a : x[i] = parts[i]
    BY <1>1, <1>2, <1>6, <2>1, AppendProperties
  <2> QED
    BY <2>1, <2>2, <2>3, Zenon
<1>8. \A i \in 1 .. a + 1 : x[i].base = ws[i].base /\ x[i].n = ws[i].n
  <2>1. \A i \in 1 .. a + 1 : i \in 1 .. a \/ i = a + 1
    BY <1>1
  <2> QED
    BY <1>2, <1>5, <1>6, <1>7, <2>1
<1>9. \A i \in 1 .. b - 1 : t[i] = ws[(a + 1) + i]
  <2> SUFFICES ASSUME NEW i \in 1 .. b - 1
               PROVE  t[i] = ws[(a + 1) + i]
    OBVIOUS
  <2>1. i + 1 \in 1 .. b /\ a + (i + 1) = (a + 1) + i
    BY <1>1
  <2> QED
    BY <1>2, <1>3, <2>1
<1>10. Len(ws) = Len(x) + Len(t)
  BY <1>1, <1>2, <1>3, <1>7
<1>11. Serving(ws, x, t)
  BY <1>3, <1>7, <1>8, <1>9, <1>10, Zenon DEF Serving
<1> QED
  BY <1>1, <1>4, <1>6, <1>7, <1>11

\* An answer is exact whatever place of the chain it is at.
LEMMA SameExact ==
  ASSUME NEW k, Exact(k), NEW r, r.req = k.req, r.res = k.res
  PROVE  Exact(r)
BY DEF Exact, Valid

\* The static files.
LEMMA DiskSlices ==
  ASSUME IInv, Answers, Sliced, NEW w \in Workers, http_serve_static(w) \/ file_read_all(w) \/ file_read_range(w)
  PROVE  Sliced'
<1>1. PICK k : k = wk[w] /\ Slice(k)
  BY DEF Sliced
<1>0. /\ DOMAIN k = Fields /\ DOMAIN k.res = ResFields /\ k.at \in OnDisk /\ k.depth = Len(Chain) + 1 /\ Len(Chain) \in Nat
  BY <1>1, ChainLaid DEF IInv, Placed, Answers, Own, http_serve_static, file_read_all, file_read_range, OnDisk
<1>u. UNCHANGED <<opts, file, held>> /\ file.size \in Nat \cup {Gone} /\ file.ver \in Nat
  BY DEF http_serve_static, file_read_all, file_read_range, Quiet, disk, Sliced
<1> HIDE DEF Chain
<1>2. IsTag(k.res.tag) /\ IsTag(k.req.ifr) /\ k.req.range \in Seq(Specs) /\ k.at # "idle"
  BY <1>0, <1>1 DEF Slice, OnDisk
<1> DEFINE Same(m) == DOMAIN m = Fields /\ DOMAIN m.res = ResFields /\ m.req = k.req /\ m.depth = k.depth /\ IsTag(m.res.tag)
<1>a. ASSUME NEW m, Same(m), StaticReturns(w, m), Exact(m)
      PROVE  Sliced'
  <2>1. PICK r : /\ wk' = [wk EXCEPT ![w] = r] /\ r.at = "up" /\ r.depth = m.depth - 1 /\ r.req = m.req
                 /\ r.res = m.res \/ (r.res.status = 404 /\ r.res.tag = NoTag)
    BY <1>a, Returned
  <2>2. IsTag(r.res.tag)
    BY <1>a, <2>1 DEF IsTag, NoTag
  <2>3. Exact(r)
    <3>1. CASE r.res = m.res
      BY <1>a, <2>1, <3>1, SameExact
    <3>2. CASE r.res.status = 404
      BY <3>2 DEF Exact
    <3> QED
      BY <2>1, <3>1, <3>2
  <2>4. Slice(r)
    BY <1>2, <1>a, <2>1, <2>2, <2>3 DEF Slice, Limiting, Pointing
  <2> QED
    BY <1>u, <2>1, <2>4, SlicedKept
<1>b. ASSUME NEW m, Slice(m), wk' = [wk EXCEPT ![w] = m]
      PROVE  Sliced'
  BY <1>u, <1>b, SlicedKept
<1>s. ASSUME NEW s, s \notin {206, 416}, NEW m, m = [k EXCEPT !.res.status = s], StaticReturns(w, m)
      PROVE  Sliced'
  <2>1. Same(m) /\ m.res.status = s
    BY <1>0, <1>2, <1>s DEF Fields, ResFields
  <2>2. Exact(m)
    BY <1>s, <2>1 DEF Exact
  <2> QED
    BY <1>a, <1>s, <2>1, <2>2
<1> HIDE DEF Same
<1>3. CASE http_serve_static(w)
  <2>0. k.at = "stat" /\ k.res.parts = << >> /\ k.res.status = 200
    BY <1>1, <1>3 DEF http_serve_static, Slice
  <2>1. PICK tag, lm, size, ws : tag = StaticTag(file.mtime, file.size) /\ lm = file.mtime /\ size = file.size
                                 /\ ws = parse_ranges(k.req.range, size)
    OBVIOUS
  <2>2. PICK q : q = [k.res EXCEPT !.tag = tag, !.lm = lm, !.size = size]
    OBVIOUS
  <2>3. PICK n : n = [k EXCEPT !.res = q, !.now = file.ver]
    OBVIOUS
  <2>4. n = [k EXCEPT !.res.tag = tag, !.res.lm = lm, !.res.size = size, !.now = file.ver]
    BY <1>0, <2>2, <2>3 DEF Fields, ResFields
  <2>5. /\ DOMAIN q = ResFields /\ q.status = 200 /\ q.parts = << >> /\ q.tag = tag /\ q.lm = lm /\ q.size = size
    BY <1>0, <2>0, <2>2 DEF ResFields
  <2>6. DOMAIN n = Fields /\ n.res = q /\ n.req = k.req /\ n.at = "stat" /\ n.depth = k.depth
    BY <1>0, <2>0, <2>3 DEF Fields
  <2>7. PICK r : r = Stated(k)
    OBVIOUS
  <2>8. IsTag(tag)
    BY <2>1 DEF StaticTag, IsTag
  <2>9. ASSUME Ranged(k, tag)
        PROVE  k.req.range # << >> /\ \A m : m.req = k.req /\ m.res.tag = tag /\ m.res.lm = lm => Valid(m)
    <3>1. k.req.range # << >> /\ (k.req.ifr = NoTag \/ if_range_matches(k.req.ifr, tag, lm))
      BY <2>1, <2>9 DEF Ranged
    <3>2. k.req.ifr = NoTag \/ k.req.ifr = tag \/ (k.req.ifr.kind = "date" /\ lm <= k.req.ifr.val)
      <4>1. CASE k.req.ifr.kind = "strong" /\ k.req.ifr.val = tag.val
        <5>1. tag.kind = "strong"
          BY <2>1 DEF StaticTag
        <5> QED
          BY <1>2, <2>8, <4>1, <5>1 DEF IsTag
      <4> QED
        BY <3>1, <4>1 DEF if_range_matches
    <3> QED
      BY <3>1, <3>2 DEF Valid
  <2>10. \/ r = [n EXCEPT !.res.status = 304]
         \/ r = [n EXCEPT !.at = "whole"]
         \/ Ranged(k, tag) /\ ws = << >> /\ r = [n EXCEPT !.res.status = 416]
         \/ Ranged(k, tag) /\ ws # << >> /\ r = [n EXCEPT !.at = "ranges", !.left = ws]
    BY <2>1, <2>4, <2>7 DEF Stated
  <2>11. \/ \E s \in {400, 404} : StaticReturns(w, [k EXCEPT !.res.status = s])
         \/ r.at = "stat" /\ StaticReturns(w, r) /\ size # Gone
         \/ r.at # "stat" /\ wk' = [wk EXCEPT ![w] = r] /\ size # Gone
    BY <1>1, <1>3, <2>1, <2>7 DEF http_serve_static, Go
  <2>12. CASE \E s \in {400, 404} : StaticReturns(w, [k EXCEPT !.res.status = s])
    BY <1>s, <2>12
  <2> SUFFICES ASSUME size # Gone, \/ r.at = "stat" /\ StaticReturns(w, r)
                                   \/ r.at # "stat" /\ wk' = [wk EXCEPT ![w] = r]
               PROVE  Sliced'
    BY <2>11, <2>12
  <2>13. size \in Nat /\ Due(ws, k.req.range, size)
    <3>1. size \in Nat
      BY <1>u, <2>1
    <3> QED
      BY <1>2, <2>1, <3>1, RangesParsed
  <2>14. ASSUME NEW s, r = [n EXCEPT !.res.status = s], s = 304 \/ (s = 416 /\ Ranged(k, tag) /\ ws = << >>)
         PROVE  Sliced'
    <3>1. PICK z : z = [q EXCEPT !.status = s]
      OBVIOUS
    <3>2. DOMAIN z = ResFields /\ z.status = s /\ z.tag = tag /\ z.lm = lm /\ z.size = size
      BY <2>5, <3>1 DEF ResFields
    <3>3. DOMAIN r = Fields /\ r.res = z /\ r.req = k.req /\ r.at = "stat" /\ r.depth = k.depth
      BY <2>6, <2>14, <3>1 DEF Fields
    <3>4. Same(r)
      BY <2>8, <3>2, <3>3 DEF Same
    <3>5. Exact(r)
      <4>1. CASE s = 304
        BY <3>2, <3>3, <4>1 DEF Exact
      <4>2. CASE s = 416 /\ Ranged(k, tag) /\ ws = << >>
        <5>1. k.req.range # << >> /\ Valid(r)
          BY <2>9, <3>2, <3>3, <4>2
        <5>2. Satisfiable(k.req.range, size) = {}
          BY <2>13, <4>2 DEF Due
        <5> QED
          BY <3>2, <3>3, <4>2, <5>1, <5>2 DEF Exact
      <4> QED
        BY <2>14, <4>1, <4>2
    <3> QED
      BY <1>a, <3>3, <3>4, <3>5
  <2>15. ASSUME r = [n EXCEPT !.at = "whole"]
         PROVE  Sliced'
    <3>1. r.at = "whole" /\ r.res = q /\ r.req = k.req
      BY <2>6, <2>15 DEF Fields
    <3>2. Slice(r)
      BY <1>2, <2>5, <2>8, <3>1 DEF Slice, Limiting, Pointing, RouterBack
    <3> QED
      BY <1>b, <3>1, <3>2
  <2>16. ASSUME r = [n EXCEPT !.at = "ranges", !.left = ws], Ranged(k, tag), ws # << >>
         PROVE  Sliced'
    <3>1. r.at = "ranges" /\ r.res = q /\ r.req = k.req /\ r.left = ws
      BY <2>6, <2>16 DEF Fields
    <3>2. Valid(r)
      BY <2>5, <2>9, <2>16, <3>1
    <3>3. Serving(ws, << >>, ws)
      <4>1. ws \in Seq(Windows) /\ Len(ws) \in Nat
        BY <2>13 DEF Due
      <4>2. << >> \in Seq(Parts) /\ Len(<< >>) = 0 /\ \A i \in 1 .. Len(ws) : 0 + i = i
        OBVIOUS
      <4> QED
        BY <4>1, <4>2 DEF Serving
    <3>4. Slice(r)
      BY <1>2, <2>5, <2>8, <2>13, <2>16, <3>1, <3>2, <3>3 DEF Slice, Limiting, Pointing, RouterBack
    <3> QED
      BY <1>b, <3>1, <3>4
  <2> QED
    BY <2>10, <2>14, <2>15, <2>16
<1>4. CASE file_read_all(w)
  <2>0. k.res.status = 200
    BY <1>1, <1>4 DEF file_read_all, Slice
  <2>1. PICK m : /\ m \in {[k EXCEPT !.res.status = 404], [k EXCEPT !.res.parts = <<Part(0, file.size)>>]}
                 /\ StaticReturns(w, m)
    BY <1>1, <1>4 DEF file_read_all
  <2>2. CASE m = [k EXCEPT !.res.status = 404]
    BY <1>s, <2>1, <2>2
  <2>3. CASE m = [k EXCEPT !.res.parts = <<Part(0, file.size)>>]
    <3>1. Same(m) /\ m.res.status = 200
      BY <1>0, <1>2, <2>0, <2>3 DEF Same, Fields, ResFields
    <3>2. Exact(m)
      BY <3>1 DEF Exact
    <3> QED
      BY <1>a, <2>1, <3>1, <3>2
  <2> QED
    BY <2>1, <2>2, <2>3
<1>5. CASE file_read_range(w)
  <2>0. /\ k.at = "ranges" /\ k.res.size \in Nat /\ Valid(k) /\ k.left # << >>
    BY <1>1, <1>5 DEF file_read_range, Slice
  <2>1. PICK ws : Due(ws, k.req.range, k.res.size) /\ Serving(ws, k.res.parts, k.left)
    BY <1>1, <2>0 DEF Slice
  <2>2. PICK f, x, t, v : /\ f = Head(k.left) /\ x = Append(k.res.parts, [base |-> f.base, n |-> f.n, ver |-> v])
                          /\ t = Tail(k.left) /\ v = file.ver
    OBVIOUS
  <2>3. Serving(ws, x, t)
    <3>1. ws \in Seq(Windows)
      BY <2>1 DEF Due
    <3> QED
      BY <1>u, <2>0, <2>1, <2>2, <3>1, ServingNext
  <2>4. PICK z : z = [k.res EXCEPT !.parts = x]
    OBVIOUS
  <2>5. DOMAIN z = ResFields /\ z.parts = x /\ z.tag = k.res.tag /\ z.lm = k.res.lm /\ z.size = k.res.size
    BY <1>0, <2>4 DEF ResFields
  <2>6. PICK q : q = [k EXCEPT !.res = z, !.left = t]
    OBVIOUS
  <2>7. /\ DOMAIN q = Fields /\ q.res = z /\ q.left = t /\ q.req = k.req /\ q.at = "ranges" /\ q.depth = k.depth
    BY <1>0, <2>0, <2>6 DEF Fields
  <2>8. q = [k EXCEPT !.res.parts = Append(@, Part(f.base, f.n)), !.left = Tail(@)]
    <3>1. x = Append(k.res.parts, Part(f.base, f.n))
      BY <2>2 DEF Part
    <3> QED
      BY <1>0, <2>2, <2>4, <2>6, <3>1 DEF Fields, ResFields
  <2>9. \/ StaticReturns(w, [k EXCEPT !.res.status = 404, !.res.parts = << >>])
        \/ t = << >> /\ StaticReturns(w, [q EXCEPT !.res.status = 206])
        \/ t # << >> /\ wk' = [wk EXCEPT ![w] = q]
    <3> DEFINE y == Head(wk[w].left)
               r == [wk[w] EXCEPT !.res.parts = Append(@, Part(y.base, y.n)), !.left = Tail(@)]
    <3>1. y = f /\ r = q /\ r.left = t
      BY <1>1, <2>2, <2>7, <2>8
    <3>2. \/ StaticReturns(w, [wk[w] EXCEPT !.res.status = 404, !.res.parts = << >>])
          \/ r.left = << >> /\ StaticReturns(w, [r EXCEPT !.res.status = 206])
          \/ r.left # << >> /\ wk' = [wk EXCEPT ![w] = r]
      BY <1>5, Zenon DEF file_read_range, Go
    <3> HIDE DEF r
    <3> QED
      BY <1>1, <3>1, <3>2
  <2>10. CASE StaticReturns(w, [k EXCEPT !.res.status = 404, !.res.parts = << >>])
    <3>1. PICK m : m = [k EXCEPT !.res.status = 404, !.res.parts = << >>]
      OBVIOUS
    <3>2. Same(m) /\ m.res.status = 404
      BY <1>0, <1>2, <3>1 DEF Same, Fields, ResFields
    <3>3. Exact(m)
      BY <3>2 DEF Exact
    <3> QED
      BY <1>a, <2>10, <3>1, <3>2, <3>3
  <2>11. CASE t = << >> /\ StaticReturns(w, [q EXCEPT !.res.status = 206])
    <3>1. PICK y, m : y = [z EXCEPT !.status = 206] /\ m = [q EXCEPT !.res.status = 206]
      OBVIOUS
    <3>2. DOMAIN y = ResFields /\ y.status = 206 /\ y.parts = x /\ y.tag = k.res.tag /\ y.lm = k.res.lm /\ y.size = k.res.size
      BY <2>5, <3>1 DEF ResFields
    <3>3. DOMAIN m = Fields /\ m.res = y /\ m.req = k.req /\ m.depth = k.depth
      BY <2>7, <3>1 DEF Fields
    <3>4. Same(m)
      BY <1>2, <3>2, <3>3 DEF Same
    <3>5. Valid(m)
      BY <2>0, <3>2, <3>3 DEF Valid
    <3>6. Exact(m)
      BY <1>2, <2>0, <2>1, <2>3, <2>11, <3>2, <3>3, <3>5 DEF Exact
    <3> QED
      BY <1>a, <2>11, <3>1, <3>4, <3>6
  <2>12. CASE t # << >> /\ wk' = [wk EXCEPT ![w] = q]
    <3>1. Valid(q)
      BY <2>0, <2>5, <2>7 DEF Valid
    <3>2. Slice(q)
      BY <1>2, <2>0, <2>1, <2>3, <2>5, <2>7, <2>12, <3>1 DEF Slice, Limiting, Pointing, RouterBack
    <3> QED
      BY <1>b, <2>12, <3>2
  <2> QED
    BY <2>9, <2>10, <2>11, <2>12
<1> QED
  BY <1>3, <1>4, <1>5

\* The router.
LEMMA RouterSlices ==
  ASSUME IInv, Answers, Sliced, NEW w \in Workers, router_dispatch(w)
  PROVE  Sliced'
<1>1. PICK k : k = wk[w] /\ Slice(k)
  BY DEF Sliced
<1>0. DOMAIN k = Fields /\ DOMAIN k.res = ResFields /\ k.at = "down" /\ k.depth = Len(Chain) + 1 /\ Len(Chain) \in Nat
  BY <1>1, ChainLaid DEF IInv, Placed, Answers, Own, router_dispatch, AtRouter
<1>u. UNCHANGED <<opts, file, held>>
  BY DEF router_dispatch, Quiet, disk
<1> HIDE DEF Chain
<1>2. /\ IsTag(k.res.tag) /\ IsTag(k.req.ifr) /\ k.req.range \in Seq(Specs) /\ k.res.parts = << >> /\ k.res.status = 200
  BY <1>0, <1>1 DEF Slice
<1> DEFINE i == IF request_merge_params(k.req) THEN FirstMatch(routes, k.req.method, k.req.path) ELSE NoRoute
           h == routes[i].handler
           params == ParamsAt(routes, k.req.method, k.req.path, i, k.req.query)
<1>3. PICK q : q = [k.res EXCEPT !.route = i, !.handled = TRUE, !.params = params, !.suppress = (k.req.method = "HEAD")]
  OBVIOUS
<1>4. PICK p : p = [k EXCEPT !.res = q]
  OBVIOUS
<1>5. p = Routed(k, i)
  BY <1>0, <1>3, <1>4 DEF Routed, Fields, ResFields
<1>6. PICK lm, s : lm = (IF h = "dated" THEN file.mtime ELSE NoDate) /\ s = (IF h = "fallback" THEN 404 ELSE 200)
  OBVIOUS
<1>7. \/ wk' = [wk EXCEPT ![w] = Unrouted(k)]
      \/ wk' = [wk EXCEPT ![w] = [p EXCEPT !.at = "stat"]]
      \/ wk' = [wk EXCEPT ![w] = Answer([Page(w, p) EXCEPT !.res.lm = lm], s)]
  BY <1>1, <1>5, <1>6 DEF router_dispatch, Go
<1> HIDE DEF params
<1>8. DOMAIN q = ResFields /\ q.tag = k.res.tag /\ q.parts = << >> /\ q.status = 200
  BY <1>0, <1>2, <1>3 DEF ResFields
<1>9. DOMAIN p = Fields /\ p.res = q /\ p.req = k.req /\ p.depth = k.depth
  BY <1>0, <1>4 DEF Fields
<1>10. s \notin {206, 416}
  BY <1>6
<1> HIDE DEF i, h
<1>a. ASSUME NEW r, r.at = "up", r.req = k.req, r.res.tag = k.res.tag, r.res.status \notin {206, 416}, wk' = [wk EXCEPT ![w] = r]
      PROVE  Sliced'
  <2>1. Exact(r)
    BY <1>a DEF Exact
  <2>2. Slice(r)
    BY <1>2, <1>a, <2>1 DEF Slice, Limiting, Pointing
  <2> QED
    BY <1>u, <1>a, <2>2, SlicedKept
<1>11. CASE wk' = [wk EXCEPT ![w] = Unrouted(k)]
  <2>1. PICK a : a = Allow(routes, k.req.path)
    OBVIOUS
  <2>2. PICK t : t = IF ~k.req.form THEN 400
                     ELSE IF a = << >> THEN 404
                     ELSE IF k.req.method = "OPTIONS" THEN 200 ELSE 405
    OBVIOUS
  <2>3. PICK z : z = [k.res EXCEPT !.allow = a, !.status = t]
    OBVIOUS
  <2>4. PICK r : r = Back([k EXCEPT !.res = z])
    OBVIOUS
  <2>5. r = Unrouted(k)
    <3>1. [k EXCEPT !.res = z] = [[k EXCEPT !.res.allow = a] EXCEPT !.res.status = t]
      BY <1>0, <2>3 DEF Fields, ResFields
    <3> QED
      BY <2>1, <2>2, <2>4, <3>1 DEF Unrouted, Answer, request_merge_params
  <2>6. z.status = t /\ z.tag = k.res.tag /\ t \notin {206, 416}
    BY <1>0, <2>2, <2>3 DEF ResFields
  <2>7. r.at = "up" /\ r.res = z /\ r.req = k.req
    BY <1>0, <2>4 DEF Back, Fields
  <2> QED
    BY <1>a, <1>11, <2>5, <2>6, <2>7
<1>12. CASE wk' = [wk EXCEPT ![w] = [p EXCEPT !.at = "stat"]]
  <2>1. PICK r : r = [p EXCEPT !.at = "stat"]
    OBVIOUS
  <2>2. r.at = "stat" /\ r.res = q /\ r.req = k.req
    BY <1>9, <2>1 DEF Fields
  <2>3. Slice(r)
    BY <1>2, <1>8, <2>2 DEF Slice, RouterBack
  <2> QED
    BY <1>u, <1>12, <2>1, <2>3, SlicedKept
<1>13. CASE wk' = [wk EXCEPT ![w] = Answer([Page(w, p) EXCEPT !.res.lm = lm], s)]
  <2>1. PICK g : g = Page(w, p)
    OBVIOUS
  <2>2. DOMAIN g = Fields /\ DOMAIN g.res = ResFields /\ g.req = p.req /\ g.res.tag = p.res.tag
    BY <1>8, <1>9, <2>1, PageOf
  <2>3. PICK z : z = [g.res EXCEPT !.lm = lm, !.status = s]
    OBVIOUS
  <2>4. z.tag = p.res.tag /\ z.status = s
    BY <2>2, <2>3 DEF ResFields
  <2>5. PICK r : r = Back([g EXCEPT !.res = z])
    OBVIOUS
  <2>6. r.at = "up" /\ r.res = z /\ r.req = p.req
    BY <2>2, <2>5 DEF Back, Fields
  <2>7. r = Answer([Page(w, p) EXCEPT !.res.lm = lm], s)
    <3>1. [g EXCEPT !.res = z] = [[g EXCEPT !.res.lm = lm] EXCEPT !.res.status = s]
      BY <2>2, <2>3 DEF Fields, ResFields
    <3> QED
      BY <2>1, <2>5, <3>1 DEF Answer
  <2>8. r.req = k.req /\ r.res.tag = k.res.tag /\ r.res.status \notin {206, 416} /\ wk' = [wk EXCEPT ![w] = r]
    BY <1>8, <1>9, <1>10, <1>13, <2>4, <2>6, <2>7
  <2> QED
    BY <1>a, <2>6, <2>8
<1> QED
  BY <1>7, <1>11, <1>12, <1>13

\* Outside the requests only the file is replaced.
LEMMA WorldSlices ==
  ASSUME Sliced, SetUp \/ Tick \/ Edit \/ UNCHANGED vars
  PROVE  Sliced'
<1>1. UNCHANGED <<opts, wk, held>>
  BY DEF SetUp, Tick, Edit, vars, disk
<1>2. Chain' = Chain
  BY <1>1, ChainSame
<1> HIDE DEF Chain
<1>3. ASSUME NEW v \in Workers
      PROVE  Slice(wk[v])'
  <2>1. PICK k : k = wk[v] /\ Slice(k)
    BY DEF Sliced
  <2>2. RouterBack(k)' <=> RouterBack(k)
    BY <1>2 DEF RouterBack
  <2>3. Slice(k)'
    BY <2>1, <2>2 DEF Slice
  <2> QED
    BY <1>1, <2>1, <2>3
<1>4. file'.size \in Nat \cup {Gone} /\ file'.ver \in Nat
  <2>1. CASE UNCHANGED file
    BY <2>1 DEF Sliced
  <2>2. CASE Edit
    <3>1. PICK s \in opts.sizes \cup {Gone} : file' = [ver |-> file.ver + 1, mtime |-> file.mtime + 1, size |-> s]
      BY <2>2 DEF Edit
    <3>2. file'.ver = file.ver + 1 /\ file'.size = s
      BY <3>1
    <3>3. opts.sizes \subseteq Nat /\ file.ver \in Nat
      BY PipelineConstants DEF Sliced
    <3> QED
      BY <3>1, <3>2, <3>3
  <2>3. UNCHANGED file \/ Edit
    BY DEF SetUp, Tick, vars, disk
  <2> QED
    BY <2>1, <2>2, <2>3
<1> QED
  BY <1>1, <1>3, <1>4 DEF Sliced

\* At first there is a file, no copy of it and no request.
LEMMA InitSlices ==
  ASSUME Init
  PROVE  Sliced
<1> HIDE DEF Chain
<1>1. opts \in Options /\ wk = [w \in Workers |-> Idle] /\ held = NoCopy
  BY Zenon DEF Init
<1>2. PICK s \in opts.sizes : file = [ver |-> 1, mtime |-> 1, size |-> s]
  BY Zenon DEF Init
<1>3. file.size = s /\ file.ver = 1 /\ s \in Nat
  BY <1>1, <1>2, PipelineConstants
<1>4. DOMAIN held = {"tag", "lm", "bytes"} /\ IsTag(held.tag)
  BY <1>1 DEF NoCopy, NoTag, IsTag
<1>5. Slice(Idle)
  <2>1. PICK k : k = Idle
    OBVIOUS
  <2>2. k.at = "idle" /\ IsTag(k.res.tag)
    BY <2>1 DEF Idle, Blank, NoTag, IsTag
  <2>3. Slice(k)
    BY <2>2 DEF Slice, Limiting, Pointing, RouterBack
  <2> QED
    BY <2>1, <2>3
<1>6. \A w \in Workers : Slice(wk[w])
  <2>1. \A w \in Workers : wk[w] = Idle
    BY <1>1
  <2> QED
    BY <1>5, <2>1
<1> QED
  BY <1>1, <1>3, <1>4, <1>6 DEF Sliced

\* Every step keeps the windows that are due.
LEMMA NextSlices == IInv /\ Answers /\ Steered /\ Sliced /\ [Next]_vars => Sliced'
<1> SUFFICES ASSUME IInv, Answers, Steered, Sliced, [Next]_vars
             PROVE  Sliced'
  OBVIOUS
<1>1. CASE SetUp \/ Tick \/ Edit \/ UNCHANGED vars
  BY <1>1, WorldSlices
<1>2. ASSUME NEW w \in Workers, Arrive(w) \/ Layer(w) \/ Limiter(w) \/ Handler(w) \/ Deliver(w)
      PROVE  Sliced'
  <2>1. CASE Arrive(w) \/ Deliver(w)
    BY <2>1, EndsSlice
  <2>2. CASE Return(w)
    BY <2>2, ReturnSlices
  <2>3. CASE Limiter(w)
    BY <2>3, PassSlices
  <2>4. CASE Handler(w)
    BY <2>4, RouterSlices, DiskSlices DEF Handler
  <2>5. CASE \/ http_client_ip_middleware(w) \/ http_request_id_middleware(w) \/ http_security_middleware(w)
             \/ http_signature_middleware(w) \/ PassDown(w) \/ http_cors_middleware(w) \/ http_basic_auth_middleware(w)
    BY <2>5, PassSlices
  <2> QED
    BY <1>2, <2>1, <2>2, <2>3, <2>4, <2>5 DEF Layer
<1> QED
  BY <1>1, <1>2 DEF Next

\* The bytes of the parts are the bytes of the windows.
LEMMA ServedBytes ==
  ASSUME NEW ws, NEW specs \in Seq(Specs), NEW size \in Nat, Due(ws, specs, size),
         NEW res, Serving(ws, res.parts, << >>)
  PROVE  /\ {b[1] : b \in Bytes(res)} =
              UNION {Asked(specs[i], size) :
                       i \in {j \in Satisfiable(specs, size) :
                                Cardinality({h \in Satisfiable(specs, size) : h < j}) < MaxRanges}}
         /\ \A i \in 1 .. Len(res.parts) - 1 : res.parts[i].base + res.parts[i].n < res.parts[i + 1].base
<1>1. PICK parts, good, N : parts = res.parts /\ good = Satisfiable(specs, size) /\ N = Len(parts)
  OBVIOUS
<1>0. ws \in Seq(Windows) /\ parts \in Seq(Parts)
  BY <1>1 DEF Serving, Due
<1>2. N \in Nat /\ DOMAIN parts = 1 .. N
  <2> HIDE DEF Parts
  <2> QED
    BY <1>0, <1>1, LenProperties
<1>3. Len(ws) = N
  BY <1>1, <1>2 DEF Serving
<1>4. \A i \in 1 .. N : parts[i].base = ws[i].base /\ parts[i].n = ws[i].n
  BY <1>1 DEF Serving
<1>5. \A i \in 1 .. N : ws[i] \in Windows
  <2> HIDE DEF Windows
  <2> QED
    BY <1>0, <1>3, ElementOfSeq
<1>6. \A p \in Nat : Covers(ws, p) <=> \E j \in good : Before(good, j) < MaxRanges /\ p \in Asked(specs[j], size)
  BY <1>1 DEF Due
<1>7. \A i \in 1 .. N : \A p : p \in parts[i].base .. parts[i].base + parts[i].n - 1 <=> p \in Nat /\ Inside(p, ws[i])
  BY <1>4, <1>5 DEF Windows, Inside
<1> DEFINE Sent == {b[1] : b \in Bytes(res)}
           Owed == UNION {Asked(specs[i], size) : i \in {j \in good : Cardinality({h \in good : h < j}) < MaxRanges}}
<1>8. \A p : p \in Sent <=> \E i \in 1 .. N : p \in parts[i].base .. parts[i].base + parts[i].n - 1
  <2>1. \A b : b \in Bytes(res) <=> \E i \in 1 .. N : \E p \in parts[i].base .. parts[i].base + parts[i].n - 1 : b = <<p, parts[i].ver>>
    <3> DEFINE Of(b, x) == \E p \in x.base .. x.base + x.n - 1 : b = <<p, x.ver>>
    <3>1. \A b : b \in Bytes(res) <=> \E i \in DOMAIN res.parts :
            b \in {<<p, res.parts[i].ver>> : p \in res.parts[i].base .. res.parts[i].base + res.parts[i].n - 1}
      BY Zenon DEF Bytes
    <3>2. \A b, x : b \in {<<p, x.ver>> : p \in x.base .. x.base + x.n - 1} <=> Of(b, x)
      OBVIOUS
    <3>3. \A b : b \in Bytes(res) <=> \E i \in DOMAIN res.parts : Of(b, res.parts[i])
      <4> HIDE DEF Of
      <4> QED
        BY <3>1, <3>2, Zenon
    <3>4. \A b : b \in Bytes(res) <=> \E i \in 1 .. N : Of(b, parts[i])
      <4> HIDE DEF Of
      <4> QED
        BY <1>1, <1>2, <3>3
    <3> QED
      BY <3>4, Zenon
  <2>2. ASSUME NEW p, p \in Sent
        PROVE  \E i \in 1 .. N : p \in parts[i].base .. parts[i].base + parts[i].n - 1
    <3>1. PICK b \in Bytes(res) : p = b[1]
      BY <2>2
    <3>2. PICK i \in 1 .. N : \E x \in parts[i].base .. parts[i].base + parts[i].n - 1 : b = <<x, parts[i].ver>>
      BY <2>1, <3>1
    <3>3. PICK x \in parts[i].base .. parts[i].base + parts[i].n - 1 : b = <<x, parts[i].ver>>
      BY <3>2
    <3>4. p = x
      BY <3>1, <3>3
    <3> QED
      BY <3>3, <3>4
  <2>3. ASSUME NEW i \in 1 .. N, NEW p \in parts[i].base .. parts[i].base + parts[i].n - 1
        PROVE  p \in Sent
    <3>1. PICK b : b = <<p, parts[i].ver>>
      OBVIOUS
    <3>2. b \in Bytes(res)
      BY <2>1, <3>1
    <3>3. b[1] = p
      BY <3>1
    <3> QED
      BY <3>2, <3>3
  <2> QED
    BY <2>2, <2>3
<1>9. \A p : p \in Sent <=> p \in Nat /\ Covers(ws, p)
  <2> HIDE DEF Sent
  <2> QED
    BY <1>3, <1>7, <1>8 DEF Covers
<1>10. \A p : p \in Owed <=> \E j \in good : Before(good, j) < MaxRanges /\ p \in Asked(specs[j], size)
  BY Zenon DEF Before
<1>11. \A j : \A p \in Asked(specs[j], size) : p \in Nat
  BY DEF Asked
<1>12. Sent = Owed
  <2> HIDE DEF Sent, Owed
  <2>1. \A p : p \in Sent <=> p \in Owed
    BY <1>6, <1>9, <1>10, <1>11, Zenon
  <2> QED
    BY <2>1
<1>13. \A i \in 1 .. N - 1 : parts[i].base + parts[i].n < parts[i + 1].base
  <2> SUFFICES ASSUME NEW i \in 1 .. N - 1
               PROVE  parts[i].base + parts[i].n < parts[i + 1].base
    OBVIOUS
  <2>1. i \in 1 .. N /\ i + 1 \in 1 .. N
    BY <1>2
  <2>2. Apart(ws)
    BY DEF Due
  <2>3. ws[i].base + ws[i].n < ws[i + 1].base
    BY <1>3, <2>2 DEF Apart
  <2> QED
    BY <1>4, <2>1, <2>3
<1> QED
  BY <1>1, <1>12, <1>13

\* Whatever order the workers go on in, and whatever becomes of the file, a 206 carries
\* exactly the bytes that the first MaxRanges satisfiable specs ask for, in windows apart
\* from each other; 416 means that no spec asks for a byte of the file; and a request
\* whose If-Range does not hold gets neither (static.c:82-179 and 307-335).
THEOREM PipelineRangesExact == Spec => []RangesExact
<1>1. Init => Steered /\ Sliced
  BY InitSteers, InitSlices
<1>2. IInv /\ Answers /\ Steered /\ Sliced /\ [Next]_vars => Steered' /\ Sliced'
  BY NextSteers, NextSlices
<1>3. Sliced => RangesExact
  <2> HIDE DEF Chain
  <2> SUFFICES ASSUME Sliced, NEW w \in Workers, StaticBack(wk[w])
               PROVE  RangesExact!(w)!2
    BY DEF RangesExact
  <2> DEFINE k == wk[w]
             good == Satisfiable(k.req.range, k.res.size)
  <2>1. Exact(k)
    BY DEF Sliced, Slice, StaticBack
  <2>3. ASSUME k.res.status = 206
        PROVE  /\ {b[1] : b \in Bytes(k.res)} =
                    UNION {Asked(k.req.range[i], k.res.size) :
                             i \in {j \in good : Cardinality({h \in good : h < j}) < MaxRanges}}
               /\ \A i \in 1 .. Len(k.res.parts) - 1 : k.res.parts[i].base + k.res.parts[i].n < k.res.parts[i + 1].base
               /\ Valid(k)
    <3>1. /\ k.req.range \in Seq(Specs) /\ k.res.size \in Nat /\ Valid(k)
          /\ \E ws : Due(ws, k.req.range, k.res.size) /\ Serving(ws, k.res.parts, << >>)
      BY <2>1, <2>3 DEF Exact
    <3>2. PICK ws : Due(ws, k.req.range, k.res.size) /\ Serving(ws, k.res.parts, << >>)
      BY <3>1
    <3>3. k.req.range \in Seq(Specs) /\ k.res.size \in Nat
      BY <3>1
    <3>4. /\ {b[1] : b \in Bytes(k.res)} =
               UNION {Asked(k.req.range[i], k.res.size) :
                        i \in {j \in good : Cardinality({h \in good : h < j}) < MaxRanges}}
          /\ \A i \in 1 .. Len(k.res.parts) - 1 : k.res.parts[i].base + k.res.parts[i].n < k.res.parts[i + 1].base
      <4> HIDE DEF k
      <4> QED
        BY <3>2, <3>3, ServedBytes
    <3> QED
      BY <3>1, <3>4, Zenon
  <2>4. ASSUME k.res.status = 416
        PROVE  k.req.range # << >> /\ good = {} /\ Valid(k)
    BY <2>1, <2>4 DEF Exact
  <2>5. k.res.status \in {206, 416} => Valid(k)
    BY <2>3, <2>4
  <2> QED
    BY <2>3, <2>4, <2>5, Zenon DEF Valid, Satisfiable
<1> QED
  BY <1>1, <1>2, <1>3, PipelineInvariant, PipelineAnswers, PTL DEF Spec

=============================================================================
