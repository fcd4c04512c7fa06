------------------------------ MODULE Sessions ------------------------------
(***************************************************************************)
(* The session store of src/http/session.c, write-through to the database, *)
(* with the flash messages and CSRF tokens that requests keep in it.       *)
(*                                                                         *)
(* Every operation runs under the store's mutex, so it is one action: a    *)
(* crash inside it leaves the disk as a crash before or after it does.     *)
(* Requests may share a session.  A session may also be freed under the    *)
(* handle of a request; what using such a handle does is undefined, and    *)
(* the request does nothing more with it here (or the process crashes).    *)
(***************************************************************************)
EXTENDS Db

CONSTANTS Workers,   \* request threads
          Tokens,    \* session tokens, issued in order: 1 .. n
          TTLs,      \* per token: the life time its session is created with, 0 = for ever
          Users,     \* values a handler stores, each a sequence of lines
          Faults,    \* what the disk does to a sync: "ok", or what fails ("write", "rename", "remove")
          MaxTime,   \* bound on the clock
          MaxFresh,  \* bound on what is stored: sessions, users, messages, CSRF tokens, pages
          MaxStarts  \* bound on restarts

ASSUME SessionConstants ==
  /\ IsFiniteSet(Tokens) /\ Tokens = 1 .. Cardinality(Tokens)
  /\ {MaxTime, MaxFresh, MaxStarts} \subseteq Nat /\ TTLs \in [Tokens -> Nat]
  /\ "ok" \in Faults /\ Users \subseteq Seq(STRING)

VARIABLES up,     \* the process runs
          mem,    \* the store's slots: [tok, exp, data]
          db,     \* the Cweb_Db behind it
          file,   \* the database file
          hold,   \* per worker: the token whose handle it has, or 0
          step,   \* per worker: "use", or the flash or CSRF call it is in the middle of
          clock,
          issued, \* tokens created so far
          fresh,  \* sessions and values stored so far; the next one generated is different
          starts,
          told,   \* per token: the data its requests were last told is stored
          expiry, \* per token: when it expires
          gone,   \* per token: "no", "here" (removed by this process) or "asked"
          torn    \* "pending": the last sync failed; "yes": and the process ended then

vars == <<up, mem, db, file, hold, step, clock, issued, fresh, starts, told, expiry, gone, torn>>

Flash    == {"flash:note", "flash:warn"}
Keys     == {"auth_user", "csrf-token"} \cup Flash
PageKey  == 0
Nobody   == 0
NoData   == [k \in {} |-> << >>]
Made(n)  == <<CASE n = 1 -> "gen1" [] n = 2 -> "gen2" [] OTHER -> "gen3">>
With(data, k, v) == [x \in DOMAIN data \cup {k} |-> IF x = k THEN v ELSE data[x]]
Without(data, k) == [x \in DOMAIN data \ {k} |-> data[x]]

find_token(t) == SelectInSeq(mem, LAMBDA s : s.tok = t)

Expired(s) == s.exp # 0 /\ s.exp <= clock

-----------------------------------------------------------------------------
(* The record of a session: its expiry, then a line per key and the lines  *)
(* of its value.                                                           *)

Record(exp, data) ==
  LET keys == SetToSeq(DOMAIN data)
      lines[n \in 0 .. Len(keys)] ==
        IF n = 0 THEN <<exp>> ELSE lines[n - 1] \o <<keys[n]>> \o data[keys[n]]
  IN  lines[Len(keys)]

\* A record without the expiry of its session.
session_to_db_Forever(s) == Record(0, s.data)

session_to_db(s) == Record(s.exp, s.data)

\* Reading takes lines by twos, a later pair over an earlier one.
session_from_db(t, lines) ==
  LET pairs   == 1 .. (Len(lines) - 1) \div 2
      last(k) == Max({i \in pairs : lines[2 * i] = k})
  IN  [tok |-> t, exp |-> lines[1],
       data |-> [k \in {lines[2 * i] : i \in pairs} |-> <<lines[2 * last(k) + 1]>>]]

-----------------------------------------------------------------------------
Init ==
  /\ up = TRUE /\ mem = << >> /\ file = NoFile /\ db = cweb_db_open(NoFile)
  /\ hold = [w \in Workers |-> Nobody] /\ step = [w \in Workers |-> "use"]
  /\ clock = 1 /\ issued = 0 /\ fresh = 0 /\ starts = 0
  /\ told = [t \in Tokens |-> NoData]
  /\ expiry = [t \in Tokens |-> 0]
  /\ gone = [t \in Tokens |-> "no"]
  /\ torn = "no"

Sync(d) ==
  \E disk \in Faults :
    LET r == cweb_db_sync(d, file, disk)
    IN  /\ db' = r.db /\ file' = r.file
        /\ torn' = IF torn = "yes" THEN "yes" ELSE IF r.db.dirty THEN "pending" ELSE "no"

\* A write-through that leaves the sync to the next caller.
WriteThrough_Lazy(s) ==
  db' = cweb_db_put(db, s.tok, session_to_db(s)) /\ UNCHANGED <<file, torn>>

\* put and sync, as create, set and del call them; they ignore its result.
WriteThrough(s) == Sync(cweb_db_put(db, s.tok, session_to_db(s)))

\* The store and the database without the session in slot i.
remove_at(m, i) == SwapRemove(m, i)

\* Removal from memory alone.
Delisted_MemoryOnly(d, m, i) == d

Delisted(d, m, i) == cweb_db_delete(d, m[i].tok)

NewSession(t) ==
  [tok |-> t, exp |-> IF TTLs[t] > 0 THEN clock + TTLs[t] ELSE 0, data |-> NoData]

http_session_create ==
  /\ up /\ issued + 1 \in Tokens /\ fresh < MaxFresh
  /\ LET s == NewSession(issued + 1)
     IN  /\ mem' = Append(mem, s)
         /\ WriteThrough(s)
         /\ expiry' = [expiry EXCEPT ![s.tok] = s.exp]
  /\ issued' = issued + 1 /\ fresh' = fresh + 1
  /\ UNCHANGED <<up, hold, step, clock, starts, told, gone>>

\* Found in memory, or loaded from the database into a new slot.
Loaded(t) ==
  IF find_token(t) # 0 \/ ~Has(db, t) THEN mem
  ELSE Append(mem, session_from_db(t, cweb_db_get(db, t)))

http_session_open(w, t) ==
  /\ up /\ hold[w] = Nobody
  /\ LET m == Loaded(t)
         i == SelectInSeq(m, LAMBDA s : s.tok = t)
     IN  /\ i # 0
         /\ IF Expired(m[i])
            THEN /\ mem' = remove_at(m, i) /\ db' = Delisted(db, m, i)
                 /\ gone' = [gone EXCEPT ![t] = "here"]
                 /\ UNCHANGED hold
            ELSE /\ mem' = m /\ hold' = [hold EXCEPT ![w] = t]
                 /\ UNCHANGED <<db, gone>>
  /\ UNCHANGED <<up, file, step, clock, issued, fresh, starts, told, expiry, torn>>

\* set and del on the session of worker w's handle.
Store(w, data) ==
  LET i == find_token(hold[w])
      s == [mem[i] EXCEPT !.data = data]
  IN  /\ mem' = ReplaceAt(mem, i, s)
      /\ WriteThrough(s)
      /\ told' = [told EXCEPT ![hold[w]] = data]

Holding(w) == up /\ hold[w] # Nobody /\ find_token(hold[w]) # 0
Data(w)    == mem[find_token(hold[w])].data

http_session_set(w, v) ==
  /\ Holding(w) /\ step[w] = "use" /\ fresh < MaxFresh
  /\ fresh' = fresh + 1
  /\ Store(w, With(Data(w), "auth_user", v))
  /\ UNCHANGED <<up, hold, step, clock, issued, starts, expiry, gone>>

http_session_del(w) ==
  /\ Holding(w) /\ step[w] = "use" /\ "auth_user" \in DOMAIN Data(w)
  /\ Store(w, Without(Data(w), "auth_user"))
  /\ UNCHANGED <<up, hold, step, clock, issued, fresh, starts, expiry, gone>>

http_flash_set(w, k) ==
  /\ Holding(w) /\ step[w] = "use" /\ fresh < MaxFresh
  /\ fresh' = fresh + 1
  /\ Store(w, With(Data(w), k, Made(fresh')))
  /\ UNCHANGED <<up, hold, step, clock, issued, starts, expiry, gone>>

\* The message is copied; the deletion is a call of its own.
http_flash_get(w, k) ==
  /\ Holding(w) /\ step[w] = "use" /\ k \in DOMAIN Data(w)
  /\ step' = [step EXCEPT ![w] = k]
  /\ UNCHANGED <<up, mem, db, file, hold, clock, issued, fresh, starts, told, expiry, gone, torn>>

\* A deletion that finds the key gone changes nothing.
FlashGetDeletes(w) ==
  /\ Holding(w) /\ step[w] \in Flash
  /\ IF step[w] \in DOMAIN Data(w) THEN Store(w, Without(Data(w), step[w]))
     ELSE UNCHANGED <<mem, db, file, told, torn>>
  /\ step' = [step EXCEPT ![w] = "use"]
  /\ UNCHANGED <<up, hold, clock, issued, fresh, starts, expiry, gone>>

\* Every message is rendered, then they are deleted one by one until a scan finds
\* none.
http_flash_render(w) ==
  /\ Holding(w) /\ step[w] = "use" /\ DOMAIN Data(w) \cap Flash # {}
  /\ step' = [step EXCEPT ![w] = "render"]
  /\ UNCHANGED <<up, mem, db, file, hold, clock, issued, fresh, starts, told, expiry, gone, torn>>

clear_one(w) ==
  /\ Holding(w) /\ step[w] = "render"
  /\ \E k \in DOMAIN Data(w) \cap Flash : Store(w, Without(Data(w), k))
  /\ UNCHANGED <<up, hold, step, clock, issued, fresh, starts, expiry, gone>>

RenderEnds(w) ==
  /\ Holding(w) /\ step[w] = "render" /\ DOMAIN Data(w) \cap Flash = {}
  /\ step' = [step EXCEPT ![w] = "use"]
  /\ UNCHANGED <<up, mem, db, file, hold, clock, issued, fresh, starts, told, expiry, gone, torn>>

store_new_token(w) ==
  /\ fresh < MaxFresh /\ fresh' = fresh + 1
  /\ Store(w, With(Data(w), "csrf-token", Made(fresh')))
  /\ step' = [step EXCEPT ![w] = "use"]
  /\ UNCHANGED <<up, hold, clock, issued, starts, expiry, gone>>

\* A session without a token gets one, which is a call of its own; rotate always
\* makes another.
http_csrf_token(w) ==
  /\ Holding(w) /\ step[w] = "use" /\ "csrf-token" \notin DOMAIN Data(w) /\ fresh < MaxFresh
  /\ step' = [step EXCEPT ![w] = "csrf"]
  /\ UNCHANGED <<up, mem, db, file, hold, clock, issued, fresh, starts, told, expiry, gone, torn>>

CsrfTokenStores(w) == Holding(w) /\ step[w] = "csrf" /\ store_new_token(w)

http_csrf_rotate(w) == Holding(w) /\ step[w] = "use" /\ store_new_token(w)

\* The request is over and its handle with it, or its session was freed.
RequestEnds(w) ==
  /\ hold[w] # Nobody /\ (step[w] = "use" \/ ~Holding(w))
  /\ hold' = [hold EXCEPT ![w] = Nobody]
  /\ step' = [step EXCEPT ![w] = "use"]
  /\ UNCHANGED <<up, mem, db, file, clock, issued, fresh, starts, told, expiry, gone, torn>>

\* Only a session in memory is found; the removal is not synced, and other
\* requests may have the session's handle.
http_session_destroy(w, t) ==
  /\ up /\ t <= issued /\ step[w] = "use"
  /\ LET i == find_token(t)
     IN  IF i = 0 THEN /\ gone' = [gone EXCEPT ![t] = IF @ = "no" THEN "asked" ELSE @]
                       /\ UNCHANGED <<mem, db>>
         ELSE /\ mem' = remove_at(mem, i) /\ db' = Delisted(db, mem, i)
              /\ gone' = [gone EXCEPT ![t] = "here"]
  /\ hold' = [hold EXCEPT ![w] = IF @ = t THEN Nobody ELSE @]
  /\ UNCHANGED <<up, file, step, clock, issued, fresh, starts, told, expiry, torn>>

\* The sweep looks at slot i again after a removal moved the last one into it.
Reaped(m, d) ==
  LET sweep[n \in 0 .. Len(m)] ==
        IF n = 0 THEN [mem |-> m, db |-> d, at |-> 1]
        ELSE LET r == sweep[n - 1]
             IN  IF Expired(r.mem[r.at])
                 THEN [mem |-> remove_at(r.mem, r.at), db |-> Delisted(r.db, r.mem, r.at), at |-> r.at]
                 ELSE [mem |-> r.mem, db |-> r.db, at |-> r.at + 1]
  IN  sweep[Len(m)]

\* From a timer or a maintenance thread, whoever has a handle.
http_session_reap ==
  /\ up /\ \E i \in 1 .. Len(mem) : Expired(mem[i])
  /\ mem' = Reaped(mem, db).mem
  /\ db' = Reaped(mem, db).db
  /\ gone' = [t \in Tokens |-> IF find_token(t) # 0 /\ Expired(mem[find_token(t)])
                               THEN "here" ELSE gone[t]]
  /\ UNCHANGED <<up, file, hold, step, clock, issued, fresh, starts, told, expiry, torn>>

-----------------------------------------------------------------------------
(* Pages share the database; the process stops and starts.                 *)

PagePut ==
  /\ up /\ fresh < MaxFresh /\ fresh' = fresh + 1
  /\ db' = cweb_db_put(db, PageKey, <<"page">>)
  /\ UNCHANGED <<up, mem, file, hold, step, clock, issued, starts, told, expiry, gone, torn>>

PageDelete ==
  /\ up /\ Has(db, PageKey) /\ db' = cweb_db_delete(db, PageKey)
  /\ UNCHANGED <<up, mem, file, hold, step, clock, issued, fresh, starts, told, expiry, gone, torn>>

PageSync ==
  /\ up /\ Sync(db)
  /\ UNCHANGED <<up, mem, hold, step, clock, issued, fresh, starts, told, expiry, gone>>

Stops == /\ up' = FALSE /\ mem' = << >> /\ db' = cweb_db_open(NoFile)
         /\ hold' = [w \in Workers |-> Nobody] /\ step' = [w \in Workers |-> "use"]
         /\ UNCHANGED <<clock, issued, fresh, starts, told, expiry, gone>>

\* Every session's record is put once more.
http_session_store_dump ==
  LET put[n \in 0 .. Len(mem)] ==
        IF n = 0 THEN db ELSE cweb_db_put(put[n - 1], mem[n].tok, session_to_db(mem[n]))
  IN  put[Len(mem)]

\* A clean end: dump, free the store, close the database, which syncs if it is
\* dirty and is freed even if that fails.
Shutdown ==
  /\ up /\ \A w \in Workers : hold[w] = Nobody
  /\ \E disk \in Faults :
       LET d == http_session_store_dump
           r == IF d.dirty THEN cweb_db_sync(d, file, disk) ELSE [db |-> d, file |-> file]
       IN  file' = r.file /\ torn' = IF r.db.dirty THEN "yes" ELSE torn
  /\ Stops

Crash == /\ up /\ torn' = IF torn = "no" THEN "no" ELSE "yes"
         /\ UNCHANGED file /\ Stops

\* cweb_db_open, http_session_store_init and http_session_store_set_db.
Restart ==
  /\ ~up /\ starts < MaxStarts
  /\ up' = TRUE /\ starts' = starts + 1 /\ db' = cweb_db_open(file)
  /\ gone' = [t \in Tokens |-> IF gone[t] = "no" THEN "no" ELSE "asked"]
  /\ UNCHANGED <<mem, file, hold, step, clock, issued, fresh, told, expiry, torn>>

Tick == /\ clock < MaxTime /\ clock' = clock + 1
        /\ UNCHANGED <<up, mem, db, file, hold, step, issued, fresh, starts, told, expiry, gone, torn>>

Request(w) ==
  \/ \E t \in Tokens : http_session_open(w, t) \/ http_session_destroy(w, t)
  \/ \E v \in Users : http_session_set(w, v)
  \/ \E k \in Flash : http_flash_set(w, k) \/ http_flash_get(w, k)
  \/ http_session_del(w) \/ FlashGetDeletes(w) \/ http_flash_render(w) \/ clear_one(w) \/ RenderEnds(w)
  \/ http_csrf_token(w) \/ CsrfTokenStores(w) \/ http_csrf_rotate(w) \/ RequestEnds(w)

Next ==
  \/ \E w \in Workers : Request(w)
  \/ http_session_create \/ http_session_reap \/ PagePut \/ PageDelete \/ PageSync
  \/ Shutdown \/ Crash \/ Restart \/ Tick

Spec == Init /\ [][Next]_vars

-----------------------------------------------------------------------------
TypeOK ==
  /\ up \in BOOLEAN /\ torn \in {"no", "pending", "yes"}
  /\ \A i \in 1 .. Len(mem) : mem[i].tok \in Tokens /\ DOMAIN mem[i].data \subseteq Keys
  /\ db.dirty \in BOOLEAN /\ db.total \in Nat
  /\ hold \in [Workers -> Tokens \cup {Nobody}]
  /\ step \in [Workers -> {"use", "render", "csrf"} \cup Flash]
  /\ clock \in 1 .. MaxTime /\ issued \in 0 .. Cardinality(Tokens)
  /\ fresh \in 0 .. MaxFresh /\ starts \in 0 .. MaxStarts
  /\ gone \in [Tokens -> {"no", "here", "asked"}]

\* The session a token leads to now, or after a restart: from memory, else from
\* its record.
Found(t) ==
  LET d == IF up THEN db ELSE cweb_db_open(file)
  IN  IF find_token(t) # 0 THEN mem[find_token(t)].data
      ELSE IF Has(d, t) THEN session_from_db(t, cweb_db_get(d, t)).data
      ELSE [lost |-> TRUE]

\* Write-through (session.c:201, 224, 260): what a request was told is stored
\* (values, flash messages, CSRF tokens, and their removal) is what the next one
\* finds, in memory or after a crash and a restart, unless the process ended
\* while the last sync had failed.
Recoverable ==
  torn # "yes" => \A t \in 1 .. issued : gone[t] = "no" => Found(t) = told[t]

\* db.c:157, 206, 253, 262: the byte count that sync insists on never drifts, and
\* a store that is not dirty has exactly its entries in the file, through failed
\* writes and renames, restarts, and pages that put without syncing.  An empty
\* store is excepted: the result of remove is not looked at (db.c:235) and its
\* file may have survived.
DbExact ==
  up => /\ db.total = Bytes(db.entries)
        /\ ~db.dirty /\ db.entries # << >> => file = db.entries

\* remove_at (session.c:147-156): no request is handed a session again that this
\* process has destroyed, reaped or dropped as expired, although the database
\* could give it back.
RemovedStaysRemoved ==
  [][\A w \in Workers : hold'[w] \notin {hold[w], Nobody} => gone[hold'[w]] # "here"]_vars

\* http_session_open (session.c:424): nobody gets a handle to a session past its
\* expiry, whether it was in memory or came back from a record after a restart.
ExpiredStaysOut ==
  [][\A w \in Workers : hold'[w] \notin {hold[w], Nobody} =>
        (expiry[hold'[w]] = 0 \/ expiry[hold'[w]] > clock)]_vars

=============================================================================
