------------------------------- MODULE Hpack --------------------------------
(***************************************************************************)
(* The header decoder of src/http/hpack.c against the client's encoder     *)
(* (external, by RFC 7541), whose dynamic table it has to mirror: one      *)
(* action per representation, decoded as soon as it is sent.               *)
(*                                                                         *)
(* A field is a name and a value; the value is the number of units its     *)
(* entry takes in a table.                                                 *)
(***************************************************************************)
EXTENDS Naturals, Sequences, FiniteSets, FiniteSetsExt, SequencesExt

CONSTANTS Names, Sizes,  \* of the fields a client sends
          Limit,         \* HPACK_DEFAULT_MAX_TABLE_SIZE, in units
          MaxSteps       \* bound on the representations sent

VARIABLES enc,     \* the encoder: [table, cap]
          hp,      \* the decoder: [table, used, cap]
          any,     \* any_field of the current block
          field,   \* the last field: as sent and as decoded
          dead,    \* decoding failed: "no", "illegal" (the client's fault) or "legal"
          beyond,  \* what the encoder did that the decoder does not follow
          steps

vars == <<enc, hp, any, field, dead, beyond, steps>>

Field(n, v) == [name |-> n, value |-> v]
NoField     == Field("none", 0)
Garbage     == "freed"

\* The static table.
Static == <<Field("static", 1)>>

Units(table) ==
  LET sum[k \in 0 .. Len(table)] == IF k = 0 THEN 0 ELSE sum[k - 1] + table[k].value
  IN  sum[Len(table)]

\* The newest entries of a table that fit into room.
Fitting(table, room) ==
  SubSeq(table, 1, Max({k \in 0 .. Len(table) : Units(SubSeq(table, 1, k)) <= room}))

-----------------------------------------------------------------------------
(* The encoder's table.                                                    *)

\* An entry that does not fit empties the table.
EncInsert(e, f) ==
  IF f.value > e.cap THEN [e EXCEPT !.table = << >>]
  ELSE [e EXCEPT !.table = <<f>> \o Fitting(e.table, e.cap - f.value)]

EncResize(e, n) == [table |-> Fitting(e.table, n), cap |-> n]

-----------------------------------------------------------------------------
(* The decoder's table.                                                    *)

\* The first entries that stay when the decoder needs the given size below its
\* capacity: it drops the oldest while the count it keeps says there are too many.
Kept(h, size) ==
  LET stay == {k \in 0 .. Len(h.table) :
                 k = 0 \/ (h.used - Units(SubSeq(h.table, k + 1, Len(h.table)))) + size <= h.cap}
  IN  Max(stay)

Dropped(h, size) ==
  LET k == Kept(h, size)
  IN  [h EXCEPT !.table = SubSeq(@, 1, k), !.used = @ - Units(SubSeq(h.table, k + 1, Len(h.table)))]

\* Insertion that forgets to count the new entry.
hp_dyn_insert_Uncounted(h, f) ==
  IF h.cap # 0 /\ f.value > h.cap THEN h
  ELSE LET d == Dropped(h, f.value)
       IN  [d EXCEPT !.table = <<f>> \o @]

\* Insertion that evicts only when the table is already over its capacity.
hp_dyn_insert_LateEviction(h, f) ==
  IF h.cap # 0 /\ f.value > h.cap THEN h
  ELSE LET d == Dropped(h, 0)
       IN  [d EXCEPT !.table = <<f>> \o @, !.used = @ + f.value]

hp_dyn_insert(h, f) ==
  IF h.cap # 0 /\ f.value > h.cap THEN h
  ELSE LET d == Dropped(h, f.value)
       IN  [d EXCEPT !.table = <<f>> \o @, !.used = @ + f.value]

hp_shrink_to(h, n) == Dropped([h EXCEPT !.cap = n], 0)

\* Static entries first, then the dynamic ones, newest first.
Indexed(table)    == Static \o table
hp_lookup(h, i)   == Indexed(h.table)[i]
Found(h, i)       == i \in 1 .. Len(Indexed(h.table))

-----------------------------------------------------------------------------
(* hpack_decode_block, one representation at a time.                       *)

Init ==
  /\ enc = [table |-> << >>, cap |-> Limit]
  /\ hp = [table |-> << >>, used |-> 0, cap |-> Limit]
  /\ any = FALSE /\ field = <<NoField, NoField>> /\ dead = "no" /\ beyond = {} /\ steps = 0

Step == dead = "no" /\ steps < MaxSteps /\ steps' = steps + 1

Fails(fault) == dead' = fault /\ UNCHANGED <<hp, field>>

\* The verdict on a field: what was sent and what was decoded.
Decodes(sent, got, h) == field' = <<sent, got>> /\ hp' = h /\ UNCHANGED dead

\* An indexed field.
SendIndexed(i) ==
  /\ Step /\ i \in 1 .. Len(Indexed(enc.table)) /\ any' = TRUE
  /\ IF Found(hp, i) THEN Decodes(Indexed(enc.table)[i], hp_lookup(hp, i), hp) ELSE Fails("legal")
  /\ UNCHANGED <<enc, beyond>>

\* The name of entry i, when its storage is freed before it is copied: whatever
\* the memory holds then.
NamesLeft(i, v) ==
  IF i <= Len(Static) + Kept(hp, v) \/ (hp.cap # 0 /\ v > hp.cap) THEN {hp_lookup(hp, i).name}
  ELSE {hp_lookup(hp, i).name, Garbage}

\* A literal that both sides add to their tables, with the name of an entry.
SendIndexing(i, v) ==
  /\ Step /\ i \in 1 .. Len(Indexed(enc.table)) /\ any' = TRUE
  /\ LET sent == Field(Indexed(enc.table)[i].name, v)
         new  == EncInsert(enc, sent)
     IN  /\ enc' = new
         /\ beyond' = beyond \cup (IF v > enc.cap /\ enc.table # << >> THEN {"too big"} ELSE {})
                             \cup (IF i >= Len(Static) + Len(new.table) /\ i > Len(Static)
                                   THEN {"own name"} ELSE {})
         /\ IF Found(hp, i)
            THEN \E n \in NamesLeft(i, v) :
                   Decodes(sent, Field(hp_lookup(hp, i).name, v), hp_dyn_insert(hp, Field(n, v)))
            ELSE Fails("legal")

\* The same with a name of its own.
SendIndexingNew(n, v) ==
  /\ Step /\ any' = TRUE
  /\ enc' = EncInsert(enc, Field(n, v))
  /\ beyond' = beyond \cup (IF v > enc.cap /\ enc.table # << >> THEN {"too big"} ELSE {})
  /\ Decodes(Field(n, v), Field(n, v), hp_dyn_insert(hp, Field(n, v)))

\* A literal that stays out of the tables.
SendPlain(i, v) ==
  /\ Step /\ i \in 1 .. Len(Indexed(enc.table)) /\ any' = TRUE
  /\ IF Found(hp, i)
     THEN Decodes(Field(Indexed(enc.table)[i].name, v), Field(hp_lookup(hp, i).name, v), hp)
     ELSE Fails("legal")
  /\ UNCHANGED <<enc, beyond>>

SendPlainNew(n, v) ==
  /\ Step /\ any' = TRUE /\ Decodes(Field(n, v), Field(n, v), hp)
  /\ UNCHANGED <<enc, beyond>>

\* A size update is checked against the current capacity, which the last one set.
SendResize(n) ==
  /\ Step /\ ~any /\ UNCHANGED <<any, field>>
  /\ enc' = EncResize(enc, n)
  /\ beyond' = beyond \cup (IF n > enc.cap THEN {"raised"} ELSE {})
                      \cup (IF n = 0 THEN {"zero"} ELSE {})
  /\ IF n > hp.cap THEN dead' = "legal" /\ UNCHANGED hp ELSE hp' = hp_shrink_to(hp, n) /\ UNCHANGED dead

BlockEnds == /\ dead = "no" /\ any /\ any' = FALSE
             /\ UNCHANGED <<enc, hp, field, dead, beyond, steps>>

\* A block that h2.c answers with a stream error without decoding it: longer than
\* H2_HEADER_BLOCK_CAP, or for a stream behind the client's GOAWAY.
BlockDropped(n, v) ==
  /\ Step /\ ~any /\ enc' = EncInsert(enc, Field(n, v)) /\ beyond' = beyond \cup {"dropped"}
  /\ UNCHANGED <<hp, any, field, dead>>

\* A literal with a string over HPACK_MAX_STRING_LEN, which RFC 7541 allows: the
\* decoder refuses it.  In the encoder's table it leaves no room for anything.
SendOverlong ==
  /\ Step /\ any' = TRUE /\ Fails("legal") /\ beyond' = beyond \cup {"overlong"}
  /\ enc' \in {enc, [enc EXCEPT !.table = << >>]}

\* Index 0 or behind the tables, a string that does not decode, a size update
\* behind a field or above the limit: a compression error.
SendIllegal ==
  /\ Step /\ Fails("illegal") /\ UNCHANGED <<enc, any, beyond>>

Next ==
  \/ \E i \in 1 .. Len(Static) + Limit : SendIndexed(i)
  \/ \E i \in 1 .. Len(Static) + Limit, v \in Sizes : SendIndexing(i, v) \/ SendPlain(i, v)
  \/ \E n \in Names, v \in Sizes : SendIndexingNew(n, v) \/ SendPlainNew(n, v) \/ BlockDropped(n, v)
  \/ \E n \in 0 .. Limit : SendResize(n)
  \/ BlockEnds \/ SendOverlong \/ SendIllegal

Spec == Init /\ [][Next]_vars

-----------------------------------------------------------------------------
\* hpack.h:12-15: the decoder's table follows the peer's encoder across blocks.
\* Whatever mix of representations and size reductions a client sends, the tables
\* stay equal, every field comes out as it was sent and no legal block is
\* refused, unless one of six legal things happens: an entry larger than the
\* table while that holds entries, an insertion that evicts the entry it takes its
\* name from, a capacity raised again, a capacity of zero, a string of more than
\* 64 KiB, and a block that h2.c drops undecoded.
TablesInSync ==
  beyond = {} => /\ hp.table = enc.table /\ hp.cap = enc.cap
                 /\ field[1] = field[2] /\ dead # "legal"

\* hpack.c:248-277: the byte count is the size of the entries and within the
\* capacity through every insertion, eviction and resize, also when client and
\* decoder have diverged; only a capacity of zero still admits one entry.
TableBounded ==
  /\ hp.used = Units(hp.table)
  /\ hp.used <= hp.cap \/ (hp.cap = 0 /\ Len(hp.table) = 1)
=============================================================================
