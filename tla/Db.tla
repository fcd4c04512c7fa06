--------------------------------- MODULE Db ---------------------------------
(***************************************************************************)
(* The embedded database of src/db/db.c as operators on a Cweb_Db: its     *)
(* entries in their slots, the byte count a sync expects to write and the  *)
(* dirty flag.  A file is the sequence of entries written to it, or        *)
(* NoFile; it is replaced by a rename, so it is never half written.  (The  *)
(* Windows build removes the old file first; that branch is left out.)  A  *)
(* value is a sequence of lines.                                           *)
(***************************************************************************)
EXTENDS Naturals, Sequences, FiniteSets, FiniteSetsExt, SequencesExt

\* Nothing at the path: an entry list that no store writes, since an empty
\* store removes its file.
NoFile == << >>

Entry(key, value) == [key |-> key, value |-> value]

\* Bytes of an entry on disk: the two lengths, the key and the value's lines.
entry_size(e) == 2 + Len(e.value)

\* The bytes a list of entries takes on disk.
Bytes(entries) ==
  LET upto[n \in 0 .. Len(entries)] == IF n = 0 THEN 0 ELSE upto[n - 1] + entry_size(entries[n])
  IN  upto[Len(entries)]

\* Slot of a key, or 0.
db_find(db, key) == SelectInSeq(db.entries, LAMBDA e : e.key = key)

\* A list with slot i taken out and the last entry moved into it.
SwapRemove(s, i) == Front(IF i = Len(s) THEN s ELSE ReplaceAt(s, i, Last(s)))

\* The value of a key and whether there is one.
Has(db, key) == db_find(db, key) # 0
cweb_db_get(db, key) == db.entries[db_find(db, key)].value

cweb_db_put(db, key, value) ==
  LET i   == db_find(db, key)
      new == Entry(key, value)
  IN  IF i # 0
      THEN [db EXCEPT !.entries = ReplaceAt(@, i, new), !.dirty = TRUE,
                      !.total = (@ + entry_size(new)) - entry_size(db.entries[i])]
      ELSE [db EXCEPT !.entries = Append(@, new), !.dirty = TRUE,
                      !.total = @ + entry_size(new)]

\* Deleting that forgets the byte count.
cweb_db_delete_Uncounted(db, key) ==
  LET i == db_find(db, key)
  IN  IF i = 0 THEN db
      ELSE [db EXCEPT !.entries = SwapRemove(@, i), !.dirty = TRUE]

cweb_db_delete(db, key) ==
  LET i == db_find(db, key)
  IN  IF i = 0 THEN db
      ELSE [db EXCEPT !.entries = SwapRemove(@, i), !.dirty = TRUE,
                      !.total = @ - entry_size(db.entries[i])]

\* The store that open reads from a file: every entry counted again.
cweb_db_open(file) ==
  [entries |-> file, total |-> Bytes(file), dirty |-> FALSE]

\* A store with entries is written when the byte count agrees and neither the
\* write of the temporary file nor the rename fails (disk says what fails).
SyncWorks(db, disk) == disk = "ok" /\ Bytes(db.entries) = db.total

\* What a sync leaves: the store and the file.  The file of an empty store is
\* removed; whether that worked is not looked at.
cweb_db_sync(db, file, disk) ==
  IF db.entries = << >>
  THEN [db |-> [db EXCEPT !.dirty = FALSE], file |-> IF disk = "ok" THEN NoFile ELSE file]
  ELSE IF SyncWorks(db, disk)
  THEN [db |-> [db EXCEPT !.dirty = FALSE], file |-> db.entries]
  ELSE [db |-> db, file |-> file]
=============================================================================
