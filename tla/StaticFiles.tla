---------------------------- MODULE StaticFiles ----------------------------
(***************************************************************************)
(* Validators and byte ranges of src/http/static.c, and the validators of  *)
(* the conditional-GET middleware, src/http/etag.c, as operators.  A date  *)
(* is a number of seconds; an entity-tag is [kind, val] with kind "strong",*)
(* "weak" or "any" for "*"; a range spec is [from, to] with the two marks  *)
(* below for what is missing or is not a number.                           *)
(***************************************************************************)
EXTENDS Integers, Sequences, SequencesExt, FiniteSets

CONSTANT MaxRanges   \* MAX_RANGES

ASSUME MaxRangesAssumption == MaxRanges \in Nat \ {0}

Empty == -1
Junk  == -2
Specs == [from : Nat \cup {Empty, Junk}, to : Nat \cup {Empty, Junk}]
NoDate   == -1
NoWindow == [base |-> 0, n |-> 0]
NoTag    == [kind |-> "none", val |-> << >>]

\* The tag of a static file, from what stat says about it.
StaticTag(mtime, size) == [kind |-> "strong", val |-> <<mtime, size>>]

-----------------------------------------------------------------------------
\* If-None-Match in static.c: weak and strong tags compare equal.
etag_list_matches(list, tag) == \E e \in list : e.kind = "any" \/ e.val = tag.val

\* If-None-Match in etag.c: an entry has to start with a quote, so a weak one
\* never matches.
inm_matches(list, tag) == \E e \in list : e.kind = "any" \/ (e.kind = "strong" /\ e.val = tag.val)

\* A validator that is always taken for a match.
if_range_matches_Always(v, tag, mtime) == TRUE

\* If-Range: a strong tag, or a date that is not earlier than the file's.
if_range_matches(v, tag, mtime) ==
  \/ v.kind = "strong" /\ v.val = tag.val
  \/ v.kind = "date" /\ mtime <= v.val

\* The decision that the client's copy is current.
NotModified(req, tag, mtime) ==
  IF req.inm # {} THEN etag_list_matches(req.inm, tag)
  ELSE req.ims # NoDate /\ mtime <= req.ims

-----------------------------------------------------------------------------
\* The window of one spec, NoWindow when it is unsatisfiable.
Window(base, n) == [base |-> base, n |-> n]
Least(a, b)     == IF a < b THEN a ELSE b

range_spec(s, size) ==
  CASE s.from = Empty /\ s.to > 0 /\ size > 0 -> Window(size - Least(s.to, size), Least(s.to, size))
    [] s.from \in 0 .. size - 1 /\ s.to = Empty -> Window(s.from, size - s.from)
    [] s.from \in 0 .. size - 1 /\ s.to >= s.from ->
         Window(s.from, Least(s.to - s.from + 1, size - s.from))
    [] OTHER -> NoWindow

\* Windows that touch are kept apart.
Joins_Overlap(out, w) == Len(out) > 0 /\ w.base < Last(out).base + Last(out).n

\* A window joins the one before it when they overlap or touch.
Joins(out, w) == Len(out) > 0 /\ w.base <= Last(out).base + Last(out).n

Coalesced(out, w) ==
  IF ~Joins(out, w) THEN Append(out, w)
  ELSE LET l == Last(out)
           end == w.base + w.n
       IN  IF end <= l.base + l.n THEN out
           ELSE [out EXCEPT ![Len(out)].n = end - l.base]

Coalesce(ws) ==
  LET upto[n \in 0 .. Len(ws)] == IF n = 0 THEN << >> ELSE Coalesced(upto[n - 1], ws[n])
  IN  upto[Len(ws)]

\* The windows by their bases.  Which of two with one base comes first does not
\* matter: they are joined.
Inserted(ws, w) ==
  LET k == Min({i \in 1 .. Len(ws) : ws[i].base > w.base} \cup {Len(ws) + 1})
  IN  [i \in 1 .. Len(ws) + 1 |-> IF i < k THEN ws[i] ELSE IF i = k THEN w ELSE ws[i - 1]]

qsort(ws) ==
  LET upto[n \in 0 .. Len(ws)] == IF n = 0 THEN << >> ELSE Inserted(upto[n - 1], ws[n])
  IN  upto[Len(ws)]

\* The windows of the specs that are satisfiable, the first MaxRanges of them.
Raw(specs, size) ==
  LET upto[n \in 0 .. Len(specs)] ==
        IF n = 0 THEN << >>
        ELSE IF Len(upto[n - 1]) < MaxRanges /\ range_spec(specs[n], size) # NoWindow
        THEN Append(upto[n - 1], range_spec(specs[n], size)) ELSE upto[n - 1]
  IN  upto[Len(specs)]

\* The windows to serve; none when no spec is satisfiable.  A single spec is
\* taken as it is.
parse_ranges(specs, size) ==
  IF Len(specs) = 1 THEN Raw(specs, size) ELSE Coalesce(qsort(Raw(specs, size)))
=============================================================================
