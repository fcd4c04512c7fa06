---------------------------- MODULE CodecsProofs ----------------------------
(***************************************************************************)
(* The decoder of hpack.c keeps within its capacity whatever a client      *)
(* sends, and mirrors the encoder's table as long as the client stays with *)
(* what the decoder follows; the reader of ws.c gives up only on a frame   *)
(* that gives it a reason.                                                 *)
(***************************************************************************)
EXTENDS MCCodecs, WellFoundedInduction, SequencesExt, SequenceTheorems, FiniteSetTheorems, TLAPS

-----------------------------------------------------------------------------
(***************************************************************************)
(* Induction for the recursive functions of the model, in the form that    *)
(* every nonempty set of numbers has a least element: the least index at   *)
(* which a claim fails cannot be 0 and cannot be a successor.  The claim   *)
(* is a set and not an operator, so that it can be cited.                  *)
(***************************************************************************)

\* A nonempty set of natural numbers has a least element.
LEMMA LeastNumber ==
  ASSUME NEW T, T \subseteq Nat, T # {}
  PROVE  \E n \in T : \A m \in T : n <= m
<1>1. \E n \in T : \A m \in T : ~(<<m, n>> \in OpToRel(<, Nat))
  <2> HIDE DEF OpToRel
  <2> QED
    BY WFMin, NatLessThanWellFounded, Zenon
<1>2. PICK n \in T : \A m \in T : ~(<<m, n>> \in OpToRel(<, Nat))
  BY <1>1, Zenon
<1>3. ASSUME NEW m \in T
      PROVE  n <= m
  <2>1. <<m, n>> \in Nat \X Nat
    OBVIOUS
  <2>2. ~(m < n)
    BY <1>2, <2>1 DEF OpToRel
  <2> QED
    BY <2>2
<1> QED
  BY <1>3

\* Induction up to a bound, for a set: it holds 0 and with n also n + 1.
LEMMA Induction ==
  ASSUME NEW N \in Nat, NEW S, 0 \in S,
         \A n \in 0 .. N - 1 : n \in S => n + 1 \in S
  PROVE  0 .. N \subseteq S
<1> DEFINE T == {n \in 0 .. N : n \notin S}
<1> SUFFICES ASSUME T # {}
             PROVE  FALSE
  OBVIOUS
<1>1. PICK n \in T : \A m \in T : n <= m
  <2>1. T \subseteq Nat
    OBVIOUS
  <2> HIDE DEF T
  <2> QED
    BY <2>1, LeastNumber
<1>2. n - 1 \in 0 .. N - 1 /\ n - 1 \notin T
  BY <1>1
<1> QED
  BY <1>1, <1>2

-----------------------------------------------------------------------------
(* The units of a table.                                                   *)

Fields == [name : Names \cup {"static", "none", "freed"}, value : Nat]

\* f holds the units of the first entries of t.
Summed(t, n, f) == f = [k \in 0 .. n |-> IF k = 0 THEN 0 ELSE f[k - 1] + t[k].value]

\* The recursion of Units is a function.
LEMMA SummedExists ==
  ASSUME NEW t, NEW N \in Nat
  PROVE  \E f : Summed(t, N, f)
<1> DEFINE T == {n \in 0 .. N : \E f : Summed(t, n, f)}
<1>1. 0 \in T
  <2> DEFINE z == [k \in 0 .. 0 |-> 0]
  <2>1. Summed(t, 0, z)
    BY DEF Summed
  <2> QED
    BY <2>1
<1>2. ASSUME NEW n \in 0 .. N - 1, n \in T
      PROVE  n + 1 \in T
  <2>1. PICK f : Summed(t, n, f)
    BY <1>2
  <2> DEFINE g == [k \in 0 .. n + 1 |-> IF k = n + 1 THEN f[n] + t[k].value ELSE f[k]]
  <2>2. ASSUME NEW k \in 0 .. n + 1
        PROVE  g[k] = IF k = 0 THEN 0 ELSE g[k - 1] + t[k].value
    <3>1. CASE k = n + 1
      <4>1. k # 0 /\ k - 1 = n /\ k - 1 \in 0 .. n + 1 /\ k - 1 # n + 1
        BY <3>1
      <4>2. g[k] = f[n] + t[k].value /\ g[k - 1] = f[n]
        <5>1. g[k - 1] = f[k - 1]
          BY <4>1
        <5> QED
          BY <3>1, <4>1, <5>1
      <4> HIDE DEF g
      <4> QED
        BY <4>1, <4>2
    <3>2. CASE k # n + 1
      <4>1. k \in 0 .. n /\ g[k] = f[k] /\ (k # 0 => k - 1 \in 0 .. n + 1 /\ k - 1 # n + 1 /\ g[k - 1] = f[k - 1])
        BY <3>2
      <4>2. f[k] = IF k = 0 THEN 0 ELSE f[k - 1] + t[k].value
        BY <2>1, <4>1 DEF Summed
      <4> HIDE DEF g
      <4> QED
        BY <4>1, <4>2
    <3> QED
      BY <3>1, <3>2
  <2>3. Summed(t, n + 1, g)
    <3>1. g = [k \in 0 .. n + 1 |-> IF k = 0 THEN 0 ELSE g[k - 1] + t[k].value]
      BY <2>2
    <3> HIDE DEF g
    <3> QED
      BY <3>1 DEF Summed
  <2>4. n + 1 \in 0 .. N
    OBVIOUS
  <2> HIDE DEF g
  <2> QED
    BY <2>3, <2>4
<1>3. 0 .. N \subseteq T
  <2> HIDE DEF T
  <2> QED
    BY <1>1, <1>2, Induction
<1> QED
  BY <1>3

\* Units adds the entries up one by one.
LEMMA UnitsAre ==
  ASSUME NEW t \in Seq(Fields)
  PROVE  \E f : /\ H!Units(t) = f[Len(t)] /\ f[0] = 0
                /\ \A k \in 1 .. Len(t) : f[k] = f[k - 1] + t[k].value
                /\ \A k \in 0 .. Len(t) : f[k] \in Nat
<1> DEFINE f == CHOOSE f : Summed(t, Len(t), f)
<1>0. Len(t) \in Nat
  OBVIOUS
<1>1. Summed(t, Len(t), f)
  BY <1>0, SummedExists
<1>2. H!Units(t) = f[Len(t)]
  BY DEF H!Units, Summed
<1> HIDE DEF f
<1>3. PICK N : N = Len(t) /\ N \in Nat
  BY <1>0
<1>4. /\ 0 \in 0 .. N /\ f[0] = 0
      /\ \A k \in 1 .. N : f[k] = f[k - 1] + t[k].value
  <2>1. \A k \in 0 .. N : f[k] = IF k = 0 THEN 0 ELSE f[k - 1] + t[k].value
    BY <1>1, <1>3 DEF Summed
  <2>2. \A k \in 1 .. N : k \in 0 .. N /\ k # 0
    BY <1>3
  <2> QED
    BY <1>3, <2>1, <2>2
<1>5. \A k \in 1 .. N : t[k].value \in Nat
  <2>1. \A k \in 1 .. N : t[k] \in Fields
    BY <1>3, ElementOfSeq
  <2> QED
    BY <2>1 DEF Fields
<1> DEFINE T == {k \in 0 .. N : f[k] \in Nat}
<1>6. 0 \in T
  BY <1>4
<1>7. ASSUME NEW k \in 0 .. N - 1, k \in T
      PROVE  k + 1 \in T
  <2>1. k + 1 \in 1 .. N /\ (k + 1) - 1 = k /\ k + 1 \in 0 .. N
    BY <1>3
  <2>2. f[k + 1] = f[k] + t[k + 1].value
    BY <1>4, <2>1
  <2> QED
    BY <1>5, <1>7, <2>1, <2>2
<1>8. 0 .. N \subseteq T
  <2> HIDE DEF T
  <2> QED
    BY <1>3, <1>6, <1>7, Induction
<1> QED
  BY <1>2, <1>3, <1>4, <1>8

\* The units of two tables put together.
LEMMA UnitsJoin ==
  ASSUME NEW s \in Seq(Fields), NEW t \in Seq(Fields)
  PROVE  H!Units(s \o t) = H!Units(s) + H!Units(t) /\ H!Units(s) \in Nat /\ H!Units(t) \in Nat
<1>1. PICK u, N, M : u = s \o t /\ N = Len(s) /\ M = Len(t)
  OBVIOUS
<1>2. N \in Nat /\ M \in Nat
  BY <1>1, LenProperties
<1>3. /\ u \in Seq(Fields) /\ Len(u) = N + M
      /\ \A i \in 1 .. N + M : u[i] = IF i <= N THEN s[i] ELSE t[i - N]
  BY <1>1, ConcatProperties
<1>4. PICK f : /\ H!Units(s) = f[N] /\ f[0] = 0
               /\ \A k \in 1 .. N : f[k] = f[k - 1] + s[k].value
               /\ \A k \in 0 .. N : f[k] \in Nat
  BY <1>1, UnitsAre
<1>5. PICK g : /\ H!Units(t) = g[M] /\ g[0] = 0
               /\ \A k \in 1 .. M : g[k] = g[k - 1] + t[k].value
               /\ \A k \in 0 .. M : g[k] \in Nat
  BY <1>1, UnitsAre
<1>6. PICK h : /\ H!Units(u) = h[N + M] /\ h[0] = 0
               /\ \A k \in 1 .. N + M : h[k] = h[k - 1] + u[k].value
  <2>1. PICK h : /\ H!Units(u) = h[Len(u)] /\ h[0] = 0
                 /\ \A k \in 1 .. Len(u) : h[k] = h[k - 1] + u[k].value
    BY <1>3, UnitsAre
  <2>2. Len(u) = N + M
    BY <1>3
  <2> QED
    BY <2>1, <2>2
<1> DEFINE A == {k \in 0 .. N : h[k] = f[k]}
           B == {k \in 0 .. M : h[N + k] = f[N] + g[k]}
<1>7. 0 .. N \subseteq A
  <2>1. 0 \in A
    BY <1>2, <1>4, <1>6
  <2>2. ASSUME NEW k \in 0 .. N - 1, k \in A
        PROVE  k + 1 \in A
    <3>1. PICK j : j = k + 1 /\ j \in 1 .. N /\ j \in 0 .. N /\ j - 1 = k /\ j \in 1 .. N + M /\ j <= N
      BY <1>2
    <3>2. u[j] = s[j]
      BY <1>3, <3>1
    <3>3. h[j] = h[k] + s[j].value /\ f[j] = f[k] + s[j].value
      BY <1>4, <1>6, <3>1, <3>2
    <3> QED
      BY <2>2, <3>1, <3>3
  <2> HIDE DEF A
  <2> QED
    BY <1>2, <2>1, <2>2, Induction
<1>8. h[N] = f[N]
  BY <1>2, <1>7
<1>9. 0 .. M \subseteq B
  <2>1. 0 \in B
    <3>1. N + 0 = N /\ 0 \in 0 .. M /\ f[N] \in Nat /\ N \in 0 .. N
      BY <1>2, <1>4
    <3>2. h[N + 0] = f[N] + g[0]
      BY <1>5, <1>8, <3>1
    <3> QED
      BY <3>1, <3>2
  <2>2. ASSUME NEW k \in 0 .. M - 1, k \in B
        PROVE  k + 1 \in B
    <3>1. PICK j : j = k + 1 /\ j \in 1 .. M /\ j \in 0 .. M /\ j - 1 = k
      BY <1>2
    <3>2. PICK i : i = N + j /\ i \in 1 .. N + M /\ ~(i <= N) /\ i - N = j /\ i - 1 = N + k
      BY <1>2, <3>1
    <3>3. u[i] = t[j]
      BY <1>3, <3>2
    <3>4. h[i] = h[N + k] + t[j].value /\ g[j] = g[k] + t[j].value
      BY <1>5, <1>6, <3>1, <3>2, <3>3
    <3>5. PICK x, y, z : x = f[N] /\ y = g[k] /\ z = t[j].value
      OBVIOUS
    <3>6. x \in Nat /\ y \in Nat /\ z \in Nat
      <4>1. t[j] \in Fields
        BY <1>1, <3>1, ElementOfSeq
      <4>2. N \in 0 .. N /\ k \in 0 .. M
        BY <1>2
      <4> QED
        BY <1>4, <1>5, <3>5, <4>1, <4>2 DEF Fields
    <3>7. h[i] = (x + y) + z /\ g[j] = y + z
      BY <2>2, <3>4, <3>5
    <3>8. h[i] = x + g[j]
      BY <3>6, <3>7
    <3> QED
      BY <3>1, <3>2, <3>5, <3>8
  <2> HIDE DEF B
  <2> QED
    BY <1>2, <2>1, <2>2, Induction
<1>10. h[N + M] = f[N] + g[M]
  BY <1>2, <1>9
<1>11. f[N] \in Nat /\ g[M] \in Nat
  BY <1>2, <1>4, <1>5
<1> QED
  BY <1>1, <1>4, <1>5, <1>6, <1>10, <1>11

\* A table of nothing and a table of one entry.
LEMMA UnitsOfFew ==
  /\ H!Units(<< >>) = 0
  /\ \A f \in Fields : H!Units(<<f>>) = f.value
<1>1. ASSUME NEW t, t = << >>
      PROVE  H!Units(t) = 0
  <2>1. t \in Seq(Fields) /\ Len(t) = 0
    BY <1>1
  <2> QED
    BY <2>1, UnitsAre
<1>2. ASSUME NEW f \in Fields
      PROVE  H!Units(<<f>>) = f.value
  <2>1. PICK t : t = <<f>>
    OBVIOUS
  <2>2. t \in Seq(Fields) /\ Len(t) = 1 /\ t[1] = f
    BY <2>1
  <2>3. PICK g : /\ H!Units(t) = g[Len(t)] /\ g[0] = 0
                 /\ \A k \in 1 .. Len(t) : g[k] = g[k - 1] + t[k].value
    BY <2>2, UnitsAre
  <2>4. g[1] = g[1 - 1] + t[1].value /\ 1 - 1 = 0
    BY <2>2, <2>3
  <2>5. f.value \in Nat
    BY DEF Fields
  <2> QED
    BY <2>1, <2>2, <2>3, <2>4, <2>5
<1> QED
  BY <1>1, <1>2

\* A table cut in two.
LEMMA UnitsCut ==
  ASSUME NEW t \in Seq(Fields), NEW k \in 0 .. Len(t)
  PROVE  /\ SubSeq(t, 1, k) \in Seq(Fields) /\ Len(SubSeq(t, 1, k)) = k
         /\ H!Units(SubSeq(t, 1, k)) \in Nat /\ H!Units(SubSeq(t, k + 1, Len(t))) \in Nat
         /\ H!Units(t) = H!Units(SubSeq(t, 1, k)) + H!Units(SubSeq(t, k + 1, Len(t)))
<1>1. PICK n, a, b : n = Len(t) /\ a = SubSeq(t, 1, k) /\ b = SubSeq(t, k + 1, Len(t))
  OBVIOUS
<1>2. n \in Nat /\ k \in Nat /\ k <= n
  BY <1>1
<1>3. a \in Seq(Fields) /\ Len(a) = k
  <2>1. 1 \in Int /\ k \in Int /\ \A i \in 1 .. k : t[i] \in Fields
    BY <1>1, <1>2, ElementOfSeq
  <2>2. SubSeq(t, 1, k) \in Seq(Fields) /\ Len(SubSeq(t, 1, k)) = (IF 1 <= k THEN k - 1 + 1 ELSE 0)
    BY <2>1, SubSeqProperties
  <2> QED
    BY <1>1, <1>2, <2>2
<1>4. b \in Seq(Fields)
  <2>1. PICK c : c = k + 1
    OBVIOUS
  <2>2. c \in Int /\ n \in Int /\ \A i \in c .. n : i \in 1 .. n
    BY <1>2, <2>1
  <2>3. \A i \in c .. n : t[i] \in Fields
    BY <1>1, <2>2, ElementOfSeq
  <2>4. SubSeq(t, c, n) \in Seq(Fields)
    BY <2>2, <2>3, SubSeqProperties
  <2> QED
    BY <1>1, <2>1, <2>4
<1>5. a \o b = t
  <2>1. 1 \in 1 .. Len(t) + 1 /\ k \in 1 - 1 .. Len(t) /\ n \in k .. Len(t)
    BY <1>1, <1>2
  <2>2. SubSeq(t, 1, k) \o SubSeq(t, k + 1, n) = SubSeq(t, 1, n)
    BY <2>1, ConcatAdjacentSubSeq
  <2>3. SubSeq(t, 1, n) = t
    BY <1>1, SubSeqFull
  <2> QED
    BY <1>1, <2>2, <2>3
<1>6. H!Units(a \o b) = H!Units(a) + H!Units(b) /\ H!Units(a) \in Nat /\ H!Units(b) \in Nat
  BY <1>3, <1>4, UnitsJoin
<1> QED
  BY <1>1, <1>3, <1>5, <1>6

-----------------------------------------------------------------------------
(* Eviction.                                                               *)

\* The greatest of some numbers up to n.
LEMMA MaxIn ==
  ASSUME NEW n \in Nat, NEW S, S \subseteq 0 .. n, S # {}
  PROVE  H!Max(S) \in S
<1> DEFINE T == {k \in 0 .. n : n - k \in S}
<1>1. T \subseteq Nat
  OBVIOUS
<1>2. T # {}
  <2>1. PICK x : x \in S
    OBVIOUS
  <2>2. n - x \in 0 .. n /\ n - (n - x) = x
    BY <2>1
  <2> QED
    BY <2>1, <2>2
<1>3. PICK a \in T : \A b \in T : a <= b
  <2> HIDE DEF T
  <2> QED
    BY <1>1, <1>2, LeastNumber
<1>4. n - a \in S
  BY <1>3
<1>5. ASSUME NEW y \in S
      PROVE  n - a >= y
  <2>1. n - y \in 0 .. n /\ n - (n - y) = y
    OBVIOUS
  <2>2. n - y \in T
    BY <2>1
  <2>3. y \in 0 .. n /\ a \in 0 .. n
    BY <1>3
  <2> HIDE DEF T
  <2>4. a <= n - y
    BY <1>3, <2>2
  <2> QED
    BY <2>3, <2>4
<1>6. \E x \in S : \A y \in S : x >= y
  BY <1>4, <1>5
<1> QED
  BY <1>6 DEF H!Max

Decoders == [table : Seq(Fields), used : Nat, cap : Nat]

\* The decoder's count is the size of its entries.
Sound(h) == h \in Decoders /\ h.used = H!Units(h.table)

\* How many of the newest entries take at most room.
Fits(t, room) == {k \in 0 .. Len(t) : H!Units(SubSeq(t, 1, k)) <= room}

\* What fits is a table.
LEMMA FittingIs ==
  ASSUME NEW t \in Seq(Fields), NEW room \in Nat
  PROVE  /\ H!Fitting(t, room) = SubSeq(t, 1, H!Max(Fits(t, room)))
         /\ H!Max(Fits(t, room)) \in 0 .. Len(t) /\ H!Units(SubSeq(t, 1, H!Max(Fits(t, room)))) <= room
         /\ H!Fitting(t, room) \in Seq(Fields)
<1>1. PICK S : S = Fits(t, room)
  OBVIOUS
<1>2. H!Fitting(t, room) = SubSeq(t, 1, H!Max(S))
  BY <1>1 DEF H!Fitting, Fits
<1>3. S \subseteq 0 .. Len(t) /\ \A k \in S : H!Units(SubSeq(t, 1, k)) <= room
  BY <1>1 DEF Fits
<1>4. 0 \in S
  <2>1. 0 \in 0 .. Len(t)
    OBVIOUS
  <2>2. SubSeq(t, 1, 0) = << >>
    <3>1. SubSeq(t, 1, 0) \in Seq(Fields) /\ Len(SubSeq(t, 1, 0)) = 0
      BY <2>1, UnitsCut
    <3> QED
      BY <3>1, EmptySeq
  <2>3. H!Units(SubSeq(t, 1, 0)) = 0
    BY <2>2, UnitsOfFew, Zenon
  <2>4. H!Units(SubSeq(t, 1, 0)) <= room
    BY <2>3
  <2> QED
    BY <1>1, <2>1, <2>4 DEF Fits
<1>5. H!Max(S) \in S
  <2>1. Len(t) \in Nat
    OBVIOUS
  <2> QED
    BY <1>3, <1>4, <2>1, MaxIn
<1>6. SubSeq(t, 1, H!Max(S)) \in Seq(Fields)
  BY <1>3, <1>5, UnitsCut
<1> QED
  BY <1>1, <1>2, <1>3, <1>5, <1>6

\* Evicting for an entry of the given size leaves what fits next to it.
LEMMA DroppedIs ==
  ASSUME NEW h, Sound(h), NEW n \in Nat
  PROVE  /\ Sound(H!Dropped(h, n)) /\ H!Dropped(h, n).cap = h.cap
         /\ H!Kept(h, n) \in 0 .. Len(h.table)
         /\ H!Dropped(h, n).table = SubSeq(h.table, 1, H!Kept(h, n))
         /\ H!Dropped(h, n).table = << >> \/ H!Dropped(h, n).used + n <= h.cap
         /\ n <= h.cap => /\ H!Kept(h, n) = H!Max(Fits(h.table, h.cap - n))
                          /\ H!Dropped(h, n).table = H!Fitting(h.table, h.cap - n)
<1>1. PICK t, u, c, l : t = h.table /\ u = h.used /\ c = h.cap /\ l = Len(t)
  OBVIOUS
<1>2. t \in Seq(Fields) /\ u \in Nat /\ c \in Nat /\ l \in Nat /\ u = H!Units(t) /\ h \in Decoders
  BY <1>1 DEF Sound, Decoders
<1> DEFINE stay == {k \in 0 .. l : k = 0 \/ (u - H!Units(SubSeq(t, k + 1, l))) + n <= c}
<1>3. H!Kept(h, n) = H!Max(stay)
  BY <1>1 DEF H!Kept
<1>4. ASSUME NEW k \in 0 .. l
      PROVE  /\ H!Units(SubSeq(t, 1, k)) \in Nat /\ u - H!Units(SubSeq(t, k + 1, l)) = H!Units(SubSeq(t, 1, k))
             /\ SubSeq(t, 1, k) \in Seq(Fields) /\ Len(SubSeq(t, 1, k)) = k
  <2>1. PICK a, b : a = H!Units(SubSeq(t, 1, k)) /\ b = H!Units(SubSeq(t, k + 1, l))
    OBVIOUS
  <2>2. a \in Nat /\ b \in Nat /\ u = a + b /\ SubSeq(t, 1, k) \in Seq(Fields) /\ Len(SubSeq(t, 1, k)) = k
    BY <1>1, <1>2, <2>1, UnitsCut
  <2>3. u - b = a
    BY <2>2
  <2> QED
    BY <2>1, <2>2, <2>3
<1>5. stay = {k \in 0 .. l : k = 0 \/ H!Units(SubSeq(t, 1, k)) + n <= c}
  BY <1>4
<1>6. PICK m : m = H!Max(stay)
  OBVIOUS
<1>7. m \in 0 .. l /\ (m = 0 \/ H!Units(SubSeq(t, 1, m)) + n <= c)
  <2>1. stay \subseteq 0 .. l /\ stay # {}
    BY <1>2
  <2> HIDE DEF stay
  <2>2. m \in stay
    BY <1>2, <1>6, <2>1, MaxIn
  <2> QED
    BY <1>5, <2>2
<1>8. PICK d : d = H!Dropped(h, n)
  OBVIOUS
<1>9. d = [h EXCEPT !.table = SubSeq(@, 1, m), !.used = @ - H!Units(SubSeq(t, m + 1, l))]
  BY <1>1, <1>3, <1>6, <1>8 DEF H!Dropped
<1>10. d.table = SubSeq(t, 1, m) /\ d.used = u - H!Units(SubSeq(t, m + 1, l)) /\ d.cap = c
  BY <1>1, <1>2, <1>9 DEF Decoders
<1>11. d.used = H!Units(d.table) /\ d.table \in Seq(Fields) /\ d.used \in Nat
  BY <1>4, <1>7, <1>10
<1>12. d \in Decoders
  <2>1. d = [table |-> d.table, used |-> d.used, cap |-> d.cap]
    BY <1>2, <1>9 DEF Decoders
  <2> QED
    BY <1>2, <1>10, <1>11, <2>1 DEF Decoders
<1>13. d.table = << >> \/ d.used + n <= c
  <2>1. CASE m = 0
    <3>1. Len(d.table) = 0
      BY <1>4, <1>7, <1>10, <2>1
    <3> QED
      BY <1>11, <3>1, EmptySeq
  <2>2. CASE m # 0
    BY <1>7, <1>10, <1>11, <2>2
  <2> QED
    BY <2>1, <2>2
<1>14. ASSUME n <= c
       PROVE  stay = Fits(t, c - n)
  <2>1. ASSUME NEW k \in 0 .. l
        PROVE  (k = 0 \/ H!Units(SubSeq(t, 1, k)) + n <= c) <=> H!Units(SubSeq(t, 1, k)) <= c - n
    <3>1. PICK a : a = H!Units(SubSeq(t, 1, k)) /\ a \in Nat
      BY <1>4
    <3>2. (a + n <= c) <=> (a <= c - n)
      BY <1>2, <3>1
    <3>3. k = 0 => a <= c - n
      <4>1. ASSUME k = 0 PROVE a = 0
        <5>1. SubSeq(t, 1, k) = << >>
          BY <1>4, <4>1, EmptySeq
        <5> QED
          BY <3>1, <5>1, UnitsOfFew
      <4> QED
        BY <1>2, <1>14, <4>1
    <3> QED
      BY <3>1, <3>2, <3>3
  <2> QED
    BY <1>1, <1>5, <2>1 DEF Fits
<1>15. ASSUME n <= c
       PROVE  m = H!Max(Fits(t, c - n)) /\ d.table = H!Fitting(t, c - n)
  <2>1. c - n \in Nat
    BY <1>2, <1>15
  <2>2. H!Fitting(t, c - n) = SubSeq(t, 1, H!Max(Fits(t, c - n)))
    BY <1>2, <2>1, FittingIs
  <2> HIDE DEF stay
  <2> QED
    BY <1>6, <1>10, <1>14, <1>15, <2>2
<1> HIDE DEF stay
<1>16. Sound(d)
  BY <1>11, <1>12 DEF Sound
<1> QED
  BY <1>1, <1>3, <1>6, <1>7, <1>8, <1>10, <1>13, <1>15, <1>16

\* The count is within the capacity, but for the one entry of a table without room.
Within(h) == h.used <= h.cap \/ (h.cap = 0 /\ Len(h.table) = 1)

\* What an insertion makes of the decoder's table.
LEMMA InsertIs ==
  ASSUME NEW h, Sound(h), NEW f \in Fields, f.value # 0
  PROVE  /\ Sound(H!hp_dyn_insert(h, f)) /\ H!hp_dyn_insert(h, f).cap = h.cap
         /\ Within(h) => Within(H!hp_dyn_insert(h, f))
         /\ h.cap # 0 /\ f.value > h.cap => H!hp_dyn_insert(h, f) = h
         /\ f.value <= h.cap => H!hp_dyn_insert(h, f).table = <<f>> \o H!Fitting(h.table, h.cap - f.value)
<1>1. PICK g, d, v, c : g = H!hp_dyn_insert(h, f) /\ d = H!Dropped(h, f.value) /\ v = f.value /\ c = h.cap
  OBVIOUS
<1>2. v \in Nat /\ v # 0 /\ c \in Nat
  BY <1>1 DEF Fields, Sound, Decoders
<1>3. CASE c # 0 /\ v > c
  <2>1. g = h
    BY <1>1, <1>3 DEF H!hp_dyn_insert
  <2>2. ~(v <= c)
    BY <1>2, <1>3
  <2> QED
    BY <1>1, <2>1, <2>2
<1>4. CASE ~(c # 0 /\ v > c)
  <2>1. g = [d EXCEPT !.table = <<f>> \o @, !.used = @ + v]
    BY <1>1, <1>4 DEF H!hp_dyn_insert
  <2>2. /\ Sound(d) /\ d.cap = c /\ (d.table = << >> \/ d.used + v <= c)
        /\ v <= c => d.table = H!Fitting(h.table, c - v)
    BY <1>1, <1>2, DroppedIs
  <2>3. d \in Decoders /\ d.table \in Seq(Fields) /\ d.used \in Nat /\ d.used = H!Units(d.table)
    BY <2>2 DEF Sound, Decoders
  <2>4. g.table = <<f>> \o d.table /\ g.used = d.used + v /\ g.cap = c
    BY <2>1, <2>2, <2>3 DEF Decoders
  <2>5. PICK s, t : s = <<f>> /\ t = d.table
    OBVIOUS
  <2>6. s \in Seq(Fields) /\ Len(s) = 1
    BY <2>5
  <2>7. H!Units(s) = v
    BY <1>1, <2>5, UnitsOfFew
  <2>8. H!Units(s \o t) = H!Units(s) + H!Units(t) /\ H!Units(t) \in Nat
    BY <2>3, <2>5, <2>6, UnitsJoin
  <2>9. s \o t \in Seq(Fields) /\ Len(s \o t) = Len(s) + Len(t)
    BY <2>3, <2>5, <2>6, ConcatProperties
  <2>10. g.table \in Seq(Fields) /\ g.used \in Nat /\ g.used = H!Units(g.table)
    <3>1. g.table = s \o t /\ d.used = H!Units(t)
      BY <2>3, <2>4, <2>5
    <3>2. g.used = H!Units(s) + H!Units(t)
      BY <1>2, <2>4, <2>7, <2>8, <3>1
    <3> QED
      BY <1>2, <2>7, <2>8, <2>9, <3>1, <3>2
  <2>11. Sound(g)
    <3>1. g = [table |-> g.table, used |-> g.used, cap |-> g.cap]
      BY <2>1, <2>3 DEF Decoders
    <3>2. g \in Decoders
      BY <1>2, <2>4, <2>10, <3>1 DEF Decoders
    <3> QED
      BY <2>10, <3>2 DEF Sound
  <2>12. Within(g)
    <3>1. CASE d.table = << >>
      <4>1. d.used = 0
        BY <2>3, <3>1, UnitsOfFew
      <4>2. Len(g.table) = 1
        BY <2>4, <2>5, <2>6, <2>9, <3>1
      <4>3. g.used = v
        BY <1>2, <2>4, <4>1
      <4>4. c = 0 \/ v <= c
        BY <1>2, <1>4
      <4> QED
        BY <2>4, <4>2, <4>3, <4>4 DEF Within
    <3>2. CASE d.used + v <= c
      BY <2>4, <3>2 DEF Within
    <3> QED
      BY <2>2, <3>1, <3>2
  <2>13. v <= c => g.table = <<f>> \o H!Fitting(h.table, c - v)
    BY <2>2, <2>4
  <2> QED
    BY <1>1, <1>4, <2>4, <2>11, <2>12, <2>13
<1> QED
  BY <1>3, <1>4

\* What a smaller capacity makes of it.
LEMMA ShrinkIs ==
  ASSUME NEW h, Sound(h), NEW n \in Nat
  PROVE  /\ Sound(H!hp_shrink_to(h, n)) /\ H!hp_shrink_to(h, n).cap = n /\ Within(H!hp_shrink_to(h, n))
         /\ H!hp_shrink_to(h, n).table = H!Fitting(h.table, n)
<1>1. PICK g, d : g = [h EXCEPT !.cap = n] /\ d = H!hp_shrink_to(h, n)
  OBVIOUS
<1>2. h \in Decoders /\ h.used = H!Units(h.table)
  BY DEF Sound
<1>3. g.table = h.table /\ g.used = h.used /\ g.cap = n /\ g \in Decoders
  BY <1>1, <1>2 DEF Decoders
<1>4. Sound(g)
  BY <1>2, <1>3 DEF Sound
<1>5. d = H!Dropped(g, 0)
  BY <1>1 DEF H!hp_shrink_to
<1>6. PICK z : z = 0 /\ z \in Nat /\ z <= n /\ n - z = n
  OBVIOUS
<1>7. /\ Sound(d) /\ d.cap = n /\ (d.table = << >> \/ d.used + z <= n)
      /\ d.table = H!Fitting(g.table, n - z)
  BY <1>3, <1>4, <1>5, <1>6, DroppedIs
<1>8. d.used \in Nat /\ d.used = H!Units(d.table)
  BY <1>7 DEF Sound, Decoders
<1>9. d.used <= n
  <2>1. CASE d.table = << >>
    <3>1. d.used = 0
      BY <1>8, <2>1, UnitsOfFew
    <3> QED
      BY <3>1
  <2>2. CASE d.used + z <= n
    BY <1>6, <1>8, <2>2
  <2> QED
    BY <1>7, <2>1, <2>2
<1>10. d.table = H!Fitting(h.table, n) /\ Within(d)
  BY <1>3, <1>6, <1>7, <1>9 DEF Within
<1> QED
  BY <1>1, <1>7, <1>10

-----------------------------------------------------------------------------
(***************************************************************************)
(* The HPACK decoder against its encoder.                                  *)
(***************************************************************************)
HInv ==
  /\ enc \in [table : Seq(Fields), cap : Nat]
  /\ Sound(hp) /\ Within(hp)
  /\ beyond = {} => hp.cap # 0
  /\ TablesInSync

\* An entry goes into both tables.  The decoder takes its name from storage that may
\* have been freed, unless nothing was done that it does not follow.
LEMMA Inserting ==
  ASSUME HInv, NEW f \in Fields, NEW g \in Fields, f.value = g.value, f.value # 0,
         enc' = H!EncInsert(enc, f), hp' = H!hp_dyn_insert(hp, g), beyond \subseteq beyond',
         beyond' = {} => f = g /\ (f.value > enc.cap => enc.table = << >>)
  PROVE  /\ enc' \in [table : Seq(Fields), cap : Nat] /\ Sound(hp') /\ Within(hp')
         /\ beyond' = {} => hp'.cap # 0 /\ hp'.table = enc'.table /\ hp'.cap = enc'.cap
<1>1. PICK t, c, v : t = enc.table /\ c = enc.cap /\ v = f.value
  OBVIOUS
<1>2. t \in Seq(Fields) /\ c \in Nat /\ v \in Nat /\ v # 0 /\ enc \in [table : Seq(Fields), cap : Nat]
  BY <1>1 DEF HInv, Fields
<1>3. Sound(hp') /\ Within(hp') /\ hp'.cap = hp.cap
  BY InsertIs DEF HInv
<1>4. CASE v > c
  <2>1. enc' = [enc EXCEPT !.table = << >>]
    BY <1>1, <1>4 DEF H!EncInsert
  <2>2. enc'.table = << >> /\ enc'.cap = c /\ enc' \in [table : Seq(Fields), cap : Nat]
    <3>1. PICK e : e = << >> /\ e \in Seq(Fields)
      BY EmptySeq
    <3>2. enc' = [enc EXCEPT !.table = e]
      BY <2>1, <3>1
    <3>3. enc'.table = e /\ enc'.cap = c /\ enc' \in [table : Seq(Fields), cap : Nat]
      BY <1>1, <1>2, <3>1, <3>2
    <3> QED
      BY <3>1, <3>3
  <2>3. ASSUME beyond' = {}
        PROVE  hp'.cap # 0 /\ hp'.table = enc'.table /\ hp'.cap = enc'.cap
    <3>1. beyond = {}
      BY <2>3
    <3>2. hp.table = enc.table /\ hp.cap = enc.cap /\ hp.cap # 0 /\ enc.table = << >>
      BY <1>1, <1>4, <2>3, <3>1 DEF HInv, TablesInSync, H!TablesInSync
    <3>3. hp' = hp
      BY <1>1, <1>4, <3>2, InsertIs DEF HInv
    <3> QED
      BY <1>1, <2>2, <3>2, <3>3
  <2> QED
    BY <1>3, <2>2, <2>3
<1>5. CASE ~(v > c)
  <2>1. PICK k : k = H!Fitting(t, c - v)
    OBVIOUS
  <2>2. c - v \in Nat /\ v <= c
    BY <1>2, <1>5
  <2>3. k \in Seq(Fields)
    BY <1>2, <2>1, <2>2, FittingIs
  <2>4. enc' = [enc EXCEPT !.table = <<f>> \o k]
    BY <1>1, <1>5, <2>1 DEF H!EncInsert
  <2>5. <<f>> \o k \in Seq(Fields)
    BY <2>3, ConcatProperties
  <2>6. enc'.table = <<f>> \o k /\ enc'.cap = c /\ enc' \in [table : Seq(Fields), cap : Nat]
    BY <1>1, <1>2, <2>4, <2>5
  <2>7. ASSUME beyond' = {}
        PROVE  hp'.cap # 0 /\ hp'.table = enc'.table /\ hp'.cap = enc'.cap
    <3>1. beyond = {} /\ f = g
      BY <2>7
    <3>2. hp.table = enc.table /\ hp.cap = enc.cap /\ hp.cap # 0
      BY <3>1 DEF HInv, TablesInSync, H!TablesInSync
    <3>3. hp'.table = <<f>> \o H!Fitting(hp.table, hp.cap - f.value)
      <4>1. f.value <= hp.cap
        BY <1>1, <2>2, <3>2
      <4> QED
        BY <3>1, <4>1, InsertIs DEF HInv
    <3> QED
      BY <1>1, <1>3, <2>1, <2>6, <3>2, <3>3
  <2> QED
    BY <1>3, <2>6, <2>7
<1> QED
  BY <1>4, <1>5

\* The table a client's indices run over.
LEMMA IndexedIs ==
  ASSUME NEW t \in Seq(Fields)
  PROVE  /\ H!Indexed(t) \in Seq(Fields) /\ Len(H!Indexed(t)) = 1 + Len(t) /\ Len(H!Static) = 1
         /\ \A i \in 1 .. Len(H!Indexed(t)) :
              /\ H!Indexed(t)[i] \in Fields /\ H!Indexed(t)[i].name \in Names \cup {"static", "none", "freed"}
<1>1. PICK f : f = H!Field("static", 1)
  OBVIOUS
<1>2. f \in Fields
  BY <1>1 DEF H!Field, Fields
<1>3. PICK s, u : s = H!Static /\ u = H!Indexed(t)
  OBVIOUS
<1>4. s = <<f>> /\ u = s \o t
  BY <1>1, <1>3 DEF H!Static, H!Indexed
<1>5. s \in Seq(Fields) /\ Len(s) = 1
  BY <1>2, <1>4
<1>6. u \in Seq(Fields) /\ Len(u) = Len(s) + Len(t)
  BY <1>4, <1>5, ConcatProperties
<1>7. \A i \in 1 .. Len(u) : u[i] \in Fields
  BY <1>6, ElementOfSeq
<1>8. \A i \in 1 .. Len(u) : u[i].name \in Names \cup {"static", "none", "freed"}
  BY <1>7 DEF Fields
<1> QED
  BY <1>3, <1>5, <1>6, <1>7, <1>8

\* What the invariant says of a state in which nothing was done that the decoder does
\* not follow.
LEMMA Mirrored ==
  ASSUME HInv, beyond = {}
  PROVE  /\ hp.table = enc.table /\ hp.cap = enc.cap /\ hp.cap # 0
         /\ \A i \in 1 .. Len(H!Indexed(enc.table)) : H!Found(hp, i) /\ H!hp_lookup(hp, i) = H!Indexed(enc.table)[i]
<1>1. hp.table = enc.table /\ hp.cap = enc.cap /\ hp.cap # 0
  BY DEF HInv, TablesInSync, H!TablesInSync
<1> QED
  BY <1>1 DEF H!Found, H!hp_lookup

\* A step that leaves the tables alone.
LEMMA Reading ==
  ASSUME HInv, enc' = enc, hp' = hp, beyond' = beyond,
         beyond = {} => field'[1] = field'[2] /\ dead' # "legal"
  PROVE  HInv'
<1>1. beyond = {} => hp.table = enc.table /\ hp.cap = enc.cap
  BY Mirrored
<1>2. TablesInSync'
  BY <1>1 DEF TablesInSync, H!TablesInSync
<1> QED
  BY <1>2 DEF HInv, Sound, Within

\* The verdict of the last field, and that of the block.
LEMMA Verdict ==
  ASSUME HInv, beyond = {}
  PROVE  field[1] = field[2] /\ dead # "legal"
BY DEF HInv, TablesInSync, H!TablesInSync

\* An indexed field.
LEMMA SendIndexedKeeps ==
  ASSUME HInv, NEW i, H!SendIndexed(i)
  PROVE  HInv'
<1>1. /\ i \in 1 .. Len(H!Indexed(enc.table)) /\ enc' = enc /\ beyond' = beyond /\ dead = "no"
      /\ IF H!Found(hp, i) THEN H!Decodes(H!Indexed(enc.table)[i], H!hp_lookup(hp, i), hp) ELSE H!Fails("legal")
  BY DEF H!SendIndexed, H!Step
<1>2. hp' = hp
  BY <1>1 DEF H!Decodes, H!Fails
<1>3. ASSUME beyond = {}
      PROVE  field'[1] = field'[2] /\ dead' # "legal"
  <2>1. H!Found(hp, i) /\ H!hp_lookup(hp, i) = H!Indexed(enc.table)[i]
    BY <1>1, <1>3, Mirrored
  <2>2. H!Decodes(H!Indexed(enc.table)[i], H!Indexed(enc.table)[i], hp)
    BY <1>1, <2>1
  <2> QED
    BY <1>1, <2>2 DEF H!Decodes
<1> QED
  BY <1>1, <1>2, <1>3, Reading

\* A literal that stays out of the tables.
LEMMA SendPlainKeeps ==
  ASSUME HInv, NEW i, NEW v, H!SendPlain(i, v)
  PROVE  HInv'
<1> DEFINE told == H!Field(H!Indexed(enc.table)[i].name, v)
           got  == H!Field(H!hp_lookup(hp, i).name, v)
<1>1. /\ i \in 1 .. Len(H!Indexed(enc.table)) /\ enc' = enc /\ beyond' = beyond /\ dead = "no"
      /\ IF H!Found(hp, i) THEN H!Decodes(told, got, hp) ELSE H!Fails("legal")
  BY DEF H!SendPlain, H!Step
<1>2. hp' = hp
  BY <1>1 DEF H!Decodes, H!Fails
<1>3. ASSUME beyond = {}
      PROVE  field'[1] = field'[2] /\ dead' # "legal"
  <2>1. H!Found(hp, i) /\ H!hp_lookup(hp, i) = H!Indexed(enc.table)[i]
    BY <1>1, <1>3, Mirrored
  <2>2. H!Decodes(told, told, hp)
    BY <1>1, <2>1
  <2> QED
    BY <1>1, <2>2 DEF H!Decodes
<1> QED
  BY <1>1, <1>2, <1>3, Reading

\* The same with a name of its own.
LEMMA SendPlainNewKeeps ==
  ASSUME HInv, NEW n, NEW v, H!SendPlainNew(n, v)
  PROVE  HInv'
<1>1. enc' = enc /\ beyond' = beyond /\ hp' = hp /\ dead' = dead /\ field' = <<H!Field(n, v), H!Field(n, v)>>
  BY DEF H!SendPlainNew, H!Decodes
<1> QED
  BY <1>1, Reading, Verdict

\* The end of a block.
LEMMA BlockEndsKeeps ==
  ASSUME HInv, H!BlockEnds
  PROVE  HInv'
<1>1. enc' = enc /\ beyond' = beyond /\ hp' = hp /\ dead' = dead /\ field' = field
  BY DEF H!BlockEnds
<1> QED
  BY <1>1, Reading, Verdict

\* A block that is refused for what the client did.
LEMMA SendIllegalKeeps ==
  ASSUME HInv, H!SendIllegal
  PROVE  HInv'
<1>1. enc' = enc /\ beyond' = beyond /\ hp' = hp /\ dead' = "illegal" /\ field' = field
  BY DEF H!SendIllegal, H!Fails
<1> QED
  BY <1>1, Reading, Verdict

\* An invariant of tables that agree, put together.
LEMMA Agreeing ==
  ASSUME enc' \in [table : Seq(Fields), cap : Nat], Sound(hp'), Within(hp'),
         beyond' = {} => /\ hp'.cap # 0 /\ hp'.table = enc'.table /\ hp'.cap = enc'.cap
                         /\ field'[1] = field'[2] /\ dead' # "legal"
  PROVE  HInv'
<1>1. TablesInSync'
  BY DEF TablesInSync, H!TablesInSync
<1> QED
  BY <1>1 DEF HInv, Sound, Within

\* What the encoder's table becomes.
LEMMA EncInsertIs ==
  ASSUME HInv, NEW f \in Fields, f.value # 0
  PROVE  /\ H!EncInsert(enc, f) \in [table : Seq(Fields), cap : Nat]
         /\ f.value <= enc.cap => Len(H!EncInsert(enc, f).table) = 1 + H!Max(Fits(enc.table, enc.cap - f.value))
<1>1. PICK t, c, v, e : t = enc.table /\ c = enc.cap /\ v = f.value /\ e = H!EncInsert(enc, f)
  OBVIOUS
<1>2. t \in Seq(Fields) /\ c \in Nat /\ v \in Nat /\ v # 0 /\ enc \in [table : Seq(Fields), cap : Nat]
  BY <1>1 DEF HInv, Fields
<1>3. CASE v > c
  <2>1. PICK x : x = << >> /\ x \in Seq(Fields)
    BY EmptySeq
  <2>2. e = [enc EXCEPT !.table = x]
    BY <1>1, <1>3, <2>1 DEF H!EncInsert
  <2>3. e \in [table : Seq(Fields), cap : Nat]
    BY <1>2, <2>1, <2>2
  <2>4. ~(v <= c)
    BY <1>2, <1>3
  <2> QED
    BY <1>1, <2>3, <2>4
<1>4. CASE ~(v > c)
  <2>1. PICK k, r, m : r = c - v /\ k = H!Fitting(t, r) /\ m = H!Max(Fits(t, r))
    OBVIOUS
  <2>2. r \in Nat
    BY <1>2, <1>4, <2>1
  <2>3. k \in Seq(Fields) /\ k = SubSeq(t, 1, m) /\ m \in 0 .. Len(t)
    BY <1>2, <2>1, <2>2, FittingIs
  <2>4. Len(k) = m
    BY <1>2, <2>3, UnitsCut
  <2>5. e = [enc EXCEPT !.table = <<f>> \o k]
    BY <1>1, <1>4, <2>1 DEF H!EncInsert
  <2>6. PICK s : s = <<f>> /\ s \in Seq(Fields) /\ Len(s) = 1
    <3>1. PICK s : s = <<f>>
      OBVIOUS
    <3>2. s \in Seq(Fields) /\ Len(s) = 1
      BY <3>1
    <3> QED
      BY <3>1, <3>2
  <2>7. s \o k \in Seq(Fields) /\ Len(s \o k) = Len(s) + Len(k)
    BY <2>3, <2>6, ConcatProperties
  <2>8. e \in [table : Seq(Fields), cap : Nat] /\ e.table = s \o k
    BY <1>2, <2>5, <2>6, <2>7
  <2>9. Len(e.table) = 1 + m
    BY <2>4, <2>6, <2>7, <2>8
  <2> QED
    BY <1>1, <2>1, <2>8, <2>9
<1> QED
  BY <1>3, <1>4

\* A literal both sides add, with a name of its own.
LEMMA SendIndexingNewKeeps ==
  ASSUME HInv, NEW n \in Names, NEW v \in Sizes, H!SendIndexingNew(n, v)
  PROVE  HInv'
<1>1. PICK f : f = H!Field(n, v)
  OBVIOUS
<1>2. f \in Fields /\ f.value = v /\ f.value # 0
  BY <1>1, Bounds DEF H!Field, Fields
<1>3. /\ enc' = H!EncInsert(enc, f) /\ hp' = H!hp_dyn_insert(hp, f) /\ dead' = dead /\ dead = "no"
      /\ field' = <<f, f>>
      /\ beyond' = beyond \cup (IF v > enc.cap /\ enc.table # << >> THEN {"too big"} ELSE {})
  BY <1>1 DEF H!SendIndexingNew, H!Decodes, H!Step
<1>4. beyond \subseteq beyond' /\ (beyond' = {} => (v > enc.cap => enc.table = << >>))
  BY <1>3
<1>5. /\ enc' \in [table : Seq(Fields), cap : Nat] /\ Sound(hp') /\ Within(hp')
      /\ beyond' = {} => hp'.cap # 0 /\ hp'.table = enc'.table /\ hp'.cap = enc'.cap
  <2>1. beyond' = {} => f = f /\ (f.value > enc.cap => enc.table = << >>)
    BY <1>2, <1>4
  <2> QED
    BY <1>2, <1>3, <1>4, <2>1, Inserting
<1>6. field'[1] = field'[2] /\ dead' # "legal"
  BY <1>3
<1> QED
  BY <1>5, <1>6, Agreeing

\* A literal both sides add, with the name of an entry: what the decoder does not
\* follow is the entry that this insertion evicts.
LEMMA SendIndexingKeeps ==
  ASSUME HInv, NEW i, NEW v \in Sizes, H!SendIndexing(i, v)
  PROVE  HInv'
<1>1. PICK f, x : f = H!Field(H!Indexed(enc.table)[i].name, v) /\ x = H!EncInsert(enc, f)
  OBVIOUS
<1>2. i \in 1 .. Len(H!Indexed(enc.table)) /\ dead = "no"
  BY DEF H!SendIndexing, H!Step
<1>3. /\ enc' = x
      /\ beyond' = beyond \cup (IF v > enc.cap /\ enc.table # << >> THEN {"too big"} ELSE {})
                          \cup (IF i >= Len(H!Static) + Len(x.table) /\ i > Len(H!Static)
                                THEN {"own name"} ELSE {})
      /\ IF H!Found(hp, i)
         THEN \E n \in H!NamesLeft(i, v) :
                H!Decodes(f, H!Field(H!hp_lookup(hp, i).name, v), H!hp_dyn_insert(hp, H!Field(n, v)))
         ELSE H!Fails("legal")
  BY <1>1 DEF H!SendIndexing
<1>4. PICK t, c : t = enc.table /\ c = enc.cap
  OBVIOUS
<1>5. t \in Seq(Fields) /\ c \in Nat /\ v \in Nat /\ v # 0
  BY <1>4, Bounds DEF HInv
<1>6. /\ Len(H!Indexed(t)) = 1 + Len(t) /\ Len(H!Static) = 1 /\ i \in 1 .. Len(H!Indexed(t))
      /\ H!Indexed(t)[i].name \in Names \cup {"static", "none", "freed"}
  BY <1>2, <1>4, <1>5, IndexedIs
<1>7. f \in Fields /\ f.value = v
  BY <1>1, <1>4, <1>5, <1>6 DEF H!Field, Fields
<1>8. /\ beyond \subseteq beyond'
      /\ beyond' = {} => /\ beyond = {} /\ (v > c => t = << >>)
                         /\ ~(i >= 1 + Len(x.table) /\ i > 1)
  BY <1>3, <1>4, <1>6
<1>9. x \in [table : Seq(Fields), cap : Nat] /\ (v <= c => Len(x.table) = 1 + H!Max(Fits(t, c - v)))
  BY <1>1, <1>4, <1>5, <1>7, EncInsertIs
<1>10. CASE ~H!Found(hp, i)
  <2>1. hp' = hp /\ beyond # {}
    BY <1>2, <1>3, <1>10, Mirrored DEF H!Fails
  <2>2. beyond' # {}
    BY <1>8, <2>1
  <2>3. Sound(hp) /\ Within(hp)
    BY DEF HInv
  <2> QED
    BY <1>3, <1>9, <2>1, <2>2, <2>3, Agreeing
<1>11. CASE H!Found(hp, i)
  <2>1. PICK n \in H!NamesLeft(i, v) :
          H!Decodes(f, H!Field(H!hp_lookup(hp, i).name, v), H!hp_dyn_insert(hp, H!Field(n, v)))
    BY <1>3, <1>11
  <2>2. PICK g, w : g = H!Field(n, v) /\ w = H!hp_lookup(hp, i)
    OBVIOUS
  <2>3. field' = <<f, H!Field(w.name, v)>> /\ hp' = H!hp_dyn_insert(hp, g) /\ dead' = dead
    BY <2>1, <2>2 DEF H!Decodes
  <2>4. n \in {w.name, "freed"}
    BY <2>2 DEF H!NamesLeft, H!Garbage
  <2>5. w.name \in Names \cup {"static", "none", "freed"}
    <3>1. hp.table \in Seq(Fields)
      BY DEF HInv, Sound, Decoders
    <3>2. i \in 1 .. Len(H!Indexed(hp.table)) /\ w = H!Indexed(hp.table)[i]
      BY <1>11, <2>2 DEF H!Found, H!hp_lookup
    <3> QED
      BY <3>1, <3>2, IndexedIs
  <2>6. g \in Fields /\ g.value = v
    <3>1. n \in Names \cup {"static", "none", "freed"}
      BY <2>4, <2>5
    <3> QED
      BY <1>5, <2>2, <3>1 DEF H!Field, Fields
  <2>7. ASSUME beyond' = {}
        PROVE  f = g /\ (v > c => t = << >>) /\ field'[1] = field'[2] /\ dead' # "legal"
    <3>1. beyond = {} /\ (v > c => t = << >>) /\ ~(i >= 1 + Len(x.table) /\ i > 1)
      BY <1>8, <2>7
    <3>2. hp.table = t /\ hp.cap = c /\ w = H!Indexed(t)[i]
      BY <1>2, <1>4, <2>2, <3>1, Mirrored
    <3>3. i <= 1 + H!Kept(hp, v)
      <4>1. PICK m : m = H!Kept(hp, v)
        OBVIOUS
      <4>2. m \in 0 .. Len(t) /\ (v <= c => m = H!Max(Fits(t, c - v)))
        <5>1. Sound(hp)
          BY DEF HInv
        <5> QED
          BY <1>5, <3>2, <4>1, <5>1, DroppedIs
      <4>3. i \in Nat /\ m \in Nat
        BY <1>6, <4>2
      <4>4. CASE v > c
        <5>1. Len(t) = 0
          BY <3>1, <4>4
        <5>2. i = 1
          BY <1>6, <5>1
        <5> QED
          BY <4>1, <4>3, <5>2
      <4>5. CASE ~(v > c)
        <5>1. v <= c
          BY <1>5, <4>5
        <5>2. Len(x.table) = 1 + m
          BY <1>9, <4>2, <5>1
        <5>3. i <= 1 + m
          BY <3>1, <4>3, <5>2
        <5> QED
          BY <4>1, <5>3
      <4> QED
        BY <4>4, <4>5
    <3>4. n = w.name
      BY <1>6, <2>2, <3>3 DEF H!NamesLeft
    <3>5. f = g /\ H!Field(w.name, v) = f
      BY <1>1, <1>4, <2>2, <3>2, <3>4
    <3> QED
      BY <1>2, <2>3, <3>1, <3>5
  <2>8. /\ enc' \in [table : Seq(Fields), cap : Nat] /\ Sound(hp') /\ Within(hp')
        /\ beyond' = {} => hp'.cap # 0 /\ hp'.table = enc'.table /\ hp'.cap = enc'.cap
    <3>1. beyond' = {} => f = g /\ (f.value > enc.cap => enc.table = << >>)
      BY <1>4, <1>7, <2>7
    <3>2. enc' = H!EncInsert(enc, f) /\ f.value = g.value /\ f.value # 0
      BY <1>1, <1>3, <1>5, <1>7, <2>6
    <3> QED
      BY <1>7, <1>8, <2>3, <2>6, <3>1, <3>2, Inserting
  <2> QED
    BY <2>7, <2>8, Agreeing
<1> QED
  BY <1>10, <1>11

\* A size update.
LEMMA SendResizeKeeps ==
  ASSUME HInv, NEW n \in 0 .. Limit, H!SendResize(n)
  PROVE  HInv'
<1>1. n \in Nat
  BY Bounds
<1>2. /\ enc' = H!EncResize(enc, n) /\ field' = field /\ dead = "no"
      /\ beyond' = beyond \cup (IF n > enc.cap THEN {"raised"} ELSE {}) \cup (IF n = 0 THEN {"zero"} ELSE {})
      /\ IF n > hp.cap THEN dead' = "legal" /\ hp' = hp ELSE hp' = H!hp_shrink_to(hp, n) /\ dead' = dead
  BY DEF H!SendResize, H!Step
<1>3. PICK t, k : t = enc.table /\ k = H!Fitting(t, n)
  OBVIOUS
<1>4. t \in Seq(Fields) /\ k \in Seq(Fields)
  <2>1. t \in Seq(Fields)
    BY <1>3 DEF HInv
  <2> QED
    BY <1>1, <1>3, <2>1, FittingIs
<1>5. enc' = [table |-> k, cap |-> n]
  BY <1>2, <1>3 DEF H!EncResize
<1>6. enc' \in [table : Seq(Fields), cap : Nat] /\ enc'.table = k /\ enc'.cap = n
  BY <1>1, <1>4, <1>5
<1>7. beyond' = {} => beyond = {} /\ ~(n > enc.cap) /\ n # 0
  BY <1>2
<1>8. Sound(hp) /\ Within(hp)
  BY DEF HInv
<1>9. CASE n > hp.cap
  <2>1. beyond' # {}
    BY <1>7, <1>9, Mirrored
  <2> QED
    BY <1>2, <1>6, <1>8, <1>9, <2>1, Agreeing
<1>10. CASE ~(n > hp.cap)
  <2>1. Sound(hp') /\ hp'.cap = n /\ Within(hp') /\ hp'.table = H!Fitting(hp.table, n)
    BY <1>1, <1>2, <1>8, <1>10, ShrinkIs
  <2>2. ASSUME beyond' = {}
        PROVE  hp'.cap # 0 /\ hp'.table = enc'.table /\ hp'.cap = enc'.cap /\ field'[1] = field'[2] /\ dead' # "legal"
    <3>1. beyond = {} /\ n # 0
      BY <1>7, <2>2
    <3>2. hp.table = t
      BY <1>3, <3>1, Mirrored
    <3> QED
      BY <1>2, <1>3, <1>6, <1>10, <2>1, <3>1, <3>2, Verdict
  <2> QED
    BY <1>6, <2>1, <2>2, Agreeing
<1> QED
  BY <1>9, <1>10

\* A block that h2.c drops.
LEMMA BlockDroppedKeeps ==
  ASSUME HInv, NEW n \in Names, NEW v \in Sizes, H!BlockDropped(n, v)
  PROVE  HInv'
<1>1. PICK f : f = H!Field(n, v)
  OBVIOUS
<1>2. f \in Fields /\ f.value # 0
  BY <1>1, Bounds DEF H!Field, Fields
<1>3. enc' = H!EncInsert(enc, f) /\ hp' = hp /\ beyond' # {}
  BY <1>1 DEF H!BlockDropped
<1>4. enc' \in [table : Seq(Fields), cap : Nat]
  BY <1>2, <1>3, EncInsertIs
<1>5. Sound(hp) /\ Within(hp)
  BY DEF HInv
<1> QED
  BY <1>3, <1>4, <1>5, Agreeing

\* A string that is legal and too long for the decoder.
LEMMA SendOverlongKeeps ==
  ASSUME HInv, H!SendOverlong
  PROVE  HInv'
<1>1. hp' = hp /\ beyond' # {} /\ enc' \in {enc, [enc EXCEPT !.table = << >>]}
  BY DEF H!SendOverlong, H!Fails
<1>2. Sound(hp) /\ Within(hp) /\ enc \in [table : Seq(Fields), cap : Nat]
  BY DEF HInv
<1>3. << >> \in Seq(Fields)
  BY EmptySeq
<1>4. enc' \in [table : Seq(Fields), cap : Nat]
  BY <1>1, <1>2, <1>3
<1> QED
  BY <1>1, <1>2, <1>4, Agreeing

-----------------------------------------------------------------------------
(* The theorems.                                                           *)

\* The invariant of the decoder and its encoder: whatever representations, size
\* updates and dropped blocks a client sends, the count of the table is that of its
\* entries and within the capacity, and the tables agree as long as beyond is empty.
THEOREM CodecsInvariant == Spec => []HInv
<1>1. Init => HInv
  <2> SUFFICES ASSUME Init PROVE HInv
    OBVIOUS
  <2>1. PICK t, l : t = << >> /\ t \in Seq(Fields) /\ l = Limit /\ l \in Nat /\ l # 0
    BY Bounds, EmptySeq
  <2>2. /\ enc = [table |-> t, cap |-> l] /\ hp = [table |-> t, used |-> 0, cap |-> l]
        /\ field = <<H!NoField, H!NoField>> /\ dead = "no"
    BY <2>1 DEF Init, H!Init
  <2>3. hp \in Decoders /\ enc \in [table : Seq(Fields), cap : Nat]
    BY <2>1, <2>2 DEF Decoders
  <2>4. hp.table = t /\ hp.used = 0 /\ hp.cap = l /\ enc.table = t /\ enc.cap = l
    BY <2>2
  <2>5. H!Units(t) = 0
    BY <2>1, UnitsOfFew
  <2>6. Sound(hp) /\ Within(hp)
    BY <2>1, <2>3, <2>4, <2>5 DEF Sound, Within
  <2>7. TablesInSync
    BY <2>2, <2>4 DEF TablesInSync, H!TablesInSync
  <2> QED
    BY <2>1, <2>3, <2>4, <2>6, <2>7 DEF HInv
<1>2. HInv /\ [Next]_<<which, hvars, wvars>> => HInv'
  <2> SUFFICES ASSUME HInv, [Next]_<<which, hvars, wvars>> PROVE HInv'
    OBVIOUS
  <2>1. CASE UNCHANGED hvars
    <3>1. enc' = enc /\ hp' = hp /\ beyond' = beyond /\ field' = field /\ dead' = dead
      BY <2>1 DEF hvars
    <3> QED
      BY <3>1, Reading, Verdict
  <2>2. CASE H!Next
    BY <2>2, SendIndexedKeeps, SendIndexingKeeps, SendPlainKeeps, SendIndexingNewKeeps, SendPlainNewKeeps,
       BlockDroppedKeeps, SendResizeKeeps, BlockEndsKeeps, SendOverlongKeeps, SendIllegalKeeps DEF H!Next
  <2> QED
    BY <2>1, <2>2 DEF Next
<1> QED
  BY <1>1, <1>2, PTL DEF Spec

\* As long as the client does none of the six legal things hpack.c does not follow,
\* the decoder's table is the encoder's, every field decodes as it was sent and no
\* legal block is refused: for every table size, set of names and entry sizes, and
\* for behaviours of any length.
THEOREM CodecsTablesInSync == Spec => []TablesInSync
<1>1. HInv => TablesInSync
  BY DEF HInv
<1> QED
  BY <1>1, CodecsInvariant, PTL

\* hp_dyn_insert and hp_shrink_to keep the byte count equal to the size of the entries
\* and within the capacity, for every client, also one whose table has diverged.
THEOREM CodecsTableBounded == Spec => []TableBounded
<1>1. HInv => TableBounded
  BY DEF HInv, Sound, Within, TableBounded, H!TableBounded
<1> QED
  BY <1>1, CodecsInvariant, PTL
-----------------------------------------------------------------------------
(***************************************************************************)
(* The WebSocket reader.  Its buffer is never smaller than Staging, so     *)
(* when a frame does not fit the frame is the reason, and the units in it  *)
(* belong to frames that were sent, so what arrives later changes nothing  *)
(* about the frame at the front.                                           *)
(***************************************************************************)
SentUnits == (1 .. Len(sent)) \X Nat

WTypes ==
  /\ sent \in Seq(Frames) /\ rb \in Seq(SentUnits) /\ wire \in Seq(SentUnits) /\ cap \in Nat
  /\ pc \in {"upgrade", "refused", "fixed", "length", "payload", "got", "ended"}

\* Past the upgrade the buffer has its capacity, and a frame that is being read is at
\* its front.
Reader ==
  /\ pc \notin {"upgrade", "refused"} => cap >= Staging
  /\ pc \in {"length", "payload"} => Len(rb) # 0
  /\ ret # "none" => pc = "ended"
  /\ ret = "rejected" => Len(rb) # 0

WInv == WTypes /\ Reader /\ GoodFramesRead

\* The frames of the model have a length.
LEMMA FramesAre == \A f \in Frames : f.len \in Nat
BY DEF Frames, F

\* A frame is at least as long as its header.
LEMMA SizesAre ==
  ASSUME NEW f \in Frames
  PROVE  W!Hdr(f) \in Nat /\ W!Size(f) \in Nat /\ W!Size(f) > W!Hdr(f)
<1>1. f.len \in Nat
  BY FramesAre
<1>2. W!Ext(f.len) \in Nat
  BY <1>1 DEF W!Ext
<1> QED
  BY <1>1, <1>2 DEF W!Hdr, W!Size

\* The frame at the front was sent.
LEMMA FrontIs ==
  ASSUME WTypes, Len(rb) # 0
  PROVE  rb[1] \in SentUnits /\ rb[1][1] \in 1 .. Len(sent) /\ W!FrontFrame \in Frames
<1>1. Len(rb) \in Nat
  BY DEF WTypes
<1>2. 1 \in 1 .. Len(rb)
  BY <1>1
<1>3. rb[1] \in SentUnits
  BY <1>2, ElementOfSeq DEF WTypes
<1>4. rb[1][1] \in 1 .. Len(sent)
  BY <1>3 DEF SentUnits
<1>5. sent[rb[1][1]] \in Frames
  BY <1>4, ElementOfSeq DEF WTypes
<1> QED
  BY <1>3, <1>4, <1>5 DEF W!FrontFrame

\* A step that leaves the stream alone and gives up on nobody.
LEMMA Looping ==
  ASSUME WInv, sent' = sent, rb' = rb, wire' = wire, cap' = cap,
         pc \notin {"upgrade", "refused"}, ret = "none",
         \/ pc' = "fixed" /\ ret' = ret
         \/ pc' \in {"got", "length", "payload"} /\ ret' = ret /\ Len(rb) # 0
         \/ pc' = "ended" /\ ret' # "rejected"
         \/ pc' = "ended" /\ Len(rb) # 0 /\ GoodFramesRead'
  PROVE  WInv'
<1>1. WTypes'
  BY DEF WInv, WTypes, SentUnits
<1>2. Reader'
  BY DEF WInv, Reader
<1>3. GoodFramesRead'
  <2>1. CASE ret' # "rejected"
    BY <2>1 DEF GoodFramesRead, W!GoodFramesRead
  <2> QED
    BY <2>1
<1> QED
  BY <1>1, <1>2, <1>3 DEF WInv

\* The client sends a frame.
LEMMA SendsKeeps ==
  ASSUME WInv, NEW f \in Frames, W!Sends(f)
  PROVE  WInv'
<1>1. /\ sent' = Append(sent, f) /\ wire' = wire \o W!UnitsOf(Len(sent'), f)
      /\ pc' = pc /\ cap' = cap /\ rb' = rb /\ ret' = ret
  BY DEF W!Sends
<1>2. sent \in Seq(Frames) /\ Len(sent) \in Nat
  BY DEF WInv, WTypes
<1>3. PICK m : m = Len(sent') /\ m = Len(sent) + 1 /\ m \in Nat
  BY <1>1, <1>2
<1>4. sent' \in Seq(Frames) /\ \A k \in 1 .. Len(sent) : sent'[k] = sent[k]
  BY <1>1, <1>2, AppendProperties
<1>5. SentUnits \subseteq SentUnits' /\ SentUnits' = (1 .. m) \X Nat
  BY <1>2, <1>3 DEF SentUnits
<1>6. rb \in Seq(SentUnits') /\ wire \in Seq(SentUnits')
  <2>1. \A i \in 1 .. Len(rb) : rb[i] \in SentUnits
    BY ElementOfSeq DEF WInv, WTypes
  <2>2. \A i \in 1 .. Len(wire) : wire[i] \in SentUnits
    BY ElementOfSeq DEF WInv, WTypes
  <2> QED
    BY <1>5, <2>1, <2>2, SeqDef DEF WInv, WTypes
<1>7. W!UnitsOf(m, f) \in Seq(SentUnits')
  <2>1. PICK s, S : s = W!Size(f) /\ s \in Nat /\ S = SentUnits'
    BY SizesAre
  <2>2. \A i \in 1 .. s : <<m, i>> \in S
    BY <1>3, <1>5, <2>1
  <2>3. W!UnitsOf(m, f) = [i \in 1 .. s |-> <<m, i>>]
    BY <2>1 DEF W!UnitsOf
  <2>4. [i \in 1 .. s |-> <<m, i>>] \in Seq(S)
    <3>1. [i \in 1 .. s |-> <<m, i>>] \in [1 .. s -> S]
      BY <2>2
    <3> QED
      BY <2>1, <3>1, SeqDef
  <2> QED
    BY <2>1, <2>3, <2>4
<1>8. wire' \in Seq(SentUnits')
  BY <1>1, <1>3, <1>6, <1>7, ConcatProperties
<1>9. WTypes'
  BY <1>1, <1>4, <1>6, <1>8 DEF WInv, WTypes
<1>10. Reader'
  BY <1>1 DEF WInv, Reader
<1>11. GoodFramesRead'
  <2>1. CASE ret' # "rejected"
    BY <2>1 DEF GoodFramesRead, W!GoodFramesRead
  <2>2. CASE ret' = "rejected"
    <3>1. Len(rb) # 0 /\ ret = "rejected"
      BY <1>1, <2>2 DEF WInv, Reader
    <3>2. rb[1][1] \in 1 .. Len(sent)
      BY <3>1, FrontIs DEF WInv
    <3>3. W!FrontFrame' = W!FrontFrame
      BY <1>1, <1>4, <3>2 DEF W!FrontFrame
    <3>4. \/ W!Forbidden(W!FrontFrame) \/ W!TooLong(W!FrontFrame) \/ W!Size(W!FrontFrame) > Staging
      BY <3>1 DEF WInv, GoodFramesRead, W!GoodFramesRead
    <3>5. PICK g : g = W!FrontFrame /\ g = W!FrontFrame'
      BY <3>3
    <3>6. W!Forbidden(g) \/ W!TooLong(g) \/ W!Size(g) > Staging
      BY <3>4, <3>5
    <3> QED
      BY <3>5, <3>6 DEF GoodFramesRead, W!GoodFramesRead
  <2> QED
    BY <2>1, <2>2
<1> QED
  BY <1>9, <1>10, <1>11 DEF WInv

\* Two halves of a stream of units.
LEMMA Halves ==
  ASSUME NEW S, NEW w \in Seq(S), NEW n \in 0 .. Len(w)
  PROVE  SubSeq(w, 1, n) \in Seq(S) /\ SubSeq(w, n + 1, Len(w)) \in Seq(S) /\ Len(SubSeq(w, 1, n)) = n
<1>1. Len(w) \in Nat /\ n \in Nat /\ n <= Len(w)
  OBVIOUS
<1>2. \A i \in 1 .. Len(w) : w[i] \in S
  BY ElementOfSeq
<1>3. \A i \in 1 .. n : i \in 1 .. Len(w)
  BY <1>1
<1>4. SubSeq(w, 1, n) \in Seq(S) /\ Len(SubSeq(w, 1, n)) = n
  <2>1. 1 \in Int /\ n \in Int /\ \A i \in 1 .. n : w[i] \in S
    BY <1>1, <1>2, <1>3
  <2>2. SubSeq(w, 1, n) \in Seq(S) /\ Len(SubSeq(w, 1, n)) = (IF 1 <= n THEN n - 1 + 1 ELSE 0)
    BY <2>1, SubSeqProperties
  <2> QED
    BY <1>1, <2>2
<1>5. PICK m : m = n + 1 /\ m \in Int
  BY <1>1
<1>6. \A i \in m .. Len(w) : i \in 1 .. Len(w)
  BY <1>1, <1>5
<1>7. SubSeq(w, m, Len(w)) \in Seq(S)
  BY <1>1, <1>2, <1>5, <1>6, SubSeqProperties
<1> QED
  BY <1>4, <1>5, <1>7

\* The upgrade, which sizes the buffer.
LEMMA UpgradeKeeps ==
  ASSUME WInv, NEW n \in 0 .. Len(wire), W!http_ws_upgrade(n)
  PROVE  WInv'
<1>1. /\ pc = "upgrade" /\ pc' = "fixed" /\ cap' = W!ws_trampoline(n) /\ sent' = sent /\ ret' = ret
      /\ rb' = SubSeq(wire, 1, n) /\ wire' = SubSeq(wire, n + 1, Len(wire))
  BY DEF W!http_ws_upgrade
<1>2. wire \in Seq(SentUnits) /\ Len(wire) \in Nat
  BY DEF WInv, WTypes
<1>3. rb' \in Seq(SentUnits) /\ wire' \in Seq(SentUnits)
  BY <1>1, <1>2, Halves
<1>4. cap' \in Nat /\ cap' >= Staging
  <2>1. PICK a, b : a = n + Slack /\ b = Staging /\ a \in Nat /\ b \in Nat
    BY <1>2, Bounds
  <2>2. \E x \in {a, b} : \A y \in {a, b} : x >= y
    BY <2>1
  <2>3. cap' = CHOOSE x \in {a, b} : \A y \in {a, b} : x >= y
    BY <1>1, <2>1 DEF W!ws_trampoline, W!Max
  <2>4. cap' \in {a, b} /\ \A y \in {a, b} : cap' >= y
    BY <2>2, <2>3
  <2> QED
    BY <2>1, <2>4
<1>5. ret = "none"
  BY <1>1 DEF WInv, Reader
<1>6. WTypes'
  BY <1>1, <1>3, <1>4 DEF WInv, WTypes, SentUnits
<1>7. Reader' /\ GoodFramesRead'
  BY <1>1, <1>4, <1>5 DEF Reader, GoodFramesRead, W!GoodFramesRead
<1> QED
  BY <1>6, <1>7 DEF WInv

\* The handshake is refused.
LEMMA RefusedKeeps ==
  ASSUME WInv, W!UpgradeRefused
  PROVE  WInv'
<1>1. pc = "upgrade" /\ pc' = "refused" /\ cap' = cap /\ rb' = rb /\ wire' = wire /\ sent' = sent /\ ret' = ret
  BY DEF W!UpgradeRefused
<1>2. ret = "none"
  BY <1>1 DEF WInv, Reader
<1>3. WTypes'
  BY <1>1 DEF WInv, WTypes, SentUnits
<1> QED
  BY <1>1, <1>2, <1>3 DEF WInv, Reader, GoodFramesRead, W!GoodFramesRead

\* recv adds to the buffer.
LEMMA ReceivesKeeps ==
  ASSUME WInv, W!Receives
  PROVE  WInv'
<1>1. PICK n \in 1 .. W!Min({Len(wire), cap - Len(rb)}) :
        rb' = rb \o SubSeq(wire, 1, n) /\ wire' = SubSeq(wire, n + 1, Len(wire))
  BY DEF W!Receives
<1>2. pc \in {"fixed", "length", "payload"} /\ pc' = pc /\ cap' = cap /\ sent' = sent /\ ret' = ret
  BY DEF W!Receives, W!Short
<1>3. wire \in Seq(SentUnits) /\ rb \in Seq(SentUnits) /\ Len(wire) \in Nat /\ Len(rb) \in Nat /\ cap \in Nat
  BY DEF WInv, WTypes
<1>4. n \in 0 .. Len(wire)
  <2>1. PICK a, b : a = Len(wire) /\ b = cap - Len(rb) /\ a \in Int /\ b \in Int
    BY <1>3
  <2>2. \E x \in {a, b} : \A y \in {a, b} : x <= y
    BY <2>1
  <2>3. W!Min({a, b}) \in {a, b} /\ \A y \in {a, b} : W!Min({a, b}) <= y
    BY <2>2 DEF W!Min
  <2>4. n \in 1 .. W!Min({a, b})
    BY <1>1, <2>1
  <2> QED
    BY <1>3, <2>1, <2>3, <2>4
<1>5. PICK x : x = SubSeq(wire, 1, n)
  OBVIOUS
<1>6. x \in Seq(SentUnits) /\ wire' \in Seq(SentUnits)
  BY <1>1, <1>3, <1>4, <1>5, Halves
<1>7. rb' \in Seq(SentUnits) /\ Len(rb') = Len(rb) + Len(x)
  BY <1>1, <1>3, <1>5, <1>6, ConcatProperties
<1>8. Len(rb) # 0 => Len(rb') # 0
  <2>1. Len(x) \in Nat
    BY <1>6
  <2> QED
    BY <1>3, <1>7, <2>1
<1>9. ret = "none"
  BY <1>2 DEF WInv, Reader
<1>10. WTypes'
  BY <1>2, <1>6, <1>7 DEF WInv, WTypes, SentUnits
<1>11. Reader'
  BY <1>2, <1>8, <1>9 DEF WInv, Reader
<1> QED
  BY <1>2, <1>9, <1>10, <1>11 DEF WInv, GoodFramesRead, W!GoodFramesRead

\* The client is silent or gone.
LEMMA ReceiveFailsKeeps ==
  ASSUME WInv, W!ReceiveFails
  PROVE  WInv'
<1>1. /\ pc \in {"fixed", "length", "payload"} /\ pc' = "ended" /\ ret' = "lost"
      /\ cap' = cap /\ rb' = rb /\ wire' = wire /\ sent' = sent
  BY DEF W!ReceiveFails, W!Short, W!Ends
<1>2. ret = "none"
  BY <1>1 DEF WInv, Reader
<1> QED
  BY <1>1, <1>2, Looping

\* The frame does not fit into the buffer: it is longer than Staging.
LEMMA BufferFullKeeps ==
  ASSUME WInv, W!BufferFull
  PROVE  WInv'
<1>1. /\ pc \in {"fixed", "length", "payload"} /\ pc' = "ended" /\ ret' = "rejected"
      /\ cap' = cap /\ rb' = rb /\ wire' = wire /\ sent' = sent /\ Len(rb) < W!Need /\ Len(rb) >= cap
  BY DEF W!BufferFull, W!Short, W!Ends
<1>2. ret = "none" /\ cap >= Staging
  BY <1>1 DEF WInv, Reader
<1>3. cap \in Nat /\ Len(rb) \in Nat /\ Staging \in Nat /\ Staging # 0
  BY Bounds DEF WInv, WTypes
<1>4. Len(rb) >= Staging /\ Len(rb) # 0
  BY <1>1, <1>2, <1>3
<1>5. PICK f : f = W!FrontFrame
  OBVIOUS
<1>6. f \in Frames
  BY <1>4, <1>5, FrontIs DEF WInv
<1>7. W!Size(f) > Staging
  <2>1. W!Hdr(f) \in Nat /\ W!Size(f) \in Nat /\ W!Size(f) > W!Hdr(f)
    BY <1>6, SizesAre
  <2>2. W!Need = 1 \/ W!Need = W!Hdr(f) \/ W!Need = W!Size(f)
    BY <1>1, <1>5 DEF W!Need
  <2> QED
    BY <1>1, <1>3, <1>4, <2>1, <2>2
<1>8. GoodFramesRead'
  <2>1. W!FrontFrame' = f
    BY <1>1, <1>5 DEF W!FrontFrame
  <2> QED
    BY <1>7, <2>1 DEF GoodFramesRead, W!GoodFramesRead
<1> QED
  BY <1>1, <1>2, <1>4, <1>8, Looping

\* The fixed bytes and the length are read.
LEMMA HeaderKeeps ==
  ASSUME WInv, W!FixedRead \/ W!LengthRead
  PROVE  WInv'
<1>1. /\ pc \in {"fixed", "length"} /\ ~W!Short
      /\ cap' = cap /\ rb' = rb /\ wire' = wire /\ sent' = sent
  BY DEF W!FixedRead, W!LengthRead
<1>2. \/ pc' \in {"length", "payload"} /\ ret' = ret
      \/ /\ pc' = "ended" /\ ret' = "rejected"
         /\ W!Forbidden(W!FrontFrame) \/ W!TooLong(W!FrontFrame)
  BY DEF W!FixedRead, W!LengthRead, W!Ends
<1>3. Len(rb) # 0
  <2>1. CASE pc = "fixed"
    BY <1>1, <2>1 DEF W!Short, W!Need
  <2>2. CASE pc = "length"
    BY <2>2 DEF WInv, Reader
  <2> QED
    BY <1>1, <2>1, <2>2
<1>4. ret = "none"
  BY <1>1 DEF WInv, Reader
<1>5. CASE pc' \in {"length", "payload"} /\ ret' = ret
  BY <1>1, <1>3, <1>4, <1>5, Looping
<1>6. CASE /\ pc' = "ended" /\ ret' = "rejected"
           /\ W!Forbidden(W!FrontFrame) \/ W!TooLong(W!FrontFrame)
  <2>1. PICK f : f = W!FrontFrame /\ f = W!FrontFrame'
    BY <1>1 DEF W!FrontFrame
  <2>2. W!Forbidden(f) \/ W!TooLong(f)
    BY <1>6, <2>1
  <2>3. GoodFramesRead'
    BY <2>1, <2>2 DEF GoodFramesRead, W!GoodFramesRead
  <2> QED
    BY <1>1, <1>3, <1>4, <1>6, <2>3, Looping
<1> QED
  BY <1>2, <1>5, <1>6

\* The frame leaves the buffer.
LEMMA PayloadKeeps ==
  ASSUME WInv, W!PayloadRead
  PROVE  WInv'
<1>1. PICK s : s = W!Size(W!FrontFrame)
  OBVIOUS
<1>2. /\ pc = "payload" /\ ~W!Short /\ pc' = "got" /\ rb' = SubSeq(rb, s + 1, Len(rb))
      /\ cap' = cap /\ wire' = wire /\ sent' = sent /\ ret' = ret
  BY <1>1 DEF W!PayloadRead
<1>3. Len(rb) # 0 /\ ret = "none"
  BY <1>2 DEF WInv, Reader
<1>4. s \in Nat
  BY <1>1, <1>3, FrontIs, SizesAre DEF WInv
<1>5. rb \in Seq(SentUnits) /\ Len(rb) \in Nat
  BY DEF WInv, WTypes
<1>6. s \in 0 .. Len(rb)
  <2>1. ~(Len(rb) < s)
    BY <1>1, <1>2 DEF W!Short, W!Need
  <2> QED
    BY <1>4, <1>5, <2>1
<1>7. rb' \in Seq(SentUnits)
  BY <1>2, <1>5, <1>6, Halves
<1>8. WTypes'
  BY <1>2, <1>7 DEF WInv, WTypes, SentUnits
<1>9. Reader'
  BY <1>2, <1>3 DEF WInv, Reader
<1> QED
  BY <1>2, <1>3, <1>8, <1>9 DEF WInv, GoodFramesRead, W!GoodFramesRead

\* http_ws_loop handles a frame.
LEMMA LoopKeeps ==
  ASSUME WInv, W!LoopCloses \/ W!LoopPongs \/ W!LoopIgnores \/ W!LoopDelivers
  PROVE  WInv'
<1>1. /\ pc = "got" /\ cap' = cap /\ rb' = rb /\ wire' = wire /\ sent' = sent
      /\ \/ pc' = "fixed" /\ ret' = ret
         \/ pc' = "ended" /\ ret' \in {"clean", "stopped"}
  BY DEF W!LoopCloses, W!LoopPongs, W!LoopIgnores, W!LoopDelivers, W!Ends
<1>2. ret = "none"
  BY <1>1 DEF WInv, Reader
<1> QED
  BY <1>1, <1>2, Looping

\* A step of the other decoder.
LEMMA IdleKeeps ==
  ASSUME WInv, UNCHANGED wvars
  PROVE  WInv'
<1>1. sent' = sent /\ rb' = rb /\ wire' = wire /\ cap' = cap /\ pc' = pc /\ ret' = ret
  BY DEF wvars
<1>2. W!FrontFrame' = W!FrontFrame
  BY <1>1 DEF W!FrontFrame
<1>3. GoodFramesRead'
  BY <1>1, <1>2 DEF WInv, GoodFramesRead, W!GoodFramesRead
<1> QED
  BY <1>1, <1>3 DEF WInv, WTypes, SentUnits, Reader

\* http_ws_read_frame rejects a client only for a frame that is forbidden, over the
\* application's buffer or longer than the whole staging buffer: for every capacity
\* of the buffers, every split of the stream and every amount pipelined behind the
\* handshake.
THEOREM CodecsGoodFramesRead == Spec => []GoodFramesRead
<1>1. Init => WInv
  <2> SUFFICES ASSUME Init PROVE WInv
    OBVIOUS
  <2>1. pc = "upgrade" /\ cap = 0 /\ rb = << >> /\ wire = << >> /\ sent = << >> /\ ret = "none"
    BY DEF Init, W!Init
  <2>2. rb \in Seq(SentUnits) /\ wire \in Seq(SentUnits) /\ sent \in Seq(Frames)
    BY <2>1, EmptySeq
  <2>3. WTypes
    BY <2>1, <2>2 DEF WTypes
  <2> QED
    BY <2>1, <2>3 DEF WInv, Reader, GoodFramesRead, W!GoodFramesRead
<1>2. WInv /\ [Next]_<<which, hvars, wvars>> => WInv'
  <2> SUFFICES ASSUME WInv, [Next]_<<which, hvars, wvars>> PROVE WInv'
    OBVIOUS
  <2>1. CASE UNCHANGED wvars
    BY <2>1, IdleKeeps
  <2>2. CASE W!Next
    BY <2>2, SendsKeeps, UpgradeKeeps, RefusedKeeps, ReceivesKeeps, ReceiveFailsKeeps, BufferFullKeeps,
       HeaderKeeps, PayloadKeeps, LoopKeeps DEF W!Next
  <2> QED
    BY <2>1, <2>2 DEF Next
<1>3. WInv => GoodFramesRead
  BY DEF WInv
<1> QED
  BY <1>1, <1>2, <1>3, PTL DEF Spec
-----------------------------------------------------------------------------
(* The elements of a list at the places of a set.                          *)

\* p holds what is picked of the first elements of s.
Picked(s, S, n, p) ==
  p = [k \in 0 .. n |-> IF k = 0 THEN << >> ELSE IF k \in S THEN Append(p[k - 1], s[k]) ELSE p[k - 1]]

\* The recursion of Pick is a function.
LEMMA PickedExists ==
  ASSUME NEW s, NEW S, NEW N \in Nat
  PROVE  \E p : Picked(s, S, N, p)
<1> DEFINE T == {n \in 0 .. N : \E p : Picked(s, S, n, p)}
<1>1. 0 \in T
  <2> DEFINE z == [k \in 0 .. 0 |-> << >>]
  <2>1. Picked(s, S, 0, z)
    BY DEF Picked
  <2> QED
    BY <2>1
<1>2. ASSUME NEW n \in 0 .. N - 1, n \in T
      PROVE  n + 1 \in T
  <2>1. PICK p : Picked(s, S, n, p)
    BY <1>2
  <2>2. PICK e : e = IF n + 1 \in S THEN Append(p[n], s[n + 1]) ELSE p[n]
    OBVIOUS
  <2> DEFINE g == [k \in 0 .. n + 1 |-> IF k = n + 1 THEN e ELSE p[k]]
  <2>3. ASSUME NEW k \in 0 .. n + 1
        PROVE  g[k] = IF k = 0 THEN << >> ELSE IF k \in S THEN Append(g[k - 1], s[k]) ELSE g[k - 1]
    <3>1. CASE k = n + 1
      <4>1. k # 0 /\ k - 1 = n /\ k - 1 \in 0 .. n + 1 /\ k - 1 # n + 1
        BY <3>1
      <4>2. g[k - 1] = p[n]
        BY <4>1
      <4>3. g[k] = e
        BY <3>1
      <4> HIDE DEF g
      <4> QED
        BY <2>2, <3>1, <4>1, <4>2, <4>3
    <3>2. CASE k # n + 1
      <4>1. k \in 0 .. n /\ g[k] = p[k] /\ (k # 0 => k - 1 \in 0 .. n + 1 /\ k - 1 # n + 1 /\ g[k - 1] = p[k - 1])
        BY <3>2
      <4>2. p[k] = IF k = 0 THEN << >> ELSE IF k \in S THEN Append(p[k - 1], s[k]) ELSE p[k - 1]
        BY <2>1, <4>1 DEF Picked
      <4> HIDE DEF g
      <4> QED
        BY <4>1, <4>2
    <3> QED
      BY <3>1, <3>2
  <2>4. Picked(s, S, n + 1, g)
    <3>1. g = [k \in 0 .. n + 1 |->
                 IF k = 0 THEN << >> ELSE IF k \in S THEN Append(g[k - 1], s[k]) ELSE g[k - 1]]
      BY <2>3
    <3> HIDE DEF g
    <3> QED
      BY <3>1 DEF Picked
  <2>5. n + 1 \in 0 .. N
    OBVIOUS
  <2> HIDE DEF g
  <2> QED
    BY <2>4, <2>5
<1>3. 0 .. N \subseteq T
  <2> HIDE DEF T
  <2> QED
    BY <1>1, <1>2, Induction
<1> QED
  BY <1>3

\* Pick goes through the list element by element, and what it picks is a list.
LEMMA PickAre ==
  ASSUME NEW X, NEW s \in Seq(X), NEW S
  PROVE  \E p : /\ W!Pick(s, S) = p[Len(s)] /\ p[0] = << >>
                /\ \A k \in 1 .. Len(s) : p[k] = IF k \in S THEN Append(p[k - 1], s[k]) ELSE p[k - 1]
                /\ \A k \in 0 .. Len(s) : p[k] \in Seq(X)
<1> DEFINE p == CHOOSE p : Picked(s, S, Len(s), p)
<1>0. Len(s) \in Nat
  OBVIOUS
<1>1. Picked(s, S, Len(s), p)
  BY <1>0, PickedExists
<1>2. W!Pick(s, S) = p[Len(s)]
  BY DEF W!Pick, Picked
<1> HIDE DEF p
<1>3. PICK N : N = Len(s) /\ N \in Nat
  BY <1>0
<1>4. /\ 0 \in 0 .. N /\ p[0] = << >>
      /\ \A k \in 1 .. N : p[k] = IF k \in S THEN Append(p[k - 1], s[k]) ELSE p[k - 1]
  <2>1. \A k \in 0 .. N : p[k] = IF k = 0 THEN << >> ELSE IF k \in S THEN Append(p[k - 1], s[k]) ELSE p[k - 1]
    BY <1>1, <1>3 DEF Picked
  <2>2. \A k \in 1 .. N : k \in 0 .. N /\ k # 0
    BY <1>3
  <2> QED
    BY <1>3, <2>1, <2>2
<1> DEFINE T == {k \in 0 .. N : p[k] \in Seq(X)}
<1>5. 0 \in T
  BY <1>4, EmptySeq
<1>6. ASSUME NEW k \in 0 .. N - 1, k \in T
      PROVE  k + 1 \in T
  <2>1. PICK j : j = k + 1 /\ j \in 1 .. N /\ j - 1 = k /\ j \in 0 .. N
    BY <1>3
  <2>2. s[j] \in X
    BY <1>3, <2>1, ElementOfSeq
  <2>3. p[j] = IF j \in S THEN Append(p[k], s[j]) ELSE p[k]
    BY <1>4, <2>1
  <2>4. PICK q : q = p[k] /\ q \in Seq(X)
    BY <1>6
  <2>5. Append(q, s[j]) \in Seq(X)
    BY <2>2, <2>4, AppendProperties
  <2> QED
    BY <2>1, <2>3, <2>4, <2>5
<1>7. 0 .. N \subseteq T
  <2> HIDE DEF T
  <2> QED
    BY <1>3, <1>5, <1>6, Induction
<1> QED
  BY <1>2, <1>3, <1>4, <1>7

\* Nothing is picked of nothing, and what is picked is a list.
LEMMA PickNone ==
  ASSUME NEW X, NEW S
  PROVE  /\ W!Pick(<< >>, S) = << >>
         /\ \A s \in Seq(X) : W!Pick(s, S) \in Seq(X)
<1>1. ASSUME NEW e \in Seq(X), e = << >>
      PROVE  W!Pick(e, S) = << >>
  <2>1. PICK p : W!Pick(e, S) = p[Len(e)] /\ p[0] = << >>
    BY PickAre
  <2>2. Len(e) = 0
    BY <1>1
  <2> QED
    BY <2>1, <2>2
<1>2. << >> \in Seq(X)
  BY EmptySeq
<1>3. ASSUME NEW s \in Seq(X)
      PROVE  W!Pick(s, S) \in Seq(X)
  <2>1. Len(s) \in 0 .. Len(s)
    OBVIOUS
  <2> QED
    BY <2>1, PickAre
<1> QED
  BY <1>1, <1>2, <1>3

\* One more element is picked or not.
LEMMA PickMore ==
  ASSUME NEW X, NEW s \in Seq(X), NEW x \in X, NEW S, NEW T,
         \A n \in 1 .. Len(s) : n \in S <=> n \in T
  PROVE  W!Pick(Append(s, x), T) = IF Len(s) + 1 \in T THEN Append(W!Pick(s, S), x) ELSE W!Pick(s, S)
<1>0. Len(s) \in Nat
  OBVIOUS
<1>1. PICK N, t : N = Len(s) /\ N \in Nat /\ t = Append(s, x)
  BY <1>0
<1>2. /\ t \in Seq(X) /\ Len(t) = N + 1 /\ t[N + 1] = x
      /\ \A k \in 1 .. N : t[k] = s[k]
  BY <1>1, AppendProperties
<1>3. PICK p : /\ W!Pick(s, S) = p[N] /\ p[0] = << >>
               /\ \A k \in 1 .. N : p[k] = IF k \in S THEN Append(p[k - 1], s[k]) ELSE p[k - 1]
  BY <1>1, PickAre
<1>4. PICK r : /\ W!Pick(t, T) = r[N + 1] /\ r[0] = << >>
               /\ \A k \in 1 .. N + 1 : r[k] = IF k \in T THEN Append(r[k - 1], t[k]) ELSE r[k - 1]
  <2>1. PICK r : /\ W!Pick(t, T) = r[Len(t)] /\ r[0] = << >>
                 /\ \A k \in 1 .. Len(t) : r[k] = IF k \in T THEN Append(r[k - 1], t[k]) ELSE r[k - 1]
    <3>1. t \in Seq(X)
      BY <1>2
    <3> QED
      BY <3>1, PickAre
  <2>2. Len(t) = N + 1
    BY <1>2
  <2> QED
    BY <2>1, <2>2
<1> DEFINE A == {k \in 0 .. N : r[k] = p[k]}
<1>5. 0 \in A
  BY <1>1, <1>3, <1>4
<1>6. ASSUME NEW k \in 0 .. N - 1, k \in A
      PROVE  k + 1 \in A
  <2>1. PICK j : j = k + 1 /\ j \in 1 .. N /\ j - 1 = k /\ j \in 0 .. N /\ j \in 1 .. N + 1
    BY <1>1
  <2>2. r[k] = p[k] /\ t[j] = s[j] /\ (j \in S <=> j \in T)
    BY <1>1, <1>2, <1>6, <2>1
  <2>3. p[j] = IF j \in S THEN Append(p[k], s[j]) ELSE p[k]
    BY <1>3, <2>1
  <2>4. r[j] = IF j \in T THEN Append(r[k], t[j]) ELSE r[k]
    BY <1>4, <2>1
  <2> QED
    BY <2>1, <2>2, <2>3, <2>4
<1>7. 0 .. N \subseteq A
  <2> HIDE DEF A
  <2> QED
    BY <1>1, <1>5, <1>6, Induction
<1>8. r[N] = p[N]
  BY <1>1, <1>7
<1>9. r[N + 1] = IF N + 1 \in T THEN Append(r[N], x) ELSE r[N]
  <2>1. PICK j : j = N + 1 /\ j \in 1 .. N + 1 /\ j - 1 = N
    BY <1>1
  <2> QED
    BY <1>2, <1>4, <2>1
<1> QED
  BY <1>1, <1>3, <1>4, <1>8, <1>9
-----------------------------------------------------------------------------
(***************************************************************************)
(* The stream: what is in the buffer and on its way.  It begins with the   *)
(* frame after the last one read and ends with the last one sent, and each *)
(* unit is followed by the next of its frame or by the first of the next   *)
(* frame.                                                                  *)
(***************************************************************************)
After(q, x) == IF x[2] < W!Size(q[x[1]]) THEN <<x[1], x[2] + 1>> ELSE <<x[1] + 1, 1>>

Stream(q, u, k) ==
  /\ k \in 0 .. Len(q) /\ u \in Seq((1 .. Len(q)) \X Nat)
  /\ Len(u) = 0 => k = Len(q)
  /\ \A j \in 1 .. Len(u) : /\ j = 1 => u[j] = <<k + 1, 1>>
                            /\ j < Len(u) => u[j + 1] = After(q, u[j])
                            /\ j = Len(u) => u[j] = <<Len(q), W!Size(q[Len(q)])>>

\* The units of a frame.
LEMMA FrameUnits ==
  ASSUME NEW f \in Frames, NEW m \in Nat \ {0}
  PROVE  /\ W!UnitsOf(m, f) \in Seq((1 .. m) \X Nat) /\ Len(W!UnitsOf(m, f)) = W!Size(f)
         /\ W!Size(f) \in Nat /\ W!Size(f) >= 2
         /\ \A i \in 1 .. W!Size(f) : W!UnitsOf(m, f)[i] = <<m, i>>
<1>1. W!Hdr(f) \in Nat /\ W!Hdr(f) >= 1 /\ f.len \in Nat
  BY FramesAre DEF W!Hdr, W!Ext
<1>2. PICK s, U : s = W!Size(f) /\ s \in Nat /\ s >= 2 /\ U = (1 .. m) \X Nat
  <2>1. PICK a, b : a = W!Hdr(f) /\ b = f.len /\ a \in Nat /\ b \in Nat /\ a >= 1
    BY <1>1
  <2>2. W!Size(f) = a + 1 + b
    BY <2>1 DEF W!Size
  <2>3. a + 1 + b \in Nat /\ a + 1 + b >= 2
    BY <2>1
  <2> QED
    BY <2>2, <2>3
<1>3. PICK w : w = W!UnitsOf(m, f) /\ w = [i \in 1 .. s |-> <<m, i>>]
  BY <1>2 DEF W!UnitsOf
<1>4. \A i \in 1 .. s : <<m, i>> \in U
  BY <1>2
<1>5. w \in [1 .. s -> U]
  BY <1>3, <1>4
<1>6. w \in Seq(U) /\ Len(w) = s
  BY <1>2, <1>5, SeqDef
<1>7. \A i \in 1 .. s : w[i] = <<m, i>>
  BY <1>3
<1> QED
  BY <1>2, <1>3, <1>6, <1>7

\* A frame more is sent.
LEMMA StreamGrows ==
  ASSUME NEW q \in Seq(Frames), NEW f \in Frames, NEW u, NEW k, Stream(q, u, k)
  PROVE  Stream(Append(q, f), u \o W!UnitsOf(Len(q) + 1, f), k)
<1>1. PICK n, m, r, w, s : /\ n = Len(q) /\ m = n + 1 /\ r = Append(q, f) /\ w = W!UnitsOf(m, f)
                           /\ s = W!Size(f)
  OBVIOUS
<1>2. n \in Nat /\ m \in Nat \ {0}
  BY <1>1
<1>3. r \in Seq(Frames) /\ Len(r) = m /\ r[m] = f /\ \A i \in 1 .. n : r[i] = q[i]
  BY <1>1, AppendProperties
<1>4. /\ w \in Seq((1 .. m) \X Nat) /\ Len(w) = s /\ s \in Nat /\ s >= 2
      /\ \A i \in 1 .. s : w[i] = <<m, i>>
  BY <1>1, <1>2, FrameUnits
<1>5. /\ k \in 0 .. n /\ u \in Seq((1 .. n) \X Nat) /\ (Len(u) = 0 => k = n)
      /\ \A j \in 1 .. Len(u) : /\ j = 1 => u[j] = <<k + 1, 1>>
                                /\ j < Len(u) => u[j + 1] = After(q, u[j])
                                /\ j = Len(u) => u[j] = <<n, W!Size(q[n])>>
  BY <1>1 DEF Stream
<1>6. u \in Seq((1 .. m) \X Nat)
  <2>1. (1 .. n) \X Nat \subseteq (1 .. m) \X Nat
    BY <1>1, <1>2
  <2> QED
    BY <1>5, <2>1, SeqMonotonic
<1>7. PICK l, v : l = Len(u) /\ l \in Nat /\ v = u \o w
  <2>1. Len(u) \in Nat
    BY <1>5, LenProperties
  <2> QED
    BY <2>1
<1>8. /\ v \in Seq((1 .. m) \X Nat) /\ Len(v) = l + s
      /\ \A i \in 1 .. l + s : v[i] = IF i <= l THEN u[i] ELSE w[i - l]
  <2>1. PICK U : U = (1 .. m) \X Nat
    OBVIOUS
  <2>2. u \in Seq(U) /\ w \in Seq(U)
    BY <1>4, <1>6, <2>1
  <2>3. /\ u \o w \in Seq(U) /\ Len(u \o w) = Len(u) + Len(w)
        /\ \A i \in 1 .. Len(u) + Len(w) : (u \o w)[i] = IF i <= Len(u) THEN u[i] ELSE w[i - Len(u)]
    BY <2>2, ConcatProperties
  <2>4. Len(u) = l /\ Len(w) = s /\ u \o w = v
    BY <1>4, <1>7
  <2> QED
    BY <2>1, <2>3, <2>4
<1>9. ASSUME NEW j \in 1 .. l
      PROVE  /\ v[j] = u[j] /\ u[j][1] \in 1 .. n /\ u[j][2] \in Nat
             /\ After(r, u[j]) = After(q, u[j])
  <2>1. u[j] \in (1 .. n) \X Nat
    BY <1>5, <1>7, ElementOfSeq
  <2>2. u[j][1] \in 1 .. n /\ u[j][2] \in Nat
    BY <2>1
  <2>3. r[u[j][1]] = q[u[j][1]]
    BY <1>3, <2>2
  <2>4. v[j] = u[j]
    BY <1>4, <1>7, <1>8
  <2> QED
    BY <2>2, <2>3, <2>4 DEF After
<1>10. ASSUME NEW j \in l + 1 .. l + s
       PROVE  v[j] = <<m, j - l>>
  <2>1. j \in 1 .. l + s /\ ~(j <= l) /\ j - l \in 1 .. s
    BY <1>4, <1>7
  <2> QED
    BY <1>4, <1>8, <2>1
<1>11. ASSUME NEW j \in 1 .. l + s
       PROVE  /\ j = 1 => v[j] = <<k + 1, 1>>
              /\ j < l + s => v[j + 1] = After(r, v[j])
              /\ j = l + s => v[j] = <<m, W!Size(r[m])>>
  <2>1. CASE j < l
    <3>1. j \in 1 .. l /\ j + 1 \in 1 .. l /\ j # l + s
      BY <1>4, <1>7, <2>1
    <3>2. v[j] = u[j] /\ v[j + 1] = u[j + 1] /\ After(r, u[j]) = After(q, u[j])
      BY <1>9, <3>1
    <3>3. (j = 1 => u[j] = <<k + 1, 1>>) /\ u[j + 1] = After(q, u[j])
      BY <1>5, <1>7, <2>1, <3>1
    <3> QED
      BY <3>1, <3>2, <3>3
  <2>2. CASE j = l
    <3>1. j \in 1 .. l /\ j + 1 \in l + 1 .. l + s /\ j # l + s /\ (j + 1) - l = 1 /\ ~(j < l)
      BY <1>4, <1>7, <2>2
    <3>2. v[j] = u[j] /\ v[j + 1] = <<m, 1>>
      <4>1. v[j + 1] = <<m, (j + 1) - l>>
        BY <1>10, <3>1
      <4> QED
        BY <1>9, <3>1, <4>1
    <3>3. (j = 1 => u[j] = <<k + 1, 1>>) /\ u[j] = <<n, W!Size(q[n])>>
      BY <1>5, <1>7, <2>2, <3>1
    <3>4. After(r, u[j]) = <<m, 1>>
      <4>1. PICK z : z = W!Size(q[n])
        OBVIOUS
      <4>2. u[j][1] = n /\ u[j][2] = z
        BY <3>3, <4>1
      <4>3. n \in 1 .. n /\ z \in Nat
        BY <1>9, <3>1, <4>2
      <4>4. r[n] = q[n]
        BY <1>3, <4>3
      <4>5. ~(u[j][2] < W!Size(r[u[j][1]]))
        BY <4>1, <4>2, <4>3, <4>4
      <4> QED
        BY <1>1, <4>2, <4>5 DEF After
    <3> QED
      BY <3>1, <3>2, <3>3, <3>4
  <2>3. CASE l < j
    <3>1. j \in l + 1 .. l + s /\ j - l \in Nat
      BY <1>4, <1>7, <2>3
    <3>2. v[j] = <<m, j - l>>
      BY <1>10, <3>1
    <3>3. j = 1 => v[j] = <<k + 1, 1>>
      <4>1. ASSUME j = 1 PROVE l = 0 /\ j - l = 1
        BY <1>7, <2>3, <4>1
      <4> QED
        BY <1>1, <1>5, <1>7, <3>2, <4>1
    <3>4. ASSUME j < l + s
          PROVE  v[j + 1] = After(r, v[j])
      <4>1. j + 1 \in l + 1 .. l + s /\ (j + 1) - l = (j - l) + 1 /\ j - l < s
        BY <1>4, <1>7, <3>1, <3>4
      <4>2. v[j + 1] = <<m, (j - l) + 1>>
        BY <1>10, <4>1
      <4>3. v[j][1] = m /\ v[j][2] = j - l /\ W!Size(r[m]) = s
        BY <1>1, <1>3, <3>2
      <4> QED
        BY <4>1, <4>2, <4>3 DEF After
    <3>5. j = l + s => v[j] = <<m, W!Size(r[m])>>
      <4>1. j = l + s => j - l = s
        BY <1>4, <1>7
      <4> QED
        BY <1>1, <1>3, <3>2, <4>1
    <3> QED
      BY <3>3, <3>4, <3>5
  <2>4. j < l \/ j = l \/ l < j
    BY <1>4, <1>7
  <2> QED
    BY <2>1, <2>2, <2>3, <2>4
<1>12. k \in 0 .. m /\ l + s # 0
  <2>1. k \in 0 .. n /\ n \in Nat /\ m = n + 1
    BY <1>1, <1>2, <1>5
  <2>2. l \in Nat /\ s \in Nat /\ s >= 2
    BY <1>4, <1>7
  <2>3. k \in 0 .. m
    BY <2>1
  <2> QED
    BY <2>2, <2>3
<1>13. Stream(r, v, k)
  <2>1. Len(r) = m /\ Len(v) = l + s
    BY <1>3, <1>8
  <2> QED
    BY <1>8, <1>11, <1>12, <2>1 DEF Stream
<1> QED
  BY <1>1, <1>7, <1>13

\* The frame at the front comes with its units in order.
LEMMA StreamHead ==
  ASSUME NEW q \in Seq(Frames), NEW u, NEW k, Stream(q, u, k), Len(u) # 0
  PROVE  /\ k + 1 \in 1 .. Len(q) /\ q[k + 1] \in Frames
         /\ \A i \in 1 .. W!Size(q[k + 1]) : i <= Len(u) => u[i] = <<k + 1, i>>
<1>1. PICK l, n, m : l = Len(u) /\ n = Len(q) /\ m = k + 1
  OBVIOUS
<1>2. /\ k \in 0 .. n /\ u \in Seq((1 .. n) \X Nat)
      /\ \A j \in 1 .. l : /\ j = 1 => u[j] = <<m, 1>>
                           /\ j < l => u[j + 1] = After(q, u[j])
  BY <1>1 DEF Stream
<1>3. l \in Nat /\ l # 0 /\ n \in Nat /\ k \in Nat
  BY <1>1, <1>2
<1>4. u[1] = <<m, 1>> /\ 1 \in 1 .. l
  BY <1>2, <1>3
<1>5. m \in 1 .. n
  <2>1. u[1] \in (1 .. n) \X Nat
    BY <1>1, <1>2, <1>4, ElementOfSeq
  <2> QED
    BY <1>4, <2>1
<1>6. q[m] \in Frames
  BY <1>1, <1>5, ElementOfSeq
<1>7. PICK s : s = W!Size(q[m]) /\ s \in Nat
  BY <1>6, SizesAre
<1> DEFINE T == {i \in 0 .. s : i # 0 /\ i <= l => u[i] = <<m, i>>}
<1>8. 0 \in T
  BY <1>7
<1>9. ASSUME NEW i \in 0 .. s - 1, i \in T
      PROVE  i + 1 \in T
  <2>1. i \in Nat /\ i + 1 \in 0 .. s /\ i < s
    BY <1>7
  <2>2. ASSUME i + 1 <= l
        PROVE  u[i + 1] = <<m, i + 1>>
    <3>1. CASE i = 0
      BY <1>4, <3>1
    <3>2. CASE i # 0
      <4>1. i \in 1 .. l /\ i < l /\ i <= l
        BY <1>3, <2>1, <2>2, <3>2
      <4>2. u[i] = <<m, i>>
        BY <1>9, <3>2, <4>1
      <4>3. u[i + 1] = After(q, u[i])
        BY <1>2, <4>1
      <4>4. u[i][1] = m /\ u[i][2] = i
        BY <4>2
      <4> QED
        BY <1>7, <2>1, <4>3, <4>4 DEF After
    <3> QED
      BY <3>1, <3>2
  <2> QED
    BY <2>1, <2>2
<1>10. 0 .. s \subseteq T
  <2> HIDE DEF T
  <2> QED
    BY <1>7, <1>8, <1>9, Induction
<1>11. \A i \in 1 .. s : i <= l => u[i] = <<m, i>>
  <2>1. \A i \in 1 .. s : i \in 0 .. s /\ i # 0
    BY <1>7
  <2> QED
    BY <1>10, <2>1
<1> QED
  BY <1>1, <1>5, <1>6, <1>7, <1>11

\* The frame at the front is read.
LEMMA StreamDrops ==
  ASSUME NEW q \in Seq(Frames), NEW u, NEW k, Stream(q, u, k), Len(u) # 0, NEW s, s = W!Size(q[k + 1]), s <= Len(u)
  PROVE  Stream(q, SubSeq(u, s + 1, Len(u)), k + 1)
<1>1. PICK l, n, m, v : l = Len(u) /\ n = Len(q) /\ m = k + 1 /\ v = SubSeq(u, s + 1, l)
  OBVIOUS
<1>2. /\ k \in 0 .. n /\ u \in Seq((1 .. n) \X Nat)
      /\ \A j \in 1 .. l : /\ j < l => u[j + 1] = After(q, u[j])
                           /\ j = l => u[j] = <<n, W!Size(q[n])>>
  BY <1>1 DEF Stream
<1>3. m \in 1 .. n /\ q[m] \in Frames /\ \A i \in 1 .. s : i <= l => u[i] = <<m, i>>
  BY <1>1, StreamHead
<1>4. l \in Nat /\ n \in Nat /\ s \in Nat /\ s >= 1 /\ s <= l
  <2>1. W!Hdr(q[m]) \in Nat /\ s \in Nat /\ s > W!Hdr(q[m])
    BY <1>1, <1>3, SizesAre
  <2> QED
    BY <1>1, <1>2, <2>1
<1>5. u[s] = <<m, s>> /\ s \in 1 .. l
  BY <1>3, <1>4
<1>6. PICK U : U = (1 .. n) \X Nat
  OBVIOUS
<1>7. /\ v \in Seq(U) /\ Len(v) = l - s
      /\ \A i \in 1 .. l - s : v[i] = u[s + i]
  <2>1. PICK c : c = s + 1 /\ c \in Int /\ l \in Int
    BY <1>4
  <2>2. \A i \in c .. l : i \in 1 .. l
    BY <1>4, <2>1
  <2>3. u \in Seq(U) /\ \A i \in c .. l : u[i] \in U
    BY <1>1, <1>2, <1>6, <2>2, ElementOfSeq
  <2>4. /\ SubSeq(u, c, l) \in Seq(U)
        /\ Len(SubSeq(u, c, l)) = (IF c <= l THEN l - c + 1 ELSE 0)
        /\ \A i \in 1 .. l - c + 1 : SubSeq(u, c, l)[i] = u[c + i - 1]
    BY <2>1, <2>3, SubSeqProperties
  <2>5. l - c + 1 = l - s /\ (IF c <= l THEN l - c + 1 ELSE 0) = l - s /\ \A i \in 1 .. l - s : c + i - 1 = s + i
    BY <1>4, <2>1
  <2>6. SubSeq(u, c, l) = v
    BY <1>1, <2>1
  <2> QED
    BY <2>4, <2>5, <2>6
<1>8. ASSUME NEW j \in 1 .. l - s
      PROVE  /\ j = 1 => v[j] = <<m + 1, 1>>
             /\ j < l - s => v[j + 1] = After(q, v[j])
             /\ j = l - s => v[j] = <<n, W!Size(q[n])>>
  <2>1. j \in Nat /\ j >= 1 /\ s + j \in 1 .. l /\ v[j] = u[s + j]
    BY <1>4, <1>7
  <2>2. ASSUME j = 1 PROVE v[j] = <<m + 1, 1>>
    <3>1. s < l /\ s + 1 = s + j
      BY <1>4, <2>1, <2>2
    <3>2. u[s + 1] = After(q, u[s])
      BY <1>2, <1>5, <3>1
    <3>3. u[s][1] = m /\ u[s][2] = s /\ ~(s < W!Size(q[m]))
      BY <1>1, <1>4, <1>5
    <3> QED
      BY <2>1, <3>1, <3>2, <3>3 DEF After
  <2>3. ASSUME j < l - s PROVE v[j + 1] = After(q, v[j])
    <3>1. s + j < l /\ j + 1 \in 1 .. l - s /\ s + (j + 1) = (s + j) + 1
      BY <1>4, <2>1, <2>3
    <3>2. v[j + 1] = u[s + (j + 1)]
      BY <1>7, <3>1
    <3>3. u[(s + j) + 1] = After(q, u[s + j])
      BY <1>2, <2>1, <3>1
    <3> QED
      BY <2>1, <3>1, <3>2, <3>3
  <2>4. ASSUME j = l - s PROVE v[j] = <<n, W!Size(q[n])>>
    <3>1. s + j = l
      BY <1>4, <2>1, <2>4
    <3> QED
      BY <1>2, <2>1, <3>1
  <2> QED
    BY <2>2, <2>3, <2>4
<1>9. l - s = 0 => m = n
  <2>1. ASSUME l - s = 0 PROVE m = n
    <3>1. s = l
      BY <1>4, <2>1
    <3>2. u[s] = <<n, W!Size(q[n])>>
      BY <1>2, <1>5, <3>1
    <3> QED
      BY <1>5, <3>2
  <2> QED
    BY <2>1
<1>10. m \in 0 .. n
  BY <1>3, <1>4
<1>11. Stream(q, v, m)
  <2>1. PICK d : d = l - s /\ d = Len(v)
    BY <1>7
  <2>2. \A j \in 1 .. d : /\ j = 1 => v[j] = <<m + 1, 1>>
                          /\ j < d => v[j + 1] = After(q, v[j])
                          /\ j = d => v[j] = <<n, W!Size(q[n])>>
    BY <1>8, <2>1
  <2>3. m \in 0 .. n /\ v \in Seq((1 .. n) \X Nat) /\ (d = 0 => m = n) /\ n = Len(q)
    BY <1>1, <1>6, <1>7, <1>9, <1>10, <2>1
  <2> QED
    BY <2>1, <2>2, <2>3 DEF Stream
<1> QED
  BY <1>1, <1>11
-----------------------------------------------------------------------------
(***************************************************************************)
(* The conversation: what the application saw and what the server sent,    *)
(* against the first k frames.                                             *)
(***************************************************************************)
Msg(q, n)  == [of |-> n, data |-> W!PayloadOf(n, q[n])]
All(q, k)  == [n \in 1 .. k |-> Msg(q, n)]
Msgs       == [of : Nat, data : Seq(Nat \X Nat)]
Outs       == [op : {"pong", "close"}, data : Seq(Nat \X Nat)]

DataAt(q, k) == {n \in 1 .. k : q[n].op \notin W!Control}
PingAt(q, k) == {n \in 1 .. k : q[n].op = "ping"}
SentAt(o, x) == {i \in 1 .. Len(o) : o[i].op = x}

Answered(pongs, pings) ==
  Len(pongs) = Len(pings) /\ \A i \in 1 .. Len(pings) : pongs[i].data = pings[i].data

Handles(q, k, r) ==
  \A n \in 1 .. k : /\ ~W!Forbidden(q[n]) /\ ~W!TooLong(q[n])
                    /\ q[n].op = "close" => r = "clean" /\ n = k

Said(q, k, sn, o, r) ==
  /\ sn = W!Pick(All(q, k), DataAt(q, k))
  /\ Answered(W!Pick(o, SentAt(o, "pong")), W!Pick(All(q, k), PingAt(q, k)))
  /\ Len(W!Pick(o, SentAt(o, "close"))) = (IF r = "clean" THEN 1 ELSE 0)
  /\ Handles(q, k, r)

\* A frame as a message.
LEMMA MsgIs ==
  ASSUME NEW q \in Seq(Frames), NEW n \in 1 .. Len(q)
  PROVE  q[n] \in Frames /\ Msg(q, n) \in Msgs
<1>1. PICK f : f = q[n] /\ f \in Frames
  BY ElementOfSeq
<1>2. PICK h, l : h = W!Hdr(f) /\ h \in Nat /\ l = f.len /\ l \in Nat
  BY <1>1, SizesAre, FramesAre
<1>3. n \in Nat
  OBVIOUS
<1>4. PICK p, U : p = W!PayloadOf(n, f) /\ p = [i \in 1 .. l |-> <<n, h + 1 + i>>] /\ U = Nat \X Nat
  BY <1>2 DEF W!PayloadOf
<1>5. \A i \in 1 .. l : <<n, h + 1 + i>> \in U
  BY <1>2, <1>3, <1>4
<1>6. p \in [1 .. l -> U]
  BY <1>4, <1>5
<1>7. p \in Seq(U)
  BY <1>2, <1>6, SeqDef
<1> QED
  BY <1>1, <1>3, <1>4, <1>7 DEF Msg, Msgs

\* The messages of the first frames.
LEMMA AllAre ==
  ASSUME NEW q \in Seq(Frames), NEW k \in 0 .. Len(q)
  PROVE  All(q, k) \in Seq(Msgs) /\ Len(All(q, k)) = k /\ \A n \in 1 .. k : All(q, k)[n] = Msg(q, n)
<1>1. k \in Nat /\ \A n \in 1 .. k : n \in 1 .. Len(q)
  OBVIOUS
<1>2. \A n \in 1 .. k : Msg(q, n) \in Msgs
  BY <1>1, MsgIs
<1>3. All(q, k) \in [1 .. k -> Msgs]
  BY <1>2 DEF All
<1>4. All(q, k) \in Seq(Msgs) /\ Len(All(q, k)) = k
  BY <1>1, <1>3, SeqDef
<1> QED
  BY <1>4 DEF All

\* One message more.
LEMMA AllMore ==
  ASSUME NEW q \in Seq(Frames), NEW k \in 0 .. Len(q), k # Len(q)
  PROVE  All(q, k + 1) = Append(All(q, k), Msg(q, k + 1))
<1>1. PICK j, a, b, m : j = k + 1 /\ a = All(q, k) /\ b = All(q, j) /\ m = Msg(q, j)
  OBVIOUS
<1>2. k \in Nat /\ j \in 1 .. Len(q) /\ j \in 0 .. Len(q)
  BY <1>1
<1>3. a \in Seq(Msgs) /\ Len(a) = k /\ \A n \in 1 .. k : a[n] = Msg(q, n)
  BY <1>1, AllAre
<1>4. b \in Seq(Msgs) /\ Len(b) = j /\ \A n \in 1 .. j : b[n] = Msg(q, n)
  BY <1>1, <1>2, AllAre
<1>5. m \in Msgs
  BY <1>1, <1>2, MsgIs
<1>6. PICK c : c = Append(a, m)
  OBVIOUS
<1>7. c \in Seq(Msgs) /\ Len(c) = k + 1 /\ c[k + 1] = m /\ \A n \in 1 .. k : c[n] = a[n]
  BY <1>3, <1>5, <1>6, AppendProperties
<1>8. ASSUME NEW n \in 1 .. Len(b)
      PROVE  b[n] = c[n]
  <2>1. n \in 1 .. j /\ (n \in 1 .. k \/ n = j)
    BY <1>1, <1>2, <1>4
  <2> QED
    BY <1>1, <1>3, <1>4, <1>7, <2>1
<1>9. b = c
  BY <1>1, <1>4, <1>7, <1>8, SeqEqual
<1> QED
  BY <1>1, <1>6, <1>9

\* What is sent later changes nothing.
LEMMA SaidSent ==
  ASSUME NEW q \in Seq(Frames), NEW f \in Frames, NEW k \in 0 .. Len(q), NEW sn, NEW o, NEW r, Said(q, k, sn, o, r)
  PROVE  /\ Said(Append(q, f), k, sn, o, r)
         /\ \A n \in 1 .. Len(q) : Msg(Append(q, f), n) = Msg(q, n) /\ Append(q, f)[n] = q[n]
<1>1. PICK p : p = Append(q, f)
  OBVIOUS
<1>2. \A n \in 1 .. Len(q) : p[n] = q[n]
  BY <1>1, AppendProperties
<1>3. \A n \in 1 .. Len(q) : Msg(p, n) = Msg(q, n)
  BY <1>2 DEF Msg
<1>4. \A n \in 1 .. k : n \in 1 .. Len(q)
  OBVIOUS
<1>5. All(p, k) = All(q, k)
  BY <1>3, <1>4 DEF All
<1>6. DataAt(p, k) = DataAt(q, k) /\ PingAt(p, k) = PingAt(q, k)
  BY <1>2, <1>4 DEF DataAt, PingAt
<1>7. Handles(p, k, r)
  <2>1. Handles(q, k, r)
    BY DEF Said
  <2> QED
    BY <1>2, <1>4, <2>1 DEF Handles
<1>8. Said(p, k, sn, o, r)
  BY <1>5, <1>6, <1>7 DEF Said
<1> QED
  BY <1>1, <1>2, <1>3, <1>8

\* How the loop ended matters only if it ended with a close.
LEMMA SaidEnd ==
  ASSUME NEW q, NEW k, NEW sn, NEW o, NEW r, NEW e, Said(q, k, sn, o, r), r # "clean", e # "clean"
  PROVE  Said(q, k, sn, o, e)
BY DEF Said, Handles

\* The data frames and the pings of one frame more.
LEMMA ChosenMore ==
  ASSUME NEW q \in Seq(Frames), NEW k \in 0 .. Len(q), k # Len(q)
  PROVE  /\ W!Pick(All(q, k + 1), DataAt(q, k + 1)) =
              IF q[k + 1].op \notin W!Control THEN Append(W!Pick(All(q, k), DataAt(q, k)), Msg(q, k + 1))
              ELSE W!Pick(All(q, k), DataAt(q, k))
         /\ W!Pick(All(q, k + 1), PingAt(q, k + 1)) =
              IF q[k + 1].op = "ping" THEN Append(W!Pick(All(q, k), PingAt(q, k)), Msg(q, k + 1))
              ELSE W!Pick(All(q, k), PingAt(q, k))
         /\ W!Pick(All(q, k), PingAt(q, k)) \in Seq(Msgs)
<1>1. PICK j, a, m : j = k + 1 /\ a = All(q, k) /\ m = Msg(q, j)
  OBVIOUS
<1>2. k \in Nat /\ j \in 1 .. Len(q) /\ j \in 1 .. j /\ \A n \in 1 .. k : n \in 1 .. j
  BY <1>1
<1>3. a \in Seq(Msgs) /\ Len(a) = k
  BY <1>1, AllAre
<1>4. m \in Msgs /\ All(q, j) = Append(a, m)
  BY <1>1, <1>2, MsgIs, AllMore
<1>5. PICK D, E, P, Q : D = DataAt(q, k) /\ E = DataAt(q, j) /\ P = PingAt(q, k) /\ Q = PingAt(q, j)
  OBVIOUS
<1>6. /\ \A n \in 1 .. Len(a) : (n \in D <=> n \in E) /\ (n \in P <=> n \in Q)
      /\ Len(a) + 1 = j
      /\ (j \in E <=> q[j].op \notin W!Control) /\ (j \in Q <=> q[j].op = "ping")
  BY <1>1, <1>2, <1>3, <1>5 DEF DataAt, PingAt
<1>7. W!Pick(Append(a, m), E) = IF Len(a) + 1 \in E THEN Append(W!Pick(a, D), m) ELSE W!Pick(a, D)
  BY <1>3, <1>4, <1>6, PickMore
<1>8. W!Pick(Append(a, m), Q) = IF Len(a) + 1 \in Q THEN Append(W!Pick(a, P), m) ELSE W!Pick(a, P)
  BY <1>3, <1>4, <1>6, PickMore
<1>9. W!Pick(a, P) \in Seq(Msgs)
  BY <1>3, PickNone
<1> QED
  BY <1>1, <1>4, <1>5, <1>6, <1>7, <1>8, <1>9

\* One frame more that the server sent.
LEMMA SentMore ==
  ASSUME NEW o \in Seq(Outs), NEW a \in Outs, NEW x
  PROVE  /\ W!Pick(Append(o, a), SentAt(Append(o, a), x)) =
              IF a.op = x THEN Append(W!Pick(o, SentAt(o, x)), a) ELSE W!Pick(o, SentAt(o, x))
         /\ W!Pick(o, SentAt(o, x)) \in Seq(Outs)
<1>1. PICK n, p, S, T : n = Len(o) /\ p = Append(o, a) /\ S = SentAt(o, x) /\ T = SentAt(p, x)
  OBVIOUS
<1>2. n \in Nat
  BY <1>1
<1>3. p \in Seq(Outs) /\ Len(p) = n + 1 /\ p[n + 1] = a /\ \A i \in 1 .. n : p[i] = o[i]
  BY <1>1, AppendProperties
<1>4. (\A i \in 1 .. n : i \in S <=> i \in T) /\ (n + 1 \in T <=> a.op = x)
  <2>1. n + 1 \in 1 .. n + 1 /\ \A i \in 1 .. n : i \in 1 .. n + 1
    BY <1>2
  <2> QED
    BY <1>1, <1>3, <2>1 DEF SentAt
<1>5. W!Pick(p, T) = IF n + 1 \in T THEN Append(W!Pick(o, S), a) ELSE W!Pick(o, S)
  BY <1>1, <1>4, PickMore
<1>6. W!Pick(o, S) \in Seq(Outs)
  BY PickNone
<1> QED
  BY <1>1, <1>4, <1>5, <1>6

\* A pong more for a ping more.
LEMMA AnsweredMore ==
  ASSUME NEW s \in Seq(Outs), NEW t \in Seq(Msgs), NEW a \in Outs, NEW b \in Msgs, a.data = b.data, Answered(s, t)
  PROVE  Answered(Append(s, a), Append(t, b))
<1>1. PICK n, x, y : n = Len(t) /\ x = Append(s, a) /\ y = Append(t, b)
  OBVIOUS
<1>2. n \in Nat /\ Len(s) = n /\ \A i \in 1 .. n : s[i].data = t[i].data
  BY <1>1 DEF Answered
<1>3. Len(x) = n + 1 /\ x[n + 1] = a /\ \A i \in 1 .. n : x[i] = s[i]
  BY <1>1, <1>2, AppendProperties
<1>4. Len(y) = n + 1 /\ y[n + 1] = b /\ \A i \in 1 .. n : y[i] = t[i]
  BY <1>1, AppendProperties
<1>5. ASSUME NEW i \in 1 .. n + 1
      PROVE  x[i].data = y[i].data
  <2>1. i \in 1 .. n \/ i = n + 1
    BY <1>2
  <2> QED
    BY <1>2, <1>3, <1>4, <2>1
<1> QED
  BY <1>1, <1>3, <1>4, <1>5 DEF Answered

\* The loop handles the next frame.
LEMMA SaidMore ==
  ASSUME NEW q \in Seq(Frames), NEW k \in 0 .. Len(q), k # Len(q), NEW sn, NEW o \in Seq(Outs), NEW r,
         Said(q, k, sn, o, r), r # "clean", ~W!Forbidden(q[k + 1]), ~W!TooLong(q[k + 1]), NEW e
  PROVE  /\ q[k + 1].op \notin W!Control /\ e # "clean" => Said(q, k + 1, Append(sn, Msg(q, k + 1)), o, e)
         /\ q[k + 1].op = "pong" => Said(q, k + 1, sn, o, r)
         /\ q[k + 1].op = "ping" => Said(q, k + 1, sn, Append(o, [op |-> "pong", data |-> Msg(q, k + 1).data]), r)
         /\ q[k + 1].op = "close" => Said(q, k + 1, sn, Append(o, [op |-> "close", data |-> << >>]), "clean")
<1>1. PICK j, m, x : j = k + 1 /\ m = Msg(q, j) /\ x = q[j].op
  OBVIOUS
<1>2. k \in Nat /\ j \in 1 .. Len(q) /\ \A n \in 1 .. j : n \in 1 .. k \/ n = j
  BY <1>1
<1>3. m \in Msgs /\ m.data \in Seq(Nat \X Nat)
  <2>1. m \in Msgs
    BY <1>1, <1>2, MsgIs
  <2> QED
    BY <2>1 DEF Msgs
<1>4. PICK d, g, d2, g2 : /\ d = W!Pick(All(q, k), DataAt(q, k)) /\ g = W!Pick(All(q, k), PingAt(q, k))
                          /\ d2 = W!Pick(All(q, j), DataAt(q, j)) /\ g2 = W!Pick(All(q, j), PingAt(q, j))
  OBVIOUS
<1>5. /\ d2 = (IF x \notin W!Control THEN Append(d, m) ELSE d)
      /\ g2 = (IF x = "ping" THEN Append(g, m) ELSE g)
      /\ g \in Seq(Msgs)
  BY <1>1, <1>4, ChosenMore
<1>6. PICK po, cl : po = W!Pick(o, SentAt(o, "pong")) /\ cl = W!Pick(o, SentAt(o, "close"))
  OBVIOUS
<1>7. sn = d /\ Answered(po, g) /\ Len(cl) = 0 /\ Handles(q, k, r)
  BY <1>4, <1>6 DEF Said
<1>8. \A n \in 1 .. k : ~W!Forbidden(q[n]) /\ ~W!TooLong(q[n]) /\ q[n].op # "close"
  BY <1>7 DEF Handles
<1>9. ASSUME NEW z, x = "close" => z = "clean"
      PROVE  Handles(q, j, z)
  <2>1. ASSUME NEW n \in 1 .. j
        PROVE  ~W!Forbidden(q[n]) /\ ~W!TooLong(q[n]) /\ (q[n].op = "close" => z = "clean" /\ n = j)
    <3>1. CASE n = j
      BY <1>1, <1>9, <3>1
    <3>2. CASE n \in 1 .. k
      BY <1>8, <3>2
    <3> QED
      BY <1>2, <3>1, <3>2
  <2> QED
    BY <2>1 DEF Handles
<1>10. ASSUME x \notin W!Control, e # "clean"
       PROVE  Said(q, j, Append(sn, m), o, e)
  <2>1. x # "ping" /\ x # "close"
    BY <1>10 DEF W!Control
  <2> QED
    BY <1>4, <1>5, <1>6, <1>7, <1>9, <1>10, <2>1 DEF Said
<1>11. ASSUME x = "pong"
       PROVE  Said(q, j, sn, o, r)
  <2>1. x # "ping" /\ x # "close" /\ x \in W!Control
    BY <1>11 DEF W!Control
  <2> QED
    BY <1>4, <1>5, <1>6, <1>7, <1>9, <2>1 DEF Said
<1>12. ASSUME x = "ping"
       PROVE  Said(q, j, sn, Append(o, [op |-> "pong", data |-> m.data]), r)
  <2>1. x # "close" /\ x \in W!Control
    BY <1>12 DEF W!Control
  <2>2. PICK a, p : a = [op |-> "pong", data |-> m.data] /\ p = Append(o, a)
    OBVIOUS
  <2>3. a \in Outs /\ a.op = "pong" /\ a.op # "close" /\ a.data = m.data
    BY <1>3, <2>2 DEF Outs
  <2>4. W!Pick(p, SentAt(p, "pong")) = Append(po, a) /\ W!Pick(p, SentAt(p, "close")) = cl /\ po \in Seq(Outs)
    BY <1>6, <2>2, <2>3, SentMore
  <2>5. Answered(Append(po, a), Append(g, m))
    BY <1>3, <1>5, <1>7, <2>3, <2>4, AnsweredMore
  <2>6. Said(q, j, sn, p, r)
    BY <1>4, <1>5, <1>7, <1>9, <1>12, <2>1, <2>4, <2>5 DEF Said
  <2> QED
    BY <2>2, <2>6
<1>13. ASSUME x = "close"
       PROVE  Said(q, j, sn, Append(o, [op |-> "close", data |-> << >>]), "clean")
  <2>1. x # "ping" /\ x \in W!Control
    BY <1>13 DEF W!Control
  <2>2. PICK t : t = << >> /\ t \in Seq(Nat \X Nat)
    BY EmptySeq
  <2>3. PICK a, p : a = [op |-> "close", data |-> t] /\ p = Append(o, a)
    OBVIOUS
  <2>4. a \in Outs /\ a.op = "close" /\ a.op # "pong"
    BY <2>2, <2>3 DEF Outs
  <2>5. W!Pick(p, SentAt(p, "pong")) = po /\ W!Pick(p, SentAt(p, "close")) = Append(cl, a) /\ cl \in Seq(Outs)
    BY <1>6, <2>3, <2>4, SentMore
  <2>6. Len(Append(cl, a)) = 1
    <3>1. Len(Append(cl, a)) = Len(cl) + 1
      BY <2>4, <2>5, AppendProperties
    <3> QED
      BY <1>7, <3>1
  <2>7. Said(q, j, sn, p, "clean")
    BY <1>4, <1>5, <1>7, <1>9, <1>13, <2>1, <2>5, <2>6 DEF Said
  <2> QED
    BY <2>2, <2>3, <2>7
<1> QED
  BY <1>1, <1>10, <1>11, <1>12, <1>13
-----------------------------------------------------------------------------
(* The reader and the loop keep to the stream and to the conversation.     *)

Layout == Stream(sent, rb \o wire, frame.of) /\ (pc = "upgrade" => rb = << >>)

\* A frame that is being read has passed the checks behind it, and one that the loop
\* has in hand is whole.
Checked ==
  /\ pc = "got" => /\ frame.of # 0 /\ frame = Msg(sent, frame.of)
                   /\ ~W!Forbidden(sent[frame.of]) /\ ~W!TooLong(sent[frame.of])
  /\ pc \in {"length", "payload"} => ~W!Forbidden(W!FrontFrame)
  /\ pc = "payload" => ~W!TooLong(W!FrontFrame)

Talk == out \in Seq(Outs) /\ Said(sent, W!Handled, seen, out, ret)

CInv == WInv /\ Layout /\ Checked /\ Talk

\* The frame at the front is the one behind the last frame read.
LEMMA FrontNext ==
  ASSUME CInv, Len(rb) # 0
  PROVE  /\ rb[1] = <<frame.of + 1, 1>> /\ W!FrontFrame = sent[frame.of + 1]
         /\ frame.of + 1 \in 1 .. Len(sent) /\ frame.of \in 0 .. Len(sent) /\ frame.of # Len(sent)
         /\ Len(rb \o wire) # 0
<1>1. PICK u, k : u = rb \o wire /\ k = frame.of
  OBVIOUS
<1>2. rb \in Seq(SentUnits) /\ wire \in Seq(SentUnits) /\ sent \in Seq(Frames) /\ Stream(sent, u, k)
  BY <1>1 DEF CInv, WInv, WTypes, Layout
<1>3. Len(rb) \in Nat /\ Len(wire) \in Nat /\ Len(sent) \in Nat
  BY <1>2, LenProperties
<1>4. Len(u) = Len(rb) + Len(wire) /\ \A i \in 1 .. Len(rb) + Len(wire) : u[i] = IF i <= Len(rb) THEN rb[i] ELSE wire[i - Len(rb)]
  BY <1>1, <1>2, ConcatProperties
<1>5. Len(u) # 0 /\ 1 \in 1 .. Len(u) /\ 1 <= Len(rb)
  BY <1>3, <1>4
<1>6. u[1] = rb[1]
  BY <1>4, <1>5
<1>7. u[1] = <<k + 1, 1>> /\ k \in 0 .. Len(sent)
  BY <1>2, <1>5 DEF Stream
<1>8. k + 1 \in 1 .. Len(sent)
  BY <1>2, <1>5, StreamHead
<1>9. W!FrontFrame = sent[k + 1]
  BY <1>6, <1>7 DEF W!FrontFrame
<1>10. k # Len(sent)
  BY <1>3, <1>7, <1>8
<1> QED
  BY <1>1, <1>5, <1>6, <1>7, <1>8, <1>9, <1>10

\* A step of the reader that passes no frame to the loop.
LEMMA Waiting ==
  ASSUME CInv, WInv', pc # "got", pc' # "got", pc' # "upgrade" \/ rb' = << >>, Checked',
         rb' \o wire' = rb \o wire, sent' = sent, frame' = frame, seen' = seen, out' = out,
         ret' = ret \/ (ret # "clean" /\ ret' # "clean")
  PROVE  CInv'
<1>1. W!Handled' = W!Handled
  BY DEF W!Handled
<1>2. PICK h : h = W!Handled /\ h = W!Handled'
  BY <1>1
<1>3. Said(sent, h, seen, out, ret) /\ out \in Seq(Outs)
  BY <1>2 DEF CInv, Talk
<1>4. Said(sent, h, seen, out, ret')
  BY <1>3, SaidEnd
<1>5. Talk'
  BY <1>2, <1>3, <1>4 DEF Talk
<1>6. Layout'
  BY DEF CInv, Layout
<1> QED
  BY <1>5, <1>6 DEF CInv

\* The client sends a frame.
LEMMA SendsTalks ==
  ASSUME CInv, NEW f \in Frames, W!Sends(f)
  PROVE  CInv'
<1>1. PICK q, k, h : q = sent /\ k = frame.of /\ h = W!Handled
  OBVIOUS
<1>2. /\ sent' = Append(q, f) /\ wire' = wire \o W!UnitsOf(Len(sent'), f)
      /\ pc' = pc /\ cap' = cap /\ rb' = rb /\ ret' = ret /\ frame' = frame /\ seen' = seen /\ out' = out
  BY <1>1 DEF W!Sends
<1>3. WInv'
  BY SendsKeeps DEF CInv
<1>4. q \in Seq(Frames) /\ Len(q) \in Nat /\ Stream(q, rb \o wire, k) /\ k \in 0 .. Len(q)
  <2>1. q \in Seq(Frames) /\ Stream(q, rb \o wire, k)
    BY <1>1 DEF CInv, WInv, WTypes, Layout
  <2>2. k \in 0 .. Len(q)
    BY <2>1 DEF Stream
  <2> QED
    BY <2>1, <2>2, LenProperties
<1>5. Len(sent') = Len(q) + 1
  BY <1>2, <1>4, AppendProperties
<1>6. rb' \o wire' = (rb \o wire) \o W!UnitsOf(Len(q) + 1, f)
  <2>1. PICK w, U : w = W!UnitsOf(Len(q) + 1, f) /\ U = (1 .. Len(q) + 1) \X Nat
    OBVIOUS
  <2>2. w \in Seq(U)
    BY <1>4, <2>1, FrameUnits
  <2>3. rb \in Seq(U) /\ wire \in Seq(U)
    <3>1. SentUnits \subseteq U
      BY <1>1, <1>4, <2>1 DEF SentUnits
    <3> QED
      BY <3>1, SeqMonotonic DEF CInv, WInv, WTypes
  <2>4. (rb \o wire) \o w = rb \o (wire \o w)
    BY <2>2, <2>3, ConcatAssociative, SMTT(30)
  <2> QED
    BY <1>2, <1>5, <2>1, <2>4
<1>7. Layout'
  <2>1. Stream(Append(q, f), (rb \o wire) \o W!UnitsOf(Len(q) + 1, f), k)
    BY <1>4, StreamGrows
  <2> QED
    BY <1>1, <1>2, <1>6, <2>1 DEF CInv, Layout
<1>8. W!Handled' = h
  BY <1>1, <1>2 DEF W!Handled
<1>9. h \in 0 .. Len(q)
  <2>1. pc = "got" => k # 0
    BY <1>1 DEF CInv, Checked
  <2>2. h = IF pc = "got" THEN k - 1 ELSE k
    BY <1>1 DEF W!Handled
  <2> QED
    BY <1>4, <2>1, <2>2
<1>10. /\ Said(Append(q, f), h, seen, out, ret)
       /\ \A n \in 1 .. Len(q) : Msg(Append(q, f), n) = Msg(q, n) /\ Append(q, f)[n] = q[n]
  <2>1. Said(q, h, seen, out, ret)
    BY <1>1 DEF CInv, Talk
  <2> QED
    BY <1>4, <1>9, <2>1, SaidSent
<1>11. Talk'
  BY <1>2, <1>8, <1>10 DEF CInv, Talk
<1>12. Checked'
  <2>1. ASSUME pc' = "got"
        PROVE  /\ frame'.of # 0 /\ frame' = Msg(sent', frame'.of)
               /\ ~W!Forbidden(sent'[frame'.of]) /\ ~W!TooLong(sent'[frame'.of])
    <3>1. k # 0 /\ frame = Msg(q, k) /\ ~W!Forbidden(q[k]) /\ ~W!TooLong(q[k])
      BY <1>1, <1>2, <2>1 DEF CInv, Checked
    <3>2. k \in 1 .. Len(q)
      BY <1>4, <3>1
    <3>3. sent'[k] = q[k] /\ Msg(sent', k) = Msg(q, k)
      BY <1>2, <1>10, <3>2
    <3> QED
      BY <1>1, <1>2, <3>1, <3>3
  <2>2. ASSUME pc' \in {"length", "payload"}
        PROVE  W!FrontFrame' = W!FrontFrame
    <3>1. Len(rb) # 0
      BY <1>2, <2>2 DEF CInv, WInv, Reader
    <3>2. rb[1][1] \in 1 .. Len(q)
      BY <1>1, <3>1, FrontIs DEF CInv, WInv
    <3> QED
      BY <1>1, <1>2, <1>10, <3>2 DEF W!FrontFrame
  <2>3. pc' \in {"length", "payload"} => ~W!Forbidden(W!FrontFrame')
    BY <1>2, <2>2 DEF CInv, Checked
  <2>4. pc' = "payload" => ~W!TooLong(W!FrontFrame')
    BY <1>2, <2>2 DEF CInv, Checked
  <2> QED
    BY <2>1, <2>3, <2>4 DEF Checked, W!Forbidden, W!TooLong
<1> QED
  BY <1>3, <1>7, <1>11, <1>12 DEF CInv

\* What is taken from the wire is what the buffer gets.
LEMMA Moved ==
  ASSUME NEW U, NEW r \in Seq(U), NEW w \in Seq(U), NEW n \in 0 .. Len(w)
  PROVE  (r \o SubSeq(w, 1, n)) \o SubSeq(w, n + 1, Len(w)) = r \o w
<1>1. PICK a, b : a = SubSeq(w, 1, n) /\ b = SubSeq(w, n + 1, Len(w))
  OBVIOUS
<1>2. a \in Seq(U) /\ b \in Seq(U)
  BY <1>1, Halves
<1>3. a \o b = w
  <2>1. 1 \in 1 .. Len(w) + 1 /\ n \in 1 - 1 .. Len(w) /\ Len(w) \in n .. Len(w)
    OBVIOUS
  <2>2. SubSeq(w, 1, n) \o SubSeq(w, n + 1, Len(w)) = SubSeq(w, 1, Len(w))
    BY <2>1, ConcatAdjacentSubSeq
  <2>3. SubSeq(w, 1, Len(w)) = w
    BY SubSeqFull
  <2> QED
    BY <1>1, <2>2, <2>3
<1>4. (r \o a) \o b = r \o (a \o b)
  BY <1>2, ConcatAssociative, SMTT(30)
<1> QED
  BY <1>1, <1>3, <1>4

\* The upgrade and its refusal.
LEMMA UpgradeTalks ==
  ASSUME CInv, W!UpgradeRefused \/ \E n \in 0 .. Len(wire) : W!http_ws_upgrade(n)
  PROVE  CInv'
<1>1. CASE W!UpgradeRefused
  <2>1. /\ pc = "upgrade" /\ pc' = "refused" /\ rb' = rb /\ wire' = wire /\ sent' = sent /\ frame' = frame
        /\ seen' = seen /\ out' = out /\ ret' = ret
    BY <1>1 DEF W!UpgradeRefused
  <2>2. WInv'
    BY <1>1, RefusedKeeps DEF CInv
  <2>3. Checked'
    BY <2>1 DEF Checked
  <2> QED
    BY <2>1, <2>2, <2>3, Waiting
<1>2. ASSUME NEW n \in 0 .. Len(wire), W!http_ws_upgrade(n)
      PROVE  CInv'
  <2>1. /\ pc = "upgrade" /\ pc' = "fixed" /\ rb' = SubSeq(wire, 1, n) /\ wire' = SubSeq(wire, n + 1, Len(wire))
        /\ sent' = sent /\ frame' = frame /\ seen' = seen /\ out' = out /\ ret' = ret
    BY <1>2 DEF W!http_ws_upgrade
  <2>2. WInv'
    BY <1>2, UpgradeKeeps DEF CInv
  <2>3. Checked'
    BY <2>1 DEF Checked
  <2>4. rb = << >> /\ rb \in Seq(SentUnits) /\ wire \in Seq(SentUnits)
    BY <2>1 DEF CInv, Layout, WInv, WTypes
  <2>5. rb' \o wire' = rb \o wire
    <3>1. SubSeq(wire, 1, n) \in Seq(SentUnits)
      BY <2>4, Halves
    <3>2. rb \o SubSeq(wire, 1, n) = SubSeq(wire, 1, n)
      BY <2>4, <3>1, ConcatEmptySeq
    <3>3. (rb \o SubSeq(wire, 1, n)) \o SubSeq(wire, n + 1, Len(wire)) = rb \o wire
      BY <2>4, Moved
    <3> QED
      BY <2>1, <3>2, <3>3
  <2> QED
    BY <2>1, <2>2, <2>3, <2>5, Waiting
<1> QED
  BY <1>1, <1>2

\* recv, and its failure, and the buffer that is full.
LEMMA ReceivesTalks ==
  ASSUME CInv, W!Receives \/ W!ReceiveFails \/ W!BufferFull
  PROVE  CInv'
<1>1. CASE W!Receives
  <2>1. PICK n \in 1 .. W!Min({Len(wire), cap - Len(rb)}) :
          rb' = rb \o SubSeq(wire, 1, n) /\ wire' = SubSeq(wire, n + 1, Len(wire))
    BY <1>1 DEF W!Receives
  <2>2. /\ pc \in {"fixed", "length", "payload"} /\ pc' = pc /\ sent' = sent /\ frame' = frame
        /\ seen' = seen /\ out' = out /\ ret' = ret
    BY <1>1 DEF W!Receives, W!Short
  <2>3. /\ wire \in Seq(SentUnits) /\ rb \in Seq(SentUnits) /\ Len(wire) \in Nat /\ Len(rb) \in Nat
        /\ cap \in Nat
    BY DEF CInv, WInv, WTypes
  <2>4. n \in 0 .. Len(wire)
    <3>1. PICK a, b : a = Len(wire) /\ b = cap - Len(rb) /\ a \in Int /\ b \in Int
      BY <2>3
    <3>2. \E x \in {a, b} : \A y \in {a, b} : x <= y
      BY <3>1
    <3>3. W!Min({a, b}) \in {a, b} /\ \A y \in {a, b} : W!Min({a, b}) <= y
      BY <3>2 DEF W!Min
    <3>4. n \in 1 .. W!Min({a, b})
      BY <2>1, <3>1
    <3> QED
      BY <2>3, <3>1, <3>3, <3>4
  <2>5. rb' \o wire' = rb \o wire
    BY <2>1, <2>3, <2>4, Moved
  <2>6. WInv'
    BY <1>1, ReceivesKeeps DEF CInv
  <2>7. Checked'
    <3>1. ASSUME pc \in {"length", "payload"}
          PROVE  W!FrontFrame' = W!FrontFrame
      <4>1. Len(rb) # 0 /\ 1 \in 1 .. Len(rb)
        BY <2>3, <3>1 DEF CInv, WInv, Reader
      <4>2. PICK x : x = SubSeq(wire, 1, n) /\ x \in Seq(SentUnits)
        BY <2>3, <2>4, Halves
      <4>3. Len(x) \in Nat
        BY <4>2
      <4>4. \A i \in 1 .. Len(rb) + Len(x) : rb'[i] = IF i <= Len(rb) THEN rb[i] ELSE x[i - Len(rb)]
        BY <2>1, <2>3, <4>2, ConcatProperties
      <4>5. rb'[1] = rb[1]
        BY <2>3, <4>1, <4>3, <4>4
      <4> QED
        BY <2>2, <4>5 DEF W!FrontFrame
    <3>2. pc' \in {"length", "payload"} => ~W!Forbidden(W!FrontFrame')
      BY <2>2, <3>1 DEF CInv, Checked
    <3>3. pc' = "payload" => ~W!TooLong(W!FrontFrame')
      BY <2>2, <3>1 DEF CInv, Checked
    <3> QED
      BY <2>2, <3>2, <3>3 DEF Checked, W!Forbidden, W!TooLong
  <2> QED
    BY <2>2, <2>5, <2>6, <2>7, Waiting
<1>2. CASE W!ReceiveFails \/ W!BufferFull
  <2>1. /\ pc \in {"fixed", "length", "payload"} /\ pc' = "ended" /\ ret' # "clean" /\ rb' = rb /\ wire' = wire
        /\ sent' = sent /\ frame' = frame /\ seen' = seen /\ out' = out
    BY <1>2 DEF W!ReceiveFails, W!BufferFull, W!Short, W!Ends
  <2>2. ret # "clean"
    BY <2>1 DEF CInv, WInv, Reader
  <2>3. WInv'
    BY <1>2, ReceiveFailsKeeps, BufferFullKeeps DEF CInv
  <2>4. Checked'
    BY <2>1 DEF Checked
  <2> QED
    BY <2>1, <2>2, <2>3, <2>4, Waiting
<1> QED
  BY <1>1, <1>2

\* The checks on the fixed bytes and on the length.
LEMMA HeaderTalks ==
  ASSUME CInv, W!FixedRead \/ W!LengthRead
  PROVE  CInv'
<1>1. /\ pc \in {"fixed", "length"} /\ rb' = rb /\ wire' = wire
      /\ sent' = sent /\ frame' = frame /\ seen' = seen /\ out' = out
  BY DEF W!FixedRead, W!LengthRead
<1>2. \/ pc = "fixed" /\ pc' = "length" /\ ret' = ret /\ ~W!Forbidden(W!FrontFrame)
      \/ pc = "length" /\ pc' = "payload" /\ ret' = ret /\ ~W!TooLong(W!FrontFrame)
      \/ pc' = "ended" /\ ret' = "rejected"
  BY DEF W!FixedRead, W!LengthRead, W!Ends
<1>3. ret = "none"
  BY <1>1 DEF CInv, WInv, Reader
<1>4. WInv'
  BY HeaderKeeps DEF CInv
<1>5. W!FrontFrame' = W!FrontFrame
  BY <1>1 DEF W!FrontFrame
<1>6. Checked'
  <2>1. pc' \in {"length", "payload"} => ~W!Forbidden(W!FrontFrame')
    BY <1>2, <1>5 DEF CInv, Checked
  <2>2. pc' = "payload" => ~W!TooLong(W!FrontFrame')
    BY <1>2, <1>5
  <2>3. pc' # "got"
    BY <1>2
  <2> QED
    BY <2>1, <2>2, <2>3 DEF Checked, W!Forbidden, W!TooLong
<1>7. pc # "got" /\ pc' # "got" /\ pc' # "upgrade" /\ (ret' = ret \/ (ret # "clean" /\ ret' # "clean"))
  BY <1>1, <1>2, <1>3
<1> QED
  BY <1>1, <1>4, <1>6, <1>7, Waiting

\* The part of a frame behind its header and mask is its payload.
LEMMA PayloadIs ==
  ASSUME NEW f \in Frames, NEW m \in Nat, NEW r, \A i \in 1 .. W!Size(f) : r[i] = <<m, i>>
  PROVE  SubSeq(r, W!Hdr(f) + 2, W!Size(f)) = W!PayloadOf(m, f)
<1>1. PICK h, l, s, U : h = W!Hdr(f) /\ l = f.len /\ s = W!Size(f) /\ U = Nat \X Nat
  OBVIOUS
<1>2. h \in Nat /\ l \in Nat /\ s \in Nat /\ s = h + 1 + l
  BY <1>1, SizesAre, FramesAre DEF W!Size
<1>3. PICK c, p, g : c = h + 2 /\ p = W!PayloadOf(m, f) /\ g = SubSeq(r, c, s)
  OBVIOUS
<1>4. p = [i \in 1 .. l |-> <<m, h + 1 + i>>]
  BY <1>1, <1>3 DEF W!PayloadOf
<1>5. \A i \in c .. s : r[i] = <<m, i>> /\ <<m, i>> \in U
  <2>1. \A i \in c .. s : i \in 1 .. s /\ i \in Nat
    BY <1>2, <1>3
  <2> QED
    BY <1>1, <2>1
<1>6. c \in Int /\ s \in Int
  BY <1>2, <1>3
<1>7. /\ g \in Seq(U) /\ Len(g) = (IF c <= s THEN s - c + 1 ELSE 0)
      /\ \A i \in 1 .. s - c + 1 : g[i] = r[c + i - 1]
  <2>1. \A i \in c .. s : r[i] \in U
    BY <1>5
  <2> QED
    BY <1>3, <1>6, <2>1, SubSeqProperties
<1>8. (IF c <= s THEN s - c + 1 ELSE 0) = l /\ s - c + 1 = l
  BY <1>2, <1>3
<1>9. p \in Seq(U) /\ Len(p) = l /\ \A i \in 1 .. l : p[i] = <<m, h + 1 + i>>
  <2>1. \A i \in 1 .. l : <<m, h + 1 + i>> \in U
    BY <1>1, <1>2
  <2>2. p \in [1 .. l -> U]
    BY <1>4, <2>1
  <2>3. p \in Seq(U) /\ Len(p) = l
    BY <1>2, <2>2, SeqDef
  <2> QED
    BY <1>4, <2>3
<1>10. ASSUME NEW i \in 1 .. Len(g)
       PROVE  g[i] = p[i]
  <2>1. i \in 1 .. l /\ c + i - 1 = h + 1 + i /\ h + 1 + i \in c .. s
    BY <1>2, <1>3, <1>7, <1>8
  <2>2. g[i] = r[h + 1 + i]
    BY <1>7, <1>8, <2>1
  <2>3. r[h + 1 + i] = <<m, h + 1 + i>>
    BY <1>5, <2>1
  <2> QED
    BY <1>9, <2>1, <2>2, <2>3
<1>11. g = p
  BY <1>7, <1>8, <1>9, <1>10, SeqEqual
<1> QED
  BY <1>1, <1>3, <1>11

\* The end of a list, in two parts.
LEMMA CutFront ==
  ASSUME NEW U, NEW r \in Seq(U), NEW w \in Seq(U), NEW s \in 0 .. Len(r)
  PROVE  SubSeq(r, s + 1, Len(r)) \o w = SubSeq(r \o w, s + 1, Len(r \o w))
<1>1. PICK a, b, v : a = SubSeq(r, 1, s) /\ b = SubSeq(r, s + 1, Len(r)) /\ v = r \o w
  OBVIOUS
<1>2. PICK l, n : l = Len(r) /\ n = Len(w) /\ l \in Nat /\ n \in Nat /\ s \in Nat /\ s <= l
  <2>1. Len(r) \in Nat /\ Len(w) \in Nat /\ s \in Nat /\ s <= Len(r)
    BY LenProperties
  <2> QED
    BY <2>1
<1>3. b \in Seq(U) /\ Len(b) = l - s /\ \A i \in 1 .. l - s : b[i] = r[s + i]
  <2>1. PICK c : c = s + 1 /\ c \in Int /\ l \in Int
    BY <1>2
  <2>2. \A i \in c .. l : i \in 1 .. l
    BY <1>2, <2>1
  <2>3. \A i \in c .. l : r[i] \in U
    BY <1>2, <2>2, ElementOfSeq
  <2>4. /\ SubSeq(r, c, l) \in Seq(U)
        /\ Len(SubSeq(r, c, l)) = (IF c <= l THEN l - c + 1 ELSE 0)
        /\ \A i \in 1 .. l - c + 1 : SubSeq(r, c, l)[i] = r[c + i - 1]
    BY <2>1, <2>3, SubSeqProperties
  <2>5. l - c + 1 = l - s /\ (IF c <= l THEN l - c + 1 ELSE 0) = l - s /\ \A i \in 1 .. l - s : c + i - 1 = s + i
    BY <1>2, <2>1
  <2> QED
    BY <1>1, <1>2, <2>1, <2>4, <2>5
<1>4. v \in Seq(U) /\ Len(v) = l + n /\ \A i \in 1 .. l + n : v[i] = IF i <= l THEN r[i] ELSE w[i - l]
  BY <1>1, <1>2, ConcatProperties
<1>5. PICK x, y : x = b \o w /\ y = SubSeq(v, s + 1, l + n)
  OBVIOUS
<1>6. /\ x \in Seq(U) /\ Len(x) = (l - s) + n
      /\ \A i \in 1 .. (l - s) + n : x[i] = IF i <= l - s THEN b[i] ELSE w[i - (l - s)]
  <2>1. PICK e : e = Len(b) /\ e = l - s
    BY <1>3
  <2>2. /\ x \in Seq(U) /\ Len(x) = e + n
        /\ \A i \in 1 .. e + n : x[i] = IF i <= e THEN b[i] ELSE w[i - e]
    <3>1. b \in Seq(U)
      BY <1>3
    <3>2. /\ b \o w \in Seq(U) /\ Len(b \o w) = Len(b) + Len(w)
          /\ \A i \in 1 .. Len(b) + Len(w) : (b \o w)[i] = IF i <= Len(b) THEN b[i] ELSE w[i - Len(b)]
      BY <3>1, ConcatProperties
    <3>3. Len(b) = e /\ Len(w) = n /\ b \o w = x
      BY <1>2, <1>5, <2>1
    <3> QED
      BY <3>2, <3>3
  <2> QED
    BY <2>1, <2>2
<1>7. y \in Seq(U) /\ Len(y) = (l - s) + n /\ \A i \in 1 .. (l - s) + n : y[i] = v[s + i]
  <2>1. PICK c, e : c = s + 1 /\ e = l + n /\ c \in Int /\ e \in Int
    BY <1>2
  <2>2. \A i \in c .. e : i \in 1 .. Len(v)
    BY <1>2, <1>4, <2>1
  <2>3. \A i \in c .. e : v[i] \in U
    BY <1>4, <2>2, ElementOfSeq
  <2>4. /\ SubSeq(v, c, e) \in Seq(U)
        /\ Len(SubSeq(v, c, e)) = (IF c <= e THEN e - c + 1 ELSE 0)
        /\ \A i \in 1 .. e - c + 1 : SubSeq(v, c, e)[i] = v[c + i - 1]
    BY <2>1, <2>3, SubSeqProperties
  <2>5. /\ e - c + 1 = (l - s) + n /\ (IF c <= e THEN e - c + 1 ELSE 0) = (l - s) + n
        /\ \A i \in 1 .. (l - s) + n : c + i - 1 = s + i
    BY <1>2, <2>1
  <2> QED
    BY <1>5, <2>1, <2>4, <2>5
<1>8. ASSUME NEW i \in 1 .. Len(x)
      PROVE  x[i] = y[i]
  <2>1. i \in 1 .. (l - s) + n /\ s + i \in 1 .. l + n /\ y[i] = v[s + i]
    BY <1>2, <1>6, <1>7
  <2>2. CASE i <= l - s
    <3>1. i \in 1 .. l - s /\ s + i <= l
      BY <1>2, <2>1, <2>2
    <3> QED
      BY <1>3, <1>4, <1>6, <2>1, <2>2, <3>1
  <2>3. CASE ~(i <= l - s)
    <3>1. ~(s + i <= l) /\ (s + i) - l = i - (l - s)
      BY <1>2, <2>1, <2>3
    <3> QED
      BY <1>4, <1>6, <2>1, <2>3, <3>1
  <2> QED
    BY <2>2, <2>3
<1>9. x = y
  BY <1>6, <1>7, <1>8, SeqEqual
<1> QED
  BY <1>1, <1>2, <1>4, <1>5, <1>9

\* The frame is read: the loop gets it whole, and the stream goes on behind it.
LEMMA PayloadTalks ==
  ASSUME CInv, W!PayloadRead
  PROVE  CInv'
<1>1. PICK k, m, f, s, u : k = frame.of /\ m = k + 1 /\ f = W!FrontFrame /\ s = W!Size(f) /\ u = rb \o wire
  OBVIOUS
<1>2. /\ pc = "payload" /\ ~W!Short /\ pc' = "got" /\ rb' = SubSeq(rb, s + 1, Len(rb))
      /\ frame' = [of |-> rb[1][1], data |-> SubSeq(rb, W!Hdr(f) + 2, s)]
      /\ wire' = wire /\ sent' = sent /\ seen' = seen /\ out' = out /\ ret' = ret
  BY <1>1 DEF W!PayloadRead
<1>3. Len(rb) # 0 /\ ~W!Forbidden(f) /\ ~W!TooLong(f)
  BY <1>1, <1>2 DEF CInv, WInv, Reader, Checked
<1>4. /\ rb[1] = <<m, 1>> /\ f = sent[m] /\ m \in 1 .. Len(sent) /\ k \in 0 .. Len(sent) /\ k # Len(sent)
      /\ Len(u) # 0
  BY <1>1, <1>3, FrontNext
<1>5. /\ sent \in Seq(Frames) /\ rb \in Seq(SentUnits) /\ wire \in Seq(SentUnits)
      /\ Stream(sent, u, k)
  BY <1>1 DEF CInv, WInv, WTypes, Layout
<1>6. f \in Frames /\ \A i \in 1 .. s : i <= Len(u) => u[i] = <<m, i>>
  <2>1. /\ sent[k + 1] \in Frames
        /\ \A i \in 1 .. W!Size(sent[k + 1]) : i <= Len(u) => u[i] = <<k + 1, i>>
    BY <1>4, <1>5, StreamHead
  <2>2. sent[k + 1] = f /\ W!Size(sent[k + 1]) = s /\ k + 1 = m
    BY <1>1, <1>4
  <2> QED
    BY <2>1, <2>2
<1>7. s \in Nat /\ Len(rb) \in Nat /\ Len(wire) \in Nat /\ k \in Nat /\ m \in Nat
  BY <1>1, <1>4, <1>5, <1>6, SizesAre, LenProperties
<1>8. s <= Len(rb)
  <2>1. ~(Len(rb) < s)
    BY <1>1, <1>2 DEF W!Short, W!Need
  <2> QED
    BY <1>7, <2>1
<1>9. Len(u) = Len(rb) + Len(wire) /\ \A i \in 1 .. Len(rb) + Len(wire) : u[i] = IF i <= Len(rb) THEN rb[i] ELSE wire[i - Len(rb)]
  BY <1>1, <1>5, ConcatProperties
<1>10. \A i \in 1 .. s : rb[i] = <<m, i>>
  <2>1. \A i \in 1 .. s : i <= Len(rb) /\ i <= Len(u) /\ i \in 1 .. Len(rb) + Len(wire)
    BY <1>7, <1>8, <1>9
  <2> QED
    BY <1>6, <1>9, <2>1
<1>11. frame' = Msg(sent, m) /\ frame'.of = m
  <2>1. SubSeq(rb, W!Hdr(f) + 2, s) = W!PayloadOf(m, f)
    BY <1>1, <1>6, <1>7, <1>10, PayloadIs
  <2>2. rb[1][1] = m
    BY <1>4
  <2> QED
    BY <1>2, <1>4, <2>1, <2>2 DEF Msg
<1>12. Layout'
  <2>1. s = W!Size(sent[k + 1]) /\ s <= Len(u)
    BY <1>1, <1>4, <1>7, <1>8, <1>9
  <2>2. Stream(sent, SubSeq(u, s + 1, Len(u)), k + 1)
    BY <1>4, <1>5, <2>1, StreamDrops
  <2>3. s \in 0 .. Len(rb)
    BY <1>7, <1>8
  <2>4. SubSeq(rb, s + 1, Len(rb)) \o wire = SubSeq(u, s + 1, Len(u))
    BY <1>1, <1>5, <2>3, CutFront
  <2> QED
    BY <1>1, <1>2, <1>11, <2>2, <2>4 DEF Layout
<1>13. Checked'
  <2>1. m # 0
    BY <1>4, <1>7
  <2> QED
    BY <1>2, <1>3, <1>4, <1>11, <2>1 DEF Checked
<1>14. Talk'
  <2>1. W!Handled = k
    BY <1>1, <1>2 DEF W!Handled
  <2>2. W!Handled' = k
    <3>1. W!Handled' = m - 1
      BY <1>2, <1>11 DEF W!Handled
    <3> QED
      BY <1>1, <1>7, <3>1
  <2> QED
    BY <1>2, <2>1, <2>2 DEF CInv, Talk
<1>15. WInv'
  BY PayloadKeeps DEF CInv
<1> QED
  BY <1>12, <1>13, <1>14, <1>15 DEF CInv

\* The loop handles the frame it has in hand.
LEMMA LoopTalks ==
  ASSUME CInv, W!LoopCloses \/ W!LoopPongs \/ W!LoopIgnores \/ W!LoopDelivers
  PROVE  CInv'
<1>1. PICK k, m, h : k = frame.of - 1 /\ m = frame.of /\ h = W!Handled'
  OBVIOUS
<1>2. /\ pc = "got" /\ pc' \in {"fixed", "ended"} /\ rb' = rb /\ wire' = wire /\ sent' = sent /\ frame' = frame
  BY DEF W!LoopCloses, W!LoopPongs, W!LoopIgnores, W!LoopDelivers, W!Ends
<1>3. ret = "none"
  BY <1>2 DEF CInv, WInv, Reader
<1>4. /\ sent \in Seq(Frames) /\ out \in Seq(Outs) /\ m \in 0 .. Len(sent) /\ m # 0
      /\ frame = Msg(sent, m) /\ ~W!Forbidden(sent[m]) /\ ~W!TooLong(sent[m])
  BY <1>1, <1>2 DEF CInv, WInv, WTypes, Layout, Stream, Checked, Talk
<1>5. Len(sent) \in Nat
  BY <1>4, LenProperties
<1>6. k \in 0 .. Len(sent) /\ k # Len(sent) /\ k + 1 = m
  BY <1>1, <1>4, <1>5
<1>7. W!Handled = k /\ h = m
  BY <1>1, <1>2 DEF W!Handled
<1>8. Said(sent, k, seen, out, ret)
  BY <1>7 DEF CInv, Talk
<1>9. PICK x, d : x = sent[m].op /\ d = frame.data
  OBVIOUS
<1>10. d \in Seq(Nat \X Nat)
  <2>1. m \in 1 .. Len(sent)
    BY <1>4, <1>5
  <2>2. Msg(sent, m) \in Msgs
    BY <1>4, <2>1, MsgIs
  <2> QED
    BY <1>4, <1>9, <2>2 DEF Msgs
<1>11. ASSUME NEW e
       PROVE  /\ x \notin W!Control /\ e # "clean" => Said(sent, m, Append(seen, frame), out, e)
              /\ x = "pong" => Said(sent, m, seen, out, ret)
              /\ x = "ping" => Said(sent, m, seen, Append(out, [op |-> "pong", data |-> d]), ret)
              /\ x = "close" => Said(sent, m, seen, Append(out, [op |-> "close", data |-> << >>]), "clean")
  <2>1. /\ sent[k + 1].op \notin W!Control /\ e # "clean" => Said(sent, k + 1, Append(seen, Msg(sent, k + 1)), out, e)
        /\ sent[k + 1].op = "pong" => Said(sent, k + 1, seen, out, ret)
        /\ sent[k + 1].op = "ping" => Said(sent, k + 1, seen, Append(out, [op |-> "pong", data |-> Msg(sent, k + 1).data]), ret)
        /\ sent[k + 1].op = "close" => Said(sent, k + 1, seen, Append(out, [op |-> "close", data |-> << >>]), "clean")
    <3>1. ret # "clean" /\ ~W!Forbidden(sent[k + 1]) /\ ~W!TooLong(sent[k + 1])
      BY <1>3, <1>4, <1>6
    <3> QED
      BY <1>4, <1>6, <1>8, <3>1, SaidMore
  <2> QED
    BY <1>4, <1>6, <1>9, <2>1
<1>12. W!Op = x
  BY <1>1, <1>9 DEF W!Op
<1>13. out' \in Seq(Outs) /\ Said(sent, m, seen', out', ret')
  <2>1. CASE W!LoopCloses
    <3>1. x = "close" /\ out' = Append(out, [op |-> "close", data |-> << >>]) /\ ret' = "clean" /\ seen' = seen
      BY <1>12, <2>1 DEF W!LoopCloses, W!Ends, W!http_ws_send
    <3>2. PICK t : t = << >> /\ t \in Seq(Nat \X Nat)
      BY EmptySeq
    <3>3. [op |-> "close", data |-> t] \in Outs
      BY <3>2 DEF Outs
    <3>4. out' \in Seq(Outs)
      BY <1>4, <3>1, <3>2, <3>3, AppendProperties
    <3> QED
      BY <1>11, <3>1, <3>4
  <2>2. CASE W!LoopPongs
    <3>1. x = "ping" /\ out' = Append(out, [op |-> "pong", data |-> d]) /\ ret' = ret /\ seen' = seen
      BY <1>9, <1>12, <2>2 DEF W!LoopPongs, W!http_ws_send, W!PongData
    <3>2. [op |-> "pong", data |-> d] \in Outs
      BY <1>10 DEF Outs
    <3>3. out' \in Seq(Outs)
      BY <1>4, <3>1, <3>2, AppendProperties
    <3> QED
      BY <1>11, <3>1, <3>3
  <2>3. CASE W!LoopIgnores
    <3>1. x = "pong" /\ out' = out /\ ret' = ret /\ seen' = seen
      BY <1>12, <2>3 DEF W!LoopIgnores
    <3> QED
      BY <1>4, <1>11, <3>1
  <2>4. CASE W!LoopDelivers
    <3>1. x \notin W!Control /\ out' = out /\ ret' # "clean" /\ seen' = Append(seen, frame)
      BY <1>3, <1>12, <2>4 DEF W!LoopDelivers, W!Ends
    <3> QED
      BY <1>4, <1>11, <3>1
  <2> QED
    BY <2>1, <2>2, <2>3, <2>4
<1>14. Talk'
  BY <1>1, <1>2, <1>7, <1>13 DEF Talk
<1>15. Layout' /\ Checked'
  BY <1>2 DEF CInv, Layout, Checked
<1>16. WInv'
  BY LoopKeeps DEF CInv
<1> QED
  BY <1>14, <1>15, <1>16 DEF CInv

\* A step of the other decoder.
LEMMA IdleTalks ==
  ASSUME CInv, UNCHANGED wvars
  PROVE  CInv'
<1>1. /\ sent' = sent /\ rb' = rb /\ wire' = wire /\ cap' = cap /\ pc' = pc /\ ret' = ret
      /\ frame' = frame /\ seen' = seen /\ out' = out
  BY DEF wvars
<1>2. WInv'
  BY IdleKeeps DEF CInv
<1>3. W!FrontFrame' = W!FrontFrame /\ W!Handled' = W!Handled
  BY <1>1 DEF W!FrontFrame, W!Handled
<1>4. Layout' /\ Talk'
  BY <1>1, <1>3 DEF CInv, Layout, Talk
<1>5. Checked'
  BY <1>1, <1>3 DEF CInv, Checked, W!Forbidden, W!TooLong
<1> QED
  BY <1>2, <1>4, <1>5 DEF CInv

\* However the stream is split and whatever is pipelined behind the handshake,
\* http_ws_loop hands the data frames to the application whole, in order, each once
\* and none left out, answers every ping once and with its payload and a close with one
\* close, and handles no frame that had to be refused: for buffers of every size and
\* conversations of every length.
THEOREM CodecsConversationFaithful == Spec => []ConversationFaithful
<1>1. Init => CInv
  <2> SUFFICES ASSUME Init PROVE CInv
    OBVIOUS
  <2>1. /\ pc = "upgrade" /\ cap = 0 /\ rb = << >> /\ wire = << >> /\ sent = << >> /\ ret = "none"
        /\ frame = W!NoFrame /\ seen = << >> /\ out = << >>
    BY DEF Init, W!Init
  <2>2. rb \in Seq(SentUnits) /\ wire \in Seq(SentUnits) /\ sent \in Seq(Frames) /\ out \in Seq(Outs)
    BY <2>1, EmptySeq
  <2>3. WInv
    BY <2>1, <2>2 DEF WInv, WTypes, Reader, GoodFramesRead, W!GoodFramesRead
  <2>4. frame.of = 0 /\ W!Handled = 0 /\ Len(sent) = 0
    BY <2>1 DEF W!NoFrame, W!Handled
  <2>5. Layout
    <3>1. PICK u : u = rb \o wire
      OBVIOUS
    <3>2. u \in Seq(SentUnits) /\ Len(u) = 0
      <4>1. Len(rb) = 0 /\ Len(wire) = 0
        BY <2>1
      <4> QED
        BY <2>2, <3>1, <4>1, ConcatProperties
    <3>3. Stream(sent, u, 0)
      BY <2>4, <3>2 DEF Stream, SentUnits
    <3> QED
      BY <2>1, <2>4, <3>1, <3>3 DEF Layout
  <2>6. Checked
    BY <2>1 DEF Checked
  <2>7. Said(sent, 0, seen, out, ret)
    <3>1. PICK a, D, P, S, T : /\ a = All(sent, 0) /\ D = DataAt(sent, 0) /\ P = PingAt(sent, 0)
                               /\ S = SentAt(out, "pong") /\ T = SentAt(out, "close")
      OBVIOUS
    <3>2. a = << >>
      <4>1. 0 \in 0 .. Len(sent)
        BY <2>4
      <4>2. a \in Seq(Msgs) /\ Len(a) = 0
        BY <2>2, <3>1, <4>1, AllAre
      <4> QED
        BY <4>2, EmptySeq
    <3>3. W!Pick(a, D) = << >> /\ W!Pick(a, P) = << >>
      BY <3>2, PickNone
    <3>4. W!Pick(out, S) = << >> /\ W!Pick(out, T) = << >>
      BY <2>1, PickNone
    <3>5. Answered(W!Pick(out, S), W!Pick(a, P))
      BY <3>3, <3>4 DEF Answered
    <3>6. Len(W!Pick(out, T)) = 0
      BY <3>4
    <3>7. Handles(sent, 0, ret)
      BY DEF Handles
    <3> QED
      BY <2>1, <3>1, <3>3, <3>5, <3>6, <3>7 DEF Said
  <2> QED
    BY <2>2, <2>3, <2>4, <2>5, <2>6, <2>7 DEF CInv, Talk
<1>2. CInv /\ [Next]_<<which, hvars, wvars>> => CInv'
  <2> SUFFICES ASSUME CInv, [Next]_<<which, hvars, wvars>> PROVE CInv'
    OBVIOUS
  <2>1. CASE UNCHANGED wvars
    BY <2>1, IdleTalks
  <2>2. CASE W!Next
    BY <2>2, SendsTalks, UpgradeTalks, ReceivesTalks, HeaderTalks, PayloadTalks, LoopTalks DEF W!Next
  <2> QED
    BY <2>1, <2>2 DEF Next
<1>3. CInv => ConversationFaithful
  <2> SUFFICES ASSUME CInv PROVE ConversationFaithful
    OBVIOUS
  <2>1. Said(sent, W!Handled, seen, out, ret)
    BY DEF CInv, Talk
  <2>2. All(sent, W!Handled) = [n \in 1 .. W!Handled |-> [of |-> n, data |-> W!PayloadOf(n, sent[n])]]
    BY DEF All, Msg
  <2> QED
    BY <2>1, <2>2 DEF ConversationFaithful, W!ConversationFaithful, Said, Answered, Handles, DataAt, PingAt, SentAt
<1> QED
  BY <1>1, <1>2, <1>3, PTL DEF Spec

=============================================================================
