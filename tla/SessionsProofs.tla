--------------------------- MODULE SessionsProofs ---------------------------
(***************************************************************************)
(* Proofs about the session store and the database behind it.  What the    *)
(* recursive functions of Db and Sessions compute is proved by induction   *)
(* over the length of the log or of the table.                             *)
(***************************************************************************)
EXTENDS Sessions, WellFoundedInduction, TLAPS, SequenceTheorems, FiniteSetTheorems, FunctionTheorems

-----------------------------------------------------------------------------
(***************************************************************************)
(* Induction for the recursive functions of the model, in the form that    *)
(* every nonempty set of numbers has a least element: the least index at   *)
(* which a claim fails cannot be 0 and cannot be a successor.  The claim   *)
(* is a set and not an operator, so that it can be cited.                  *)
(***************************************************************************)

\* A nonempty set of natural numbers has a least element.
LEMMA LeastNumber ==
  ASSUME NEW T, T \subseteq Nat, T # {}
  PROVE  \E n \in T : \A m \in T : n <= m
<1>1. \E n \in T : \A m \in T : ~(<<m, n>> \in OpToRel(<, Nat))
  <2> HIDE DEF OpToRel
  <2> QED
    BY WFMin, NatLessThanWellFounded, Zenon
<1>2. PICK n \in T : \A m \in T : ~(<<m, n>> \in OpToRel(<, Nat))
  BY <1>1, Zenon
<1>3. ASSUME NEW m \in T
      PROVE  n <= m
  <2>1. <<m, n>> \in Nat \X Nat
    OBVIOUS
  <2>2. ~(m < n)
    BY <1>2, <2>1 DEF OpToRel
  <2> QED
    BY <2>2
<1> QED
  BY <1>3

\* Induction up to a bound, for a set: it holds 0 and with n also n + 1.
LEMMA Induction ==
  ASSUME NEW N \in Nat, NEW S, 0 \in S,
         \A n \in 0 .. N - 1 : n \in S => n + 1 \in S
  PROVE  0 .. N \subseteq S
<1> DEFINE T == {n \in 0 .. N : n \notin S}
<1> SUFFICES ASSUME T # {}
             PROVE  FALSE
  OBVIOUS
<1>1. PICK n \in T : \A m \in T : n <= m
  <2>1. T \subseteq Nat
    OBVIOUS
  <2> HIDE DEF T
  <2> QED
    BY <2>1, LeastNumber
<1>2. n - 1 \in 0 .. N - 1 /\ n - 1 \notin T
  BY <1>1
<1> QED
  BY <1>1, <1>2

-----------------------------------------------------------------------------
\* A list without its last element.
LEMMA FrontOf ==
  ASSUME NEW S, NEW s \in Seq(S), s # << >>
  PROVE  /\ Front(s) \in Seq(S) /\ Len(Front(s)) = Len(s) - 1
         /\ \A i \in 1 .. Len(s) - 1 : Front(s)[i] = s[i]
         /\ Last(s) = s[Len(s)] /\ Last(s) \in S /\ Len(s) \in 1 .. Len(s)
<1>1. Len(s) \in Nat /\ Len(s) >= 1 /\ Len(s) \in 1 .. Len(s)
  OBVIOUS
<1>2. 1 \in Int /\ Len(s) - 1 \in Int /\ \A i \in 1 .. Len(s) - 1 : s[i] \in S
  BY <1>1
<1>3. /\ SubSeq(s, 1, Len(s) - 1) \in Seq(S)
      /\ Len(SubSeq(s, 1, Len(s) - 1)) = IF 1 <= Len(s) - 1 THEN Len(s) - 1 - 1 + 1 ELSE 0
      /\ \A i \in 1 .. Len(s) - 1 - 1 + 1 : SubSeq(s, 1, Len(s) - 1)[i] = s[1 + i - 1]
  BY <1>2, SubSeqProperties
<1>4. Len(SubSeq(s, 1, Len(s) - 1)) = Len(s) - 1
  <2> DEFINE n == Len(s)
             m == Len(SubSeq(s, 1, Len(s) - 1))
  <2>1. n \in Nat /\ n >= 1 /\ m = IF 1 <= n - 1 THEN n - 1 - 1 + 1 ELSE 0
    BY <1>1, <1>3, Zenon
  <2> HIDE DEF n, m
  <2>2. m = n - 1
    BY <2>1
  <2> QED
    BY <2>2 DEF n, m
<1>5. \A i \in 1 .. Len(s) - 1 : SubSeq(s, 1, Len(s) - 1)[i] = s[i]
  BY <1>1, <1>3
<1> QED
  BY <1>1, <1>3, <1>4, <1>5 DEF Front, Last

-----------------------------------------------------------------------------
(* The byte count of the database.                                         *)

Text    == Keys \cup {"gen1", "gen2", "gen3", "page"} \cup UNION {{v[i] : i \in 1 .. Len(v)} : v \in Users}
Lines   == Nat \cup Text
Entries == [key : Tokens \cup {PageKey}, value : Seq(Lines)]

\* f holds the running byte counts of s.
Sums(s, f) == f = [n \in 0 .. Len(s) |-> IF n = 0 THEN 0 ELSE f[n - 1] + entry_size(s[n])]

\* An entry takes bytes.
LEMMA EntrySize ==
  ASSUME NEW e \in Entries
  PROVE  entry_size(e) \in Nat
BY DEF Entries, entry_size

\* The running byte counts exist.
LEMMA SumsExist ==
  ASSUME NEW s \in Seq(Entries)
  PROVE  \E f \in [0 .. Len(s) -> Nat] : Sums(s, f)
<1> DEFINE Upto(n, f) == f = [m \in 0 .. n |-> IF m = 0 THEN 0 ELSE f[m - 1] + entry_size(s[m])]
           S == {n \in 0 .. Len(s) : \E f \in [0 .. n -> Nat] : Upto(n, f)}
<1>1. 0 \in S
  <2> DEFINE z == [m \in 0 .. 0 |-> 0]
  <2>1. z \in [0 .. 0 -> Nat] /\ Upto(0, z)
    OBVIOUS
  <2>2. 0 \in 0 .. Len(s)
    OBVIOUS
  <2> HIDE DEF z, Upto
  <2> QED
    BY <2>1, <2>2
<1>2. ASSUME NEW n \in 0 .. Len(s) - 1, n \in S
      PROVE  n + 1 \in S
  <2>1. PICK f \in [0 .. n -> Nat] : Upto(n, f)
    BY <1>2
  <2> DEFINE g == [m \in 0 .. n + 1 |-> IF m = n + 1 THEN f[n] + entry_size(s[n + 1]) ELSE f[m]]
  <2>2. g \in [0 .. n + 1 -> Nat]
    BY EntrySize
  <2>3. Upto(n + 1, g)
    <3>1. ASSUME NEW m \in 0 .. n + 1
          PROVE  g[m] = IF m = 0 THEN 0 ELSE g[m - 1] + entry_size(s[m])
      BY <2>1
    <3> QED
      BY <3>1
  <2>4. n + 1 \in 0 .. Len(s)
    OBVIOUS
  <2> HIDE DEF g, Upto
  <2> QED
    BY <2>2, <2>3, <2>4
<1>3. 0 .. Len(s) \subseteq S
  <2> HIDE DEF S
  <2> QED
    BY <1>1, <1>2, Induction
<1> QED
  BY <1>3 DEF Sums

\* The byte count is the last of them.
LEMMA BytesSum ==
  ASSUME NEW s \in Seq(Entries)
  PROVE  \E f \in [0 .. Len(s) -> Nat] : Sums(s, f) /\ Bytes(s) = f[Len(s)]
<1> DEFINE g == CHOOSE g : Sums(s, g)
<1>1. Sums(s, g)
  BY SumsExist
<1>2. Bytes(s) = g[Len(s)]
  BY DEF Bytes, Sums
<1>3. g \in [0 .. Len(s) -> Nat]
  <2> HIDE DEF g
  <2> DEFINE S == {n \in 0 .. Len(s) : g[n] \in Nat}
  <2>1. 0 \in S
    BY <1>1 DEF Sums
  <2>2. ASSUME NEW n \in 0 .. Len(s) - 1, n \in S
        PROVE  n + 1 \in S
    <3>1. g[n + 1] = g[n] + entry_size(s[n + 1])
      BY <1>1 DEF Sums
    <3> QED
      BY <2>2, <3>1, EntrySize
  <2>3. 0 .. Len(s) \subseteq S
    <3> HIDE DEF S
    <3> QED
      BY <2>1, <2>2, Induction
  <2> QED
    BY <1>1, <2>3 DEF Sums
<1> QED
  BY <1>1, <1>2, <1>3

\* Where two lists have the same entries, their counts grow alike.
LEMMA SumsTogether ==
  ASSUME NEW s \in Seq(Entries), NEW t \in Seq(Entries),
         NEW f \in [0 .. Len(s) -> Nat], Sums(s, f),
         NEW g \in [0 .. Len(t) -> Nat], Sums(t, g),
         NEW j \in 0 .. Len(s), NEW k \in j .. Len(s), k <= Len(t),
         \A i \in j + 1 .. k : s[i] = t[i]
  PROVE  g[k] - g[j] = f[k] - f[j]
<1> DEFINE S == {n \in 0 .. Len(s) : n \in j .. k => g[n] - g[j] = f[n] - f[j]}
<1>1. 0 \in S
  BY SMTT(40)
<1>2. ASSUME NEW n \in 0 .. Len(s) - 1, n \in S
      PROVE  n + 1 \in S
  <2> SUFFICES ASSUME n + 1 \in j .. k, n + 1 # j
               PROVE  g[n + 1] - g[j] = f[n + 1] - f[j]
    BY SMTT(40)
  <2> DEFINE m == n + 1
  <2>0. m \in 0 .. Len(s) /\ m \in 0 .. Len(t) /\ m # 0 /\ m - 1 = n /\ m \in 1 .. Len(s) /\ m \in j + 1 .. k
    OBVIOUS
  <2> HIDE DEF m
  <2>1. /\ f[m] = f[n] + entry_size(s[m])
        /\ g[m] = g[n] + entry_size(t[m])
    BY <2>0 DEF Sums
  <2>2. s[m] = t[m] /\ entry_size(s[m]) \in Nat
    BY <2>0, EntrySize
  <2>3. /\ n \in 0 .. Len(s) /\ n \in 0 .. Len(t) /\ n \in j .. k /\ j \in 0 .. Len(t)
    OBVIOUS
  <2>3a. f[n] \in Nat /\ f[j] \in Nat /\ g[n] \in Nat /\ g[j] \in Nat
    BY <2>3
  <2>3b. g[n] - g[j] = f[n] - f[j]
    BY <1>2, <2>3
  <2>4a. (g[n] + entry_size(s[m])) - g[j] = (f[n] + entry_size(s[m])) - f[j]
    <3> DEFINE a == g[n]
               b == g[j]
               c == f[n]
               d == f[j]
               e == entry_size(s[m])
    <3>1. a \in Nat /\ b \in Nat /\ c \in Nat /\ d \in Nat /\ e \in Nat /\ a - b = c - d
      BY <2>2, <2>3a, <2>3b
    <3> HIDE DEF a, b, c, d, e
    <3>2. (a + e) - b = (c + e) - d
      BY <3>1
    <3> QED
      BY <3>2 DEF a, b, c, d, e
  <2>4. g[m] - g[j] = f[m] - f[j]
    BY <2>1, <2>2, <2>4a, Zenon
  <2> QED
    BY <2>4 DEF m
<1>3. 0 .. Len(s) \subseteq S
  <2> HIDE DEF S
  <2>1. Len(s) \in Nat
    OBVIOUS
  <2> QED
    BY <1>1, <1>2, <2>1, Induction, Zenon
<1>4. k \in 0 .. Len(s) /\ k \in j .. k
  OBVIOUS
<1>5. k \in S
  BY <1>3, <1>4, Zenon
<1> QED
  BY <1>4, <1>5

\* No entries take no bytes.
LEMMA BytesEmpty == Bytes(<< >>) = 0
<1>1. << >> \in Seq(Entries)
  OBVIOUS
<1>2. PICK f \in [0 .. 0 -> Nat] : Sums(<< >>, f) /\ Bytes(<< >>) = f[0]
  BY <1>1, BytesSum
<1> QED
  BY <1>2 DEF Sums

\* A new entry adds its size to the bytes.
LEMMA BytesAppend ==
  ASSUME NEW s \in Seq(Entries), NEW e \in Entries
  PROVE  Bytes(Append(s, e)) = Bytes(s) + entry_size(e)
<1> DEFINE t == Append(s, e)
<1>0. t \in Seq(Entries) /\ Len(t) = Len(s) + 1 /\ t[Len(t)] = e /\ \A i \in 1 .. Len(s) : s[i] = t[i]
  OBVIOUS
<1>1. PICK f \in [0 .. Len(s) -> Nat] : Sums(s, f) /\ Bytes(s) = f[Len(s)]
  BY BytesSum
<1>2. PICK g \in [0 .. Len(t) -> Nat] : Sums(t, g) /\ Bytes(t) = g[Len(t)]
  BY <1>0, BytesSum
<1> HIDE DEF t
<1>3. g[Len(s)] - g[0] = f[Len(s)] - f[0]
  <2>1. 0 \in 0 .. Len(s) /\ Len(s) \in 0 .. Len(s) /\ Len(s) <= Len(t) /\ \A j \in 0 + 1 .. Len(s) : s[j] = t[j]
    BY <1>0
  <2> QED
    BY <1>0, <1>1, <1>2, <2>1, SumsTogether
<1>4. g[Len(t)] = g[Len(s)] + entry_size(e) /\ g[0] = 0 /\ f[0] = 0
  BY <1>0, <1>1, <1>2 DEF Sums
<1> QED
  BY <1>0, <1>1, <1>2, <1>3, <1>4, EntrySize DEF t

\* A replaced entry adds the new size and takes the old one away.
LEMMA BytesReplace ==
  ASSUME NEW s \in Seq(Entries), NEW e \in Entries, NEW i \in 1 .. Len(s)
  PROVE  Bytes(ReplaceAt(s, i, e)) = (Bytes(s) + entry_size(e)) - entry_size(s[i])
<1> DEFINE t == ReplaceAt(s, i, e)
<1>0. t \in Seq(Entries) /\ Len(t) = Len(s) /\ t[i] = e /\ \A j \in 1 .. Len(s) : j # i => s[j] = t[j]
  BY DEF ReplaceAt
<1>1. PICK f \in [0 .. Len(s) -> Nat] : Sums(s, f) /\ Bytes(s) = f[Len(s)]
  BY BytesSum
<1>2. PICK g \in [0 .. Len(t) -> Nat] : Sums(t, g) /\ Bytes(t) = g[Len(t)]
  BY <1>0, BytesSum
<1> HIDE DEF t
<1>3. g[i - 1] - g[0] = f[i - 1] - f[0]
  <2>1. 0 \in 0 .. Len(s) /\ i - 1 \in 0 .. Len(s) /\ i - 1 <= Len(t) /\ \A j \in 0 + 1 .. i - 1 : s[j] = t[j]
    BY <1>0
  <2> QED
    BY <1>0, <1>1, <1>2, <2>1, SumsTogether
<1>4. g[Len(s)] - g[i] = f[Len(s)] - f[i]
  <2>1. i \in 0 .. Len(s) /\ Len(s) \in i .. Len(s) /\ Len(s) <= Len(t) /\ \A j \in i + 1 .. Len(s) : s[j] = t[j]
    BY <1>0
  <2> QED
    BY <1>0, <1>1, <1>2, <2>1, SumsTogether
<1>5. g[i] = g[i - 1] + entry_size(e) /\ f[i] = f[i - 1] + entry_size(s[i]) /\ g[0] = 0 /\ f[0] = 0
  BY <1>0, <1>1, <1>2 DEF Sums
<1>6. entry_size(e) \in Nat /\ entry_size(s[i]) \in Nat
  BY EntrySize
<1>7. /\ f[0] = 0 /\ g[0] = 0 /\ g[i - 1] \in Nat /\ f[i - 1] \in Nat /\ g[i] \in Nat /\ f[i] \in Nat
      /\ g[Len(s)] \in Nat /\ f[Len(s)] \in Nat
  <2>1. i \in 0 .. Len(s) /\ i - 1 \in 0 .. Len(s) /\ Len(s) \in 0 .. Len(s) /\ g \in [0 .. Len(s) -> Nat]
    BY <1>0
  <2> QED
    BY <1>5, <2>1
<1>8. g[Len(s)] = (f[Len(s)] + entry_size(e)) - entry_size(s[i])
  <2> DEFINE a == g[i - 1]
             b == f[i - 1]
             x == entry_size(e)
             y == entry_size(s[i])
             u == g[Len(s)]
             v == f[Len(s)]
  <2>1. /\ a \in Nat /\ b \in Nat /\ x \in Nat /\ y \in Nat /\ u \in Nat /\ v \in Nat
        /\ a - 0 = b - 0 /\ u - (a + x) = v - (b + y)
    BY <1>3, <1>4, <1>5, <1>6, <1>7
  <2> HIDE DEF a, b, x, y, u, v
  <2>2. u = (v + x) - y
    BY <2>1
  <2> QED
    BY <2>2 DEF u, v, x, y
<1> QED
  BY <1>0, <1>1, <1>2, <1>8 DEF t

\* Without its last entry a list takes that entry's size less.
LEMMA BytesFront ==
  ASSUME NEW s \in Seq(Entries), s # << >>
  PROVE  Bytes(Front(s)) = Bytes(s) - entry_size(Last(s))
<1> DEFINE t == Front(s)
<1>0. t \in Seq(Entries) /\ Len(t) = Len(s) - 1 /\ Last(s) = s[Len(s)] /\ Last(s) \in Entries /\ \A i \in 1 .. Len(t) : t[i] = s[i]
  BY FrontOf
<1>1. PICK f \in [0 .. Len(s) -> Nat] : Sums(s, f) /\ Bytes(s) = f[Len(s)]
  BY BytesSum
<1>2. PICK g \in [0 .. Len(t) -> Nat] : Sums(t, g) /\ Bytes(t) = g[Len(t)]
  BY <1>0, BytesSum
<1> HIDE DEF t
<1>3. f[Len(t)] - f[0] = g[Len(t)] - g[0]
  <2>1. 0 \in 0 .. Len(t) /\ Len(t) \in 0 .. Len(t) /\ Len(t) <= Len(s) /\ \A j \in 0 + 1 .. Len(t) : t[j] = s[j]
    BY <1>0
  <2> QED
    BY <1>0, <1>1, <1>2, <2>1, SumsTogether
<1>4. f[Len(s)] = f[Len(t)] + entry_size(Last(s)) /\ g[0] = 0 /\ f[0] = 0
  BY <1>0, <1>1, <1>2, SMTT(40) DEF Sums
<1>5. entry_size(Last(s)) \in Nat /\ f[Len(t)] \in Nat /\ g[Len(t)] \in Nat
  <2>1. Len(t) \in 0 .. Len(s) /\ Len(t) \in 0 .. Len(t)
    BY <1>0
  <2> QED
    BY <1>0, <2>1, EntrySize
<1>6. g[Len(t)] = f[Len(s)] - entry_size(Last(s))
  BY <1>3, <1>4, <1>5
<1> QED
  BY <1>0, <1>1, <1>2, <1>6 DEF t

-----------------------------------------------------------------------------
(* The record of a session.                                                *)

\* The values of a session, and the records of sessions.
Datas   == UNION {[K -> Seq(Text)] : K \in {L \in SUBSET Text : IsFiniteSet(L)}}
Records == {r \in Seq(Lines) : Len(r) >= 1 /\ r[1] \in Nat /\ \A i \in 2 .. Len(r) : r[i] \in Text}

\* What it is to be the data of a session.
LEMMA DatasDef ==
  ASSUME NEW d
  PROVE  d \in Datas <=> /\ IsFiniteSet(DOMAIN d) /\ DOMAIN d \subseteq Text
                         /\ d = [k \in DOMAIN d |-> d[k]] /\ \A k \in DOMAIN d : d[k] \in Seq(Text)
<1>1. ASSUME d \in Datas
      PROVE  /\ IsFiniteSet(DOMAIN d) /\ DOMAIN d \subseteq Text
             /\ d = [k \in DOMAIN d |-> d[k]] /\ \A k \in DOMAIN d : d[k] \in Seq(Text)
  <2>1. PICK K \in SUBSET Text : IsFiniteSet(K) /\ d \in [K -> Seq(Text)]
    BY <1>1 DEF Datas
  <2> QED
    BY <2>1
<1>2. ASSUME /\ IsFiniteSet(DOMAIN d) /\ DOMAIN d \subseteq Text
             /\ d = [k \in DOMAIN d |-> d[k]] /\ \A k \in DOMAIN d : d[k] \in Seq(Text)
      PROVE  d \in Datas
  <2>1. d \in [DOMAIN d -> Seq(Text)]
    BY <1>2
  <2> QED
    BY <1>2, <2>1 DEF Datas
<1> QED
  BY <1>1, <1>2

\* A finite set in a list: every element once.
LEMMA KeysListed ==
  ASSUME NEW K, IsFiniteSet(K)
  PROVE  /\ SetToSeq(K) \in Seq(K) /\ Len(SetToSeq(K)) \in Nat
         /\ \A i, j \in 1 .. Len(SetToSeq(K)) : SetToSeq(K)[i] = SetToSeq(K)[j] => i = j
         /\ \A k \in K : \E i \in 1 .. Len(SetToSeq(K)) : SetToSeq(K)[i] = k
<1> DEFINE n == Cardinality(K)
           q == SetToSeq(K)
<1>1. n \in Nat /\ ExistsBijection(1 .. n, K)
  BY FS_CardinalityType
<1>2. \E f \in [1 .. n -> K] : IsInjective(f)
  BY <1>1 DEF ExistsBijection, Bijection, Injection
<1>3. q \in [1 .. n -> K] /\ IsInjective(q)
  BY <1>2 DEF SetToSeq
<1> HIDE DEF q
<1>4. q \in Injection(1 .. n, K)
  BY <1>3 DEF Injection
<1>5. Cardinality(1 .. n) = n
  BY <1>1, FS_Interval
<1>6. q \in Surjection(1 .. n, K)
  BY <1>4, <1>5, FS_Injection
<1>7. q \in Seq(K) /\ Len(q) = n
  BY <1>1, <1>3
<1> QED
  BY <1>1, <1>3, <1>6, <1>7 DEF q, IsInjective, Surjection

\* A list of one element.
LEMMA Single ==
  ASSUME NEW S, NEW e \in S
  PROVE  <<e>> \in Seq(S)
OBVIOUS

\* f holds the lines of a record as they are written.
Written(exp, d, f) ==
  f = [n \in 0 .. Len(SetToSeq(DOMAIN d)) |->
         IF n = 0 THEN <<exp>> ELSE f[n - 1] \o <<SetToSeq(DOMAIN d)[n]>> \o d[SetToSeq(DOMAIN d)[n]]]

\* One more key and its value on a record.
LEMMA LongerRecord ==
  ASSUME NEW r \in Records, NEW k \in Text, NEW v \in Seq(Text)
  PROVE  /\ r \o <<k>> \o v \in Records /\ (r \o <<k>> \o v)[1] = r[1]
         /\ Len(r \o <<k>> \o v) = Len(r) + 1 + Len(v)
         /\ \A i \in 1 .. Len(r) : (r \o <<k>> \o v)[i] = r[i]
         /\ (r \o <<k>> \o v)[Len(r) + 1] = k
         /\ \A i \in 1 .. Len(v) : (r \o <<k>> \o v)[Len(r) + 1 + i] = v[i]
<1> DEFINE y == <<k>>
           x == r \o y
           z == r \o <<k>> \o v
<1>0. z = x \o v /\ Text \subseteq Lines /\ y \in Seq(Text) /\ Len(y) = 1 /\ y[1] = k
  <2>1. Text \subseteq Lines
    BY DEF Lines
  <2>2. y \in Seq(Text)
    BY Single
  <2>3. Len(y) = 1 /\ y[1] = k
    OBVIOUS
  <2> QED
    BY <2>1, <2>2, <2>3
<1>1. r \in Seq(Lines) /\ y \in Seq(Lines) /\ v \in Seq(Lines) /\ Len(r) \in Nat /\ Len(v) \in Nat
  <2>1. y \in Seq(Lines) /\ v \in Seq(Lines)
    BY <1>0, SeqMonotonic
  <2>2. r \in Seq(Lines)
    BY DEF Records
  <2>3. Len(r) \in Nat /\ Len(v) \in Nat
    BY <2>1, <2>2
  <2> QED
    BY <2>1, <2>2, <2>3
<1> HIDE DEF y
<1>2. x \in Seq(Lines) /\ Len(x) = Len(r) + 1
  BY <1>0, <1>1
<1>4. \A i \in 1 .. Len(r) : x[i] = r[i]
  BY <1>1
<1>5. x[Len(r) + 1] = k
  <2>1. Len(r) + 1 \in 1 .. Len(r) + Len(y) /\ ~(Len(r) + 1 <= Len(r)) /\ (Len(r) + 1) - Len(r) = 1
    BY <1>0, <1>1
  <2>2. x[Len(r) + 1] = y[(Len(r) + 1) - Len(r)]
    BY <1>1, <2>1, ConcatProperties
  <2> QED
    BY <1>0, <2>1, <2>2
<1> HIDE DEF x, z
<1>3. z \in Seq(Lines) /\ Len(z) = Len(r) + 1 + Len(v)
  <2>1. x \o v \in Seq(Lines) /\ Len(x \o v) = Len(x) + Len(v)
    BY <1>1, <1>2, ConcatProperties
  <2> QED
    BY <1>0, <1>2, <2>1
<1>6. \A i \in 1 .. Len(r) + 1 : z[i] = x[i]
  BY <1>0, <1>1, <1>2
<1>7. \A i \in 1 .. Len(v) : z[Len(r) + 1 + i] = v[i]
  BY <1>0, <1>1, <1>2
<1>8. \A i \in 1 .. Len(r) : z[i] = r[i]
  BY <1>1, <1>4, <1>6
<1>9. z[Len(r) + 1] = k
  <2>1. Len(r) + 1 \in 1 .. Len(r) + 1
    BY <1>1
  <2> QED
    BY <1>5, <1>6, <2>1
<1>10. Len(r) >= 1 /\ Len(r) \in Nat /\ r[1] \in Nat /\ \A i \in 2 .. Len(r) : r[i] \in Text
  BY DEF Records
<1>11. ASSUME NEW i \in 2 .. Len(z)
       PROVE  z[i] \in Text
  <2>1. CASE i <= Len(r)
    BY <1>8, <1>10, <2>1
  <2>2. CASE i = Len(r) + 1
    BY <1>9, <2>2
  <2>3. CASE i > Len(r) + 1
    <3> DEFINE m == i - (Len(r) + 1)
    <3>1. m \in 1 .. Len(v) /\ i = Len(r) + 1 + m
      BY <1>3, <1>10, <2>3
    <3> HIDE DEF m
    <3> QED
      BY <1>7, <3>1
  <2> QED
    BY <1>10, <2>1, <2>2, <2>3
<1>12. z[1] = r[1] /\ Len(z) >= 1
  BY <1>3, <1>8, <1>10
<1> QED
  BY <1>3, <1>7, <1>8, <1>9, <1>10, <1>11, <1>12 DEF z, Records

\* The lines of a record exist, at every stage of writing it.
LEMMA WrittenExists ==
  ASSUME NEW exp \in Nat, NEW d \in Datas
  PROVE  \E f \in [0 .. Len(SetToSeq(DOMAIN d)) -> Records] : Written(exp, d, f)
<1> DEFINE q == SetToSeq(DOMAIN d)
<1>0. /\ q \in Seq(DOMAIN d) /\ Len(q) \in Nat /\ DOMAIN d \subseteq Text
      /\ \A k \in DOMAIN d : d[k] \in Seq(Text)
  BY DatasDef, KeysListed
<1>0a. \A n \in 1 .. Len(q) : q[n] \in Text /\ d[q[n]] \in Seq(Text)
  BY <1>0
<1> HIDE DEF q
<1> DEFINE Upto(n, f) == f = [m \in 0 .. n |-> IF m = 0 THEN <<exp>> ELSE f[m - 1] \o <<q[m]>> \o d[q[m]]]
           S == {n \in 0 .. Len(q) : \E f \in [0 .. n -> Records] : Upto(n, f)}
<1>1. 0 \in S
  <2> DEFINE z == [m \in 0 .. 0 |-> <<exp>>]
  <2>1. exp \in Lines
    BY DEF Lines
  <2>2. <<exp>> \in Seq(Lines)
    BY <2>1, Single
  <2>3. <<exp>> \in Records
    BY <2>2 DEF Records
  <2>4. z \in [0 .. 0 -> Records] /\ Upto(0, z)
    BY <2>3
  <2>5. 0 \in 0 .. Len(q)
    BY <1>0
  <2> HIDE DEF z, Upto
  <2> QED
    BY <2>4, <2>5
<1>2. ASSUME NEW n \in 0 .. Len(q) - 1, n \in S
      PROVE  n + 1 \in S
  <2>1. PICK f \in [0 .. n -> Records] : Upto(n, f)
    BY <1>2
  <2> DEFINE y == f[n] \o <<q[n + 1]>> \o d[q[n + 1]]
             g == [m \in 0 .. n + 1 |-> IF m = n + 1 THEN y ELSE f[m]]
  <2>2. y \in Records
    <3>1. f[n] \in Records /\ n + 1 \in 1 .. Len(q)
      BY <1>0
    <3> QED
      BY <1>0a, <3>1, LongerRecord
  <2>3. g \in [0 .. n + 1 -> Records]
    <3> HIDE DEF y
    <3> QED
      BY <2>2
  <2>4. Upto(n + 1, g)
    <3>1. ASSUME NEW m \in 0 .. n + 1
          PROVE  g[m] = IF m = 0 THEN <<exp>> ELSE g[m - 1] \o <<q[m]>> \o d[q[m]]
      <4>1. CASE m = n + 1
        <5>1. m # 0 /\ m - 1 = n /\ n # n + 1 /\ n \in 0 .. n + 1
          BY <4>1
        <5>2. y = f[n] \o <<q[m]>> \o d[q[m]]
          BY <4>1
        <5> HIDE DEF y
        <5>3. g[m] = y /\ g[n] = f[n]
          BY <4>1, <5>1
        <5> HIDE DEF g
        <5> QED
          BY <5>1, <5>2, <5>3
      <4>2. CASE m # n + 1
        <5>1. g[m] = f[m] /\ m \in 0 .. n /\ (m # 0 => g[m - 1] = f[m - 1])
          BY <4>2
        <5> HIDE DEF g
        <5> QED
          BY <2>1, <5>1
      <4> QED
        BY <4>1, <4>2
    <3> QED
      BY <3>1
  <2>5. n + 1 \in 0 .. Len(q)
    BY <1>0
  <2> HIDE DEF g, Upto
  <2> QED
    BY <2>3, <2>4, <2>5
<1>3. 0 .. Len(q) \subseteq S
  <2> HIDE DEF S
  <2> QED
    BY <1>0, <1>1, <1>2, Induction
<1>4. PICK f \in [0 .. Len(q) -> Records] : Upto(Len(q), f)
  <2>1. Len(q) \in 0 .. Len(q)
    BY <1>0
  <2> HIDE DEF Upto
  <2>2. Len(q) \in S
    BY <1>3, <2>1, Zenon
  <2> QED
    BY <2>2
<1>5. Written(exp, d, f)
  BY <1>4 DEF Written, q
<1> QED
  BY <1>4, <1>5 DEF q

\* The record is the last of them; each stage is a record that starts with exp.
LEMMA RecordWritten ==
  ASSUME NEW exp \in Nat, NEW d \in Datas
  PROVE  \E f \in [0 .. Len(SetToSeq(DOMAIN d)) -> Records] :
           Written(exp, d, f) /\ Record(exp, d) = f[Len(SetToSeq(DOMAIN d))]
<1> DEFINE q == SetToSeq(DOMAIN d)
           g == CHOOSE g : Written(exp, d, g)
<1>0. /\ q \in Seq(DOMAIN d) /\ Len(q) \in Nat /\ DOMAIN d \subseteq Text
      /\ \A k \in DOMAIN d : d[k] \in Seq(Text)
  BY DatasDef, KeysListed
<1>0a. \A n \in 1 .. Len(q) : q[n] \in Text /\ d[q[n]] \in Seq(Text)
  BY <1>0
<1>1. Written(exp, d, g)
  BY WrittenExists
<1>2. Record(exp, d) = g[Len(q)]
  BY DEF Record, Written
<1> HIDE DEF g
<1>1a. g = [n \in 0 .. Len(q) |-> IF n = 0 THEN <<exp>> ELSE g[n - 1] \o <<q[n]>> \o d[q[n]]]
  BY <1>1 DEF Written
<1> HIDE DEF q
<1> DEFINE S == {n \in 0 .. Len(q) : g[n] \in Records}
<1>3. 0 \in S
  <2>1. exp \in Lines
    BY DEF Lines
  <2>2. <<exp>> \in Seq(Lines)
    BY <2>1, Single
  <2>3. <<exp>> \in Records
    BY <2>2 DEF Records
  <2>4. g[0] = <<exp>> /\ 0 \in 0 .. Len(q)
    BY <1>0, <1>1a
  <2> QED
    BY <2>3, <2>4
<1>4. ASSUME NEW n \in 0 .. Len(q) - 1, n \in S
      PROVE  n + 1 \in S
  <2> DEFINE m == n + 1
  <2>1. m \in 0 .. Len(q) /\ m \in 1 .. Len(q) /\ m # 0 /\ m - 1 = n
    BY <1>0
  <2> HIDE DEF m
  <2>2. g[m] = g[n] \o <<q[m]>> \o d[q[m]]
    BY <1>1a, <2>1
  <2>3. g[n] \in Records
    BY <1>4
  <2>3a. q[m] \in Text /\ d[q[m]] \in Seq(Text)
    BY <1>0a, <2>1
  <2>3b. g[n] \o <<q[m]>> \o d[q[m]] \in Records
    BY <2>3, <2>3a, LongerRecord
  <2>4. g[m] \in Records
    BY <2>2, <2>3b
  <2> QED
    BY <2>1, <2>4 DEF m
<1>5. 0 .. Len(q) \subseteq S
  <2> HIDE DEF S
  <2> QED
    BY <1>0, <1>3, <1>4, Induction
<1>6. g \in [0 .. Len(q) -> Records]
  <2>1. \A n \in 0 .. Len(q) : g[n] \in Records
    BY <1>5
  <2>2. g = [n \in 0 .. Len(q) |-> g[n]]
    BY <1>1a
  <2> QED
    BY <2>1, <2>2
<1> QED
  BY <1>1, <1>2, <1>6 DEF q

\* A record starts with the expiry.
LEMMA RecordType ==
  ASSUME NEW exp \in Nat, NEW d \in Datas
  PROVE  Record(exp, d) \in Records /\ Record(exp, d)[1] = exp
<1> DEFINE q == SetToSeq(DOMAIN d)
<1>0. /\ q \in Seq(DOMAIN d) /\ Len(q) \in Nat /\ DOMAIN d \subseteq Text
      /\ \A k \in DOMAIN d : d[k] \in Seq(Text)
  BY DatasDef, KeysListed
<1>0a. \A n \in 1 .. Len(q) : q[n] \in Text /\ d[q[n]] \in Seq(Text)
  BY <1>0
<1>1. PICK f \in [0 .. Len(q) -> Records] : Written(exp, d, f) /\ Record(exp, d) = f[Len(q)]
  BY RecordWritten
<1>1a. f = [n \in 0 .. Len(q) |-> IF n = 0 THEN <<exp>> ELSE f[n - 1] \o <<q[n]>> \o d[q[n]]]
  BY <1>1 DEF Written
<1> HIDE DEF q
<1> DEFINE S == {n \in 0 .. Len(q) : f[n][1] = exp}
<1>2. 0 \in S
  BY <1>0, <1>1a
<1>3. ASSUME NEW n \in 0 .. Len(q) - 1, n \in S
      PROVE  n + 1 \in S
  <2> DEFINE m == n + 1
  <2>1. m \in 0 .. Len(q) /\ m \in 1 .. Len(q) /\ m # 0 /\ m - 1 = n /\ n \in 0 .. Len(q)
    BY <1>0
  <2> HIDE DEF m
  <2>2. f[m] = f[n] \o <<q[m]>> \o d[q[m]]
    BY <1>1a, <2>1
  <2>3. f[n] \in Records /\ f[n][1] = exp
    BY <1>3, <2>1
  <2>3a. q[m] \in Text /\ d[q[m]] \in Seq(Text)
    BY <1>0a, <2>1
  <2>3b. (f[n] \o <<q[m]>> \o d[q[m]])[1] = f[n][1]
    <3> DEFINE x == f[n]
               k == q[m]
               v == d[q[m]]
    <3>1. x \in Records /\ k \in Text /\ v \in Seq(Text)
      BY <2>3, <2>3a
    <3> HIDE DEF x, k, v
    <3>2. (x \o <<k>> \o v)[1] = x[1]
      BY <3>1, LongerRecord
    <3> QED
      BY <3>2 DEF x, k, v
  <2>4. f[m][1] = exp
    BY <2>2, <2>3, <2>3b
  <2> QED
    BY <2>1, <2>4 DEF m
<1>4. 0 .. Len(q) \subseteq S
  <2> HIDE DEF S
  <2> QED
    BY <1>0, <1>2, <1>3, Induction
<1>5. Len(q) \in 0 .. Len(q)
  BY <1>0
<1>6. Len(q) \in S
  BY <1>4, <1>5, Zenon
<1> QED
  BY <1>1, <1>5, <1>6

\* Every value is one line.
OneLine(d) == \A k \in DOMAIN d : Len(d[k]) = 1

\* Then a record is the expiry and, for each key in turn, the key and its value.
LEMMA RecordShape ==
  ASSUME NEW exp \in Nat, NEW d \in Datas, OneLine(d)
  PROVE  LET q == SetToSeq(DOMAIN d)
         IN  /\ Len(Record(exp, d)) = 1 + 2 * Len(q)
             /\ \A i \in 1 .. Len(q) : /\ Record(exp, d)[2 * i] = q[i]
                                        /\ Record(exp, d)[2 * i + 1] = d[q[i]][1]
<1> DEFINE q == SetToSeq(DOMAIN d)
<1>0. /\ q \in Seq(DOMAIN d) /\ Len(q) \in Nat /\ DOMAIN d \subseteq Text
      /\ \A k \in DOMAIN d : d[k] \in Seq(Text)
  BY DatasDef, KeysListed
<1>0a. \A n \in 1 .. Len(q) : q[n] \in Text /\ d[q[n]] \in Seq(Text) /\ Len(d[q[n]]) = 1
  BY <1>0 DEF OneLine
<1>1. PICK f \in [0 .. Len(q) -> Records] : Written(exp, d, f) /\ Record(exp, d) = f[Len(q)]
  BY RecordWritten
<1>1a. f = [n \in 0 .. Len(q) |-> IF n = 0 THEN <<exp>> ELSE f[n - 1] \o <<q[n]>> \o d[q[n]]]
  BY <1>1 DEF Written
<1> HIDE DEF q
<1> DEFINE Good(n) == /\ Len(f[n]) = 1 + 2 * n
                      /\ \A i \in 1 .. n : f[n][2 * i] = q[i] /\ f[n][2 * i + 1] = d[q[i]][1]
           S == {n \in 0 .. Len(q) : Good(n)}
<1>2. 0 \in S
  <2>1. f[0] = <<exp>> /\ 0 \in 0 .. Len(q)
    BY <1>0, <1>1a
  <2> QED
    BY <2>1
<1>3. ASSUME NEW n \in 0 .. Len(q) - 1, n \in S
      PROVE  n + 1 \in S
  <2> DEFINE m == n + 1
             x == f[n]
             k == q[m]
             v == d[q[m]]
             z == x \o <<k>> \o v
  <2>1. m \in 0 .. Len(q) /\ m \in 1 .. Len(q) /\ m # 0 /\ m - 1 = n /\ n \in 0 .. Len(q)
    BY <1>0
  <2> HIDE DEF m
  <2>2. f[m] = z
    BY <1>1a, <2>1
  <2>3. x \in Records /\ Good(n)
    BY <1>3, <2>1
  <2>4. k \in Text /\ v \in Seq(Text) /\ Len(v) = 1
    BY <1>0a, <2>1
  <2> HIDE DEF v, k, x
  <2>5. /\ Len(z) = Len(x) + 1 + Len(v) /\ \A i \in 1 .. Len(x) : z[i] = x[i]
        /\ z[Len(x) + 1] = k /\ \A i \in 1 .. Len(v) : z[Len(x) + 1 + i] = v[i]
    BY <2>3, <2>4, LongerRecord, ZenonT(60)
  <2> HIDE DEF z
  <2>6. Len(x) = 1 + 2 * n /\ \A i \in 1 .. n : x[2 * i] = q[i] /\ x[2 * i + 1] = d[q[i]][1]
    BY <2>3 DEF x
  <2>7. m = n + 1 /\ n \in Nat
    BY <2>1
  <2>8. Len(z) = 1 + 2 * m
    BY <2>4, <2>5, <2>6, <2>7
  <2>9. ASSUME NEW i \in 1 .. m
        PROVE  z[2 * i] = q[i] /\ z[2 * i + 1] = d[q[i]][1]
    <3>1. CASE i = m
      <4>1. 2 * i = Len(x) + 1 /\ 2 * i + 1 = Len(x) + 1 + 1 /\ 1 \in 1 .. Len(v)
        BY <2>4, <2>6, <2>7, <3>1
      <4> QED
        BY <2>5, <3>1, <4>1 DEF k, v
    <3>2. CASE i # m
      <4>1. i \in 1 .. n /\ 2 * i \in 1 .. Len(x) /\ 2 * i + 1 \in 1 .. Len(x)
        BY <2>6, <2>7, <3>2
      <4> QED
        BY <2>5, <2>6, <4>1
    <3> QED
      BY <3>1, <3>2
  <2>10. Good(m)
    BY <2>2, <2>8, <2>9
  <2> QED
    BY <2>1, <2>10 DEF m
<1>4. 0 .. Len(q) \subseteq S
  <2> HIDE DEF S
  <2> QED
    BY <1>0, <1>2, <1>3, Induction
<1>5. Len(q) \in 0 .. Len(q)
  BY <1>0
<1>6. Len(q) \in S
  BY <1>4, <1>5, Zenon
<1> QED
  BY <1>1, <1>6 DEF q

\* The largest of some indices is one of them.
LEMMA MaxOf ==
  ASSUME NEW n \in Nat, NEW T, T \subseteq 1 .. n, T # {}
  PROVE  Max(T) \in T
<1> DEFINE U == {n - x : x \in T}
<1>1. PICK u \in U : \A w \in U : u <= w
  <2>1. U \subseteq Nat
    OBVIOUS
  <2>2. U # {}
    OBVIOUS
  <2> HIDE DEF U
  <2> QED
    BY <2>1, <2>2, LeastNumber
<1>2. PICK x \in T : u = n - x
  BY <1>1
<1>3. \A y \in T : x >= y
  <2> SUFFICES ASSUME NEW y \in T
               PROVE  x >= y
    OBVIOUS
  <2>1. n - y \in U /\ x \in 1 .. n /\ y \in 1 .. n
    OBVIOUS
  <2>2. n - x <= n - y
    BY <1>1, <1>2, <2>1
  <2> QED
    BY <2>1, <2>2
<1> QED
  BY <1>3 DEF Max

\* What is read from a record is a session that expires when the record says.
LEMMA FromDb ==
  ASSUME NEW t, NEW r \in Records
  PROVE  /\ session_from_db(t, r).tok = t /\ session_from_db(t, r).exp = r[1]
         /\ session_from_db(t, r).data \in Datas
         /\ session_from_db(t, r) = [tok |-> t, exp |-> r[1], data |-> session_from_db(t, r).data]
<1> DEFINE n == (Len(r) - 1) \div 2
           last(k) == Max({i \in 1 .. n : r[2 * i] = k})
           D == {r[2 * i] : i \in 1 .. n}
           d == [k \in D |-> <<r[2 * last(k) + 1]>>]
<1>0. session_from_db(t, r) = [tok |-> t, exp |-> r[1], data |-> d]
  BY DEF session_from_db
<1>1. Len(r) \in Nat /\ Len(r) >= 1 /\ \A i \in 2 .. Len(r) : r[i] \in Text
  BY DEF Records
<1>2. n \in Nat /\ \A i \in 1 .. n : 2 * i \in 2 .. Len(r) /\ 2 * i + 1 \in 2 .. Len(r)
  BY <1>1
<1> HIDE DEF n
<1>3. D \subseteq Text
  BY <1>1, <1>2
<1>4. IsFiniteSet(D)
  <2> DEFINE f == [i \in 1 .. n |-> r[2 * i]]
  <2>1. f \in Surjection(1 .. n, D)
    BY DEF Surjection
  <2>2. IsFiniteSet(1 .. n)
    BY <1>2, FS_Interval
  <2> HIDE DEF f, D
  <2> QED
    BY <2>1, <2>2, FS_Surjection
<1>5. ASSUME NEW k \in D
      PROVE  <<r[2 * last(k) + 1]>> \in Seq(Text)
  <2> DEFINE T == {i \in 1 .. n : r[2 * i] = k}
  <2>1. T \subseteq 1 .. n /\ T # {}
    BY <1>5
  <2> HIDE DEF T
  <2>2. Max(T) \in T
    BY <1>2, <2>1, MaxOf
  <2>3. Max(T) \in 1 .. n
    BY <2>1, <2>2
  <2>4. r[2 * Max(T) + 1] \in Text
    BY <1>1, <1>2, <2>3
  <2>5. <<r[2 * Max(T) + 1]>> \in Seq(Text)
    BY <2>4, Single
  <2> QED
    BY <2>5 DEF T
<1>6. d \in Datas
  <2>1. DOMAIN d = D /\ \A k \in D : d[k] \in Seq(Text)
    <3> HIDE DEF D, last
    <3> QED
      BY <1>5
  <2>2. d = [k \in DOMAIN d |-> d[k]]
    <3> HIDE DEF D, last
    <3> QED
      OBVIOUS
  <2> HIDE DEF d, D
  <2> QED
    BY <1>3, <1>4, <2>1, <2>2, DatasDef
<1> QED
  BY <1>0, <1>6

\* What was written of one-line values is what is read.
LEMMA RoundTrip ==
  ASSUME NEW t, NEW exp \in Nat, NEW d \in Datas, OneLine(d)
  PROVE  session_from_db(t, Record(exp, d)) = [tok |-> t, exp |-> exp, data |-> d]
<1> DEFINE q == SetToSeq(DOMAIN d)
           r == Record(exp, d)
           n == (Len(r) - 1) \div 2
           last(k) == Max({i \in 1 .. n : r[2 * i] = k})
<1>0. /\ Len(q) \in Nat /\ q \in Seq(DOMAIN d) /\ \A k \in DOMAIN d : d[k] \in Seq(Text)
      /\ d = [k \in DOMAIN d |-> d[k]]
      /\ \A i, j \in 1 .. Len(q) : q[i] = q[j] => i = j
      /\ \A k \in DOMAIN d : \E i \in 1 .. Len(q) : q[i] = k
  BY DatasDef, KeysListed
<1>1. /\ r \in Records /\ r[1] = exp /\ Len(r) = 1 + 2 * Len(q)
      /\ \A i \in 1 .. Len(q) : r[2 * i] = q[i] /\ r[2 * i + 1] = d[q[i]][1]
  BY RecordType, RecordShape
<1>2. session_from_db(t, r) =
        [tok |-> t, exp |-> r[1], data |-> [k \in {r[2 * i] : i \in 1 .. n} |-> <<r[2 * last(k) + 1]>>]]
  BY DEF session_from_db
<1> HIDE DEF q, r
<1>3. n = Len(q)
  BY <1>0, <1>1
<1> HIDE DEF n
<1>4. {r[2 * i] : i \in 1 .. n} = DOMAIN d
  <2>1. \A i \in 1 .. n : r[2 * i] = q[i] /\ q[i] \in DOMAIN d
    BY <1>0, <1>1, <1>3
  <2>2. \A k \in DOMAIN d : \E i \in 1 .. n : r[2 * i] = k
    BY <1>0, <1>3, <2>1
  <2> QED
    BY <2>1, <2>2
<1>5. ASSUME NEW k \in DOMAIN d
      PROVE  <<r[2 * last(k) + 1]>> = d[k]
  <2>1. PICK j \in 1 .. Len(q) : q[j] = k
    BY <1>0
  <2> DEFINE T == {i \in 1 .. n : r[2 * i] = k}
  <2>2. T \subseteq 1 .. n /\ j \in T /\ \A i \in T : i = j
    BY <1>0, <1>1, <1>3, <2>1
  <2> HIDE DEF T
  <2>3. Max(T) = j
    BY <1>0, <1>3, <2>2, MaxOf
  <2>4. r[2 * j + 1] = d[k][1]
    BY <1>1, <2>1
  <2>5. d[k] = <<d[k][1]>>
    <3>1. d[k] \in Seq(Text) /\ Len(d[k]) = 1
      BY <1>0 DEF OneLine
    <3> QED
      BY <3>1
  <2> QED
    BY <2>3, <2>4, <2>5 DEF T
<1>6. [k \in {r[2 * i] : i \in 1 .. n} |-> <<r[2 * last(k) + 1]>>] = d
  <2> HIDE DEF last
  <2> QED
    BY <1>0, <1>4, <1>5
<1> QED
  BY <1>1, <1>2, <1>6 DEF r

-----------------------------------------------------------------------------
(* Lists as sets: what a slot list holds.                                  *)

All(s) == {s[i] : i \in 1 .. Len(s)}

Slots      == [tok : Tokens, exp : Nat, data : Datas]
Stores     == [entries : Seq(Entries), total : Nat, dirty : BOOLEAN]
KeysOnce(es)  == \A i, j \in 1 .. Len(es) : es[i].key = es[j].key => i = j
TokensOnce(m) == \A i, j \in 1 .. Len(m) : m[i].tok = m[j].tok => i = j

\* A store whose byte count is right and that has one entry for a key.
Counted(d) == d \in Stores /\ KeysOnce(d.entries) /\ d.total = Bytes(d.entries)

\* A store with changes that its file may lack.
Dirty(d) == d.dirty = TRUE

\* The bytes of a list are a number.
LEMMA BytesNat ==
  ASSUME NEW s \in Seq(Entries)
  PROVE  Bytes(s) \in Nat
<1>1. PICK f \in [0 .. Len(s) -> Nat] : Sums(s, f) /\ Bytes(s) = f[Len(s)]
  BY BytesSum
<1>2. Len(s) \in 0 .. Len(s)
  OBVIOUS
<1> QED
  BY <1>1, <1>2

\* Min picks an element.
LEMMA MinOf ==
  ASSUME NEW T, T \subseteq Nat, T # {}
  PROVE  Min(T) \in T
BY LeastNumber DEF Min

\* A list with one element more.
LEMMA Appended ==
  ASSUME NEW S, NEW s \in Seq(S), NEW e \in S
  PROVE  /\ Append(s, e) \in Seq(S) /\ Len(Append(s, e)) = Len(s) + 1
         /\ \A j \in 1 .. Len(s) : Append(s, e)[j] = s[j]
         /\ Append(s, e)[Len(s) + 1] = e
         /\ All(Append(s, e)) = All(s) \cup {e}
<1> DEFINE t == Append(s, e)
<1>1. /\ t \in Seq(S) /\ Len(t) = Len(s) + 1 /\ Len(s) \in Nat
      /\ (\A j \in 1 .. Len(s) : t[j] = s[j]) /\ t[Len(s) + 1] = e
  OBVIOUS
<1> HIDE DEF t
<1>2. All(t) = All(s) \cup {e}
  BY <1>1 DEF All
<1> QED
  BY <1>1, <1>2 DEF t

\* A list with slot i replaced.
LEMMA Replaced ==
  ASSUME NEW S, NEW s \in Seq(S), NEW e \in S, NEW i \in 1 .. Len(s)
  PROVE  /\ ReplaceAt(s, i, e) \in Seq(S) /\ Len(ReplaceAt(s, i, e)) = Len(s)
         /\ \A j \in 1 .. Len(s) : ReplaceAt(s, i, e)[j] = IF j = i THEN e ELSE s[j]
BY DEF ReplaceAt

\* Slot i is gone and the last element is in its place.
LEMMA SwapRemoved ==
  ASSUME NEW S, NEW s \in Seq(S), NEW i \in 1 .. Len(s)
  PROVE  /\ SwapRemove(s, i) \in Seq(S) /\ Len(SwapRemove(s, i)) = Len(s) - 1
         /\ \A j \in 1 .. Len(s) - 1 : SwapRemove(s, i)[j] = IF j = i THEN s[Len(s)] ELSE s[j]
<1>0. s # << >> /\ Len(s) \in 1 .. Len(s) /\ Last(s) = s[Len(s)] /\ Last(s) \in S
  BY FrontOf
<1>1. CASE i = Len(s)
  BY <1>0, <1>1, FrontOf DEF SwapRemove
<1>2. CASE i # Len(s)
  <2> DEFINE t == ReplaceAt(s, i, Last(s))
  <2>1. t \in Seq(S) /\ Len(t) = Len(s) /\ \A j \in 1 .. Len(s) : t[j] = IF j = i THEN s[Len(s)] ELSE s[j]
    BY <1>0, Replaced
  <2>2. SwapRemove(s, i) = Front(t)
    BY <1>2 DEF SwapRemove
  <2> HIDE DEF t
  <2>3. t # << >>
    BY <1>0, <2>1
  <2>4. /\ Front(t) \in Seq(S) /\ Len(Front(t)) = Len(t) - 1
        /\ \A j \in 1 .. Len(t) - 1 : Front(t)[j] = t[j]
    BY <2>1, <2>3, FrontOf
  <2> QED
    BY <2>1, <2>2, <2>4
<1> QED
  BY <1>1, <1>2

\* Slot of a key.
LEMMA EntrySlot ==
  ASSUME NEW d \in Stores, NEW k
  PROVE  /\ db_find(d, k) \in 0 .. Len(d.entries)
         /\ db_find(d, k) # 0 => d.entries[db_find(d, k)].key = k
         /\ db_find(d, k) = 0 => \A e \in All(d.entries) : e.key # k
<1> DEFINE es == d.entries
           T == {i \in 1 .. Len(es) : es[i].key = k}
<1>1. db_find(d, k) = IF T # {} THEN Min(T) ELSE 0
  BY DEF db_find, SelectInSeq
<1>2. es \in Seq(Entries)
  BY DEF Stores
<1>3. CASE T = {}
  BY <1>1, <1>2, <1>3 DEF All
<1>4. CASE T # {}
  <2>1. T \subseteq Nat
    OBVIOUS
  <2> HIDE DEF T
  <2>2. Min(T) \in T
    BY <1>4, <2>1, MinOf
  <2> QED
    BY <1>1, <1>2, <1>4, <2>2 DEF T
<1> QED
  BY <1>3, <1>4

\* Slot of a session.
Slot(m, t) == SelectInSeq(m, LAMBDA s : s.tok = t)

\* The search of the store finds the slot of a token, and 0 when there is none.
LEMMA TokenSlot ==
  ASSUME NEW m \in Seq(Slots), NEW t
  PROVE  /\ Slot(m, t) \in 0 .. Len(m)
         /\ Slot(m, t) # 0 => m[Slot(m, t)].tok = t
         /\ Slot(m, t) = 0 => \A s \in All(m) : s.tok # t
<1> DEFINE T == {i \in 1 .. Len(m) : m[i].tok = t}
<1>1. Slot(m, t) = IF T # {} THEN Min(T) ELSE 0
  BY DEF Slot, SelectInSeq
<1>3. CASE T = {}
  BY <1>1, <1>3 DEF All
<1>4. CASE T # {}
  <2>1. T \subseteq Nat
    OBVIOUS
  <2> HIDE DEF T
  <2>2. Min(T) \in T
    BY <1>4, <2>1, MinOf
  <2> QED
    BY <1>1, <1>4, <2>2 DEF T
<1> QED
  BY <1>3, <1>4

\* A new key keeps the keys different.
LEMMA EntriesAppended ==
  ASSUME NEW s \in Seq(Entries), KeysOnce(s), NEW e \in Entries, \A x \in All(s) : x.key # e.key
  PROVE  KeysOnce(Append(s, e))
<1> DEFINE t == Append(s, e)
<1>1. /\ Len(t) = Len(s) + 1 /\ Len(s) \in Nat
      /\ (\A j \in 1 .. Len(s) : t[j] = s[j]) /\ t[Len(s) + 1] = e
  BY Appended
<1>2. \A j \in 1 .. Len(s) : s[j].key # e.key
  BY DEF All
<1> HIDE DEF t
<1>3. KeysOnce(t)
  BY <1>1, <1>2 DEF KeysOnce
<1> QED
  BY <1>3 DEF t

\* A new value for a key, in the slot of the old one.
LEMMA EntriesReplaced ==
  ASSUME NEW s \in Seq(Entries), KeysOnce(s), NEW e \in Entries, NEW i \in 1 .. Len(s), s[i].key = e.key
  PROVE  /\ KeysOnce(ReplaceAt(s, i, e))
         /\ All(ReplaceAt(s, i, e)) = {x \in All(s) : x.key # e.key} \cup {e}
<1> DEFINE t == ReplaceAt(s, i, e)
<1>1. t \in Seq(Entries) /\ Len(t) = Len(s) /\ \A j \in 1 .. Len(s) : t[j] = IF j = i THEN e ELSE s[j]
  BY Replaced
<1> HIDE DEF t
<1>2. KeysOnce(t)
  BY <1>1 DEF KeysOnce
<1>3. ASSUME NEW x \in All(t)
      PROVE  x \in {y \in All(s) : y.key # e.key} \cup {e}
  BY <1>1, <1>3 DEF All, KeysOnce
<1>4. ASSUME NEW x \in All(s), x.key # e.key
      PROVE  x \in All(t)
  BY <1>1, <1>4 DEF All
<1>5. e \in All(t)
  BY <1>1 DEF All
<1> QED
  BY <1>2, <1>3, <1>4, <1>5 DEF t

\* The other entries stay when one is taken out, whichever slot they move to.
LEMMA EntriesRemoved ==
  ASSUME NEW s \in Seq(Entries), KeysOnce(s), NEW i \in 1 .. Len(s)
  PROVE  /\ KeysOnce(SwapRemove(s, i))
         /\ All(SwapRemove(s, i)) = {x \in All(s) : x.key # s[i].key}
<1> DEFINE t == SwapRemove(s, i)
<1>1. /\ t \in Seq(Entries) /\ Len(t) = Len(s) - 1 /\ Len(s) \in Nat
      /\ \A j \in 1 .. Len(s) - 1 : t[j] = IF j = i THEN s[Len(s)] ELSE s[j]
  BY SwapRemoved
<1> HIDE DEF t
<1>2. KeysOnce(t)
  BY <1>1, SMTT(40) DEF KeysOnce
<1>3. ASSUME NEW x \in All(t)
      PROVE  x \in All(s) /\ x.key # s[i].key
  <2>1. PICK j \in 1 .. Len(s) - 1 : x = t[j]
    BY <1>1, <1>3 DEF All
  <2> DEFINE m == IF j = i THEN Len(s) ELSE j
  <2>2. m \in 1 .. Len(s) /\ m # i /\ x = s[m]
    BY <1>1, <2>1
  <2> HIDE DEF m
  <2> QED
    BY <2>2 DEF All, KeysOnce
<1>4. ASSUME NEW x \in All(s), x.key # s[i].key
      PROVE  x \in All(t)
  <2>1. PICK j \in 1 .. Len(s) : x = s[j]
    BY <1>4 DEF All
  <2> DEFINE m == IF j = Len(s) THEN i ELSE j
  <2>2. j # i
    BY <1>4, <2>1
  <2>3. m \in 1 .. Len(t) /\ x = t[m]
    BY <1>1, <2>1, <2>2
  <2> HIDE DEF m
  <2> QED
    BY <2>3 DEF All
<1> QED
  BY <1>2, <1>3, <1>4 DEF t

\* A new token keeps the tokens different.
LEMMA SlotsAppended ==
  ASSUME NEW s \in Seq(Slots), TokensOnce(s), NEW e \in Slots, \A x \in All(s) : x.tok # e.tok
  PROVE  TokensOnce(Append(s, e))
<1> DEFINE t == Append(s, e)
<1>1. /\ Len(t) = Len(s) + 1 /\ Len(s) \in Nat
      /\ (\A j \in 1 .. Len(s) : t[j] = s[j]) /\ t[Len(s) + 1] = e
  BY Appended
<1>2. \A j \in 1 .. Len(s) : s[j].tok # e.tok
  BY DEF All
<1> HIDE DEF t
<1>3. TokensOnce(t)
  BY <1>1, <1>2 DEF TokensOnce
<1> QED
  BY <1>3 DEF t

\* A session in the slot it had before.
LEMMA SlotsReplaced ==
  ASSUME NEW s \in Seq(Slots), TokensOnce(s), NEW e \in Slots, NEW i \in 1 .. Len(s), s[i].tok = e.tok
  PROVE  /\ TokensOnce(ReplaceAt(s, i, e))
         /\ All(ReplaceAt(s, i, e)) = {x \in All(s) : x.tok # e.tok} \cup {e}
<1> DEFINE t == ReplaceAt(s, i, e)
<1>1. t \in Seq(Slots) /\ Len(t) = Len(s) /\ \A j \in 1 .. Len(s) : t[j] = IF j = i THEN e ELSE s[j]
  BY Replaced
<1> HIDE DEF t
<1>2. TokensOnce(t)
  BY <1>1 DEF TokensOnce
<1>3. ASSUME NEW x \in All(t)
      PROVE  x \in {y \in All(s) : y.tok # e.tok} \cup {e}
  BY <1>1, <1>3 DEF All, TokensOnce
<1>4. ASSUME NEW x \in All(s), x.tok # e.tok
      PROVE  x \in All(t)
  BY <1>1, <1>4 DEF All
<1>5. e \in All(t)
  BY <1>1 DEF All
<1> QED
  BY <1>2, <1>3, <1>4, <1>5 DEF t

\* The other sessions stay when one is taken out, whichever slot they move to.
LEMMA SlotsRemoved ==
  ASSUME NEW s \in Seq(Slots), TokensOnce(s), NEW i \in 1 .. Len(s)
  PROVE  /\ TokensOnce(SwapRemove(s, i))
         /\ All(SwapRemove(s, i)) = {x \in All(s) : x.tok # s[i].tok}
<1> DEFINE t == SwapRemove(s, i)
<1>1. /\ t \in Seq(Slots) /\ Len(t) = Len(s) - 1 /\ Len(s) \in Nat
      /\ \A j \in 1 .. Len(s) - 1 : t[j] = IF j = i THEN s[Len(s)] ELSE s[j]
  BY SwapRemoved
<1> HIDE DEF t
<1>2. TokensOnce(t)
  BY <1>1, SMTT(40) DEF TokensOnce
<1>3. ASSUME NEW x \in All(t)
      PROVE  x \in All(s) /\ x.tok # s[i].tok
  <2>1. PICK j \in 1 .. Len(s) - 1 : x = t[j]
    BY <1>1, <1>3 DEF All
  <2> DEFINE m == IF j = i THEN Len(s) ELSE j
  <2>2. m \in 1 .. Len(s) /\ m # i /\ x = s[m]
    BY <1>1, <2>1
  <2> HIDE DEF m
  <2> QED
    BY <2>2 DEF All, TokensOnce
<1>4. ASSUME NEW x \in All(s), x.tok # s[i].tok
      PROVE  x \in All(t)
  <2>1. PICK j \in 1 .. Len(s) : x = s[j]
    BY <1>4 DEF All
  <2> DEFINE m == IF j = Len(s) THEN i ELSE j
  <2>2. j # i
    BY <1>4, <2>1
  <2>3. m \in 1 .. Len(t) /\ x = t[m]
    BY <1>1, <2>1, <2>2
  <2> HIDE DEF m
  <2> QED
    BY <2>3 DEF All
<1> QED
  BY <1>2, <1>3, <1>4 DEF t

-----------------------------------------------------------------------------
(* The operations of the database, on stores that are counted.             *)

DbKeys == Tokens \cup {PageKey}

\* A put keeps the count and changes the entry of its key alone.
LEMMA DbPut ==
  ASSUME NEW d, Counted(d), NEW k \in DbKeys, NEW v \in Seq(Lines)
  PROVE  /\ Counted(cweb_db_put(d, k, v))
         /\ \A x : x \in All(cweb_db_put(d, k, v).entries) <=>
                  (x \in All(d.entries) /\ x.key # k) \/ x = Entry(k, v)
<1> DEFINE i == db_find(d, k)
           es == d.entries
           new == Entry(k, v)
           r == cweb_db_put(d, k, v)
<1>0. d \in Stores /\ es \in Seq(Entries) /\ KeysOnce(es) /\ d.total = Bytes(es) /\ d.total \in Nat
  BY DEF Counted, Stores
<1>1. new \in Entries /\ new.key = k /\ entry_size(new) \in Nat
  BY EntrySize DEF Entry, Entries, DbKeys
<1>2. /\ i \in 0 .. Len(es) /\ (i # 0 => es[i].key = k)
      /\ (i = 0 => \A e \in All(es) : e.key # k)
  BY <1>0, EntrySlot
<1> HIDE DEF i, new
<1>3. CASE i # 0
  <2>1. i \in 1 .. Len(es)
    BY <1>0, <1>2, <1>3
  <2>2. r = [d EXCEPT !.entries = ReplaceAt(es, i, new), !.dirty = TRUE,
                      !.total = (d.total + entry_size(new)) - entry_size(es[i])]
    BY <1>3 DEF cweb_db_put, i, new
  <2>3. /\ ReplaceAt(es, i, new) \in Seq(Entries) /\ KeysOnce(ReplaceAt(es, i, new))
        /\ All(ReplaceAt(es, i, new)) = {e \in All(es) : e.key # k} \cup {new}
    BY <1>0, <1>1, <1>2, <1>3, <2>1, Replaced, EntriesReplaced
  <2>4. Bytes(ReplaceAt(es, i, new)) = (Bytes(es) + entry_size(new)) - entry_size(es[i])
    BY <1>0, <1>1, <2>1, BytesReplace
  <2>5. Bytes(ReplaceAt(es, i, new)) \in Nat
    BY <2>3, BytesNat
  <2>6. /\ r.entries = ReplaceAt(es, i, new) /\ r.dirty = TRUE /\ r.total = Bytes(r.entries)
        /\ r \in Stores
    BY <1>0, <2>2, <2>3, <2>4, <2>5 DEF Stores
  <2> QED
    BY <2>3, <2>6 DEF Counted, new
<1>4. CASE i = 0
  <2>2. r = [d EXCEPT !.entries = Append(es, new), !.dirty = TRUE, !.total = d.total + entry_size(new)]
    BY <1>4 DEF cweb_db_put, i, new
  <2>3. /\ Append(es, new) \in Seq(Entries) /\ KeysOnce(Append(es, new))
        /\ All(Append(es, new)) = All(es) \cup {new}
    BY <1>0, <1>1, <1>2, <1>4, Appended, EntriesAppended
  <2>4. Bytes(Append(es, new)) = Bytes(es) + entry_size(new)
    BY <1>0, <1>1, BytesAppend
  <2>5. Bytes(Append(es, new)) \in Nat
    BY <2>3, BytesNat
  <2>6. /\ r.entries = Append(es, new) /\ r.dirty = TRUE /\ r.total = Bytes(r.entries)
        /\ r \in Stores
    BY <1>0, <2>2, <2>3, <2>4, <2>5 DEF Stores
  <2>7. {e \in All(es) : e.key # k} = All(es)
    BY <1>2, <1>4
  <2> QED
    BY <2>3, <2>6, <2>7 DEF Counted, new
<1> QED
  BY <1>3, <1>4

\* A put marks the store dirty.
LEMMA DbPutDirty ==
  ASSUME NEW d, Counted(d), NEW k, NEW v
  PROVE  Dirty(cweb_db_put(d, k, v))
BY DEF cweb_db_put, Counted, Stores, Dirty

\* A delete keeps the count, takes the entry of its key and marks the store dirty if
\* there was one.
LEMMA DbDelete ==
  ASSUME NEW d, Counted(d), NEW k
  PROVE  /\ Counted(cweb_db_delete(d, k))
         /\ Dirty(cweb_db_delete(d, k)) \/ cweb_db_delete(d, k) = d
         /\ \A e : e \in All(cweb_db_delete(d, k).entries) <=> e \in All(d.entries) /\ e.key # k
<1> DEFINE i == db_find(d, k)
           es == d.entries
           r == cweb_db_delete(d, k)
<1>0. d \in Stores /\ es \in Seq(Entries) /\ KeysOnce(es) /\ d.total = Bytes(es) /\ d.total \in Nat
  BY DEF Counted, Stores
<1>2. /\ i \in 0 .. Len(es) /\ (i # 0 => es[i].key = k)
      /\ (i = 0 => \A e \in All(es) : e.key # k)
  BY <1>0, EntrySlot
<1> HIDE DEF i
<1>3. CASE i # 0
  <2>1. i \in 1 .. Len(es) /\ es[i] \in Entries
    BY <1>0, <1>2, <1>3
  <2>2. r = [d EXCEPT !.entries = SwapRemove(es, i), !.dirty = TRUE, !.total = d.total - entry_size(es[i])]
    BY <1>3 DEF cweb_db_delete, i
  <2>3. /\ SwapRemove(es, i) \in Seq(Entries) /\ KeysOnce(SwapRemove(es, i))
        /\ All(SwapRemove(es, i)) = {e \in All(es) : e.key # k}
    BY <1>0, <1>2, <1>3, <2>1, SwapRemoved, EntriesRemoved, SMTT(40)
  <2>4. Bytes(SwapRemove(es, i)) = Bytes(es) - entry_size(es[i])
    <3>0. es # << >> /\ Len(es) \in 1 .. Len(es) /\ Last(es) = es[Len(es)] /\ Last(es) \in Entries
      BY <1>0, <2>1, FrontOf
    <3>1. CASE i = Len(es)
      BY <1>0, <3>0, <3>1, BytesFront DEF SwapRemove
    <3>2. CASE i # Len(es)
      <4> DEFINE t == ReplaceAt(es, i, Last(es))
      <4>0. /\ t \in Seq(Entries) /\ Len(t) = Len(es)
            /\ \A j \in 1 .. Len(es) : t[j] = IF j = i THEN Last(es) ELSE es[j]
        BY <1>0, <2>1, <3>0, Replaced
      <4>1. t \in Seq(Entries) /\ Len(t) = Len(es) /\ t[Len(es)] = es[Len(es)]
        <5> HIDE DEF t
        <5> QED
          BY <3>0, <3>2, <4>0
      <4>2. Bytes(t) = (Bytes(es) + entry_size(Last(es))) - entry_size(es[i])
        BY <1>0, <2>1, <3>0, BytesReplace
      <4>3. SwapRemove(es, i) = Front(t)
        BY <3>2 DEF SwapRemove
      <4> HIDE DEF t
      <4>4. t # << >> /\ Last(t) = Last(es)
        BY <3>0, <4>1 DEF Last
      <4>5. Bytes(Front(t)) = Bytes(t) - entry_size(Last(t))
        BY <4>1, <4>4, BytesFront
      <4>6. entry_size(Last(es)) \in Nat /\ entry_size(es[i]) \in Nat /\ Bytes(es) \in Nat
        BY <1>0, <2>1, <3>0, EntrySize
      <4> QED
        BY <4>2, <4>3, <4>4, <4>5, <4>6
    <3> QED
      BY <3>1, <3>2
  <2>5. Bytes(SwapRemove(es, i)) \in Nat
    BY <2>3, BytesNat
  <2>6. /\ r.entries = SwapRemove(es, i) /\ r.dirty = TRUE /\ r.total = Bytes(r.entries)
        /\ r \in Stores
    BY <1>0, <2>2, <2>3, <2>4, <2>5 DEF Stores
  <2> QED
    BY <2>3, <2>6 DEF Counted, Dirty
<1>4. CASE i = 0
  <2>1. r = d
    BY <1>4 DEF cweb_db_delete, i
  <2>2. {e \in All(es) : e.key # k} = All(es)
    BY <1>2, <1>4
  <2> QED
    BY <2>1, <2>2
<1> QED
  BY <1>3, <1>4

\* A get finds the one entry of its key.
LEMMA DbGet ==
  ASSUME NEW d, Counted(d), NEW k
  PROVE  /\ Has(d, k) <=> \E e \in All(d.entries) : e.key = k
         /\ Has(d, k) => Entry(k, cweb_db_get(d, k)) \in All(d.entries)
         /\ \A e \in All(d.entries) : e.key = k => cweb_db_get(d, k) = e.value
<1> DEFINE i == db_find(d, k)
           es == d.entries
<1>0. d \in Stores /\ es \in Seq(Entries) /\ KeysOnce(es)
  BY DEF Counted, Stores
<1>1. /\ i \in 0 .. Len(es) /\ (i # 0 => es[i].key = k)
      /\ (i = 0 => \A e \in All(es) : e.key # k)
  BY <1>0, EntrySlot
<1>2. (Has(d, k) <=> i # 0) /\ cweb_db_get(d, k) = es[i].value
  BY DEF Has, cweb_db_get
<1> HIDE DEF i
<1>3. CASE i # 0
  <2>1. i \in 1 .. Len(es) /\ es[i] \in Entries
    BY <1>0, <1>1, <1>3
  <2>2. es[i] \in All(es) /\ es[i] = Entry(k, es[i].value)
    BY <1>1, <1>3, <2>1 DEF All, Entry, Entries
  <2>3. \A e \in All(es) : e.key = k => e = es[i]
    BY <1>0, <1>1, <1>3, <2>1 DEF All, KeysOnce
  <2> QED
    BY <1>1, <1>2, <1>3, <2>2, <2>3
<1>4. CASE i = 0
  BY <1>1, <1>2, <1>4
<1> QED
  BY <1>3, <1>4

\* A store is counted again, and clean, when it is opened.
LEMMA DbOpen ==
  ASSUME NEW f \in Seq(Entries), KeysOnce(f)
  PROVE  Counted(cweb_db_open(f)) /\ cweb_db_open(f).entries = f /\ ~Dirty(cweb_db_open(f))
BY BytesNat DEF cweb_db_open, Counted, Stores, Dirty

-----------------------------------------------------------------------------
(* The sweep and the dump, over all slots.                                 *)

\* The sweep of m and d after n of its turns.
SweepAt(m, d, r, n) ==
  /\ r.mem \in Seq(Slots) /\ TokensOnce(r.mem) /\ Counted(r.db)
  /\ r.at \in 1 .. Len(r.mem) + 1 /\ (r.at - 1) + (Len(m) - Len(r.mem)) = n
  /\ \A j \in 1 .. r.at - 1 : ~Expired(r.mem[j])
  /\ All(r.mem) \subseteq All(m) /\ \A s \in All(m) \ All(r.mem) : Expired(s)
  /\ \A e : e \in All(r.db.entries) <=> e \in All(d.entries) /\ \A s \in All(m) \ All(r.mem) : s.tok # e.key
  /\ Dirty(r.db) \/ r.db = d

SweepTurn(r) ==
  IF Expired(r.mem[r.at])
  THEN [mem |-> remove_at(r.mem, r.at), db |-> Delisted(r.db, r.mem, r.at), at |-> r.at]
  ELSE [mem |-> r.mem, db |-> r.db, at |-> r.at + 1]

\* One more turn: the slot at hand is kept and passed, or filled with the last one.
LEMMA SweepStep ==
  ASSUME NEW m \in Seq(Slots), TokensOnce(m), NEW d, NEW r, NEW n \in 0 .. Len(m) - 1,
         SweepAt(m, d, r, n)
  PROVE  SweepAt(m, d, SweepTurn(r), n + 1)
<1> DEFINE M == r.mem
           a == r.at
           z == SweepTurn(r)
<1>0. /\ M \in Seq(Slots) /\ TokensOnce(M) /\ Counted(r.db) /\ Len(M) \in Nat /\ Len(m) \in Nat
      /\ a \in 1 .. Len(M) + 1 /\ (a - 1) + (Len(m) - Len(M)) = n
      /\ \A j \in 1 .. a - 1 : ~Expired(M[j])
      /\ All(M) \subseteq All(m) /\ \A s \in All(m) \ All(M) : Expired(s)
      /\ \A e : e \in All(r.db.entries) <=> e \in All(d.entries) /\ \A s \in All(m) \ All(M) : s.tok # e.key
      /\ Dirty(r.db) \/ r.db = d
  BY DEF SweepAt
<1>1. a \in 1 .. Len(M)
  BY <1>0
<1>2. CASE Expired(M[a])
  <2> DEFINE N == SwapRemove(M, a)
             t == M[a].tok
             D == cweb_db_delete(r.db, t)
  <2>1. z = [mem |-> N, db |-> D, at |-> a]
    BY <1>2 DEF SweepTurn, remove_at, Delisted
  <2>2. /\ N \in Seq(Slots) /\ Len(N) = Len(M) - 1
        /\ \A j \in 1 .. Len(M) - 1 : N[j] = IF j = a THEN M[Len(M)] ELSE M[j]
        /\ TokensOnce(N) /\ All(N) = {x \in All(M) : x.tok # t}
    BY <1>0, <1>1, SwapRemoved, SlotsRemoved, ZenonT(60)
  <2>3. /\ Counted(D) /\ (Dirty(D) \/ D = r.db)
        /\ \A e : e \in All(D.entries) <=> e \in All(r.db.entries) /\ e.key # t
    <3> DEFINE E == r.db
    <3>1. Counted(E)
      BY <1>0
    <3>2. D = cweb_db_delete(E, t)
      OBVIOUS
    <3> HIDE DEF t, E, D
    <3>3. Counted(D)
      BY <3>1, <3>2, DbDelete
    <3>4. Dirty(D) \/ D = E
      BY <3>1, <3>2, DbDelete
    <3>5. \A e : e \in All(D.entries) <=> e \in All(E.entries) /\ e.key # t
      <4>1. \A e : e \in All(cweb_db_delete(E, t).entries) <=> e \in All(E.entries) /\ e.key # t
        BY <3>1, DbDelete
      <4> QED
        BY <3>2, <4>1
    <3> QED
      BY <3>3, <3>4, <3>5 DEF E
  <2>4. \A x \in All(M) : x.tok = t => x = M[a]
    BY <1>0, <1>1 DEF All, TokensOnce
  <2>5. M[a] \in All(M)
    BY <1>1 DEF All
  <2>6. z.mem = N /\ z.db = D /\ z.at = a
    BY <2>1
  <2> HIDE DEF N, D, t, z
  <2>7. All(m) \ All(N) = (All(m) \ All(M)) \cup {M[a]} /\ t = M[a].tok
    <3>1. t = M[a].tok
      BY DEF t
    <3> QED
      BY <1>0, <2>2, <2>4, <2>5, <3>1
  <2>8. /\ a \in 1 .. Len(N) + 1 /\ (a - 1) + (Len(m) - Len(N)) = n + 1
    <3> DEFINE x == Len(N)
               y == Len(M)
               c == Len(m)
    <3>1. /\ x = y - 1 /\ y \in Nat /\ c \in Nat /\ n \in Int /\ a \in 1 .. y
          /\ (a - 1) + (c - y) = n
      BY <1>0, <1>1, <2>2
    <3> HIDE DEF x, y, c, a
    <3>2. a \in 1 .. x + 1 /\ (a - 1) + (c - x) = n + 1
      BY <3>1
    <3> QED
      BY <3>2 DEF x, c
  <2>9. \A j \in 1 .. a - 1 : ~Expired(N[j])
    <3> SUFFICES ASSUME NEW j \in 1 .. a - 1
                 PROVE  ~Expired(N[j])
      OBVIOUS
    <3>1. j \in 1 .. Len(M) - 1 /\ j # a
      BY <1>0, <1>1
    <3>2. N[j] = M[j]
      BY <2>2, <3>1
    <3> QED
      BY <1>0, <3>2
  <2>10. All(N) \subseteq All(m) /\ \A s \in All(m) \ All(N) : Expired(s)
    BY <1>0, <1>2, <2>2, <2>7
  <2>11. \A e : e \in All(D.entries) <=> e \in All(d.entries) /\ \A s \in All(m) \ All(N) : s.tok # e.key
    <3> SUFFICES ASSUME NEW e
                 PROVE  e \in All(D.entries) <=> e \in All(d.entries) /\ \A s \in All(m) \ All(N) : s.tok # e.key
      OBVIOUS
    <3>1. (\A s \in All(m) \ All(N) : s.tok # e.key)
            <=> ((\A s \in All(m) \ All(M) : s.tok # e.key) /\ e.key # t)
      BY <2>7
    <3>2. e \in All(D.entries) <=> e \in All(r.db.entries) /\ e.key # t
      BY <2>3
    <3>3. e \in All(r.db.entries) <=> e \in All(d.entries) /\ \A s \in All(m) \ All(M) : s.tok # e.key
      BY <1>0
    <3> QED
      BY <3>1, <3>2, <3>3
  <2>12. Dirty(D) \/ D = d
    BY <1>0, <2>3
  <2> QED
    BY <2>2, <2>3, <2>6, <2>8, <2>9, <2>10, <2>11, <2>12 DEF SweepAt, z
<1>3. CASE ~Expired(M[a])
  <2>1. z = [mem |-> M, db |-> r.db, at |-> a + 1]
    BY <1>3 DEF SweepTurn
  <2>2. z.mem = M /\ z.db = r.db /\ z.at = a + 1
    BY <2>1
  <2> HIDE DEF z
  <2>3. /\ a + 1 \in 1 .. Len(M) + 1 /\ ((a + 1) - 1) + (Len(m) - Len(M)) = n + 1
    <3> DEFINE y == Len(M)
               c == Len(m)
    <3>1. y \in Nat /\ c \in Nat /\ n \in Int /\ a \in 1 .. y /\ (a - 1) + (c - y) = n
      BY <1>0, <1>1
    <3> HIDE DEF y, c, a
    <3>2. a + 1 \in 1 .. y + 1 /\ ((a + 1) - 1) + (c - y) = n + 1
      BY <3>1
    <3> QED
      BY <3>2 DEF y, c
  <2>4. \A j \in 1 .. (a + 1) - 1 : ~Expired(M[j])
    <3> SUFFICES ASSUME NEW j \in 1 .. (a + 1) - 1
                 PROVE  ~Expired(M[j])
      OBVIOUS
    <3>1. j = a \/ j \in 1 .. a - 1
      BY <1>1
    <3> QED
      BY <1>0, <1>3, <3>1
  <2> QED
    BY <1>0, <2>2, <2>3, <2>4 DEF SweepAt, z
<1> QED
  BY <1>2, <1>3

\* What the sweep leaves: in memory and in the database, all but the expired.
LEMMA ReapedLeaves ==
  ASSUME NEW m \in Seq(Slots), TokensOnce(m), NEW d, Counted(d)
  PROVE  /\ Reaped(m, d).mem \in Seq(Slots) /\ TokensOnce(Reaped(m, d).mem)
         /\ Counted(Reaped(m, d).db)
         /\ \A s : s \in All(Reaped(m, d).mem) <=> s \in All(m) /\ ~Expired(s)
         /\ \A e : e \in All(Reaped(m, d).db.entries) <=>
                  e \in All(d.entries) /\ \A s \in All(m) : Expired(s) => s.tok # e.key
         /\ Dirty(Reaped(m, d).db) \/ Reaped(m, d).db = d
<1> DEFINE Upto(n, f) == f = [k \in 0 .. n |-> IF k = 0 THEN [mem |-> m, db |-> d, at |-> 1]
                                                ELSE SweepTurn(f[k - 1])]
           S == {n \in 0 .. Len(m) : \E f : Upto(n, f)}
<1>0. Len(m) \in Nat /\ Len(m) \in 0 .. Len(m) /\ 0 \in 0 .. Len(m)
  OBVIOUS
<1>1. 0 \in S
  <2> DEFINE z == [k \in 0 .. 0 |-> [mem |-> m, db |-> d, at |-> 1]]
  <2>1. Upto(0, z)
    OBVIOUS
  <2> HIDE DEF z, Upto
  <2> QED
    BY <1>0, <2>1
<1>2. ASSUME NEW n \in 0 .. Len(m) - 1, n \in S
      PROVE  n + 1 \in S
  <2>1. PICK f : Upto(n, f)
    BY <1>2
  <2> DEFINE y == SweepTurn(f[n])
             g == [k \in 0 .. n + 1 |-> IF k = n + 1 THEN y ELSE f[k]]
  <2>2. Upto(n + 1, g)
    <3>1. ASSUME NEW k \in 0 .. n + 1
          PROVE  g[k] = IF k = 0 THEN [mem |-> m, db |-> d, at |-> 1] ELSE SweepTurn(g[k - 1])
      <4>1. CASE k = n + 1
        <5>1. k # 0 /\ k - 1 = n /\ n # n + 1 /\ n \in 0 .. n + 1
          BY <4>1
        <5>2. g[k] = y /\ g[n] = f[n]
          BY <4>1, <5>1
        <5> HIDE DEF g
        <5> QED
          BY <5>1, <5>2
      <4>2. CASE k # n + 1
        <5>1. g[k] = f[k] /\ k \in 0 .. n /\ (k # 0 => g[k - 1] = f[k - 1])
          BY <4>2
        <5> HIDE DEF g
        <5> QED
          BY <2>1, <5>1
      <4> QED
        BY <4>1, <4>2
    <3> QED
      BY <3>1
  <2>3. n + 1 \in 0 .. Len(m)
    BY <1>0
  <2> HIDE DEF g, Upto
  <2> QED
    BY <2>2, <2>3
<1>3. 0 .. Len(m) \subseteq S
  <2> HIDE DEF S
  <2> QED
    BY <1>0, <1>1, <1>2, Induction
<1>4. \E f : Upto(Len(m), f)
  <2> HIDE DEF Upto
  <2>1. Len(m) \in S
    BY <1>0, <1>3, Zenon
  <2> QED
    BY <2>1
<1> DEFINE f == CHOOSE f : Upto(Len(m), f)
<1>5. Upto(Len(m), f)
  <2> HIDE DEF Upto
  <2> QED
    BY <1>4
<1>6. Reaped(m, d) = f[Len(m)]
  BY DEF Reaped, SweepTurn
<1> HIDE DEF f
<1> DEFINE T == {n \in 0 .. Len(m) : SweepAt(m, d, f[n], n)}
<1>7. 0 \in T
  <2>1. f[0] = [mem |-> m, db |-> d, at |-> 1]
    BY <1>0, <1>5
  <2>2. f[0].mem = m /\ f[0].db = d /\ f[0].at = 1
    BY <2>1
  <2>3. All(m) \ All(m) = {} /\ (1 - 1) + (Len(m) - Len(m)) = 0 /\ 1 \in 1 .. Len(m) + 1 /\ 1 .. 1 - 1 = {}
    BY <1>0
  <2>4. SweepAt(m, d, f[0], 0)
    BY <2>2, <2>3 DEF SweepAt
  <2> QED
    BY <1>0, <2>4
<1>8. ASSUME NEW n \in 0 .. Len(m) - 1, n \in T
      PROVE  n + 1 \in T
  <2>1. n + 1 \in 0 .. Len(m) /\ n + 1 # 0 /\ (n + 1) - 1 = n
    BY <1>0
  <2>2. f[n + 1] = SweepTurn(f[n])
    BY <1>5, <2>1
  <2>3. SweepAt(m, d, f[n], n)
    BY <1>8
  <2>4. SweepAt(m, d, SweepTurn(f[n]), n + 1)
    BY <2>3, SweepStep
  <2> QED
    BY <2>1, <2>2, <2>4
<1>9. 0 .. Len(m) \subseteq T
  <2> HIDE DEF T
  <2> QED
    BY <1>0, <1>7, <1>8, Induction
<1> DEFINE r == Reaped(m, d)
<1>10. SweepAt(m, d, r, Len(m))
  <2>1. Len(m) \in T
    BY <1>0, <1>9, Zenon
  <2> QED
    BY <1>6, <2>1
<1> HIDE DEF r
<1>11. /\ r.mem \in Seq(Slots) /\ TokensOnce(r.mem) /\ Counted(r.db)
       /\ r.at \in 1 .. Len(r.mem) + 1 /\ (r.at - 1) + (Len(m) - Len(r.mem)) = Len(m)
       /\ \A j \in 1 .. r.at - 1 : ~Expired(r.mem[j])
       /\ All(r.mem) \subseteq All(m) /\ \A s \in All(m) \ All(r.mem) : Expired(s)
       /\ \A e : e \in All(r.db.entries) <=> e \in All(d.entries) /\ \A s \in All(m) \ All(r.mem) : s.tok # e.key
       /\ Dirty(r.db) \/ r.db = d
  BY <1>10 DEF SweepAt
<1>12. r.at - 1 = Len(r.mem)
  BY <1>0, <1>11
<1>13. \A s \in All(r.mem) : ~Expired(s)
  BY <1>11, <1>12 DEF All
<1>14. (\A s : s \in All(r.mem) <=> s \in All(m) /\ ~Expired(s)) /\ \A s \in All(m) : s \notin All(r.mem) <=> Expired(s)
  BY <1>11, <1>13
<1>15. \A e : e \in All(r.db.entries) <=>
             e \in All(d.entries) /\ \A s \in All(m) : Expired(s) => s.tok # e.key
  BY <1>11, <1>14
<1> QED
  BY <1>11, <1>14, <1>15 DEF r

\* The dump after n of its puts, with the records of the first n sessions.
DumpAt(d, n) ==
  /\ Counted(d)
  /\ \A e : e \in All(d.entries) <=>
       \/ e \in All(db.entries) /\ \A j \in 1 .. n : mem[j].tok # e.key
       \/ \E j \in 1 .. n : e = Entry(mem[j].tok, session_to_db(mem[j]))
  /\ Dirty(d) \/ d = db

\* One more put.
LEMMA DumpStep ==
  ASSUME mem \in Seq(Slots), TokensOnce(mem), NEW d, NEW n \in 0 .. Len(mem) - 1, DumpAt(d, n)
  PROVE  DumpAt(cweb_db_put(d, mem[n + 1].tok, session_to_db(mem[n + 1])), n + 1)
<1> DEFINE s == mem[n + 1]
           t == s.tok
           v == session_to_db(s)
           D == cweb_db_put(d, t, v)
<1>0. Len(mem) \in Nat /\ n + 1 \in 1 .. Len(mem) /\ s \in Slots
  OBVIOUS
<1>1. t \in DbKeys /\ v \in Seq(Lines)
  BY <1>0, RecordType DEF Slots, DbKeys, session_to_db, Records
<1>2. Counted(d) /\ (Dirty(d) \/ d = db)
  BY DEF DumpAt
<1>3. \A e : e \in All(d.entries) <=>
        \/ e \in All(db.entries) /\ \A j \in 1 .. n : mem[j].tok # e.key
        \/ \E j \in 1 .. n : e = Entry(mem[j].tok, session_to_db(mem[j]))
  BY DEF DumpAt
<1>4. \A j \in 1 .. n : j \in 1 .. Len(mem) /\ mem[j].tok # t
  <2> SUFFICES ASSUME NEW j \in 1 .. n
               PROVE  j \in 1 .. Len(mem) /\ mem[j].tok # t
    OBVIOUS
  <2>1. j \in 1 .. Len(mem) /\ j # n + 1
    BY <1>0
  <2> QED
    BY <1>0, <2>1 DEF TokensOnce
<1>5. \A j : j \in 1 .. n + 1 <=> j \in 1 .. n \/ j = n + 1
  BY <1>0
<1>6. mem[n + 1].tok = t /\ session_to_db(mem[n + 1]) = v
  OBVIOUS
<1> HIDE DEF t, v, s
<1>7. Counted(D) /\ Dirty(D)
  BY <1>1, <1>2, DbPut, DbPutDirty
<1>8. \A e : e \in All(D.entries) <=> (e \in All(d.entries) /\ e.key # t) \/ e = Entry(t, v)
  <2>1. Counted(d)
    BY <1>2
  <2> HIDE DEF D
  <2>2. D = cweb_db_put(d, t, v)
    BY DEF D
  <2>3. \A e : e \in All(cweb_db_put(d, t, v).entries) <=> (e \in All(d.entries) /\ e.key # t) \/ e = Entry(t, v)
    BY <1>1, <2>1, DbPut
  <2> QED
    BY <2>2, <2>3
<1> HIDE DEF D
<1>9. \A e : e \in All(D.entries) <=>
        \/ e \in All(db.entries) /\ \A j \in 1 .. n + 1 : mem[j].tok # e.key
        \/ \E j \in 1 .. n + 1 : e = Entry(mem[j].tok, session_to_db(mem[j]))
  <2> SUFFICES ASSUME NEW e
               PROVE  e \in All(D.entries) <=>
                        \/ e \in All(db.entries) /\ \A j \in 1 .. n + 1 : mem[j].tok # e.key
                        \/ \E j \in 1 .. n + 1 : e = Entry(mem[j].tok, session_to_db(mem[j]))
    OBVIOUS
  <2>1. (\A j \in 1 .. n + 1 : mem[j].tok # e.key) <=> (\A j \in 1 .. n : mem[j].tok # e.key) /\ e.key # t
    BY <1>5, <1>6
  <2>2. (\E j \in 1 .. n + 1 : e = Entry(mem[j].tok, session_to_db(mem[j]))) <=>
          (\E j \in 1 .. n : e = Entry(mem[j].tok, session_to_db(mem[j]))) \/ e = Entry(t, v)
    BY <1>5, <1>6
  <2>3. (\E j \in 1 .. n : e = Entry(mem[j].tok, session_to_db(mem[j]))) => e.key # t
    BY <1>4 DEF Entry
  <2> QED
    BY <1>3, <1>8, <2>1, <2>2, <2>3
<1> QED
  BY <1>7, <1>9 DEF DumpAt, D, t, v, s

\* What the dump leaves: the record of every session in memory over the others.
LEMMA DumpLeaves ==
  ASSUME mem \in Seq(Slots), TokensOnce(mem), Counted(db)
  PROVE  DumpAt(http_session_store_dump, Len(mem))
<1> DEFINE Put(d, n) == cweb_db_put(d, mem[n].tok, session_to_db(mem[n]))
           Upto(n, f) == f = [k \in 0 .. n |-> IF k = 0 THEN db ELSE Put(f[k - 1], k)]
           S == {n \in 0 .. Len(mem) : \E f : Upto(n, f)}
<1>0. Len(mem) \in Nat /\ Len(mem) \in 0 .. Len(mem) /\ 0 \in 0 .. Len(mem)
  OBVIOUS
<1>1. 0 \in S
  <2> DEFINE z == [k \in 0 .. 0 |-> db]
  <2>1. Upto(0, z)
    OBVIOUS
  <2> HIDE DEF z, Upto
  <2> QED
    BY <1>0, <2>1
<1>2. ASSUME NEW n \in 0 .. Len(mem) - 1, n \in S
      PROVE  n + 1 \in S
  <2>1. PICK f : Upto(n, f)
    BY <1>2
  <2> DEFINE y == Put(f[n], n + 1)
             g == [k \in 0 .. n + 1 |-> IF k = n + 1 THEN y ELSE f[k]]
  <2> HIDE DEF Put
  <2>2. Upto(n + 1, g)
    <3>1. ASSUME NEW k \in 0 .. n + 1
          PROVE  g[k] = IF k = 0 THEN db ELSE Put(g[k - 1], k)
      <4>1. CASE k = n + 1
        <5>1. k # 0 /\ k - 1 = n /\ n # n + 1 /\ n \in 0 .. n + 1
          BY <4>1
        <5>2. g[k] = y /\ g[n] = f[n]
          BY <4>1, <5>1
        <5> HIDE DEF g
        <5> QED
          BY <4>1, <5>1, <5>2
      <4>2. CASE k # n + 1
        <5>1. g[k] = f[k] /\ k \in 0 .. n /\ (k # 0 => g[k - 1] = f[k - 1])
          BY <4>2
        <5> HIDE DEF g
        <5> QED
          BY <2>1, <5>1
      <4> QED
        BY <4>1, <4>2
    <3> QED
      BY <3>1
  <2>3. n + 1 \in 0 .. Len(mem)
    BY <1>0
  <2> HIDE DEF g, Upto
  <2> QED
    BY <2>2, <2>3
<1>3. 0 .. Len(mem) \subseteq S
  <2> HIDE DEF S
  <2> QED
    BY <1>0, <1>1, <1>2, Induction
<1>4. \E f : Upto(Len(mem), f)
  <2> HIDE DEF Upto
  <2>1. Len(mem) \in S
    BY <1>0, <1>3, Zenon
  <2> QED
    BY <2>1
<1> DEFINE f == CHOOSE f : Upto(Len(mem), f)
<1>5. Upto(Len(mem), f)
  <2> HIDE DEF Upto
  <2> QED
    BY <1>4
<1>6. http_session_store_dump = f[Len(mem)]
  BY DEF http_session_store_dump
<1> HIDE DEF f
<1> DEFINE T == {n \in 0 .. Len(mem) : DumpAt(f[n], n)}
<1>7. 0 \in T
  <2>1. f[0] = db
    BY <1>0, <1>5
  <2>2. \A e : e \in All(db.entries) <=>
          \/ e \in All(db.entries) /\ \A j \in 1 .. 0 : mem[j].tok # e.key
          \/ \E j \in 1 .. 0 : e = Entry(mem[j].tok, session_to_db(mem[j]))
    OBVIOUS
  <2>3. DumpAt(f[0], 0)
    BY <2>1, <2>2 DEF DumpAt
  <2> QED
    BY <1>0, <2>3
<1>8. ASSUME NEW n \in 0 .. Len(mem) - 1, n \in T
      PROVE  n + 1 \in T
  <2>1. n + 1 \in 0 .. Len(mem) /\ n + 1 # 0 /\ (n + 1) - 1 = n
    BY <1>0
  <2>2. f[n + 1] = cweb_db_put(f[n], mem[n + 1].tok, session_to_db(mem[n + 1]))
    BY <1>5, <2>1
  <2>3. DumpAt(f[n], n)
    BY <1>8
  <2>4. DumpAt(cweb_db_put(f[n], mem[n + 1].tok, session_to_db(mem[n + 1])), n + 1)
    BY <2>3, DumpStep
  <2> QED
    BY <2>1, <2>2, <2>4
<1>9. 0 .. Len(mem) \subseteq T
  <2> HIDE DEF T
  <2> QED
    BY <1>0, <1>7, <1>8, Induction
<1>10. Len(mem) \in T
  BY <1>0, <1>9, Zenon
<1> QED
  BY <1>6, <1>10

\* What a sync of d leaves.
LEMMA SyncLeaves ==
  ASSUME NEW d, Counted(d), Sync(d), torn \in {"no", "pending", "yes"}
  PROVE  /\ Counted(db') /\ db'.entries = d.entries
         /\ \/ file' = d.entries /\ ~Dirty(db')
            \/ file' = file /\ db' = d
            \/ file' = file /\ d.entries = << >>
         /\ torn' \in {"no", "pending", "yes"} /\ (torn = "yes" <=> torn' = "yes")
         /\ torn' = "no" => ~Dirty(db')
<1>1. PICK disk \in Faults : LET r == cweb_db_sync(d, file, disk)
                             IN  /\ db' = r.db /\ file' = r.file
                                 /\ torn' = IF torn = "yes" THEN "yes" ELSE IF r.db.dirty THEN "pending" ELSE "no"
  BY DEF Sync
<1>2. d \in Stores /\ KeysOnce(d.entries) /\ d.total = Bytes(d.entries) /\ d.dirty \in BOOLEAN
  BY DEF Counted, Stores
<1>3. CASE d.entries = << >> \/ SyncWorks(d, disk)
  <2>1. /\ db' = [d EXCEPT !.dirty = FALSE]
        /\ file' = d.entries \/ (file' = file /\ d.entries = << >>)
    BY <1>1, <1>3 DEF cweb_db_sync, NoFile
  <2>2. db' \in Stores /\ db'.entries = d.entries /\ db'.total = d.total /\ db'.dirty = FALSE
    BY <1>2, <2>1 DEF Stores
  <2>3. torn' = IF torn = "yes" THEN "yes" ELSE "no"
    BY <1>1, <1>3, <2>2 DEF cweb_db_sync
  <2> QED
    BY <1>2, <2>1, <2>2, <2>3 DEF Counted, Dirty
<1>4. CASE ~(d.entries = << >> \/ SyncWorks(d, disk))
  <2>1. db' = d /\ file' = file
    BY <1>1, <1>4 DEF cweb_db_sync
  <2>2. torn' = IF torn = "yes" THEN "yes" ELSE IF d.dirty THEN "pending" ELSE "no"
    BY <1>1, <1>4 DEF cweb_db_sync
  <2> QED
    BY <1>2, <2>1, <2>2 DEF Dirty
<1> QED
  BY <1>3, <1>4

-----------------------------------------------------------------------------
(* The inductive invariant.                                                *)

Types ==
  /\ up \in BOOLEAN /\ torn \in {"no", "pending", "yes"}
  /\ mem \in Seq(Slots) /\ TokensOnce(mem)
  /\ Counted(db) /\ file \in Seq(Entries) /\ KeysOnce(file)
  /\ hold \in [Workers -> Tokens \cup {Nobody}]
  /\ step \in [Workers -> {"use", "render", "csrf"} \cup Flash]
  /\ clock \in Nat /\ issued \in Nat /\ 1 .. issued \subseteq Tokens /\ fresh \in Nat
  /\ told \in [Tokens -> Datas] /\ expiry \in [Tokens -> Nat]
  /\ gone \in [Tokens -> {"no", "here", "asked"}]

\* Every slot is of a token that was issued, and has its expiry.
SlotsFit(m) == \A s \in All(m) : s.tok <= issued /\ s.exp = expiry[s.tok]

\* Every record is of a token that was issued, and has its expiry.
EntriesFit(es) ==
  \A e \in All(es) :
    /\ e.key <= issued
    /\ e.key # PageKey => e.value \in Records /\ e.value[1] = expiry[e.key]

\* A store that is not dirty is the one in its file, unless it is empty.
Synced == up => Dirty(db) \/ file = db.entries \/ db.entries = << >>

\* What this process has removed is neither in memory nor in the database.
Removed ==
  \A t \in Tokens : gone[t] = "here" =>
    (\A s \in All(mem) : s.tok # t) /\ (\A e \in All(db.entries) : e.key # t)

\* A process that is not running has neither sessions nor a store.
Stopped == ~up => mem = << >> /\ db.entries = << >>

\* A token that was not issued yet has neither been stored for nor removed.
Fresh == \A t \in Tokens : ~(t <= issued) => told[t] = NoData /\ gone[t] = "no"

IInv ==
  /\ Types /\ SlotsFit(mem) /\ EntriesFit(db.entries) /\ EntriesFit(file)
  /\ Synced /\ Removed /\ Stopped /\ Fresh

\* Memory and the records agree with what the requests were told.
Kept(es) ==
  \A t \in Tokens : t <= issued /\ gone[t] = "no" => Entry(t, Record(expiry[t], told[t])) \in All(es)

Told ==
  /\ \A t \in Tokens : OneLine(told[t])
  /\ \A s \in All(mem) : OneLine(s.data)
  /\ torn # "yes" => \A s \in All(mem) : gone[s.tok] = "no" => s.data = told[s.tok]
  /\ up /\ torn # "yes" => Kept(db.entries)
  /\ torn = "no" \/ (~up /\ torn # "yes") => Kept(file)

-----------------------------------------------------------------------------
(* The data that handlers store.                                           *)

\* A key more, a key less, nothing at all, and a generated value.
LEMMA StoredData ==
  ASSUME NEW d \in Datas, NEW k \in Text, NEW v \in Seq(Text)
  PROVE  With(d, k, v) \in Datas /\ Without(d, k) \in Datas
<1>0. /\ IsFiniteSet(DOMAIN d) /\ DOMAIN d \subseteq Text /\ \A x \in DOMAIN d : d[x] \in Seq(Text)
  BY DatasDef
<1> DEFINE a == With(d, k, v)
           b == Without(d, k)
<1>1. DOMAIN a = DOMAIN d \cup {k} /\ DOMAIN b = DOMAIN d \ {k}
  BY DEF With, Without
<1>2. IsFiniteSet(DOMAIN d \cup {k}) /\ IsFiniteSet(DOMAIN d \ {k})
  BY <1>0, FS_AddElement, FS_RemoveElement
<1>3. (\A x \in DOMAIN a : a[x] \in Seq(Text)) /\ \A x \in DOMAIN b : b[x] \in Seq(Text)
  BY <1>0 DEF With, Without
<1>4. a = [x \in DOMAIN a |-> a[x]] /\ b = [x \in DOMAIN b |-> b[x]]
  BY DEF With, Without
<1>5. DOMAIN a \subseteq Text /\ DOMAIN b \subseteq Text /\ IsFiniteSet(DOMAIN a) /\ IsFiniteSet(DOMAIN b)
  BY <1>0, <1>1, <1>2
<1> HIDE DEF a, b
<1>6. a \in Datas
  BY <1>3, <1>4, <1>5, DatasDef
<1>7. b \in Datas
  BY <1>3, <1>4, <1>5, DatasDef
<1> QED
  BY <1>6, <1>7 DEF a, b

\* They stay one line each.
LEMMA StoredLines ==
  ASSUME NEW d, OneLine(d), NEW k, NEW v, Len(v) = 1
  PROVE  OneLine(With(d, k, v))
BY DEF OneLine, With

\* Taking a key away leaves the others as they are.
LEMMA FewerLines ==
  ASSUME NEW d, OneLine(d), NEW k
  PROVE  OneLine(Without(d, k))
BY DEF OneLine, Without

\* A session starts with nothing.
LEMMA NothingStored == NoData \in Datas /\ OneLine(NoData)
<1>1. DOMAIN NoData = {} /\ NoData = [k \in DOMAIN NoData |-> NoData[k]]
  BY DEF NoData
<1>2. IsFiniteSet({})
  BY FS_EmptySet
<1> QED
  BY <1>1, <1>2, DatasDef DEF OneLine

\* Generated values are one line.
LEMMA MadeValues ==
  ASSUME NEW n
  PROVE  Made(n) \in Seq(Text) /\ Len(Made(n)) = 1
<1>1. Made(n) \in {<<"gen1">>, <<"gen2">>, <<"gen3">>}
  BY DEF Made
<1>2. "gen1" \in Text /\ "gen2" \in Text /\ "gen3" \in Text
  BY DEF Text
<1>3. <<"gen1">> \in Seq(Text) /\ <<"gen2">> \in Seq(Text) /\ <<"gen3">> \in Seq(Text)
  BY <1>2, Single
<1>4. Len(<<"gen1">>) = 1 /\ Len(<<"gen2">>) = 1 /\ Len(<<"gen3">>) = 1
  OBVIOUS
<1> QED
  BY <1>1, <1>3, <1>4, Zenon

\* So are the keys, and what users enter is text.
LEMMA TextStored ==
  /\ Keys \subseteq Text /\ Flash \subseteq Text /\ "auth_user" \in Text /\ "csrf-token" \in Text
  /\ \A v \in Users : v \in Seq(Text)
<1>1. Keys \subseteq Text /\ Flash \subseteq Keys /\ "auth_user" \in Keys /\ "csrf-token" \in Keys
  BY DEF Text, Keys
<1>2. ASSUME NEW v \in Users
      PROVE  v \in Seq(Text)
  <2>1. v \in Seq(STRING)
    BY SessionConstants
  <2>2. \A i \in 1 .. Len(v) : v[i] \in Text
    BY DEF Text
  <2> QED
    BY <2>1, <2>2
<1> QED
  BY <1>1, <1>2

\* Tokens are positive numbers, so that none is the key of a page.
LEMMA TokensAre == Tokens \subseteq Nat /\ PageKey \notin Tokens /\ Nobody \notin Tokens
BY SessionConstants, FS_CardinalityType DEF PageKey, Nobody

-----------------------------------------------------------------------------
(* The invariant holds at the start, and every action keeps it.            *)

\* An empty store and no file.
LEMMA InitIInv == Init => IInv
<1> SUFFICES ASSUME Init
             PROVE  IInv
  OBVIOUS
<1>1. /\ mem = << >> /\ file = << >> /\ db = cweb_db_open(<< >>)
      /\ hold = [w \in Workers |-> Nobody] /\ gone = [t \in Tokens |-> "no"]
      /\ told = [t \in Tokens |-> NoData] /\ expiry = [t \in Tokens |-> 0]
  BY DEF Init, NoFile
<1>2. All(<< >>) = {} /\ KeysOnce(<< >>) /\ TokensOnce(<< >>) /\ << >> \in Seq(Entries) /\ << >> \in Seq(Slots)
  BY DEF All, KeysOnce, TokensOnce
<1>3. Counted(db) /\ db.entries = << >>
  BY <1>1, <1>2, DbOpen
<1>4. Types
  BY <1>1, <1>2, <1>3, NothingStored DEF Types, Init, Nobody
<1>5. SlotsFit(mem) /\ EntriesFit(db.entries) /\ EntriesFit(file)
  BY <1>1, <1>2, <1>3 DEF SlotsFit, EntriesFit
<1>6. Synced
  BY <1>1, <1>3 DEF Synced
<1>7. Removed
  BY <1>1 DEF Removed
<1>8. Stopped
  BY <1>1, <1>3 DEF Stopped, Init
<1> QED
  BY <1>1, <1>4, <1>5, <1>6, <1>7, <1>8 DEF IInv, Fresh

\* What a write-through leaves: the session's record in the database, and in the
\* file whatever the sync has brought there.
LEMMA WrittenThrough ==
  ASSUME Counted(db), torn \in {"no", "pending", "yes"}, NEW s \in Slots, WriteThrough(s)
  PROVE  /\ Counted(db')
         /\ \A e : e \in All(db'.entries) <=>
                  (e \in All(db.entries) /\ e.key # s.tok) \/ e = Entry(s.tok, session_to_db(s))
         /\ file' = db'.entries \/ (file' = file /\ Dirty(db'))
         /\ torn' \in {"no", "pending", "yes"} /\ (torn = "yes" <=> torn' = "yes")
         /\ torn' = "no" => file' = db'.entries
<1> DEFINE t == s.tok
           v == session_to_db(s)
           D == cweb_db_put(db, t, v)
<1>1. t \in DbKeys /\ v \in Seq(Lines)
  BY RecordType DEF Slots, DbKeys, session_to_db, Records
<1>2. Sync(D)
  BY DEF WriteThrough
<1> HIDE DEF t, v
<1>3. Counted(D) /\ Dirty(D)
  BY <1>1, DbPut, DbPutDirty
<1>4. \A e : e \in All(D.entries) <=> (e \in All(db.entries) /\ e.key # t) \/ e = Entry(t, v)
  BY <1>1, DbPut
<1> HIDE DEF D
<1>5. /\ Counted(db') /\ db'.entries = D.entries
      /\ \/ file' = D.entries /\ ~Dirty(db')
         \/ file' = file /\ db' = D
         \/ file' = file /\ D.entries = << >>
      /\ torn' \in {"no", "pending", "yes"} /\ (torn = "yes" <=> torn' = "yes")
      /\ torn' = "no" => ~Dirty(db')
  BY <1>2, <1>3, SyncLeaves
<1>6. D.entries # << >>
  <2>1. All(<< >>) = {}
    BY DEF All
  <2> QED
    BY <1>4, <2>1
<1> QED
  BY <1>3, <1>4, <1>5, <1>6 DEF t, v

\* The record of a session begins with its expiry.
LEMMA RecordFits ==
  ASSUME NEW s \in Slots
  PROVE  /\ Entry(s.tok, session_to_db(s)).key = s.tok
         /\ Entry(s.tok, session_to_db(s)).value = session_to_db(s)
         /\ session_to_db(s) \in Records /\ session_to_db(s)[1] = s.exp
BY RecordType DEF Slots, session_to_db, Entry

\* The slot of a handle.
LEMMA HandleSlot ==
  ASSUME IInv, NEW w \in Workers, Holding(w)
  PROVE  /\ hold[w] \in Tokens /\ find_token(hold[w]) \in 1 .. Len(mem)
         /\ mem[find_token(hold[w])] \in Slots /\ mem[find_token(hold[w])].tok = hold[w]
         /\ mem[find_token(hold[w])] \in All(mem) /\ Data(w) \in Datas
<1> DEFINE t == hold[w]
           i == find_token(t)
<1>0. mem \in Seq(Slots) /\ t \in Tokens \cup {Nobody} /\ t # Nobody /\ i # 0 /\ Len(mem) \in Nat
  BY DEF IInv, Types, Holding
<1>1. i = Slot(mem, t)
  BY DEF find_token, Slot
<1> HIDE DEF t, i
<1>2. i \in 0 .. Len(mem) /\ (i # 0 => mem[i].tok = t)
  BY <1>0, <1>1, TokenSlot
<1>3. i \in 1 .. Len(mem) /\ mem[i].tok = t /\ mem[i] \in Slots
  BY <1>0, <1>2
<1>4. mem[i] \in All(mem) /\ mem[i].data \in Datas
  BY <1>3 DEF All, Slots
<1> QED
  BY <1>0, <1>3, <1>4 DEF t, i, Data

\* The slots after a handler stored data.
LEMMA StoredSlots ==
  ASSUME IInv, NEW w \in Workers, Holding(w), NEW data \in Datas, Store(w, data)
  PROVE  \E s \in Slots :
           /\ s.tok = hold[w] /\ s.exp = expiry[hold[w]] /\ s.data = data /\ WriteThrough(s)
           /\ mem' \in Seq(Slots) /\ TokensOnce(mem')
           /\ \A x : x \in All(mem') <=> (x \in All(mem) /\ x.tok # hold[w]) \/ x = s
<1> DEFINE t == hold[w]
           i == find_token(t)
           s == [mem[i] EXCEPT !.data = data]
<1>0. /\ t \in Tokens /\ i \in 1 .. Len(mem) /\ mem[i] \in Slots /\ mem[i].tok = t /\ mem[i] \in All(mem)
  BY HandleSlot
<1>1. mem \in Seq(Slots) /\ TokensOnce(mem) /\ SlotsFit(mem)
  BY DEF IInv, Types
<1>2. mem' = ReplaceAt(mem, i, s) /\ WriteThrough(s)
  BY DEF Store
<1>3. s \in Slots /\ s.tok = t /\ s.exp = mem[i].exp /\ s.data = data
  BY <1>0 DEF Slots
<1>4. s.exp = expiry[t]
  BY <1>0, <1>1, <1>3 DEF SlotsFit
<1> HIDE DEF s, i, t
<1>5. mem' \in Seq(Slots)
  BY <1>0, <1>1, <1>2, <1>3, Replaced
<1>6. TokensOnce(mem') /\ All(mem') = {x \in All(mem) : x.tok # s.tok} \cup {s}
  BY <1>0, <1>1, <1>2, <1>3, SlotsReplaced
<1>7. \A x : x \in All(mem') <=> (x \in All(mem) /\ x.tok # t) \/ x = s
  BY <1>3, <1>6
<1> QED
  BY <1>2, <1>3, <1>4, <1>5, <1>6, <1>7 DEF t

\* A handler stores data in its session.
LEMMA StoreKeeps ==
  ASSUME IInv, NEW w \in Workers, Holding(w), NEW data \in Datas, Store(w, data),
         step' \in [Workers -> {"use", "render", "csrf"} \cup Flash], fresh' \in Nat,
         UNCHANGED <<up, hold, clock, issued, expiry, gone>>
  PROVE  IInv'
<1> DEFINE t == hold[w]
<1>0. t \in Tokens /\ up = TRUE /\ t \in Nat /\ t # PageKey /\ \E s \in All(mem) : s.tok = t
  BY HandleSlot, TokensAre DEF IInv, Types, Holding
<1>1. PICK s \in Slots :
           /\ s.tok = t /\ s.exp = expiry[t] /\ s.data = data /\ WriteThrough(s)
           /\ mem' \in Seq(Slots) /\ TokensOnce(mem')
           /\ \A x : x \in All(mem') <=> (x \in All(mem) /\ x.tok # t) \/ x = s
  BY StoredSlots
<1>2. told' = [told EXCEPT ![t] = data]
  BY DEF Store
<1> DEFINE n == Entry(s.tok, session_to_db(s))
<1>3. n.key = t /\ n.value \in Records /\ n.value[1] = expiry[t]
  BY <1>1, RecordFits
<1>4. /\ Counted(db') /\ torn' \in {"no", "pending", "yes"}
      /\ \A e : e \in All(db'.entries) <=> (e \in All(db.entries) /\ e.key # t) \/ e = n
      /\ file' = db'.entries \/ (file' = file /\ Dirty(db'))
  <2>1. Counted(db) /\ torn \in {"no", "pending", "yes"} /\ WriteThrough(s)
    BY <1>1 DEF IInv, Types
  <2> QED
    BY <1>1, <2>1, WrittenThrough
<1> HIDE DEF t, n
<1>5. t <= issued
  BY <1>0 DEF IInv, SlotsFit
<1>6. Types'
  <2>1. db'.entries \in Seq(Entries) /\ KeysOnce(db'.entries)
    BY <1>4 DEF Counted, Stores
  <2>2. told' \in [Tokens -> Datas]
    BY <1>0, <1>2 DEF IInv, Types
  <2> QED
    BY <1>1, <1>4, <2>1, <2>2 DEF IInv, Types
<1>7. SlotsFit(mem)'
  BY <1>1, <1>5 DEF IInv, SlotsFit
<1>8. EntriesFit(db.entries)'
  BY <1>3, <1>4, <1>5 DEF IInv, EntriesFit
<1>9. EntriesFit(file)'
  BY <1>4, <1>8 DEF IInv, EntriesFit
<1>10. Synced'
  BY <1>4 DEF Synced
<1>11. Removed'
  BY <1>0, <1>1, <1>3, <1>4 DEF IInv, Removed
<1>12. Stopped'
  BY <1>0, <1>1 DEF IInv, Stopped
<1>13. Fresh'
  BY <1>0, <1>2, <1>5 DEF IInv, Types, Fresh
<1> QED
  BY <1>6, <1>7, <1>8, <1>9, <1>10, <1>11, <1>12, <1>13 DEF IInv

\* A session is created under a token that nothing has used before.
LEMMA CreateKeeps ==
  ASSUME IInv, http_session_create
  PROVE  IInv'
<1> DEFINE t == issued + 1
           s == NewSession(t)
<1>0. /\ up = TRUE /\ t \in Tokens /\ issued \in Nat /\ clock \in Nat /\ t \in Nat /\ t # PageKey /\ ~(t <= issued)
      /\ TTLs \in [Tokens -> Nat]
  <2>1. up = TRUE /\ t \in Tokens /\ issued \in Nat /\ clock \in Nat
    BY DEF IInv, Types, http_session_create
  <2>2. t \in Nat /\ t # PageKey /\ ~(t <= issued)
    BY <2>1, TokensAre
  <2> QED
    BY <2>1, <2>2, SessionConstants
<1>1. s \in Slots /\ s.tok = t
  BY <1>0, NothingStored DEF NewSession, Slots
<1>2. /\ mem' = Append(mem, s) /\ WriteThrough(s) /\ expiry' = [expiry EXCEPT ![t] = s.exp] /\ issued' = t
      /\ fresh' = fresh + 1 /\ UNCHANGED <<up, hold, step, clock, told, gone>>
  BY <1>1 DEF http_session_create
<1> HIDE DEF s
<1>3. \A x \in All(mem) : x.tok # t
  BY <1>0 DEF IInv, SlotsFit
<1>3a. mem \in Seq(Slots) /\ TokensOnce(mem)
  BY DEF IInv, Types
<1>4. mem' \in Seq(Slots) /\ All(mem') = All(mem) \cup {s}
  BY <1>1, <1>2, <1>3a, Appended
<1>5. TokensOnce(mem')
  BY <1>1, <1>2, <1>3, <1>3a, SlotsAppended
<1> DEFINE n == Entry(s.tok, session_to_db(s))
<1>6. n.key = t /\ n.value \in Records /\ n.value[1] = s.exp
  BY <1>1, RecordFits
<1>7. /\ Counted(db') /\ torn' \in {"no", "pending", "yes"}
      /\ \A e : e \in All(db'.entries) <=> (e \in All(db.entries) /\ e.key # t) \/ e = n
      /\ file' = db'.entries \/ (file' = file /\ Dirty(db'))
  <2>1. Counted(db) /\ torn \in {"no", "pending", "yes"} /\ WriteThrough(s)
    BY <1>2 DEF IInv, Types
  <2> QED
    BY <1>1, <2>1, WrittenThrough
<1> HIDE DEF n
<1>8. expiry \in [Tokens -> Nat] /\ s.exp \in Nat
  BY <1>1 DEF IInv, Types, Slots
<1>9. expiry' \in [Tokens -> Nat] /\ expiry'[t] = s.exp /\ \A u \in Tokens : u # t => expiry'[u] = expiry[u]
  BY <1>0, <1>2, <1>8
<1>10. Types'
  <2>1. db'.entries \in Seq(Entries) /\ KeysOnce(db'.entries)
    BY <1>7 DEF Counted, Stores
  <2>2. fresh' \in Nat
    BY <1>2 DEF IInv, Types
  <2> QED
    BY <1>0, <1>2, <1>4, <1>5, <1>7, <1>9, <2>1, <2>2 DEF IInv, Types
<1>11. SlotsFit(mem)'
  <2> SUFFICES ASSUME NEW x \in All(mem')
               PROVE  x.tok <= issued' /\ x.exp = expiry'[x.tok]
    BY DEF SlotsFit
  <2>1. CASE x = s
    BY <1>0, <1>1, <1>2, <1>9, <2>1
  <2>2. CASE x \in All(mem)
    <3>0. x \in Slots
      BY <1>3a, <2>2 DEF All
    <3>1. x.tok \in Tokens /\ x.tok \in Nat /\ x.tok <= issued /\ x.tok # t /\ x.exp = expiry[x.tok]
      BY <1>0, <1>3, <2>2, <3>0, TokensAre DEF IInv, SlotsFit, Slots
    <3> QED
      BY <1>0, <1>2, <1>9, <3>1
  <2> QED
    BY <1>4, <2>1, <2>2
<1>12. ASSUME NEW e, NEW es \in Seq(Entries), e \in All(es), EntriesFit(es)
       PROVE  /\ e.key <= issued' /\ e.key # t
              /\ e.key # PageKey => e.value \in Records /\ e.value[1] = expiry'[e.key]
  <2>1. e \in Entries
    BY <1>12 DEF All
  <2>2. e.key \in Tokens \cup {PageKey} /\ e.key \in Nat
    <3>1. e.key \in Tokens \cup {PageKey}
      BY <2>1 DEF Entries
    <3>2. \A k \in Tokens \cup {PageKey} : k \in Nat
      BY TokensAre DEF PageKey
    <3> QED
      BY <3>1, <3>2
  <2>3. e.key <= issued /\ (e.key # PageKey => e.value \in Records /\ e.value[1] = expiry[e.key])
    BY <1>12 DEF EntriesFit
  <2> QED
    BY <1>0, <1>2, <1>9, <2>2, <2>3
<1>13. db.entries \in Seq(Entries) /\ file \in Seq(Entries) /\ EntriesFit(db.entries) /\ EntriesFit(file)
  BY DEF IInv, Types, Counted, Stores
<1>14. EntriesFit(db.entries)'
  BY <1>0, <1>2, <1>6, <1>7, <1>9, <1>12, <1>13 DEF EntriesFit
<1>15. EntriesFit(file)'
  BY <1>7, <1>12, <1>13, <1>14 DEF EntriesFit
<1>16. Synced'
  BY <1>7 DEF Synced
<1>17. Removed'
  <2>1. gone[t] # "here"
    BY <1>0 DEF IInv, Fresh
  <2> QED
    BY <1>1, <1>2, <1>4, <1>6, <1>7, <2>1 DEF IInv, Removed
<1>18. Stopped'
  BY <1>0, <1>2, <1>4 DEF IInv, Stopped
<1>19. Fresh'
  <2>1. \A u \in Tokens : u <= issued => u <= t
    BY <1>0, TokensAre
  <2> QED
    BY <1>2, <2>1 DEF IInv, Fresh
<1> QED
  BY <1>10, <1>11, <1>14, <1>15, <1>16, <1>17, <1>18, <1>19 DEF IInv

\* A session leaves the store and the database together.
LEMMA SlotRemoved ==
  ASSUME NEW m \in Seq(Slots), TokensOnce(m), NEW t, NEW i, i = Slot(m, t), i # 0, Counted(db)
  PROVE  /\ remove_at(m, i) \in Seq(Slots) /\ TokensOnce(remove_at(m, i))
         /\ \A x : x \in All(remove_at(m, i)) <=> x \in All(m) /\ x.tok # t
         /\ Counted(Delisted(db, m, i)) /\ (Dirty(Delisted(db, m, i)) \/ Delisted(db, m, i) = db)
         /\ \A e : e \in All(Delisted(db, m, i).entries) <=> e \in All(db.entries) /\ e.key # t
         /\ m[i] \in All(m) /\ m[i].tok = t
<1>1. i \in 0 .. Len(m) /\ m[i].tok = t
  BY TokenSlot
<1>2. i \in 1 .. Len(m)
  BY <1>1
<1>3. remove_at(m, i) \in Seq(Slots)
  BY <1>2, SwapRemoved DEF remove_at
<1>4. TokensOnce(remove_at(m, i)) /\ All(remove_at(m, i)) = {x \in All(m) : x.tok # m[i].tok}
  BY <1>2, SlotsRemoved DEF remove_at
<1>5. \A x : x \in All(remove_at(m, i)) <=> x \in All(m) /\ x.tok # t
  BY <1>1, <1>4
<1>6. Delisted(db, m, i) = cweb_db_delete(db, t)
  BY <1>1 DEF Delisted
<1>7. Counted(cweb_db_delete(db, t)) /\ (Dirty(cweb_db_delete(db, t)) \/ cweb_db_delete(db, t) = db)
  BY DbDelete
<1>8. \A e : e \in All(cweb_db_delete(db, t).entries) <=> e \in All(db.entries) /\ e.key # t
  BY DbDelete
<1>9. m[i] \in All(m)
  BY <1>2 DEF All
<1> QED
  BY <1>1, <1>3, <1>4, <1>5, <1>6, <1>7, <1>8, <1>9

\* What open finds in memory, or brings there from the record.
LEMMA LoadedSlots ==
  ASSUME IInv, NEW t \in Tokens
  PROVE  /\ Loaded(t) \in Seq(Slots) /\ TokensOnce(Loaded(t)) /\ SlotsFit(Loaded(t))
         /\ \A x \in All(mem) : x \in All(Loaded(t))
         /\ \A x \in All(Loaded(t)) :
              \/ x \in All(mem)
              \/ /\ x.tok = t /\ \A y \in All(mem) : y.tok # t
                 /\ \E e \in All(db.entries) : e.key = t /\ x = session_from_db(t, e.value)
<1>0. /\ mem \in Seq(Slots) /\ TokensOnce(mem) /\ SlotsFit(mem) /\ Counted(db) /\ EntriesFit(db.entries)
      /\ expiry \in [Tokens -> Nat]
  BY DEF IInv, Types
<1>1. find_token(t) = Slot(mem, t)
  BY DEF find_token, Slot
<1>2. CASE find_token(t) # 0 \/ ~Has(db, t)
  <2>1. Loaded(t) = mem
    BY <1>2 DEF Loaded
  <2> QED
    BY <1>0, <2>1
<1>3. CASE ~(find_token(t) # 0 \/ ~Has(db, t))
  <2> DEFINE v == cweb_db_get(db, t)
             s == session_from_db(t, v)
             M == Append(mem, s)
  <2>1. Loaded(t) = M
    BY <1>3 DEF Loaded
  <2>2. \A y \in All(mem) : y.tok # t
    BY <1>0, <1>1, <1>3, TokenSlot
  <2>3. Entry(t, v) \in All(db.entries)
    BY <1>0, <1>3, DbGet
  <2> HIDE DEF v
  <2>4. Entry(t, v).key = t /\ Entry(t, v).value = v
    BY DEF Entry
  <2>5. v \in Records /\ v[1] = expiry[t] /\ t <= issued
    BY <1>0, <2>3, <2>4, TokensAre DEF EntriesFit
  <2>6. s.tok = t /\ s.exp = expiry[t] /\ s.data \in Datas /\ s = [tok |-> t, exp |-> v[1], data |-> s.data]
    BY <2>5, FromDb
  <2> HIDE DEF s
  <2>7. s \in Slots
    BY <1>0, <2>5, <2>6 DEF Slots
  <2>8. M \in Seq(Slots) /\ All(M) = All(mem) \cup {s}
    BY <1>0, <2>7, Appended
  <2>9. TokensOnce(M)
    BY <1>0, <2>2, <2>6, <2>7, SlotsAppended
  <2> HIDE DEF M
  <2>10. SlotsFit(M)
    BY <1>0, <2>5, <2>6, <2>8 DEF SlotsFit
  <2>11. \E e \in All(db.entries) : e.key = t /\ s = session_from_db(t, e.value)
    BY <2>3, <2>4 DEF s
  <2> QED
    BY <2>1, <2>2, <2>6, <2>8, <2>9, <2>10, <2>11
<1> QED
  BY <1>2, <1>3

\* A session is opened, and dropped at once if it has expired.
LEMMA OpenKeeps ==
  ASSUME IInv, NEW w \in Workers, NEW t \in Tokens, http_session_open(w, t)
  PROVE  IInv'
<1> DEFINE m == Loaded(t)
           i == SelectInSeq(m, LAMBDA s : s.tok = t)
<1>0. /\ up = TRUE /\ i # 0
      /\ UNCHANGED <<up, file, step, clock, issued, fresh, told, expiry, torn>>
  BY DEF http_session_open, IInv, Types
<1>1. /\ m \in Seq(Slots) /\ TokensOnce(m) /\ SlotsFit(m)
      /\ \A x \in All(mem) : x \in All(m)
  BY LoadedSlots
<1>2. \A x \in All(m) : x \in All(mem) \/ (x.tok = t /\ \E e \in All(db.entries) : e.key = t)
  BY LoadedSlots
<1>3. i = Slot(m, t)
  BY DEF Slot
<1>4. /\ Counted(db) /\ gone \in [Tokens -> {"no", "here", "asked"}] /\ hold \in [Workers -> Tokens \cup {Nobody}]
  BY DEF IInv, Types
<1>5. \/ /\ mem' = remove_at(m, i) /\ db' = Delisted(db, m, i)
         /\ gone' = [gone EXCEPT ![t] = "here"] /\ UNCHANGED hold
      \/ /\ mem' = m /\ hold' = [hold EXCEPT ![w] = t]
         /\ UNCHANGED <<db, gone>>
  BY DEF http_session_open
<1> HIDE DEF m, i
<1>6. /\ remove_at(m, i) \in Seq(Slots) /\ TokensOnce(remove_at(m, i))
      /\ \A x : x \in All(remove_at(m, i)) <=> x \in All(m) /\ x.tok # t
      /\ Counted(Delisted(db, m, i)) /\ (Dirty(Delisted(db, m, i)) \/ Delisted(db, m, i) = db)
      /\ \A e : e \in All(Delisted(db, m, i).entries) <=> e \in All(db.entries) /\ e.key # t
      /\ m[i] \in All(m) /\ m[i].tok = t
  BY <1>0, <1>1, <1>3, <1>4, SlotRemoved
<1>7. t <= issued
  BY <1>1, <1>6 DEF SlotsFit
<1>8. CASE /\ mem' = remove_at(m, i) /\ db' = Delisted(db, m, i)
           /\ gone' = [gone EXCEPT ![t] = "here"] /\ UNCHANGED hold
  <2>1. Types'
    BY <1>0, <1>4, <1>6, <1>8 DEF IInv, Types
  <2>2. SlotsFit(mem)' /\ EntriesFit(db.entries)' /\ EntriesFit(file)'
    BY <1>0, <1>1, <1>6, <1>8 DEF IInv, SlotsFit, EntriesFit
  <2>3. Synced'
    BY <1>0, <1>6, <1>8 DEF IInv, Synced
  <2>4. Removed'
    BY <1>2, <1>4, <1>6, <1>8 DEF IInv, Removed
  <2>5. Stopped'
    BY <1>0, <1>1, <1>6, <1>8 DEF IInv, Stopped
  <2>6. Fresh'
    BY <1>0, <1>4, <1>7, <1>8 DEF IInv, Fresh
  <2> QED
    BY <2>1, <2>2, <2>3, <2>4, <2>5, <2>6 DEF IInv
<1>9. CASE /\ mem' = m /\ hold' = [hold EXCEPT ![w] = t] /\ UNCHANGED <<db, gone>>
  <2>1. Types'
    BY <1>0, <1>1, <1>4, <1>9 DEF IInv, Types
  <2>2. SlotsFit(mem)' /\ EntriesFit(db.entries)' /\ EntriesFit(file)'
    BY <1>0, <1>1, <1>9 DEF IInv, SlotsFit, EntriesFit
  <2>3. Synced'
    BY <1>0, <1>9 DEF IInv, Synced
  <2>4. Removed'
    BY <1>2, <1>9 DEF IInv, Removed
  <2>5. Stopped'
    BY <1>0, <1>1, <1>4, <1>6, <1>9 DEF IInv, Stopped
  <2>6. Fresh'
    BY <1>0, <1>9 DEF IInv, Fresh
  <2> QED
    BY <2>1, <2>2, <2>3, <2>4, <2>5, <2>6 DEF IInv
<1> QED
  BY <1>5, <1>8, <1>9

\* A session is destroyed, or not found.
LEMMA DestroyKeeps ==
  ASSUME IInv, NEW w \in Workers, NEW t \in Tokens, http_session_destroy(w, t)
  PROVE  IInv'
<1> DEFINE i == find_token(t)
<1>0. /\ up = TRUE /\ t <= issued
      /\ hold' = [hold EXCEPT ![w] = IF @ = t THEN Nobody ELSE @]
      /\ UNCHANGED <<up, file, step, clock, issued, fresh, told, expiry, torn>>
  BY DEF http_session_destroy, IInv, Types
<1>1. /\ mem \in Seq(Slots) /\ TokensOnce(mem) /\ Counted(db)
      /\ gone \in [Tokens -> {"no", "here", "asked"}] /\ hold \in [Workers -> Tokens \cup {Nobody}]
  BY DEF IInv, Types
<1>2. hold' \in [Workers -> Tokens \cup {Nobody}]
  BY <1>0, <1>1
<1>3. i = Slot(mem, t)
  BY DEF find_token, Slot
<1>4. \/ i = 0 /\ gone' = [gone EXCEPT ![t] = IF @ = "no" THEN "asked" ELSE @] /\ UNCHANGED <<mem, db>>
      \/ i # 0 /\ mem' = remove_at(mem, i) /\ db' = Delisted(db, mem, i) /\ gone' = [gone EXCEPT ![t] = "here"]
  BY DEF http_session_destroy
<1> HIDE DEF i
<1>5. CASE i = 0 /\ gone' = [gone EXCEPT ![t] = IF @ = "no" THEN "asked" ELSE @] /\ UNCHANGED <<mem, db>>
  <2>1. gone' \in [Tokens -> {"no", "here", "asked"}] /\ \A u \in Tokens : gone'[u] = "here" => gone[u] = "here"
    BY <1>1, <1>5
  <2>2. Types'
    BY <1>0, <1>2, <1>5, <2>1 DEF IInv, Types
  <2>3. Removed'
    BY <1>5, <2>1 DEF IInv, Removed
  <2>4. Stopped'
    BY <1>0, <1>2, <1>5 DEF IInv, Stopped
  <2>5. Fresh'
    BY <1>0, <1>1, <1>5 DEF IInv, Fresh
  <2> QED
    BY <1>0, <1>5, <2>2, <2>3, <2>4, <2>5 DEF IInv, SlotsFit, EntriesFit, Synced
<1>6. CASE i # 0 /\ mem' = remove_at(mem, i) /\ db' = Delisted(db, mem, i) /\ gone' = [gone EXCEPT ![t] = "here"]
  <2>0. /\ mem' \in Seq(Slots) /\ TokensOnce(mem')
        /\ \A x : x \in All(mem') <=> x \in All(mem) /\ x.tok # t
        /\ Counted(db') /\ (Dirty(db') \/ db' = db)
        /\ \A e : e \in All(db'.entries) <=> e \in All(db.entries) /\ e.key # t
    BY <1>1, <1>3, <1>6, SlotRemoved
  <2>1. Types'
    BY <1>0, <1>1, <1>2, <1>6, <2>0 DEF IInv, Types
  <2>2. SlotsFit(mem)' /\ EntriesFit(db.entries)' /\ EntriesFit(file)'
    BY <1>0, <2>0 DEF IInv, SlotsFit, EntriesFit
  <2>3. Synced'
    BY <1>0, <2>0 DEF IInv, Synced
  <2>4. Removed'
    BY <1>1, <1>6, <2>0 DEF IInv, Removed
  <2>5. Stopped'
    BY <1>0, <1>2, <2>0 DEF IInv, Stopped
  <2>6. Fresh'
    BY <1>0, <1>1, <1>6 DEF IInv, Fresh
  <2> QED
    BY <2>1, <2>2, <2>3, <2>4, <2>5, <2>6 DEF IInv
<1> QED
  BY <1>4, <1>5, <1>6

\* Which sessions the sweep removes: those whose tokens it marks.
LEMMA SweptSlots ==
  ASSUME IInv, http_session_reap
  PROVE  /\ mem' \in Seq(Slots) /\ TokensOnce(mem') /\ Counted(db') /\ (Dirty(db') \/ db' = db)
         /\ \A s : s \in All(mem') <=> s \in All(mem) /\ ~Expired(s)
         /\ \A e : e \in All(db'.entries) <=> e \in All(db.entries) /\ \A s \in All(mem) : Expired(s) => s.tok # e.key
         /\ gone' \in [Tokens -> {"no", "here", "asked"}]
         /\ \A t \in Tokens : (\A s \in All(mem) : s.tok = t => ~Expired(s)) => gone'[t] = gone[t]
         /\ \A t \in Tokens : (\E s \in All(mem) : s.tok = t /\ Expired(s)) => gone'[t] = "here"
<1>0. /\ mem \in Seq(Slots) /\ TokensOnce(mem) /\ Counted(db) /\ gone \in [Tokens -> {"no", "here", "asked"}]
  BY DEF IInv, Types
<1>1. /\ mem' = Reaped(mem, db).mem /\ db' = Reaped(mem, db).db
      /\ gone' = [t \in Tokens |-> IF find_token(t) # 0 /\ Expired(mem[find_token(t)]) THEN "here" ELSE gone[t]]
  BY DEF http_session_reap
<1>2. /\ mem' \in Seq(Slots) /\ TokensOnce(mem') /\ Counted(db') /\ (Dirty(db') \/ db' = db)
  BY <1>0, <1>1, ReapedLeaves
<1>3. \A s : s \in All(mem') <=> s \in All(mem) /\ ~Expired(s)
  BY <1>0, <1>1, ReapedLeaves
<1>4. \A e : e \in All(db'.entries) <=> e \in All(db.entries) /\ \A s \in All(mem) : Expired(s) => s.tok # e.key
  BY <1>0, <1>1, ReapedLeaves
<1>5. gone' \in [Tokens -> {"no", "here", "asked"}]
  BY <1>0, <1>1
<1>6. ASSUME NEW t \in Tokens
      PROVE  /\ (\A s \in All(mem) : s.tok = t => ~Expired(s)) => gone'[t] = gone[t]
             /\ (\E s \in All(mem) : s.tok = t /\ Expired(s)) => gone'[t] = "here"
  <2> DEFINE i == find_token(t)
  <2>1. gone'[t] = IF i # 0 /\ Expired(mem[i]) THEN "here" ELSE gone[t]
    BY <1>1
  <2>2. i = Slot(mem, t)
    BY DEF find_token, Slot
  <2> HIDE DEF i
  <2>3. i \in 0 .. Len(mem) /\ (i # 0 => mem[i].tok = t) /\ (i = 0 => \A s \in All(mem) : s.tok # t)
    BY <1>0, <2>2, TokenSlot
  <2>4. CASE i # 0
    <3>1. i \in 1 .. Len(mem) /\ mem[i] \in All(mem) /\ mem[i].tok = t
      BY <2>3, <2>4 DEF All
    <3>2. \A s \in All(mem) : s.tok = t => s = mem[i]
      BY <1>0, <3>1 DEF All, TokensOnce
    <3> QED
      BY <2>1, <2>4, <3>1, <3>2
  <2>5. CASE i = 0
    BY <2>1, <2>3, <2>5
  <2> QED
    BY <2>4, <2>5
<1> QED
  BY <1>2, <1>3, <1>4, <1>5, <1>6

\* The sweep takes the expired sessions, whoever has their handles.
LEMMA ReapKeeps ==
  ASSUME IInv, http_session_reap
  PROVE  IInv'
<1>0. /\ up = TRUE
      /\ UNCHANGED <<up, file, hold, step, clock, issued, fresh, told, expiry, torn>>
  BY DEF http_session_reap, IInv, Types
<1>1. /\ mem' \in Seq(Slots) /\ TokensOnce(mem') /\ Counted(db') /\ (Dirty(db') \/ db' = db)
      /\ \A s : s \in All(mem') <=> s \in All(mem) /\ ~Expired(s)
  BY SweptSlots
<1>2. \A e : e \in All(db'.entries) <=> e \in All(db.entries) /\ \A s \in All(mem) : Expired(s) => s.tok # e.key
  BY SweptSlots
<1>3. /\ gone' \in [Tokens -> {"no", "here", "asked"}]
      /\ \A t \in Tokens : (\A s \in All(mem) : s.tok = t => ~Expired(s)) => gone'[t] = gone[t]
  BY SweptSlots
<1>4. \A s, x \in All(mem) : s.tok = x.tok => s = x
  BY DEF IInv, Types, All, TokensOnce
<1>5. Types'
  BY <1>0, <1>1, <1>3 DEF IInv, Types
<1>6. SlotsFit(mem)' /\ EntriesFit(db.entries)' /\ EntriesFit(file)'
  BY <1>0, <1>1, <1>2 DEF IInv, SlotsFit, EntriesFit
<1>7. Synced'
  BY <1>0, <1>1 DEF IInv, Synced
<1>8. Removed'
  <2> SUFFICES ASSUME NEW t \in Tokens, gone'[t] = "here"
               PROVE  (\A s \in All(mem') : s.tok # t) /\ \A e \in All(db'.entries) : e.key # t
    BY DEF Removed
  <2>1. CASE \E s \in All(mem) : s.tok = t /\ Expired(s)
    BY <1>1, <1>2, <1>4, <2>1
  <2>2. CASE \A s \in All(mem) : s.tok = t => ~Expired(s)
    BY <1>1, <1>2, <1>3, <2>2 DEF IInv, Removed
  <2> QED
    BY <2>1, <2>2
<1>9. Stopped'
  BY <1>0 DEF Stopped
<1>10. Fresh'
  <2> SUFFICES ASSUME NEW t \in Tokens, ~(t <= issued)
               PROVE  told[t] = NoData /\ gone'[t] = "no"
    BY <1>0 DEF Fresh
  <2>1. told[t] = NoData /\ gone[t] = "no" /\ \A s \in All(mem) : s.tok # t
    BY DEF IInv, Fresh, SlotsFit
  <2> QED
    BY <1>3, <2>1
<1> QED
  BY <1>5, <1>6, <1>7, <1>8, <1>9, <1>10 DEF IInv

\* Pages share the database with the sessions and use a key of their own.
LEMMA PageKeeps ==
  ASSUME IInv, PagePut \/ PageDelete \/ PageSync
  PROVE  IInv'
<1>0. /\ up = TRUE /\ Counted(db) /\ fresh \in Nat /\ torn \in {"no", "pending", "yes"}
      /\ UNCHANGED <<up, mem, hold, step, clock, issued, told, expiry, gone>>
  BY DEF IInv, Types, PagePut, PageDelete, PageSync
<1>1. Counted(db') /\ fresh' \in Nat /\ torn' \in {"no", "pending", "yes"}
      /\ (\A e \in All(db'.entries) : e \in All(db.entries) \/ e = Entry(PageKey, <<"page">>))
      /\ \/ file' = db'.entries
         \/ file' = file /\ (Dirty(db') \/ db' = db \/ db'.entries = << >>)
  <2>1. CASE PagePut
    <3>1. db' = cweb_db_put(db, PageKey, <<"page">>) /\ file' = file /\ torn' = torn /\ fresh' = fresh + 1
      BY <2>1 DEF PagePut
    <3>2. PageKey \in DbKeys /\ <<"page">> \in Seq(Lines)
      <4>1. "page" \in Lines
        BY DEF Lines, Text
      <4> QED
        BY <4>1, Single DEF DbKeys
    <3>3. Counted(db') /\ Dirty(db')
      BY <1>0, <3>1, <3>2, DbPut, DbPutDirty
    <3>4. \A e \in All(db'.entries) : e \in All(db.entries) \/ e = Entry(PageKey, <<"page">>)
      BY <1>0, <3>1, <3>2, DbPut
    <3> QED
      BY <1>0, <3>1, <3>3, <3>4
  <2>2. CASE PageDelete
    <3>1. db' = cweb_db_delete(db, PageKey) /\ file' = file /\ torn' = torn /\ fresh' = fresh
      BY <2>2 DEF PageDelete
    <3>2. Counted(db') /\ (Dirty(db') \/ db' = db)
      BY <1>0, <3>1, DbDelete
    <3>3. \A e \in All(db'.entries) : e \in All(db.entries)
      BY <1>0, <3>1, DbDelete
    <3> QED
      BY <1>0, <3>1, <3>2, <3>3
  <2>3. CASE PageSync
    <3>1. Sync(db) /\ fresh' = fresh
      BY <2>3 DEF PageSync
    <3>2. /\ Counted(db') /\ db'.entries = db.entries
          /\ \/ file' = db.entries /\ ~Dirty(db')
             \/ file' = file /\ (db' = db \/ db.entries = << >>)
          /\ torn' \in {"no", "pending", "yes"}
      BY <1>0, <3>1, SyncLeaves
    <3> QED
      BY <1>0, <3>1, <3>2
  <2> QED
    BY <2>1, <2>2, <2>3
<1>2. Entry(PageKey, <<"page">>).key = PageKey /\ PageKey \notin Tokens
  BY TokensAre DEF Entry
<1>3. Types'
  <2>1. db'.entries \in Seq(Entries) /\ KeysOnce(db'.entries)
    BY <1>1 DEF Counted, Stores
  <2> QED
    BY <1>0, <1>1, <2>1 DEF IInv, Types
<1>4. SlotsFit(mem)'
  BY <1>0 DEF IInv, SlotsFit
<1>5. EntriesFit(db.entries)'
  <2>1. PageKey <= issued
    BY DEF IInv, Types, PageKey
  <2> QED
    BY <1>0, <1>1, <1>2, <2>1 DEF IInv, EntriesFit
<1>6. EntriesFit(file)'
  BY <1>0, <1>1, <1>5 DEF IInv, EntriesFit
<1>7. Synced'
  BY <1>0, <1>1 DEF IInv, Synced
<1>8. Removed'
  BY <1>0, <1>1, <1>2 DEF IInv, Removed
<1>9. Stopped' /\ Fresh'
  BY <1>0 DEF IInv, Stopped, Fresh
<1> QED
  BY <1>3, <1>4, <1>5, <1>6, <1>7, <1>8, <1>9 DEF IInv

\* A process that has stopped leaves the file, whichever it is.
LEMMA StopKeeps ==
  ASSUME IInv, Stops, file' \in Seq(Entries), KeysOnce(file'), EntriesFit(file'),
         torn' \in {"no", "pending", "yes"}
  PROVE  IInv'
<1>0. /\ up' = FALSE /\ mem' = << >> /\ db' = cweb_db_open(<< >>)
      /\ hold' = [w \in Workers |-> Nobody] /\ step' = [w \in Workers |-> "use"]
      /\ UNCHANGED <<clock, issued, fresh, told, expiry, gone>>
  BY DEF Stops, NoFile
<1>1. All(<< >>) = {} /\ KeysOnce(<< >>) /\ TokensOnce(<< >>) /\ << >> \in Seq(Entries) /\ << >> \in Seq(Slots)
  BY DEF All, KeysOnce, TokensOnce
<1>2. Counted(db') /\ db'.entries = << >>
  BY <1>0, <1>1, DbOpen
<1>3. Types'
  BY <1>0, <1>1, <1>2 DEF IInv, Types, Nobody
<1>4. SlotsFit(mem)' /\ EntriesFit(db.entries)' /\ EntriesFit(file)'
  BY <1>0, <1>1, <1>2 DEF SlotsFit, EntriesFit
<1>5. Synced' /\ Removed' /\ Stopped' /\ Fresh'
  BY <1>0, <1>1, <1>2 DEF IInv, Synced, Removed, Stopped, Fresh
<1> QED
  BY <1>3, <1>4, <1>5 DEF IInv

\* The file after a clean end: the dump, or what it was when the sync fails or the
\* dump is empty.
LEMMA ShutdownFile ==
  ASSUME IInv, Shutdown
  PROVE  /\ Stops /\ up = TRUE
         /\ \/ file' = http_session_store_dump.entries /\ torn' = torn
            \/ file' = file /\ torn' = torn /\ http_session_store_dump.entries = << >>
            \/ file' = file /\ torn' = "yes"
<1> DEFINE d == http_session_store_dump
<1>0. mem \in Seq(Slots) /\ TokensOnce(mem) /\ Counted(db) /\ up \in BOOLEAN
  BY DEF IInv, Types
<1>1. Counted(d) /\ (Dirty(d) \/ d = db)
  BY <1>0, DumpLeaves DEF DumpAt
<1>2. d \in Stores /\ d.dirty \in BOOLEAN
  BY <1>1 DEF Counted, Stores
<1>3. PICK disk \in Faults :
        LET r == IF d.dirty THEN cweb_db_sync(d, file, disk) ELSE [db |-> d, file |-> file]
        IN  file' = r.file /\ torn' = IF r.db.dirty THEN "yes" ELSE torn
  BY DEF Shutdown
<1>4. Stops /\ up = TRUE
  BY DEF Shutdown, IInv, Types
<1> HIDE DEF d
<1>5. CASE d.dirty = FALSE
  <2>1. file' = file /\ torn' = torn /\ ~Dirty(d)
    BY <1>3, <1>5 DEF Dirty
  <2>2. file = d.entries \/ d.entries = << >>
    BY <1>1, <1>4, <2>1 DEF IInv, Synced
  <2> QED
    BY <1>4, <2>1, <2>2 DEF d
<1>6. CASE d.dirty = TRUE /\ (d.entries = << >> \/ SyncWorks(d, disk))
  <2>1. /\ cweb_db_sync(d, file, disk).db = [d EXCEPT !.dirty = FALSE]
        /\ \/ cweb_db_sync(d, file, disk).file = d.entries
           \/ cweb_db_sync(d, file, disk).file = file /\ d.entries = << >>
    BY <1>6 DEF cweb_db_sync, NoFile
  <2>2. [d EXCEPT !.dirty = FALSE].dirty = FALSE
    BY <1>2 DEF Stores
  <2>3. (file' = d.entries \/ (file' = file /\ d.entries = << >>)) /\ torn' = torn
    BY <1>3, <1>6, <2>1, <2>2
  <2> QED
    BY <1>4, <2>3 DEF d
<1>7. CASE d.dirty = TRUE /\ ~(d.entries = << >> \/ SyncWorks(d, disk))
  <2>1. cweb_db_sync(d, file, disk) = [db |-> d, file |-> file]
    BY <1>7 DEF cweb_db_sync
  <2>2. file' = file /\ torn' = "yes"
    BY <1>3, <1>7, <2>1
  <2> QED
    BY <1>4, <2>2
<1> QED
  BY <1>2, <1>5, <1>6, <1>7

\* The process ends, cleanly or not.
LEMMA EndKeeps ==
  ASSUME IInv, Shutdown \/ Crash
  PROVE  IInv'
<1>0. /\ file \in Seq(Entries) /\ KeysOnce(file) /\ EntriesFit(file) /\ torn \in {"no", "pending", "yes"}
      /\ mem \in Seq(Slots) /\ TokensOnce(mem) /\ Counted(db) /\ EntriesFit(db.entries) /\ SlotsFit(mem)
  BY DEF IInv, Types
<1>1. CASE Shutdown
  <2> DEFINE d == http_session_store_dump
  <2>1. DumpAt(d, Len(mem))
    BY <1>0, DumpLeaves
  <2> HIDE DEF d
  <2>2. Counted(d) /\ d.entries \in Seq(Entries) /\ KeysOnce(d.entries)
    BY <2>1 DEF DumpAt, Counted, Stores
  <2>3. EntriesFit(d.entries)
    <3> SUFFICES ASSUME NEW e \in All(d.entries)
                 PROVE  /\ e.key <= issued
                        /\ e.key # PageKey => e.value \in Records /\ e.value[1] = expiry[e.key]
      BY DEF EntriesFit
    <3>1. CASE e \in All(db.entries)
      BY <1>0, <3>1 DEF EntriesFit
    <3>2. CASE \E j \in 1 .. Len(mem) : e = Entry(mem[j].tok, session_to_db(mem[j]))
      <4>1. PICK j \in 1 .. Len(mem) : e = Entry(mem[j].tok, session_to_db(mem[j]))
        BY <3>2
      <4>2. mem[j] \in Slots /\ mem[j] \in All(mem)
        BY <1>0 DEF All
      <4>3. mem[j].tok <= issued /\ mem[j].exp = expiry[mem[j].tok]
        BY <1>0, <4>2 DEF SlotsFit
      <4> QED
        BY <4>1, <4>2, <4>3, RecordFits
    <3> QED
      BY <2>1, <3>1, <3>2 DEF DumpAt
  <2>4. Stops /\ ((file' = d.entries /\ torn' = torn) \/ (file' = file /\ torn' \in {torn, "yes"}))
    BY <1>1, ShutdownFile DEF d
  <2> QED
    BY <1>0, <2>2, <2>3, <2>4, StopKeeps
<1>2. CASE Crash
  <2>1. Stops /\ file' = file /\ torn' \in {"no", "pending", "yes"}
    BY <1>2 DEF Crash
  <2> QED
    BY <1>0, <2>1, StopKeeps
<1> QED
  BY <1>1, <1>2

\* The database is opened from the file.
LEMMA RestartKeeps ==
  ASSUME IInv, Restart
  PROVE  IInv'
<1>0. /\ up = FALSE /\ up' = TRUE /\ db' = cweb_db_open(file)
      /\ gone' = [t \in Tokens |-> IF gone[t] = "no" THEN "no" ELSE "asked"]
      /\ UNCHANGED <<mem, file, hold, step, clock, issued, fresh, told, expiry, torn>>
  BY DEF Restart, IInv, Types
<1>1. Counted(db') /\ db'.entries = file
  BY <1>0, DbOpen DEF IInv, Types
<1>2. Types'
  BY <1>0, <1>1 DEF IInv, Types
<1>3. SlotsFit(mem)' /\ EntriesFit(db.entries)' /\ EntriesFit(file)'
  BY <1>0, <1>1 DEF IInv, SlotsFit, EntriesFit
<1>4. Synced' /\ Removed' /\ Stopped' /\ Fresh'
  BY <1>0, <1>1 DEF IInv, Synced, Removed, Stopped, Fresh
<1> QED
  BY <1>2, <1>3, <1>4 DEF IInv

\* Steps that touch neither the store nor the database.
LEMMA IdleKeeps ==
  ASSUME IInv, UNCHANGED <<up, mem, db, file, issued, fresh, told, expiry, gone, torn>>,
         hold' \in [Workers -> Tokens \cup {Nobody}], \A w \in Workers : hold'[w] \in {hold[w], Nobody},
         step' \in [Workers -> {"use", "render", "csrf"} \cup Flash], clock' \in Nat
  PROVE  IInv'
BY DEF IInv, Types, SlotsFit, EntriesFit, Synced, Removed, Stopped, Fresh

\* The requests that change a session's data, all through Store.
Storing(w) ==
  \/ \E v \in Users : http_session_set(w, v)
  \/ \E k \in Flash : http_flash_set(w, k)
  \/ http_session_del(w) \/ (FlashGetDeletes(w) /\ step[w] \in DOMAIN Data(w)) \/ clear_one(w)
  \/ CsrfTokenStores(w) \/ http_csrf_rotate(w)

\* What they store: a key more or a key less, one line each if the users' values
\* are.
LEMMA StoringStep ==
  ASSUME IInv, NEW w \in Workers, Storing(w)
  PROVE  /\ Holding(w)
         /\ \E data \in Datas :
              /\ Store(w, data)
              /\ (\A v \in Users : Len(v) = 1) /\ OneLine(Data(w)) => OneLine(data)
         /\ step' \in [Workers -> {"use", "render", "csrf"} \cup Flash] /\ fresh' \in Nat
         /\ UNCHANGED <<up, hold, clock, issued, expiry, gone>>
<1> DEFINE D == Data(w)
           Text1 == \A v \in Users : Len(v) = 1
           P == /\ Holding(w)
                /\ \E data \in Datas : Store(w, data) /\ (Text1 /\ OneLine(D) => OneLine(data))
                /\ step' \in [Workers -> {"use", "render", "csrf"} \cup Flash] /\ fresh' \in Nat
                /\ UNCHANGED <<up, hold, clock, issued, expiry, gone>>
<1>0. fresh \in Nat /\ step \in [Workers -> {"use", "render", "csrf"} \cup Flash]
  BY DEF IInv, Types
<1>1. Holding(w) => D \in Datas
  BY HandleSlot
<1>2. << >> \in Seq(Text)
  OBVIOUS
<1> HIDE DEF D, Text1
<1>3. ASSUME NEW v \in Users, http_session_set(w, v)
      PROVE  P
  <2>1. Holding(w) /\ fresh' = fresh + 1 /\ Store(w, With(D, "auth_user", v)) /\ UNCHANGED <<up, hold, step, clock, issued, expiry, gone>>
    BY <1>3 DEF http_session_set, D
  <2>2. With(D, "auth_user", v) \in Datas
    BY <1>1, <2>1, StoredData, TextStored
  <2>3. Text1 /\ OneLine(D) => OneLine(With(D, "auth_user", v))
    BY StoredLines DEF Text1
  <2> QED
    BY <1>0, <2>1, <2>2, <2>3
<1>4. ASSUME NEW k \in Flash, http_flash_set(w, k)
      PROVE  P
  <2>1. /\ Holding(w) /\ fresh' = fresh + 1 /\ Store(w, With(D, k, Made(fresh')))
        /\ UNCHANGED <<up, hold, step, clock, issued, expiry, gone>>
    BY <1>4 DEF http_flash_set, D
  <2>2. With(D, k, Made(fresh')) \in Datas
    BY <1>1, <2>1, StoredData, TextStored, MadeValues
  <2>3. OneLine(D) => OneLine(With(D, k, Made(fresh')))
    BY StoredLines, MadeValues
  <2> QED
    BY <1>0, <2>1, <2>2, <2>3
<1>5. ASSUME NEW k \in Flash \cup {"auth_user"}, Holding(w), Store(w, Without(D, k)), fresh' = fresh,
             step' \in [Workers -> {"use", "render", "csrf"} \cup Flash],
             UNCHANGED <<up, hold, clock, issued, expiry, gone>>
      PROVE  P
  <2>1. Without(D, k) \in Datas
    BY <1>1, <1>2, <1>5, StoredData, TextStored
  <2>2. OneLine(D) => OneLine(Without(D, k))
    BY FewerLines
  <2> QED
    BY <1>0, <1>5, <2>1, <2>2
<1>6. ASSUME http_session_del(w)
      PROVE  P
  <2>1. /\ Holding(w) /\ Store(w, Without(D, "auth_user")) /\ UNCHANGED <<up, hold, step, fresh, clock, issued, expiry, gone>>
    BY <1>6 DEF http_session_del, D
  <2> HIDE DEF P
  <2> QED
    BY <1>0, <1>5, <2>1
<1>7. ASSUME FlashGetDeletes(w), step[w] \in DOMAIN D
      PROVE  P
  <2>1. /\ Holding(w) /\ step[w] \in Flash /\ Store(w, Without(D, step[w])) /\ step' = [step EXCEPT ![w] = "use"]
        /\ UNCHANGED <<up, hold, fresh, clock, issued, expiry, gone>>
    BY <1>7 DEF FlashGetDeletes, D
  <2>2. step' \in [Workers -> {"use", "render", "csrf"} \cup Flash]
    BY <1>0, <2>1
  <2> HIDE DEF P
  <2> QED
    BY <1>5, <2>1, <2>2
<1>8. ASSUME clear_one(w)
      PROVE  P
  <2>1. PICK k \in DOMAIN D \cap Flash : Store(w, Without(D, k))
    BY <1>8 DEF clear_one, D
  <2>2. Holding(w) /\ UNCHANGED <<up, hold, step, fresh, clock, issued, expiry, gone>>
    BY <1>8 DEF clear_one
  <2>3. step' \in [Workers -> {"use", "render", "csrf"} \cup Flash]
    BY <1>0, <2>2
  <2> HIDE DEF P
  <2> QED
    BY <1>5, <2>1, <2>2, <2>3
<1>9. ASSUME CsrfTokenStores(w) \/ http_csrf_rotate(w)
      PROVE  P
  <2>1. /\ Holding(w) /\ fresh' = fresh + 1 /\ Store(w, With(D, "csrf-token", Made(fresh')))
        /\ step' = [step EXCEPT ![w] = "use"] /\ UNCHANGED <<up, hold, clock, issued, expiry, gone>>
    BY <1>9 DEF CsrfTokenStores, http_csrf_rotate, store_new_token, D
  <2>2. With(D, "csrf-token", Made(fresh')) \in Datas
    BY <1>1, <2>1, StoredData, TextStored, MadeValues
  <2>3. OneLine(D) => OneLine(With(D, "csrf-token", Made(fresh')))
    BY StoredLines, MadeValues
  <2> QED
    BY <1>0, <2>1, <2>2, <2>3
<1>10. P
  <2> HIDE DEF P
  <2> QED
    BY <1>3, <1>4, <1>6, <1>7, <1>8, <1>9 DEF Storing, D
<1> QED
  BY <1>10 DEF D, Text1

\* The other requests: a session is opened or destroyed, or nothing is stored.
LEMMA RequestSplit ==
  ASSUME IInv, NEW w \in Workers, Request(w)
  PROVE  \/ Storing(w)
         \/ \E t \in Tokens : http_session_open(w, t) \/ http_session_destroy(w, t)
         \/ /\ UNCHANGED <<up, mem, db, file, clock, issued, fresh, told, expiry, gone, torn>>
            /\ hold' \in [Workers -> Tokens \cup {Nobody}] /\ (\A v \in Workers : hold'[v] \in {hold[v], Nobody})
            /\ step' \in [Workers -> {"use", "render", "csrf"} \cup Flash]
<1>0. hold \in [Workers -> Tokens \cup {Nobody}] /\ step \in [Workers -> {"use", "render", "csrf"} \cup Flash]
  BY DEF IInv, Types
<1>1. CASE \E k \in Flash : http_flash_get(w, k)
  BY <1>0, <1>1 DEF http_flash_get
<1>2. CASE http_flash_render(w)
  BY <1>0, <1>2 DEF http_flash_render
<1>3. CASE RequestEnds(w)
  BY <1>0, <1>3 DEF RequestEnds
<1>4. CASE RenderEnds(w) \/ http_csrf_token(w)
  BY <1>0, <1>4 DEF RenderEnds, http_csrf_token
<1>5. CASE FlashGetDeletes(w) /\ ~(step[w] \in DOMAIN Data(w))
  BY <1>0, <1>5 DEF FlashGetDeletes
<1> QED
  BY <1>1, <1>2, <1>3, <1>4, <1>5 DEF Request, Storing

\* Every step keeps the invariant.
LEMMA NextIInv == IInv /\ [Next]_vars => IInv'
<1> SUFFICES ASSUME IInv, [Next]_vars
             PROVE  IInv'
  OBVIOUS
<1>1. ASSUME NEW w \in Workers, Request(w)
      PROVE  IInv'
  <2>1. CASE Storing(w)
    <3>1. PICK data \in Datas : Store(w, data)
      BY <2>1, StoringStep
    <3>2. /\ Holding(w) /\ step' \in [Workers -> {"use", "render", "csrf"} \cup Flash] /\ fresh' \in Nat
          /\ UNCHANGED <<up, hold, clock, issued, expiry, gone>>
      BY <2>1, StoringStep
    <3> QED
      BY <3>1, <3>2, StoreKeeps
  <2>2. ASSUME NEW t \in Tokens, http_session_open(w, t) \/ http_session_destroy(w, t)
        PROVE  IInv'
    BY <2>2, OpenKeeps, DestroyKeeps
  <2>3. CASE /\ UNCHANGED <<up, mem, db, file, clock, issued, fresh, told, expiry, gone, torn>>
             /\ hold' \in [Workers -> Tokens \cup {Nobody}] /\ (\A v \in Workers : hold'[v] \in {hold[v], Nobody})
             /\ step' \in [Workers -> {"use", "render", "csrf"} \cup Flash]
    <3>1. clock' \in Nat
      BY <2>3 DEF IInv, Types
    <3> QED
      BY <2>3, <3>1, IdleKeeps
  <2> QED
    BY <1>1, <2>1, <2>2, <2>3, RequestSplit
<1>2. CASE http_session_create
  BY <1>2, CreateKeeps
<1>3. CASE http_session_reap
  BY <1>3, ReapKeeps
<1>4. CASE PagePut \/ PageDelete \/ PageSync
  BY <1>4, PageKeeps
<1>5. CASE Shutdown \/ Crash
  BY <1>5, EndKeeps
<1>6. CASE Restart
  BY <1>6, RestartKeeps
<1>7. CASE Tick \/ UNCHANGED vars
  <2>1. /\ UNCHANGED <<up, mem, db, file, hold, step, issued, fresh, told, expiry, gone, torn>>
        /\ clock' \in Nat
    BY <1>7 DEF Tick, vars, IInv, Types
  <2>2. /\ hold' \in [Workers -> Tokens \cup {Nobody}] /\ (\A v \in Workers : hold'[v] \in {hold[v], Nobody})
        /\ step' \in [Workers -> {"use", "render", "csrf"} \cup Flash]
    BY <2>1 DEF IInv, Types
  <2> QED
    BY <2>1, <2>2, IdleKeeps
<1> QED
  BY <1>1, <1>2, <1>3, <1>4, <1>5, <1>6, <1>7 DEF Next

\* In every state, for every set of tokens, users and disk faults.
THEOREM SessionsInvariant == Spec => []IInv
<1>1. Init => IInv
  BY InitIInv
<1>2. IInv /\ [Next]_vars => IInv'
  BY NextIInv
<1> QED
  BY <1>1, <1>2, PTL DEF Spec

\* The byte count that a sync insists on never drifts and a clean store that has
\* entries is the one in its file, for any number of sessions, pages, faults and
\* restarts (db.c:157, 206, 253, 262).
THEOREM SessionsDbExact == Spec => []DbExact
<1>1. IInv => DbExact
  <2> SUFFICES ASSUME IInv, up
               PROVE  db.total = Bytes(db.entries) /\ (~db.dirty /\ db.entries # << >> => file = db.entries)
    BY DEF DbExact
  <2>1. Counted(db) /\ db.dirty \in BOOLEAN /\ (Dirty(db) \/ file = db.entries \/ db.entries = << >>)
    BY DEF IInv, Types, Synced, Counted, Stores
  <2> QED
    BY <2>1 DEF Counted, Dirty
<1> QED
  BY <1>1, SessionsInvariant, PTL

\* The session that a step hands out is the one of the slot that open has found or
\* loaded.
LEMMA HandedOut ==
  ASSUME IInv, Next, NEW w \in Workers, hold'[w] \notin {hold[w], Nobody}
  PROVE  /\ hold'[w] \in Tokens
         /\ \E s \in All(Loaded(hold'[w])) :
              s.tok = hold'[w] /\ ~Expired(s) /\ s.exp = expiry[hold'[w]]
<1> DEFINE Given == /\ hold'[w] \in Tokens
                    /\ \E s \in All(Loaded(hold'[w])) :
                         s.tok = hold'[w] /\ ~Expired(s) /\ s.exp = expiry[hold'[w]]
<1>0. hold \in [Workers -> Tokens \cup {Nobody}]
  BY DEF IInv, Types
<1>1. ASSUME NEW v \in Workers, NEW t \in Tokens, http_session_open(v, t)
      PROVE  Given
  <2> DEFINE m == Loaded(t)
             i == SelectInSeq(m, LAMBDA s : s.tok = t)
  <2>1. i # 0 /\ \/ hold' = hold
                 \/ ~Expired(m[i]) /\ hold' = [hold EXCEPT ![v] = t]
    BY <1>1 DEF http_session_open
  <2>2. i = Slot(m, t)
    BY DEF Slot
  <2>3. m \in Seq(Slots) /\ TokensOnce(m) /\ SlotsFit(m) /\ Counted(db)
    BY LoadedSlots DEF IInv, Types
  <2> HIDE DEF m, i
  <2>4. m[i] \in All(m) /\ m[i].tok = t
    BY <2>1, <2>2, <2>3, SlotRemoved
  <2>5. hold'[w] = t /\ ~Expired(m[i])
    BY <1>0, <2>1
  <2>6. m[i].exp = expiry[t]
    BY <2>3, <2>4 DEF SlotsFit
  <2> QED
    BY <2>4, <2>5, <2>6 DEF m
<1>2. ASSUME NEW v \in Workers, NEW t \in Tokens, http_session_destroy(v, t)
      PROVE  FALSE
  BY <1>0, <1>2 DEF http_session_destroy
<1>3. ASSUME NEW v \in Workers, Request(v)
      PROVE  Given
  <2>1. Storing(v) => hold' = hold
    BY StoringStep
  <2> QED
    BY <1>1, <1>2, <1>3, <2>1, RequestSplit
<1>4. hold' = hold \/ hold' = [x \in Workers |-> Nobody] \/ \E v \in Workers : Request(v)
  BY DEF Next, http_session_create, http_session_reap, PagePut, PageDelete, PageSync, Shutdown, Crash,
         Stops, Restart, Tick
<1> QED
  BY <1>3, <1>4

\* No request is handed a session that this process has destroyed, reaped or
\* dropped as expired, for any number of requests that share sessions
\* (session.c:147-156).
THEOREM SessionsRemovedStaysRemoved == Spec => RemovedStaysRemoved
<1> DEFINE A == \A w \in Workers : hold'[w] \notin {hold[w], Nobody} => gone[hold'[w]] # "here"
<1>1. IInv /\ [Next]_vars => [A]_vars
  <2> SUFFICES ASSUME IInv, Next, NEW w \in Workers, hold'[w] \notin {hold[w], Nobody},
                      gone[hold'[w]] = "here"
               PROVE  FALSE
    OBVIOUS
  <2>1. PICK s \in All(Loaded(hold'[w])) : s.tok = hold'[w]
    BY HandedOut
  <2>2. hold'[w] \in Tokens
    BY HandedOut
  <2>3. s \in All(mem) \/ \E e \in All(db.entries) : e.key = hold'[w]
    BY <2>1, <2>2, LoadedSlots
  <2> QED
    BY <2>1, <2>2, <2>3 DEF IInv, Removed
<1> QED
  BY <1>1, SessionsInvariant, PTL DEF Spec, RemovedStaysRemoved

\* Nobody is given a handle to a session past its expiry, in memory or from its
\* record (session.c:424).
THEOREM SessionsExpiredStaysOut == Spec => ExpiredStaysOut
<1> DEFINE A == \A w \in Workers : hold'[w] \notin {hold[w], Nobody} =>
                  (expiry[hold'[w]] = 0 \/ expiry[hold'[w]] > clock)
<1>1. IInv /\ [Next]_vars => [A]_vars
  <2> SUFFICES ASSUME IInv, Next, NEW w \in Workers, hold'[w] \notin {hold[w], Nobody}
               PROVE  expiry[hold'[w]] = 0 \/ expiry[hold'[w]] > clock
    OBVIOUS
  <2>1. PICK s \in All(Loaded(hold'[w])) : ~Expired(s) /\ s.exp = expiry[hold'[w]]
    BY HandedOut
  <2>2. clock \in Nat /\ expiry[hold'[w]] \in Nat
    BY HandedOut DEF IInv, Types
  <2> QED
    BY <2>1, <2>2 DEF Expired
<1> QED
  BY <1>1, SessionsInvariant, PTL DEF Spec, ExpiredStaysOut

-----------------------------------------------------------------------------
(* What a request was told is stored is what the next one finds, as long   *)
(* as the values that users enter are one line each.                       *)

OneLineUsers == \A v \in Users : Len(v) = 1

\* A record gives back one line for each key.
LEMMA ReadLines ==
  ASSUME NEW t, NEW r
  PROVE  OneLine(session_from_db(t, r).data)
<1> DEFINE n == (Len(r) - 1) \div 2
           last(k) == Max({i \in 1 .. n : r[2 * i] = k})
           D == {r[2 * i] : i \in 1 .. n}
           d == [k \in D |-> <<r[2 * last(k) + 1]>>]
<1>0. session_from_db(t, r).data = d
  BY DEF session_from_db
<1> HIDE DEF last, n, D
<1>1. DOMAIN d = D /\ \A k \in D : Len(d[k]) = 1
  OBVIOUS
<1> QED
  BY <1>0, <1>1 DEF OneLine

\* Entries stay kept when the ones that count stay.
LEMMA StillKept ==
  ASSUME NEW es, NEW fs, Kept(es), UNCHANGED <<issued, told, expiry>>,
         \A t \in Tokens : gone'[t] = "no" => gone[t] = "no",
         \A e \in All(es) : e.key \in Tokens /\ gone'[e.key] = "no" => e \in All(fs)
  PROVE  \A t \in Tokens : t <= issued' /\ gone'[t] = "no" => Entry(t, Record(expiry'[t], told'[t])) \in All(fs)
BY DEF Kept, Entry

\* Nobody was told anything yet.
LEMMA InitTold == Init => Told
<1> SUFFICES ASSUME Init
             PROVE  Told
  OBVIOUS
<1>1. mem = << >> /\ issued = 0 /\ told = [t \in Tokens |-> NoData]
  BY DEF Init
<1>2. \A t \in Tokens : ~(t <= issued)
  BY <1>1, TokensAre DEF PageKey
<1>3. All(mem) = {}
  BY <1>1 DEF All
<1> QED
  BY <1>1, <1>2, <1>3, NothingStored DEF Told, Kept

\* The data a handler stored is told, in memory, and in the record.
LEMMA StoreTold ==
  ASSUME IInv, Told, OneLineUsers, NEW w \in Workers, Storing(w)
  PROVE  Told'
<1> DEFINE t == hold[w]
<1>0. Holding(w) /\ UNCHANGED <<up, hold, clock, issued, expiry, gone>> /\ t \in Tokens
  BY StoringStep, HandleSlot
<1>1. PICK data \in Datas : Store(w, data) /\ OneLine(data)
  <2>1. OneLine(Data(w))
    BY <1>0, HandleSlot DEF Told, Data
  <2> QED
    BY <2>1, StoringStep DEF OneLineUsers
<1>2. PICK s \in Slots :
           /\ s.tok = t /\ s.exp = expiry[t] /\ s.data = data /\ WriteThrough(s)
           /\ \A x : x \in All(mem') <=> (x \in All(mem) /\ x.tok # t) \/ x = s
  BY <1>0, <1>1, StoredSlots
<1>3. told' = [told EXCEPT ![t] = data]
  BY <1>1 DEF Store
<1>4. told \in [Tokens -> Datas] /\ up = TRUE
  BY <1>0 DEF IInv, Types, Holding
<1>5. told'[t] = data /\ \A u \in Tokens : u # t => told'[u] = told[u]
  BY <1>0, <1>3, <1>4
<1> DEFINE n == Entry(t, session_to_db(s))
<1>6. n = Entry(t, Record(expiry[t], data))
  BY <1>2 DEF session_to_db
<1>7. /\ \A e : e \in All(db'.entries) <=> (e \in All(db.entries) /\ e.key # t) \/ e = n
      /\ (torn = "yes" <=> torn' = "yes") /\ (torn' = "no" => file' = db'.entries)
  <2>1. Counted(db) /\ torn \in {"no", "pending", "yes"} /\ WriteThrough(s)
    BY <1>2 DEF IInv, Types
  <2> QED
    BY <1>2, <2>1, WrittenThrough
<1> HIDE DEF t, n
<1>8. \A u \in Tokens : OneLine(told'[u])
  BY <1>1, <1>5 DEF Told
<1>9. \A x \in All(mem') : OneLine(x.data)
  BY <1>1, <1>2 DEF Told
<1>10. ASSUME torn' # "yes", NEW x \in All(mem'), gone'[x.tok] = "no"
       PROVE  x.data = told'[x.tok]
  <2>1. CASE x = s
    BY <1>2, <1>5, <2>1
  <2>2. CASE x \in All(mem) /\ x.tok # t
    <3>0. x \in Slots
      BY <2>2 DEF IInv, Types, All
    <3>1. x.tok \in Tokens
      BY <3>0 DEF Slots
    <3> QED
      BY <1>0, <1>5, <1>7, <1>10, <2>2, <3>1 DEF Told
  <2> QED
    BY <1>2, <2>1, <2>2
<1>11. ASSUME torn' # "yes"
       PROVE  Kept(db.entries)'
  <2> SUFFICES ASSUME NEW u \in Tokens, u <= issued', gone'[u] = "no"
               PROVE  Entry(u, Record(expiry'[u], told'[u])) \in All(db'.entries)
    BY DEF Kept
  <2>1. CASE u = t
    BY <1>0, <1>5, <1>6, <1>7, <2>1
  <2>2. CASE u # t
    <3>1. Entry(u, Record(expiry[u], told[u])) \in All(db.entries) /\ Entry(u, Record(expiry[u], told[u])).key = u
      BY <1>0, <1>4, <1>7, <1>11 DEF Told, Kept, Entry
    <3> QED
      BY <1>0, <1>5, <1>7, <2>2, <3>1
  <2> QED
    BY <2>1, <2>2
<1>12. torn' = "no" \/ (~up' /\ torn' # "yes") => Kept(file)'
  <2>1. torn' = "no" => Kept(db.entries)' /\ file' = db'.entries
    BY <1>7, <1>11
  <2> QED
    BY <1>0, <1>4, <2>1 DEF Kept
<1> QED
  BY <1>8, <1>9, <1>10, <1>11, <1>12 DEF Told

\* A new session has nothing stored, and its record says so.
LEMMA CreateTold ==
  ASSUME IInv, Told, http_session_create
  PROVE  Told'
<1> DEFINE t == issued + 1
           s == NewSession(t)
<1>0. /\ up = TRUE /\ t \in Tokens /\ issued \in Nat /\ clock \in Nat /\ t \in Nat /\ ~(t <= issued)
      /\ TTLs \in [Tokens -> Nat]
  <2>1. up = TRUE /\ t \in Tokens /\ issued \in Nat /\ clock \in Nat
    BY DEF IInv, Types, http_session_create
  <2>2. t \in Nat /\ ~(t <= issued)
    BY <2>1, TokensAre
  <2> QED
    BY <2>1, <2>2, SessionConstants
<1>1. s \in Slots /\ s.tok = t /\ s.data = NoData
  BY <1>0, NothingStored DEF NewSession, Slots
<1>2. /\ mem' = Append(mem, s) /\ WriteThrough(s) /\ expiry' = [expiry EXCEPT ![t] = s.exp] /\ issued' = t
      /\ fresh' = fresh + 1 /\ UNCHANGED <<up, hold, step, clock, told, gone>>
  BY <1>1 DEF http_session_create
<1> HIDE DEF s
<1>3. All(mem') = All(mem) \cup {s} /\ \A x \in All(mem) : x.tok # t
  <2>1. mem \in Seq(Slots) /\ SlotsFit(mem)
    BY DEF IInv, Types
  <2> QED
    BY <1>0, <1>1, <1>2, <2>1, Appended DEF SlotsFit
<1>4. expiry \in [Tokens -> Nat] /\ told[t] = NoData /\ s.exp \in Nat
  BY <1>0, <1>1 DEF IInv, Types, Fresh, Slots
<1>5. expiry'[t] = s.exp /\ \A u \in Tokens : u # t => expiry'[u] = expiry[u]
  BY <1>0, <1>2, <1>4
<1> DEFINE n == Entry(t, session_to_db(s))
<1>6. n = Entry(t, Record(expiry'[t], told'[t]))
  BY <1>1, <1>2, <1>4, <1>5 DEF session_to_db
<1>7. /\ \A e : e \in All(db'.entries) <=> (e \in All(db.entries) /\ e.key # t) \/ e = n
      /\ (torn = "yes" <=> torn' = "yes") /\ (torn' = "no" => file' = db'.entries)
  <2>1. Counted(db) /\ torn \in {"no", "pending", "yes"} /\ WriteThrough(s)
    BY <1>2 DEF IInv, Types
  <2> QED
    BY <1>1, <2>1, WrittenThrough
<1> HIDE DEF n
<1>9. /\ \A u \in Tokens : OneLine(told'[u])
      /\ \A x \in All(mem') : OneLine(x.data)
  BY <1>1, <1>2, <1>3, NothingStored DEF Told
<1>10. ASSUME torn' # "yes", NEW x \in All(mem'), gone'[x.tok] = "no"
       PROVE  x.data = told'[x.tok]
  BY <1>1, <1>2, <1>3, <1>4, <1>7, <1>10 DEF Told
<1>11. ASSUME torn' # "yes"
       PROVE  Kept(db.entries)'
  <2> SUFFICES ASSUME NEW u \in Tokens, u <= issued', gone'[u] = "no"
               PROVE  Entry(u, Record(expiry'[u], told'[u])) \in All(db'.entries)
    BY DEF Kept
  <2>1. CASE u = t
    BY <1>6, <1>7, <2>1
  <2>2. CASE u # t
    <3>0. u <= issued
      BY <1>0, <1>2, <2>2, TokensAre
    <3>1. Entry(u, Record(expiry[u], told[u])) \in All(db.entries) /\ Entry(u, Record(expiry[u], told[u])).key = u
      BY <1>0, <1>2, <1>7, <1>11, <3>0 DEF Told, Kept, Entry
    <3> QED
      BY <1>2, <1>5, <1>7, <2>2, <3>1
  <2> QED
    BY <2>1, <2>2
<1>12. torn' = "no" \/ (~up' /\ torn' # "yes") => Kept(file)'
  <2>1. torn' = "no" => Kept(db.entries)' /\ file' = db'.entries
    BY <1>7, <1>11
  <2> QED
    BY <1>0, <1>2, <2>1 DEF Kept
<1> QED
  BY <1>9, <1>10, <1>11, <1>12 DEF Told

\* A session read back from the record that was kept for it.
LEMMA ReadBack ==
  ASSUME IInv, Told, NEW t \in Tokens, t <= issued, gone[t] = "no", NEW d, Counted(d), Kept(d.entries),
         NEW e \in All(d.entries), e.key = t
  PROVE  session_from_db(t, e.value).data = told[t]
<1> DEFINE v == Record(expiry[t], told[t])
           n == Entry(t, v)
<1>1. n \in All(d.entries) /\ n.key = t /\ n.value = v
  BY DEF Kept, Entry
<1>2. expiry[t] \in Nat /\ told[t] \in Datas /\ OneLine(told[t])
  BY DEF IInv, Types, Told
<1>3. session_from_db(t, v) = [tok |-> t, exp |-> expiry[t], data |-> told[t]]
  BY <1>2, RoundTrip
<1> HIDE DEF n, v
<1>4. e = n
  BY <1>1 DEF Counted, KeysOnce, All
<1> QED
  BY <1>1, <1>3, <1>4

\* A session that is loaded has the data that was kept in its record.
LEMMA OpenTold ==
  ASSUME IInv, Told, NEW w \in Workers, NEW t \in Tokens, http_session_open(w, t)
  PROVE  Told'
<1> DEFINE m == Loaded(t)
           i == SelectInSeq(m, LAMBDA s : s.tok = t)
<1>0. /\ up = TRUE /\ i # 0
      /\ UNCHANGED <<up, file, step, clock, issued, fresh, told, expiry, torn>>
  BY DEF http_session_open, IInv, Types
<1>1. /\ m \in Seq(Slots) /\ TokensOnce(m) /\ SlotsFit(m)
  BY LoadedSlots
<1>2. \A x \in All(m) : x \in All(mem) \/ (x.tok = t /\ \E e \in All(db.entries) : e.key = t /\ x = session_from_db(t, e.value))
  BY LoadedSlots
<1>3. i = Slot(m, t)
  BY DEF Slot
<1>4. /\ Counted(db) /\ gone \in [Tokens -> {"no", "here", "asked"}]
  BY DEF IInv, Types
<1>5. \/ /\ mem' = remove_at(m, i) /\ db' = Delisted(db, m, i) /\ gone' = [gone EXCEPT ![t] = "here"]
      \/ mem' = m /\ UNCHANGED <<db, gone>>
  BY DEF http_session_open
<1> HIDE DEF m, i
<1>6. /\ \A x : x \in All(remove_at(m, i)) <=> x \in All(m) /\ x.tok # t
      /\ \A e : e \in All(Delisted(db, m, i).entries) <=> e \in All(db.entries) /\ e.key # t
      /\ m[i] \in All(m) /\ m[i].tok = t
  BY <1>0, <1>1, <1>3, <1>4, SlotRemoved
<1>7. t <= issued
  BY <1>1, <1>6 DEF SlotsFit
<1>8. \A x \in All(m) : OneLine(x.data)
  BY <1>2, ReadLines DEF Told
<1>9. ASSUME torn # "yes", NEW x \in All(m), gone[x.tok] = "no"
      PROVE  x.data = told[x.tok]
  <2>1. CASE x \in All(mem)
    BY <1>9, <2>1 DEF Told
  <2>2. CASE x.tok = t /\ \E e \in All(db.entries) : e.key = t /\ x = session_from_db(t, e.value)
    <3>1. PICK e \in All(db.entries) : e.key = t /\ x = session_from_db(t, e.value)
      BY <2>2
    <3>2. Kept(db.entries)
      BY <1>0, <1>9 DEF Told
    <3>3. session_from_db(t, e.value).data = told[t]
      BY <1>4, <1>7, <1>9, <2>2, <3>1, <3>2, ReadBack
    <3> QED
      BY <2>2, <3>1, <3>3
  <2> QED
    BY <1>2, <2>1, <2>2
<1>10. CASE /\ mem' = remove_at(m, i) /\ db' = Delisted(db, m, i) /\ gone' = [gone EXCEPT ![t] = "here"]
  <2>1. gone'[t] = "here" /\ \A u \in Tokens : u # t => gone'[u] = gone[u]
    BY <1>4, <1>10
  <2>1a. \A u \in Tokens : gone'[u] = "no" => gone[u] = "no" /\ u # t
    BY <2>1
  <2>2. \A x \in All(m) : x.tok \in Tokens
    <3>1. \A x \in All(m) : x \in Slots
      BY <1>1 DEF All
    <3> QED
      BY <3>1 DEF Slots
  <2>3. torn' # "yes" => \A x \in All(mem') : gone'[x.tok] = "no" => x.data = told'[x.tok]
    BY <1>0, <1>6, <1>9, <1>10, <2>1a, <2>2
  <2>4. ASSUME Kept(file)
        PROVE  Kept(file)'
    BY <1>0, <2>1a, <2>4, StillKept DEF Kept
  <2>5. ASSUME Kept(db.entries)
        PROVE  Kept(db.entries)'
    BY <1>0, <1>6, <1>10, <2>1a, <2>5, StillKept DEF Kept
  <2> QED
    BY <1>0, <1>6, <1>8, <1>10, <2>3, <2>4, <2>5 DEF Told
<1>11. CASE mem' = m /\ UNCHANGED <<db, gone>>
  <2>1. torn' # "yes" => \A x \in All(mem') : gone'[x.tok] = "no" => x.data = told'[x.tok]
    BY <1>0, <1>9, <1>11
  <2>2. (Kept(db.entries) => Kept(db.entries)') /\ (Kept(file) => Kept(file)')
    BY <1>0, <1>11 DEF Kept
  <2> QED
    BY <1>0, <1>8, <1>11, <2>1, <2>2 DEF Told
<1> QED
  BY <1>5, <1>10, <1>11

\* The same for sessions that are taken away, by destroy or by the sweep.
LEMMA RemovalTold ==
  ASSUME IInv, Told, UNCHANGED <<up, file, issued, told, expiry, torn>>,
         \A t \in Tokens : gone'[t] = "no" => gone[t] = "no",
         \A s \in All(mem') : s \in All(mem),
         \A e \in All(db.entries) : e.key \in Tokens /\ gone'[e.key] = "no" => e \in All(db'.entries)
  PROVE  Told'
<1>1. \A s \in All(mem) : s.tok \in Tokens
  <2>1. \A s \in All(mem) : s \in Slots
    BY DEF IInv, Types, All
  <2> QED
    BY <2>1 DEF Slots
<1>2. ASSUME Kept(file)
      PROVE  Kept(file)'
  BY <1>2, StillKept DEF Kept
<1>3. ASSUME Kept(db.entries)
      PROVE  Kept(db.entries)'
  BY <1>3, StillKept DEF Kept
<1> QED
  BY <1>1, <1>2, <1>3 DEF Told

\* Destroying a session touches the records of no other.
LEMMA DestroyTold ==
  ASSUME IInv, Told, NEW w \in Workers, NEW t \in Tokens, http_session_destroy(w, t)
  PROVE  Told'
<1> DEFINE i == find_token(t)
<1>0. UNCHANGED <<up, file, issued, told, expiry, torn>>
  BY DEF http_session_destroy
<1>1. /\ mem \in Seq(Slots) /\ TokensOnce(mem) /\ Counted(db) /\ gone \in [Tokens -> {"no", "here", "asked"}]
  BY DEF IInv, Types
<1>3. i = Slot(mem, t)
  BY DEF find_token, Slot
<1>4. \/ i = 0 /\ gone' = [gone EXCEPT ![t] = IF @ = "no" THEN "asked" ELSE @] /\ UNCHANGED <<mem, db>>
      \/ i # 0 /\ mem' = remove_at(mem, i) /\ db' = Delisted(db, mem, i) /\ gone' = [gone EXCEPT ![t] = "here"]
  BY DEF http_session_destroy
<1> HIDE DEF i
<1>5. \A u \in Tokens : gone'[u] = "no" => gone[u] = "no" /\ u # t
  BY <1>1, <1>4
<1>6. CASE i = 0 /\ UNCHANGED <<mem, db>>
  BY <1>0, <1>5, <1>6, RemovalTold
<1>7. CASE i # 0 /\ mem' = remove_at(mem, i) /\ db' = Delisted(db, mem, i)
  <2>1. /\ \A x : x \in All(mem') <=> x \in All(mem) /\ x.tok # t
        /\ \A e : e \in All(db'.entries) <=> e \in All(db.entries) /\ e.key # t
    BY <1>1, <1>3, <1>7, SlotRemoved
  <2> QED
    BY <1>0, <1>5, <2>1, RemovalTold
<1> QED
  BY <1>4, <1>6, <1>7

\* Nor does the sweep.
LEMMA ReapTold ==
  ASSUME IInv, Told, http_session_reap
  PROVE  Told'
<1>0. UNCHANGED <<up, file, issued, told, expiry, torn>>
  BY DEF http_session_reap
<1>1. \A s : s \in All(mem') <=> s \in All(mem) /\ ~Expired(s)
  BY SweptSlots
<1>2. \A e : e \in All(db'.entries) <=> e \in All(db.entries) /\ \A s \in All(mem) : Expired(s) => s.tok # e.key
  BY SweptSlots
<1>3. \A t \in Tokens : (\A s \in All(mem) : s.tok = t => ~Expired(s)) => gone'[t] = gone[t]
  BY SweptSlots
<1>4. \A t \in Tokens : (\E s \in All(mem) : s.tok = t /\ Expired(s)) => gone'[t] = "here"
  BY SweptSlots
<1>5. \A t \in Tokens : gone'[t] = "no" => gone[t] = "no" /\ \A s \in All(mem) : s.tok = t => ~Expired(s)
  BY <1>3, <1>4
<1>6. \A e \in All(db.entries) : e.key \in Tokens /\ gone'[e.key] = "no" => e \in All(db'.entries)
  BY <1>2, <1>5
<1> QED
  BY <1>0, <1>1, <1>5, <1>6, RemovalTold

\* Pages leave the records of sessions alone, and a sync brings them to the file.
LEMMA PageTold ==
  ASSUME IInv, Told, PagePut \/ PageDelete \/ PageSync
  PROVE  Told'
<1>0. /\ Counted(db) /\ torn \in {"no", "pending", "yes"} /\ up = TRUE
      /\ UNCHANGED <<up, mem, issued, told, expiry, gone>> /\ PageKey \notin Tokens
  BY TokensAre DEF IInv, Types, PagePut, PageDelete, PageSync
<1>1. PagePut \/ PageDelete => file' = file /\ torn' = torn
  BY DEF PagePut, PageDelete
<1>2. \A e \in All(db.entries) : e.key \in Tokens => e \in All(db'.entries)
  <2>1. CASE PagePut
    <3>1. db' = cweb_db_put(db, PageKey, <<"page">>)
      BY <2>1 DEF PagePut
    <3>2. PageKey \in DbKeys /\ <<"page">> \in Seq(Lines)
      <4>1. "page" \in Lines
        BY DEF Lines, Text
      <4> QED
        BY <4>1, Single DEF DbKeys
    <3>3. \A e \in All(db.entries) : e.key # PageKey => e \in All(db'.entries)
      BY <1>0, <3>1, <3>2, DbPut
    <3> QED
      BY <1>0, <3>3
  <2>2. CASE PageDelete
    <3>1. db' = cweb_db_delete(db, PageKey)
      BY <2>2 DEF PageDelete
    <3>2. \A e \in All(db.entries) : e.key # PageKey => e \in All(db'.entries)
      BY <1>0, <3>1, DbDelete
    <3> QED
      BY <1>0, <3>2
  <2>3. CASE PageSync
    <3>1. Sync(db)
      BY <2>3 DEF PageSync
    <3> QED
      BY <1>0, <3>1, SyncLeaves
  <2> QED
    BY <2>1, <2>2, <2>3
<1>3. ASSUME Kept(db.entries)
      PROVE  Kept(db.entries)'
  BY <1>0, <1>2, <1>3, StillKept DEF Kept
<1>4. Kept(file) /\ file' = file => Kept(file)'
  BY <1>0 DEF Kept
<1>5. CASE PagePut \/ PageDelete
  BY <1>0, <1>1, <1>3, <1>4, <1>5 DEF Told
<1>6. CASE PageSync
  <2>1. Sync(db)
    BY <1>6 DEF PageSync
  <2>2. (torn = "yes" <=> torn' = "yes") /\ (torn' = "no" => ~Dirty(db'))
    BY <1>0, <2>1, SyncLeaves
  <2>3. torn' = "no" => file' = db'.entries \/ db'.entries = << >>
    <3>1. IInv'
      BY PageKeeps
    <3> QED
      BY <1>0, <2>2, <3>1 DEF IInv, Synced
  <2>4. torn' = "no" => Kept(file)'
    <3>1. torn' = "no" => Kept(db.entries)'
      BY <1>0, <1>3, <2>2 DEF Told
    <3>2. All(<< >>) = {}
      BY DEF All
    <3> QED
      BY <2>3, <3>1, <3>2 DEF Kept
  <2> QED
    BY <1>0, <1>3, <2>2, <2>4 DEF Told
<1> QED
  BY <1>5, <1>6

\* Nothing is in memory any more; what counts is the file.
LEMMA StopTold ==
  ASSUME IInv, Told, Stops, torn' # "yes" => Kept(file)'
  PROVE  Told'
<1>1. up' = FALSE /\ mem' = << >> /\ told' = told
  BY DEF Stops
<1>2. All(mem') = {}
  BY <1>1 DEF All
<1> QED
  BY <1>1, <1>2 DEF Told

\* The dump keeps what was told; a crash counts on the last sync.
LEMMA EndTold ==
  ASSUME IInv, Told, Shutdown \/ Crash
  PROVE  Told'
<1>1. CASE Shutdown
  <2> DEFINE d == http_session_store_dump
  <2>0. mem \in Seq(Slots) /\ TokensOnce(mem) /\ Counted(db) /\ SlotsFit(mem)
    BY DEF IInv, Types
  <2>1. \A e : e \in All(d.entries) <=>
          \/ e \in All(db.entries) /\ \A j \in 1 .. Len(mem) : mem[j].tok # e.key
          \/ \E j \in 1 .. Len(mem) : e = Entry(mem[j].tok, session_to_db(mem[j]))
    BY <2>0, DumpLeaves DEF DumpAt
  <2> HIDE DEF d
  <2>2. /\ Stops /\ up = TRUE
        /\ \/ file' = d.entries /\ torn' = torn
           \/ file' = file /\ torn' = torn /\ d.entries = << >>
           \/ file' = file /\ torn' = "yes"
    BY <1>1, ShutdownFile DEF d
  <2>3. UNCHANGED <<issued, told, expiry, gone>>
    BY <2>2 DEF Stops
  <2>4. ASSUME torn' # "yes"
        PROVE  Kept(file)'
    <3> SUFFICES ASSUME NEW t \in Tokens, t <= issued, gone[t] = "no"
                 PROVE  Entry(t, Record(expiry[t], told[t])) \in All(d.entries)
      <4>1. All(<< >>) = {}
        BY DEF All
      <4> QED
        BY <2>2, <2>3, <2>4, <4>1 DEF Kept
    <3>0. torn # "yes" /\ Kept(db.entries)
      BY <2>2, <2>4 DEF Told
    <3>1. CASE \E j \in 1 .. Len(mem) : mem[j].tok = t
      <4>1. PICK j \in 1 .. Len(mem) : mem[j].tok = t
        BY <3>1
      <4>2. mem[j] \in All(mem)
        BY DEF All
      <4>3. mem[j].data = told[t] /\ mem[j].exp = expiry[t]
        BY <2>0, <3>0, <4>1, <4>2 DEF Told, SlotsFit
      <4>4. Entry(t, Record(expiry[t], told[t])) = Entry(mem[j].tok, session_to_db(mem[j]))
        BY <4>1, <4>3 DEF session_to_db
      <4> QED
        BY <2>1, <4>4
    <3>2. CASE \A j \in 1 .. Len(mem) : mem[j].tok # t
      <4>1. Entry(t, Record(expiry[t], told[t])) \in All(db.entries) /\ Entry(t, Record(expiry[t], told[t])).key = t
        BY <3>0 DEF Kept, Entry
      <4> QED
        BY <2>1, <3>2, <4>1
    <3> QED
      BY <3>1, <3>2
  <2> QED
    BY <2>2, <2>4, StopTold
<1>2. CASE Crash
  <2>1. Stops /\ file' = file /\ torn' = IF torn = "no" THEN "no" ELSE "yes"
    BY <1>2 DEF Crash
  <2>2. UNCHANGED <<issued, told, expiry, gone>>
    BY <2>1 DEF Stops
  <2>3. torn' # "yes" => Kept(file)'
    BY <2>1, <2>2 DEF Told, Kept
  <2> QED
    BY <2>1, <2>3, StopTold
<1> QED
  BY <1>1, <1>2

\* What the file kept is what the database has.
LEMMA RestartTold ==
  ASSUME IInv, Told, Restart
  PROVE  Told'
<1>0. /\ up = FALSE /\ up' = TRUE /\ db' = cweb_db_open(file)
      /\ gone' = [t \in Tokens |-> IF gone[t] = "no" THEN "no" ELSE "asked"]
      /\ UNCHANGED <<mem, file, issued, told, expiry, torn>>
  BY DEF Restart, IInv, Types
<1>1. db'.entries = file
  BY <1>0, DbOpen DEF IInv, Types
<1>2. \A t \in Tokens : gone'[t] = "no" => gone[t] = "no"
  BY <1>0
<1>3. ASSUME Kept(file)
      PROVE  Kept(file)' /\ Kept(db.entries)'
  BY <1>0, <1>1, <1>2, <1>3 DEF Kept
<1>4. All(mem') = {}
  BY <1>0 DEF IInv, Stopped, All
<1> QED
  BY <1>0, <1>3, <1>4 DEF Told

\* Every step keeps the agreement.
LEMMA NextTold == OneLineUsers /\ IInv /\ Told /\ [Next]_vars => Told'
<1> SUFFICES ASSUME OneLineUsers, IInv, Told, [Next]_vars
             PROVE  Told'
  OBVIOUS
<1>0. ASSUME UNCHANGED <<up, mem, db, file, issued, told, expiry, gone, torn>>
      PROVE  Told'
  BY <1>0 DEF Told, Kept
<1>1. ASSUME NEW w \in Workers, Request(w)
      PROVE  Told'
  BY <1>0, <1>1, RequestSplit, StoreTold, OpenTold, DestroyTold
<1>2. CASE http_session_create
  BY <1>2, CreateTold
<1>3. CASE http_session_reap
  BY <1>3, ReapTold
<1>4. CASE PagePut \/ PageDelete \/ PageSync
  BY <1>4, PageTold
<1>5. CASE Shutdown \/ Crash
  BY <1>5, EndTold
<1>6. CASE Restart
  BY <1>6, RestartTold
<1>7. CASE Tick \/ UNCHANGED vars
  BY <1>0, <1>7 DEF Tick, vars
<1> QED
  BY <1>1, <1>2, <1>3, <1>4, <1>5, <1>6, <1>7 DEF Next

\* What the invariants say of a token, whether its session is in memory, in the
\* database or only in the file.
LEMMA ToldIsFound == IInv /\ Told => Recoverable
<1> SUFFICES ASSUME IInv, Told, torn # "yes", NEW t \in 1 .. issued, gone[t] = "no"
             PROVE  Found(t) = told[t]
  BY DEF Recoverable
<1> DEFINE d == IF up THEN db ELSE cweb_db_open(file)
           i == find_token(t)
<1>0. /\ up \in BOOLEAN /\ mem \in Seq(Slots) /\ Counted(db) /\ file \in Seq(Entries) /\ KeysOnce(file)
  BY DEF IInv, Types
<1>1. i = Slot(mem, t)
  BY DEF find_token, Slot
<1>2. Found(t) = IF i # 0 THEN mem[i].data
                 ELSE IF Has(d, t) THEN session_from_db(t, cweb_db_get(d, t)).data ELSE [lost |-> TRUE]
  BY DEF Found
<1>3. Counted(d) /\ Kept(d.entries)
  <2>1. CASE up
    BY <1>0, <2>1 DEF Told
  <2>2. CASE ~up
    BY <1>0, <2>2, DbOpen DEF Told
  <2> QED
    BY <2>1, <2>2
<1>t. t \in Tokens /\ t <= issued
  BY DEF IInv, Types
<1> HIDE DEF d, i
<1>4. CASE i # 0
  <2>1. i \in 1 .. Len(mem) /\ mem[i].tok = t
    BY <1>0, <1>1, <1>4, TokenSlot
  <2>2. mem[i] \in All(mem)
    BY <2>1 DEF All
  <2> QED
    BY <1>2, <1>4, <2>1, <2>2 DEF Told
<1>5. CASE i = 0
  <2> DEFINE n == Entry(t, Record(expiry[t], told[t]))
  <2>1. n \in All(d.entries) /\ n.key = t
    BY <1>3, <1>t DEF Kept, Entry
  <2>2. Has(d, t) /\ cweb_db_get(d, t) = n.value
    BY <1>3, <2>1, DbGet
  <2> HIDE DEF n
  <2>3. session_from_db(t, n.value).data = told[t]
    BY <1>3, <1>t, <2>1, ReadBack
  <2> QED
    BY <1>2, <1>5, <2>2, <2>3
<1> QED
  BY <1>4, <1>5

\* What a request was told is stored is what the next one finds, in memory or after
\* a crash and a restart, unless the process ended while the last sync had failed
\* (session.c:201, 224, 260).  A value is one line: the record of a session separates
\* its keys and values by newlines (session.c:328).
THEOREM SessionsRecoverable == OneLineUsers => (Spec => []Recoverable)
<1> SUFFICES ASSUME OneLineUsers
             PROVE  Spec => []Recoverable
  OBVIOUS
<1>1. Init => IInv /\ Told
  BY InitIInv, InitTold
<1>2. IInv /\ Told /\ [Next]_vars => IInv' /\ Told'
  BY NextIInv, NextTold
<1>3. IInv /\ Told => Recoverable
  BY ToldIsFound
<1> QED
  BY <1>1, <1>2, <1>3, PTL DEF Spec

=============================================================================
