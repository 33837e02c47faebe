---------------------------- MODULE RecordProofs ----------------------------
(***************************************************************************)
(* The contents of aggregated reports: no record is lost or doubled        *)
(* whatever is set aside, appended and put back, and the MAC of each one   *)
(* is in one proof, for every aggsize, number of provers and of periods.   *)
(***************************************************************************)
EXTENDS ReportProofs

-----------------------------------------------------------------------------
(***************************************************************************)
(* The records of two lists, entries and counters.                         *)
(***************************************************************************)

\* The entries of u that are records.
Pos(u) == {i \in 1..Len(u) : u[i] # NOID}

Listed(u, c) == {<<u[i], c[i]>> : i \in Pos(u)}

\* No record stands in two places.
Distinct(u, c) ==
    \A i, j \in Pos(u) : u[i] = u[j] /\ c[i] = c[j] => i = j

\* The number of records is found by counting entries.
LEMMA CountListed ==
  ASSUME NEW u \in Seq(Dev), NEW c, Distinct(u, c)
  PROVE  RecordCount(u) = Cardinality(Listed(u, c))
  <1>. DEFINE f == [i \in Pos(u) |-> <<u[i], c[i]>>]
  <1>1. IsFiniteSet(Pos(u))
    <2>1. Len(u) \in Nat /\ IsFiniteSet(1..Len(u))
      BY LenProperties, FS_Interval
    <2>2. Pos(u) \in SUBSET (1..Len(u))
      BY DEF Pos
    <2>. QED
      BY <2>1, <2>2, FS_Subset
  <1>2. f \in [Pos(u) -> Listed(u, c)]
    BY DEF Listed
  <1>3. \A x \in Listed(u, c) : \E i \in Pos(u) : f[i] = x
    BY DEF Listed
  <1>4. \A i, j \in Pos(u) : f[i] = f[j] => i = j
    BY DEF Distinct
  <1>5. f \in Bijection(Pos(u), Listed(u, c))
    BY <1>2, <1>3, <1>4 DEF Bijection, Injection, Surjection, IsInjective
  <1>6. Cardinality(Listed(u, c)) = Cardinality(Pos(u))
    BY <1>1, <1>5, FS_Bijection, Zenon DEF ExistsBijection
  <1>. QED
    BY <1>6 DEF RecordCount, Pos

\* The entries of a concatenation.
LEMMA ConcatEntries ==
  ASSUME NEW S, NEW u \in Seq(S), NEW v \in Seq(S)
  PROVE  /\ u \o v \in Seq(S) /\ Len(u \o v) = Len(u) + Len(v)
         /\ Len(u) \in Nat /\ Len(v) \in Nat
         /\ \A i \in 1..Len(u) : (u \o v)[i] = u[i]
         /\ \A i \in 1..Len(v) : (u \o v)[Len(u) + i] = v[i]
  <1>. DEFINE w == u \o v
  <1>1. w \in Seq(S) /\ Len(w) = Len(u) + Len(v) /\ Len(u) \in Nat /\ Len(v) \in Nat
    BY ConcatProperties, LenProperties
  <1>2. \A i \in 1..(Len(u) + Len(v)) :
           w[i] = IF i <= Len(u) THEN u[i] ELSE v[i - Len(u)]
    BY ConcatProperties
  <1>. HIDE DEF w
  <1>3. ASSUME NEW i \in 1..Len(v) PROVE w[Len(u) + i] = v[i]
    <2>1. /\ Len(u) + i \in 1..(Len(u) + Len(v)) /\ ~(Len(u) + i <= Len(u))
          /\ Len(u) + i - Len(u) = i
      BY <1>1
    <2>. QED
      BY <1>2, <2>1
  <1>4. ASSUME NEW i \in 1..Len(u) PROVE w[i] = u[i]
    <2>1. i \in 1..(Len(u) + Len(v)) /\ i <= Len(u)
      BY <1>1
    <2>. QED
      BY <1>2, <2>1
  <1>. QED
    BY <1>1, <1>3, <1>4 DEF w

\* The places of the records of a concatenation.
LEMMA PosConcat ==
  ASSUME NEW u \in Seq(Dev), NEW v \in Seq(Dev)
  PROVE  /\ Pos(u \o v) = Pos(u) \cup {Len(u) + i : i \in Pos(v)}
         /\ Pos(u) \cap {Len(u) + i : i \in Pos(v)} = {}
  <1>. DEFINE w == u \o v
  <1>1. /\ Len(w) = Len(u) + Len(v) /\ Len(u) \in Nat /\ Len(v) \in Nat
        /\ \A i \in 1..Len(u) : w[i] = u[i]
        /\ \A i \in 1..Len(v) : w[Len(u) + i] = v[i]
    BY ConcatEntries
  <1>. HIDE DEF w
  <1>2. ASSUME NEW i \in Pos(w)
        PROVE  i \in Pos(u) \/ \E j \in Pos(v) : i = Len(u) + j
    <2>1. i \in 1..(Len(u) + Len(v)) /\ w[i] # NOID
      BY <1>1 DEF Pos
    <2>2. CASE i <= Len(u)
      BY <1>1, <2>1, <2>2 DEF Pos
    <2>3. CASE i > Len(u)
      <3>1. i - Len(u) \in 1..Len(v) /\ i = Len(u) + (i - Len(u))
        BY <1>1, <2>1, <2>3
      <3>2. v[i - Len(u)] # NOID
        BY <1>1, <2>1, <3>1
      <3>. QED
        BY <3>1, <3>2 DEF Pos
    <2>. QED
      BY <1>1, <2>1, <2>2, <2>3
  <1>3. ASSUME NEW i \in Pos(u) PROVE i \in Pos(w)
    BY <1>1 DEF Pos
  <1>4. ASSUME NEW j \in Pos(v) PROVE Len(u) + j \in Pos(w) /\ Len(u) + j \notin Pos(u)
    BY <1>1 DEF Pos
  <1>. QED
    BY <1>2, <1>3, <1>4 DEF w

\* Counts add up.
LEMMA CountConcat ==
  ASSUME NEW u \in Seq(Dev), NEW v \in Seq(Dev)
  PROVE  RecordCount(u \o v) = RecordCount(u) + RecordCount(v)
  <1>. DEFINE T == {Len(u) + i : i \in Pos(v)}
              f == [i \in Pos(v) |-> Len(u) + i]
  <1>1. \A w \in Seq(Dev) : IsFiniteSet(Pos(w)) /\ Pos(w) \subseteq Nat
    <2>1. TAKE w \in Seq(Dev)
    <2>2. Len(w) \in Nat /\ IsFiniteSet(1..Len(w))
      BY LenProperties, FS_Interval
    <2>3. Pos(w) \in SUBSET (1..Len(w))
      BY DEF Pos
    <2>. QED
      BY <2>2, <2>3, FS_Subset
  <1>2. Len(u) \in Nat
    BY LenProperties
  <1>3. f \in [Pos(v) -> T] /\ \A x \in T : \E i \in Pos(v) : f[i] = x
    OBVIOUS
  <1>4. \A i, j \in Pos(v) : f[i] = f[j] => i = j
    BY <1>1, <1>2
  <1>5. f \in Bijection(Pos(v), T)
    BY <1>3, <1>4 DEF Bijection, Injection, Surjection, IsInjective
  <1>6. IsFiniteSet(T) /\ Cardinality(T) = Cardinality(Pos(v))
    BY <1>1, <1>5, FS_Bijection, Zenon DEF ExistsBijection
  <1>7. Pos(u \o v) = Pos(u) \cup T /\ Pos(u) \cap T = {}
    BY PosConcat
  <1>. HIDE DEF T
  <1>8. Cardinality(Pos(u) \cup T)
          = Cardinality(Pos(u)) + Cardinality(T) - Cardinality({})
    BY <1>1, <1>6, <1>7, FS_Union
  <1>9. Cardinality(Pos(u)) \in Nat /\ Cardinality(Pos(v)) \in Nat /\ Cardinality({}) = 0
    BY <1>1, FS_CardinalityType, FS_EmptySet
  <1>10. Cardinality(Pos(u \o v)) = Cardinality(Pos(u)) + Cardinality(Pos(v))
    BY <1>6, <1>7, <1>8, <1>9
  <1>. QED
    BY <1>10 DEF RecordCount, Pos

\* Records of a concatenation; it is without doubles when its parts are and
\* have nothing in common.
LEMMA ListedConcat ==
  ASSUME NEW u \in Seq(Dev), NEW v \in Seq(Dev), NEW c \in Seq(Nat), NEW d \in Seq(Nat),
         Len(c) = Len(u), Len(d) = Len(v)
  PROVE  /\ Listed(u \o v, c \o d) = Listed(u, c) \cup Listed(v, d)
         /\ Distinct(u \o v, c \o d) <=> /\ Distinct(u, c) /\ Distinct(v, d)
                                         /\ Listed(u, c) \cap Listed(v, d) = {}
  <1>. DEFINE w == u \o v
              e == c \o d
  <1>1. /\ Len(u) \in Nat
        /\ \A i \in Pos(u) : w[i] = u[i] /\ e[i] = c[i]
        /\ \A i \in Pos(v) : w[Len(u) + i] = v[i] /\ e[Len(u) + i] = d[i]
    BY ConcatEntries DEF Pos
  <1>2. Pos(w) = Pos(u) \cup {Len(u) + i : i \in Pos(v)}
    BY PosConcat
  <1>3. \A i \in Pos(u), j \in Pos(v) : i # Len(u) + j
    BY PosConcat
  <1>4. Pos(v) \subseteq Nat
    BY DEF Pos
  <1>. HIDE DEF w, e
  <1>5. Listed(w, e) = Listed(u, c) \cup Listed(v, d)
    <2>1. ASSUME NEW x \in Listed(w, e) PROVE x \in Listed(u, c) \cup Listed(v, d)
      <3>1. PICK k \in Pos(w) : x = <<w[k], e[k]>>
        BY DEF Listed
      <3>2. CASE k \in Pos(u)
        BY <1>1, <3>1, <3>2 DEF Listed
      <3>3. CASE \E j \in Pos(v) : k = Len(u) + j
        BY <1>1, <3>1, <3>3 DEF Listed
      <3>. QED
        BY <1>2, <3>2, <3>3
    <2>2. ASSUME NEW i \in Pos(u) PROVE <<u[i], c[i]>> \in Listed(w, e)
      <3>1. i \in Pos(w) /\ w[i] = u[i] /\ e[i] = c[i]
        BY <1>1, <1>2
      <3>. QED
        BY <3>1 DEF Listed
    <2>3. ASSUME NEW j \in Pos(v) PROVE <<v[j], d[j]>> \in Listed(w, e)
      <3>1. Len(u) + j \in Pos(w) /\ w[Len(u) + j] = v[j] /\ e[Len(u) + j] = d[j]
        BY <1>1, <1>2
      <3>. QED
        BY <3>1 DEF Listed
    <2>4. Listed(u, c) \subseteq Listed(w, e)
      BY <2>2 DEF Listed
    <2>5. Listed(v, d) \subseteq Listed(w, e)
      BY <2>3 DEF Listed
    <2>. QED
      BY <2>1, <2>4, <2>5
  <1>6. ASSUME Distinct(w, e)
        PROVE  Distinct(u, c) /\ Distinct(v, d) /\ Listed(u, c) \cap Listed(v, d) = {}
    <2>1. Distinct(u, c)
      BY <1>1, <1>2, <1>6 DEF Distinct
    <2>2. Distinct(v, d)
      <3>1. SUFFICES ASSUME NEW i \in Pos(v), NEW j \in Pos(v), v[i] = v[j], d[i] = d[j]
                     PROVE  i = j
        BY DEF Distinct
      <3>2. Len(u) + i \in Pos(w) /\ Len(u) + j \in Pos(w)
        BY <1>2
      <3>3. Len(u) + i = Len(u) + j
        BY <1>1, <1>6, <3>1, <3>2 DEF Distinct
      <3>. QED
        BY <1>1, <1>4, <3>3
    <2>3. ASSUME NEW i \in Pos(u), NEW j \in Pos(v), u[i] = v[j], c[i] = d[j]
          PROVE  FALSE
      <3>1. i \in Pos(w) /\ Len(u) + j \in Pos(w)
        BY <1>2
      <3>2. i = Len(u) + j
        BY <1>1, <1>6, <2>3, <3>1 DEF Distinct
      <3>. QED
        BY <1>3, <3>2
    <2>4. \A x \in Listed(u, c) : x \notin Listed(v, d)
      <3>1. SUFFICES ASSUME NEW i \in Pos(u), NEW j \in Pos(v),
                            <<u[i], c[i]>> = <<v[j], d[j]>>
                     PROVE  FALSE
        BY DEF Listed
      <3>. QED
        BY <2>3, <3>1
    <2>. QED
      BY <2>1, <2>2, <2>4
  <1>7. ASSUME Distinct(u, c), Distinct(v, d), Listed(u, c) \cap Listed(v, d) = {}
        PROVE  Distinct(w, e)
    <2>1. \A i \in Pos(u), j \in Pos(v) : ~(u[i] = v[j] /\ c[i] = d[j])
      BY <1>7 DEF Listed
    <2>. QED
      BY <1>1, <1>2, <1>7, <2>1 DEF Distinct
  <1>. QED
    BY <1>5, <1>6, <1>7 DEF w, e

\* The lists u and c hold the records S, each of them once.
Carries(u, c, S) ==
    /\ Len(c) = Len(u)
    /\ Distinct(u, c)
    /\ Listed(u, c) = S

\* Lists with different records are joined.
LEMMA CarriesConcat ==
  ASSUME NEW u \in Seq(Dev), NEW v \in Seq(Dev), NEW c \in Seq(Nat), NEW d \in Seq(Nat),
         NEW S, NEW T, Carries(u, c, S), Carries(v, d, T), S \cap T = {}
  PROVE  Carries(u \o v, c \o d, S \cup T)
  <1>1. Len(u \o v) = Len(u) + Len(v) /\ Len(c \o d) = Len(c) + Len(d)
    BY ConcatProperties
  <1>. QED
    BY <1>1, ListedConcat DEF Carries

\* A list of one entry: the end of a group, or a record.
LEMMA OneEntry ==
  ASSUME NEW e \in Dev, NEW n \in Nat
  PROVE  /\ <<e>> \in Seq(Dev) /\ <<n>> \in Seq(Nat)
         /\ Carries(<<e>>, <<n>>, IF e = NOID THEN {} ELSE {<<e, n>>})
         /\ RecordCount(<<e>>) = IF e = NOID THEN 0 ELSE 1
  <1>. DEFINE u == <<e>>
              c == <<n>>
  <1>1. u \in Seq(Dev) /\ c \in Seq(Nat) /\ Len(u) = 1 /\ Len(c) = 1 /\ u[1] = e /\ c[1] = n
    OBVIOUS
  <1>. HIDE DEF u, c
  <1>2. Pos(u) = IF e = NOID THEN {} ELSE {1}
    <2>1. 1..1 = {1}
      OBVIOUS
    <2>. QED
      BY <1>1, <2>1 DEF Pos
  <1>3. Distinct(u, c)
    BY <1>2 DEF Distinct
  <1>4. Listed(u, c) = IF e = NOID THEN {} ELSE {<<e, n>>}
    BY <1>1, <1>2 DEF Listed
  <1>5. RecordCount(u) = IF e = NOID THEN 0 ELSE 1
    <2>1. RecordCount(u) = Cardinality(Pos(u))
      BY DEF RecordCount, Pos
    <2>. QED
      BY <1>2, <2>1, FS_EmptySet, FS_Singleton
  <1>. QED
    BY <1>1, <1>3, <1>4, <1>5 DEF Carries, u, c

\* A group is closed.
LEMMA CarriesSep ==
  ASSUME NEW u \in Seq(Dev), NEW c \in Seq(Nat), NEW S, Carries(u, c, S)
  PROVE  /\ Carries(Append(u, NOID), Append(c, 0), S)
         /\ RecordCount(Append(u, NOID)) = RecordCount(u)
  <1>1. Append(u, NOID) = u \o <<NOID>> /\ Append(c, 0) = c \o <<0>>
    BY AppendIsConcat, DevNat
  <1>2. /\ <<NOID>> \in Seq(Dev) /\ <<0>> \in Seq(Nat) /\ Carries(<<NOID>>, <<0>>, {})
        /\ RecordCount(<<NOID>>) = 0
    BY OneEntry, DevNat
  <1>3. Carries(u \o <<NOID>>, c \o <<0>>, S \cup {})
    BY <1>2, CarriesConcat
  <1>4. RecordCount(u \o <<NOID>>) = RecordCount(u) + 0
    BY <1>2, CountConcat
  <1>5. RecordCount(u) + 0 = RecordCount(u)
    BY RecordCountType
  <1>6. S \cup {} = S
    OBVIOUS
  <1>. QED
    BY <1>1, <1>3, <1>4, <1>5, <1>6

\* A record is added.
LEMMA CarriesRecord ==
  ASSUME NEW u \in Seq(Dev), NEW c \in Seq(Nat), NEW S, Carries(u, c, S),
         NEW p \in Prover, NEW n \in Nat, <<p, n>> \notin S
  PROVE  /\ Carries(Append(u, p), Append(c, n), S \cup {<<p, n>>})
         /\ RecordCount(Append(u, p)) = RecordCount(u) + 1
  <1>1. p \in Dev /\ p # NOID
    BY DevNat DEF Dev
  <1>2. Append(u, p) = u \o <<p>> /\ Append(c, n) = c \o <<n>>
    BY <1>1, AppendIsConcat
  <1>3. /\ <<p>> \in Seq(Dev) /\ <<n>> \in Seq(Nat) /\ Carries(<<p>>, <<n>>, {<<p, n>>})
        /\ RecordCount(<<p>>) = 1
    BY <1>1, OneEntry
  <1>4. Carries(u \o <<p>>, c \o <<n>>, S \cup {<<p, n>>})
    BY <1>3, CarriesConcat
  <1>. QED
    BY <1>2, <1>3, <1>4, CountConcat

\* The lists are cut in two.
LEMMA CarriesSplit ==
  ASSUME NEW u \in Seq(Dev), NEW c \in Seq(Nat), NEW S, Carries(u, c, S),
         NEW a \in 0..Len(u)
  PROVE  LET u1 == SubSeq(u, 1, a)
             c1 == SubSeq(c, 1, a)
             u2 == SubSeq(u, a + 1, Len(u))
             c2 == SubSeq(c, a + 1, Len(u))
         IN  /\ u1 \in Seq(Dev) /\ c1 \in Seq(Nat) /\ u2 \in Seq(Dev) /\ c2 \in Seq(Nat)
             /\ Carries(u1, c1, Listed(u1, c1)) /\ Carries(u2, c2, Listed(u2, c2))
             /\ Listed(u1, c1) \cap Listed(u2, c2) = {}
             /\ S = Listed(u1, c1) \cup Listed(u2, c2)
             /\ RecordCount(u) = RecordCount(u1) + RecordCount(u2)
  <1>. DEFINE u1 == SubSeq(u, 1, a)
              c1 == SubSeq(c, 1, a)
              u2 == SubSeq(u, a + 1, Len(u))
              c2 == SubSeq(c, a + 1, Len(u))
  <1>1. Len(u) \in Nat /\ Len(c) = Len(u)
    BY LenProperties DEF Carries
  <1>2. u1 \in Seq(Dev) /\ Len(u1) = a /\ c1 \in Seq(Nat) /\ Len(c1) = a
    <2>1. \A i \in 1..a : u[i] \in Dev /\ c[i] \in Nat
      BY <1>1, ElementOfSeq
    <2>. QED
      BY <1>1, <2>1, SubSeqProperties
  <1>3. /\ u2 \in Seq(Dev) /\ Len(u2) = Len(u) - a
        /\ c2 \in Seq(Nat) /\ Len(c2) = Len(u) - a
    <2>1. \A i \in (a + 1)..Len(u) : u[i] \in Dev /\ c[i] \in Nat
      BY <1>1, ElementOfSeq
    <2>2. Len(u) - (a + 1) + 1 = Len(u) - a /\ (a + 1 <= Len(u) \/ Len(u) - a = 0)
      BY <1>1
    <2>. QED
      BY <1>1, <2>1, <2>2, SubSeqProperties
  <1>4. u = u1 \o u2 /\ c = c1 \o c2
    <2>1. 1 \in 1..(Len(u) + 1) /\ a \in (1 - 1)..Len(u) /\ Len(u) \in a..Len(u)
      BY <1>1
    <2>2. u1 \o u2 = SubSeq(u, 1, Len(u)) /\ c1 \o c2 = SubSeq(c, 1, Len(c))
      BY <1>1, <2>1, ConcatAdjacentSubSeq
    <2>. QED
      BY <2>2, SubSeqFull
  <1>. HIDE DEF u1, u2, c1, c2
  <1>5. /\ Listed(u, c) = Listed(u1, c1) \cup Listed(u2, c2)
        /\ Distinct(u1, c1) /\ Distinct(u2, c2)
        /\ Listed(u1, c1) \cap Listed(u2, c2) = {}
    <2>1. Len(c1) = Len(u1) /\ Len(c2) = Len(u2)
      BY <1>2, <1>3
    <2>2. Distinct(u1 \o u2, c1 \o c2)
      BY <1>4 DEF Carries
    <2>3. Distinct(u1 \o u2, c1 \o c2)
            <=> /\ Distinct(u1, c1) /\ Distinct(u2, c2)
                /\ Listed(u1, c1) \cap Listed(u2, c2) = {}
      BY <1>2, <1>3, <2>1, ListedConcat
    <2>4. Carries(u1, c1, Listed(u1, c1)) /\ Carries(u2, c2, Listed(u2, c2))
      BY <2>1, <2>2, <2>3 DEF Carries
    <2>5. Carries(u1 \o u2, c1 \o c2, Listed(u1, c1) \cup Listed(u2, c2))
      BY <1>2, <1>3, <2>2, <2>3, <2>4, CarriesConcat
    <2>. QED
      BY <1>4, <2>2, <2>3, <2>5 DEF Carries
  <1>6. Carries(u1, c1, Listed(u1, c1)) /\ Carries(u2, c2, Listed(u2, c2))
    BY <1>2, <1>3, <1>5 DEF Carries
  <1>7. RecordCount(u) = RecordCount(u1) + RecordCount(u2)
    BY <1>2, <1>3, <1>4, CountConcat
  <1>8. S = Listed(u1, c1) \cup Listed(u2, c2)
    BY <1>5 DEF Carries
  <1>. QED
    BY <1>2, <1>3, <1>5, <1>6, <1>7, <1>8 DEF u1, u2, c1, c2

\* Entries that are all records.
LEMMA CountRecords ==
  ASSUME NEW t \in Seq(Dev), \A i \in 1..Len(t) : t[i] # NOID
  PROVE  RecordCount(t) = Len(t)
  <1>1. Len(t) \in Nat
    BY LenProperties
  <1>2. {i \in 1..Len(t) : t[i] # NOID} = 1..Len(t)
    OBVIOUS
  <1>3. Cardinality(1..Len(t)) = Len(t)
    BY <1>1, FS_Interval
  <1>. QED
    BY <1>2, <1>3 DEF RecordCount

-----------------------------------------------------------------------------
(***************************************************************************)
(* The records of a list of proofs.                                        *)
(***************************************************************************)

\* The proofs pfs cover the records S, each of them once.
Covers(pfs, S) ==
    /\ \A k \in 1..Len(pfs) : pfs[k] \subseteq S
    /\ \A x \in S : \E k \in 1..Len(pfs) : x \in pfs[k]
    /\ \A k, l \in 1..Len(pfs) : \A x \in pfs[k] : x \in pfs[l] => k = l

\* The proofs of different records are joined.
LEMMA CoversConcat ==
  ASSUME NEW f \in Seq(Proof), NEW g \in Seq(Proof), NEW S, NEW T,
         Covers(f, S), Covers(g, T), S \cap T = {}
  PROVE  Covers(f \o g, S \cup T)
  <1>. DEFINE h == f \o g
  <1>1. /\ Len(h) = Len(f) + Len(g) /\ Len(f) \in Nat /\ Len(g) \in Nat
        /\ \A i \in 1..Len(f) : h[i] = f[i]
        /\ \A i \in 1..Len(g) : h[Len(f) + i] = g[i]
    BY ConcatEntries
  <1>. HIDE DEF h
  <1>2. ASSUME NEW k \in 1..Len(h)
        PROVE  \/ k \in 1..Len(f) /\ h[k] = f[k] /\ f[k] \subseteq S
               \/ /\ k - Len(f) \in 1..Len(g) /\ h[k] = g[k - Len(f)]
                  /\ g[k - Len(f)] \subseteq T
    <2>1. CASE k <= Len(f)
      BY <1>1, <2>1 DEF Covers
    <2>2. CASE k > Len(f)
      <3>1. k - Len(f) \in 1..Len(g) /\ k = Len(f) + (k - Len(f))
        BY <1>1, <2>2
      <3>. QED
        BY <1>1, <3>1 DEF Covers
    <2>. QED
      BY <1>1, <2>1, <2>2
  <1>3. \A k \in 1..Len(h) : h[k] \subseteq S \cup T
    BY <1>2
  <1>4. ASSUME NEW x \in S \cup T PROVE \E k \in 1..Len(h) : x \in h[k]
    <2>1. CASE x \in S
      BY <1>1, <2>1 DEF Covers
    <2>2. CASE x \in T
      <3>1. PICK k \in 1..Len(g) : x \in g[k]
        BY <2>2 DEF Covers
      <3>2. Len(f) + k \in 1..Len(h)
        BY <1>1
      <3>. QED
        BY <1>1, <3>1, <3>2
    <2>. QED
      BY <2>1, <2>2
  <1>5. ASSUME NEW k \in 1..Len(h), NEW l \in 1..Len(h), NEW x \in h[k], x \in h[l]
        PROVE  k = l
    <2>1. CASE x \in S
      <3>1. k \in 1..Len(f) /\ l \in 1..Len(f) /\ x \in f[k] /\ x \in f[l]
        BY <1>2, <1>5, <2>1
      <3>. QED
        BY <3>1 DEF Covers
    <2>2. CASE x \notin S
      <3>1. /\ k - Len(f) \in 1..Len(g) /\ l - Len(f) \in 1..Len(g)
            /\ x \in g[k - Len(f)] /\ x \in g[l - Len(f)]
        BY <1>2, <1>5, <2>2
      <3>2. k - Len(f) = l - Len(f)
        BY <3>1 DEF Covers
      <3>. QED
        BY <1>1, <3>2
    <2>. QED
      BY <2>1, <2>2
  <1>. QED
    BY <1>3, <1>4, <1>5 DEF Covers, h

\* A proof of other records is added.
LEMMA CoversAppend ==
  ASSUME NEW f \in Seq(Proof), NEW b \in Proof, NEW S, Covers(f, S), b \cap S = {}
  PROVE  Covers(Append(f, b), S \cup b)
  <1>. DEFINE g == <<b>>
  <1>1. Append(f, b) = f \o g
    BY AppendIsConcat
  <1>2. g \in Seq(Proof) /\ Len(g) = 1 /\ g[1] = b
    OBVIOUS
  <1>. HIDE DEF g
  <1>3. Covers(g, b)
    BY <1>2 DEF Covers
  <1>4. S \cap b = {}
    OBVIOUS
  <1>. QED
    BY <1>1, <1>2, <1>3, <1>4, CoversConcat

\* The last proof is taken away with its records.
LEMMA CoversPop ==
  ASSUME NEW f \in Seq(Proof), NEW S, Covers(f, S), f # <<>>
  PROVE  /\ PopBack(f) \in Seq(Proof) /\ Back(f) \in Proof
         /\ Covers(PopBack(f), S \ Back(f)) /\ Back(f) \subseteq S
  <1>. DEFINE n == Len(f)
              g == PopBack(f)
  <1>1. n \in Nat /\ n > 0
    BY EmptySeq, LenProperties
  <1>2. \A i \in 1..(n - 1) : f[i] \in Proof
    BY <1>1, ElementOfSeq
  <1>3. g \in Seq(Proof) /\ Len(g) = n - 1 /\ \A i \in 1..(n - 1) : g[i] = f[i]
    <2>1. (n - 1) - 1 + 1 = n - 1 /\ \A i \in 1..(n - 1) : 1 + i - 1 = i
      BY <1>1
    <2>. HIDE DEF n
    <2>2. /\ SubSeq(f, 1, n - 1) \in Seq(Proof)
          /\ Len(SubSeq(f, 1, n - 1)) = IF 1 <= n - 1 THEN (n - 1) - 1 + 1 ELSE 0
          /\ \A i \in 1..((n - 1) - 1 + 1) : SubSeq(f, 1, n - 1)[i] = f[1 + i - 1]
      BY <1>1, <1>2, SubSeqProperties
    <2>. QED
      BY <1>1, <2>1, <2>2 DEF PopBack, n
  <1>4. Back(f) = f[n] /\ n \in 1..n /\ Back(f) \in Proof
    BY <1>1, ElementOfSeq DEF Back
  <1>. HIDE DEF n, g
  <1>5. \A k, l \in 1..n : \A x \in f[k] : x \in f[l] => k = l
    BY DEF Covers, n
  <1>6. \A k \in 1..n : f[k] \subseteq S
    BY DEF Covers, n
  <1>7. \A x \in S : \E k \in 1..n : x \in f[k]
    BY DEF Covers, n
  <1>8. \A k \in 1..(n - 1) : k \in 1..n /\ k # n
    BY <1>1
  <1>9. \A k \in 1..(n - 1) : g[k] \subseteq S \ f[n]
    BY <1>3, <1>4, <1>5, <1>6, <1>8
  <1>10. \A x \in S \ f[n] : \E k \in 1..(n - 1) : x \in g[k]
    BY <1>1, <1>3, <1>7
  <1>11. \A k, l \in 1..(n - 1) : \A x \in g[k] : x \in g[l] => k = l
    BY <1>3, <1>5, <1>8
  <1>. QED
    BY <1>3, <1>4, <1>6, <1>9, <1>10, <1>11 DEF Covers, g

\* Other records are added to the last proof: the XOR loses none.
LEMMA CoversXor ==
  ASSUME NEW f \in Seq(Proof), NEW b \in Proof, NEW S, Covers(f, S), b \cap S = {},
         f # <<>>
  PROVE  Covers(XorBack(f, b), S \cup b)
  <1>. DEFINE n == Len(f)
              g == XorBack(f, b)
  <1>1. n \in Nat /\ n > 0 /\ n \in 1..n
    BY EmptySeq, LenProperties
  <1>2. f[n] \in Proof /\ f[n] \subseteq S
    BY <1>1, ElementOfSeq DEF Covers
  <1>3. xor(f[n], b) = f[n] \cup b
    BY <1>2 DEF xor
  <1>4. f[n] \cup b \in Proof
    BY <1>2 DEF Proof
  <1>5. g = [f EXCEPT ![n] = f[n] \cup b]
    BY <1>3 DEF XorBack
  <1>6. Len(g) = n /\ \A j \in 1..n : g[j] = IF j = n THEN f[n] \cup b ELSE f[j]
    BY <1>1, <1>4, <1>5, ExceptSeq
  <1>. HIDE DEF n, g
  <1>7. \A k, l \in 1..n : \A x \in f[k] : x \in f[l] => k = l
    BY DEF Covers, n
  <1>8. \A k \in 1..n : f[k] \subseteq S
    BY DEF Covers, n
  <1>9. \A x \in S : \E k \in 1..n : x \in f[k]
    BY DEF Covers, n
  <1>10. \A k \in 1..n : g[k] \subseteq S \cup b
    BY <1>2, <1>6, <1>8
  <1>11. \A x \in S \cup b : \E k \in 1..n : x \in g[k]
    BY <1>1, <1>6, <1>9
  <1>12. \A k, l \in 1..n : \A x \in g[k] : x \in g[l] => k = l
    BY <1>6, <1>7, <1>8
  <1>. QED
    BY <1>6, <1>10, <1>11, <1>12 DEF Covers, g

-----------------------------------------------------------------------------
(***************************************************************************)
(* The operations on a report.                                             *)
(***************************************************************************)

\* The lists of r hold the records S, its proofs cover the records P, and
\* its size is large enough.  While a group is set aside S and P differ: the
\* proof set aside with it need not be its own.
Holds(r, S, P) ==
    /\ r \in Rep
    /\ Carries(r.uids, r.counters, S)
    /\ Covers(r.proofs, P)
    /\ r.size >= RecordCount(r.uids)

\* fixProofs closes a group and changes nothing else.
LEMMA FixProofsHolds ==
  ASSUME NEW r, NEW S, NEW P, Holds(r, S, P)
  PROVE  Holds(fixProofs(r), S, P)
  <1>1. /\ r \in Rep /\ r.uids \in Seq(Dev) /\ r.counters \in Seq(Nat)
        /\ r.sepsize \in Int
    BY RepFields DEF Holds
  <1>2. CASE full(r.uids)
    <2>. DEFINE w == Append(r.uids, NOID)
                c == Append(r.counters, 0)
                f == [r EXCEPT !.uids = w, !.counters = c, !.sepsize = r.sepsize + 1]
    <2>1. w \in Seq(Dev) /\ c \in Seq(Nat)
      BY <1>1, AppendType, DevNat
    <2>2. Carries(w, c, S) /\ RecordCount(w) = RecordCount(r.uids)
      BY <1>1, CarriesSep DEF Holds
    <2>3. fixProofs(r) = f
      BY <1>2 DEF fixProofs
    <2>. HIDE DEF w, c
    <2>4. r.sepsize + 1 \in Int
      BY <1>1
    <2>5. f \in Rep /\ f.uids = w /\ f.counters = c /\ f.proofs = r.proofs
      BY <1>1, <2>1, <2>4, UpdateSep DEF Rep
    <2>6. f.size = r.size
      BY <1>1 DEF Rep
    <2>. HIDE DEF f
    <2>. QED
      BY <2>2, <2>3, <2>5, <2>6 DEF Holds
  <1>3. CASE ~full(r.uids)
    BY <1>3 DEF fixProofs
  <1>. QED
    BY <1>2, <1>3

\* A record not there yet is added, to the lists and to one proof.
LEMMA AddOwnReportHolds ==
  ASSUME NEW p \in Prover, NEW r, NEW S, NEW P, Holds(r, S, P),
         r.uids # <<>> => r.proofs # <<>>, attestcount[p] \in Nat,
         <<p, attestcount[p] + 1>> \notin S, <<p, attestcount[p] + 1>> \notin P
  PROVE  Holds(addOwnReport(p, r), S \cup {<<p, attestcount[p] + 1>>},
                                   P \cup {<<p, attestcount[p] + 1>>})
  <1>. DEFINE n == attestcount[p] + 1
              rec == <<p, n>>
              w == Append(r.uids, p)
              c == Append(r.counters, n)
              pfs == IF opensProof(r.uids) THEN Append(r.proofs, {rec})
                     ELSE XorBack(r.proofs, {rec})
              s == [r EXCEPT !.uids = w, !.counters = c, !.proofs = pfs,
                             !.size = r.size + 1]
  <1>1. /\ r \in Rep /\ r.uids \in Seq(Dev) /\ r.counters \in Seq(Nat)
        /\ r.proofs \in Seq(Proof) /\ r.size \in Int /\ n \in Nat
    BY RepFields DEF Holds
  <1>2. {rec} \in Proof
    BY <1>1 DEF Proof, Record
  <1>3. w \in Seq(Dev) /\ c \in Seq(Nat)
    BY <1>1, AppendType DEF Dev
  <1>4. Carries(w, c, S \cup {rec}) /\ RecordCount(w) = RecordCount(r.uids) + 1
    BY <1>1, CarriesRecord DEF Holds
  <1>. HIDE DEF rec
  <1>5. rec \notin P
    BY DEF rec
  <1>6. pfs \in Seq(Proof) /\ Covers(pfs, P \cup {rec})
    <2>1. CASE opensProof(r.uids)
      BY <1>1, <1>2, <1>5, <2>1, AppendType, CoversAppend DEF Holds
    <2>2. CASE ~opensProof(r.uids)
      <3>1. r.uids # <<>>
        <4>1. 0 % aggsize = 0
          BY DevNat
        <4>2. Len(<<>>) = 0
          BY EmptySeq
        <4>. QED
          BY <2>2, <4>1, <4>2 DEF opensProof
      <3>. QED
        BY <1>1, <1>2, <1>5, <2>2, <3>1, XorBackType, CoversXor DEF Holds
    <2>. QED
      BY <2>1, <2>2
  <1>7. addOwnReport(p, r) = fixProofs(s)
    BY DEF addOwnReport, rec
  <1>. HIDE DEF w, c, pfs, n
  <1>8. r.size + 1 \in Int
    BY <1>1
  <1>9. s \in Rep /\ s.uids = w /\ s.counters = c /\ s.proofs = pfs
    BY <1>1, <1>3, <1>6, <1>8, UpdateSize DEF Rep
  <1>10. s.size = r.size + 1
    BY <1>1 DEF Rep
  <1>. HIDE DEF s
  <1>11. s.size >= RecordCount(w)
    BY <1>1, <1>4, <1>10, RecordCountType DEF Holds
  <1>12. Holds(s, S \cup {rec}, P \cup {rec})
    BY <1>4, <1>6, <1>9, <1>11 DEF Holds
  <1>. QED
    BY <1>7, <1>12, FixProofsHolds DEF rec, n

\* A report as it is sent.
MsgHolds(m, T) ==
    /\ m \in Msg
    /\ Carries(m.uids, m.counters, T)
    /\ Covers(m.proofs, T)

\* The report of a child brings its own records.
LEMMA AppendReportHolds ==
  ASSUME NEW r, NEW S, NEW P, Holds(r, S, P), NEW m, NEW T, MsgHolds(m, T),
         S \cap T = {}, P \cap T = {}
  PROVE  Holds(appendReport(r, m), S \cup T, P \cup T)
  <1>. DEFINE w == r.uids \o m.uids
              c == r.counters \o m.counters
              pfs == r.proofs \o m.proofs
              k == RecordCount(m.uids)
              s == [r EXCEPT !.uids = w, !.counters = c, !.proofs = pfs,
                             !.size = r.size + k,
                             !.sepsize = r.sepsize + Len(m.uids) - k]
  <1>1. /\ r \in Rep /\ r.uids \in Seq(Dev) /\ r.counters \in Seq(Nat)
        /\ r.proofs \in Seq(Proof) /\ r.size \in Int /\ r.sepsize \in Int
        /\ m.uids \in Seq(Dev) /\ m.counters \in Seq(Nat) /\ m.proofs \in Seq(Proof)
    BY RepFields DEF Holds, MsgHolds, Msg
  <1>2. w \in Seq(Dev) /\ c \in Seq(Nat) /\ pfs \in Seq(Proof)
    BY <1>1, ConcatType
  <1>3. Carries(w, c, S \cup T)
    BY <1>1, CarriesConcat DEF Holds, MsgHolds
  <1>4. Covers(pfs, P \cup T)
    BY <1>1, CoversConcat DEF Holds, MsgHolds
  <1>5. k \in Nat /\ RecordCount(r.uids) \in Nat /\ RecordCount(w) = RecordCount(r.uids) + k
    BY <1>1, RecordCountType, CountConcat
  <1>6. appendReport(r, m) = s
    BY DEF appendReport
  <1>7. r.size + k \in Int /\ r.sepsize + Len(m.uids) - k \in Int
    BY <1>1, <1>5, LenProperties
  <1>. HIDE DEF w, c, pfs, k
  <1>8. s \in Rep /\ s.uids = w /\ s.counters = c /\ s.proofs = pfs
    BY <1>1, <1>2, <1>7, UpdateAll DEF Rep
  <1>9. s.size = r.size + k
    BY <1>1 DEF Rep
  <1>. HIDE DEF s
  <1>. QED
    BY <1>1, <1>3, <1>4, <1>5, <1>6, <1>8, <1>9 DEF Holds

\* The records that setAside leaves, and those that it sets aside.
Kept(r) == Listed(SubSeq(r.uids, 1, Closed(r.uids)),
                  SubSeq(r.counters, 1, Closed(r.uids)))
Aside(r) == Listed(SubSeq(r.uids, Closed(r.uids) + 1, Len(r.uids)),
                   SubSeq(r.counters, Closed(r.uids) + 1, Len(r.uids)))

\* The open group is set aside with its records, and the last proof with its
\* own.
LEMMA SetAsideHolds ==
  ASSUME NEW r, NEW S, NEW P, Holds(r, S, P), r.proofs # <<>>
  PROVE  LET a == Closed(r.uids)
             t == SubSeq(r.uids, a + 1, Len(r.uids))
             tc == SubSeq(r.counters, a + 1, Len(r.uids))
         IN  /\ t \in Seq(Dev) /\ tc \in Seq(Nat)
             /\ \A i \in 1..Len(t) : t[i] # NOID
             /\ Back(r.proofs) \in Proof /\ Back(r.proofs) \subseteq P
             /\ Holds(setAside(r), Kept(r), P \ Back(r.proofs))
             /\ Carries(t, tc, Aside(r))
             /\ Kept(r) \cap Aside(r) = {} /\ S = Kept(r) \cup Aside(r)
  <1>. DEFINE a == Closed(r.uids)
              t == SubSeq(r.uids, a + 1, Len(r.uids))
              tc == SubSeq(r.counters, a + 1, Len(r.uids))
              w == SubSeq(r.uids, 1, a)
              c == SubSeq(r.counters, 1, a)
              pfs == PopBack(r.proofs)
              i == r.size - uncompleted(r.uids)
              s == [r EXCEPT !.uids = w, !.counters = c, !.proofs = pfs, !.size = i]
  <1>1. /\ r \in Rep /\ r.uids \in Seq(Dev) /\ r.counters \in Seq(Nat)
        /\ r.proofs \in Seq(Proof) /\ r.size \in Int
    BY RepFields DEF Holds
  <1>2. Carries(r.uids, r.counters, S) /\ Covers(r.proofs, P)
    BY DEF Holds
  <1>3. a \in 0..Len(r.uids)
    BY <1>1, ClosedFacts
  <1>4. /\ t \in Seq(Dev) /\ Len(t) = uncompleted(r.uids) /\ Len(t) \in Nat
        /\ \A j \in 1..Len(t) : t[j] # NOID
    BY <1>1, TailFacts DEF OpenGroup
  <1>. HIDE DEF a
  <1>5. /\ w \in Seq(Dev) /\ c \in Seq(Nat) /\ tc \in Seq(Nat)
        /\ RecordCount(r.uids) = RecordCount(w) + RecordCount(t)
        /\ Listed(w, c) \cap Listed(t, tc) = {} /\ S = Listed(w, c) \cup Listed(t, tc)
        /\ Carries(w, c, Listed(w, c)) /\ Carries(t, tc, Listed(t, tc))
    BY <1>1, <1>2, <1>3, CarriesSplit
  <1>6. Listed(w, c) = Kept(r) /\ Listed(t, tc) = Aside(r)
    BY DEF Kept, Aside, a
  <1>7. /\ pfs \in Seq(Proof) /\ Back(r.proofs) \in Proof
        /\ Covers(pfs, P \ Back(r.proofs)) /\ Back(r.proofs) \subseteq P
    BY <1>1, <1>2, CoversPop
  <1>8. i \in Int
    BY <1>1, <1>4
  <1>9. setAside(r) = s
    BY DEF setAside, a
  <1>10. i >= RecordCount(w)
    <2>1. RecordCount(t) = Len(t)
      BY <1>4, CountRecords
    <2>2. RecordCount(w) \in Nat /\ r.size >= RecordCount(w) + Len(t)
      BY <1>5, <2>1, RecordCountType DEF Holds
    <2>. QED
      BY <1>1, <1>4, <2>2
  <1>. HIDE DEF t, tc, w, c, pfs, i
  <1>11. s \in Rep /\ s.uids = w /\ s.counters = c /\ s.proofs = pfs
    BY <1>1, <1>5, <1>7, <1>8, UpdateSize DEF Rep
  <1>12. s.size = i
    BY <1>1 DEF Rep
  <1>. HIDE DEF s
  <1>13. Holds(setAside(r), Kept(r), P \ Back(r.proofs))
    BY <1>5, <1>6, <1>7, <1>9, <1>10, <1>11, <1>12 DEF Holds
  <1>. QED
    BY <1>4, <1>5, <1>6, <1>7, <1>13 DEF t, tc, a

\* Records and a proof are put back.
LEMMA PutBackHolds ==
  ASSUME NEW r, NEW S, NEW P, Holds(r, S, P), r.proofs # <<>>,
         NEW t \in Seq(Dev), NEW tc \in Seq(Nat), \A j \in 1..Len(t) : t[j] # NOID,
         NEW U, Carries(t, tc, U), S \cap U = {},
         NEW tp \in Proof, tp \cap P = {}
  PROVE  Holds(putBack(r, t, tc, tp), S \cup U, P \cup tp)
  <1>. DEFINE n == uncompleted(r.uids) % aggsize
              i == r.size + Len(t)
              pfs == IF n # 0 THEN XorBack(r.proofs, tp) ELSE Append(r.proofs, tp)
              Put(s, f) == [s EXCEPT !.uids = s.uids \o t, !.counters = s.counters \o tc,
                                     !.proofs = f, !.size = s.size + Len(t)]
              sep == [r EXCEPT !.uids = Append(r.uids, NOID),
                               !.counters = Append(r.counters, 0),
                               !.sepsize = r.sepsize + 1]
  <1>1. /\ r \in Rep /\ r.uids \in Seq(Dev) /\ r.counters \in Seq(Nat)
        /\ r.proofs \in Seq(Proof) /\ r.size \in Int /\ r.sepsize \in Int
        /\ Covers(r.proofs, P) /\ Carries(r.uids, r.counters, S)
    BY RepFields DEF Holds
  <1>2. Len(t) \in Nat /\ RecordCount(t) = Len(t)
    BY LenProperties, CountRecords
  <1>3. ASSUME NEW s, Holds(s, S, P), NEW f \in Seq(Proof), Covers(f, P \cup tp)
        PROVE  Holds(Put(s, f), S \cup U, P \cup tp)
    <2>. DEFINE w == s.uids \o t
                c == s.counters \o tc
                q == [s EXCEPT !.uids = w, !.counters = c, !.proofs = f,
                               !.size = s.size + Len(t)]
    <2>1. /\ s \in Rep /\ s.uids \in Seq(Dev) /\ s.counters \in Seq(Nat)
          /\ s.size \in Int
      BY <1>3, RepFields DEF Holds
    <2>2. w \in Seq(Dev) /\ c \in Seq(Nat)
      BY <2>1, ConcatType
    <2>3. Carries(w, c, S \cup U)
      BY <1>3, <2>1, CarriesConcat DEF Holds
    <2>4. RecordCount(s.uids) \in Nat /\ RecordCount(w) = RecordCount(s.uids) + Len(t)
      BY <1>2, <2>1, CountConcat, RecordCountType
    <2>5. s.size + Len(t) \in Int
      BY <1>2, <2>1
    <2>. HIDE DEF w, c
    <2>6. q \in Rep /\ q.uids = w /\ q.counters = c /\ q.proofs = f
      BY <2>1, <2>2, <2>5, UpdateSize DEF Rep
    <2>7. q.size = s.size + Len(t)
      BY <2>1 DEF Rep
    <2>8. q.size >= RecordCount(w)
      BY <1>2, <1>3, <2>1, <2>4, <2>7 DEF Holds
    <2>9. q = Put(s, f)
      BY DEF w, c
    <2>. HIDE DEF q, Put
    <2>10. Holds(q, S \cup U, P \cup tp)
      BY <1>3, <2>3, <2>6, <2>8 DEF Holds
    <2>. QED
      BY <2>9, <2>10
  <1>4. CASE n + Len(t) <= aggsize
    <2>1. putBack(r, t, tc, tp) = fixProofs(Put(r, pfs))
      BY <1>4 DEF putBack
    <2>2. pfs \in Seq(Proof) /\ Covers(pfs, P \cup tp)
      <3>. HIDE DEF n
      <3>. QED
        BY <1>1, AppendType, XorBackType, CoversAppend, CoversXor
    <2>. HIDE DEF Put, pfs
    <2>3. Holds(Put(r, pfs), S \cup U, P \cup tp)
      BY <1>3, <2>2
    <2>. QED
      BY <2>1, <2>3, FixProofsHolds
  <1>5. CASE ~(n + Len(t) <= aggsize)
    <2>. DEFINE w == Append(r.uids, NOID)
                c == Append(r.counters, 0)
                f == Append(r.proofs, tp)
    <2>1. w \in Seq(Dev) /\ c \in Seq(Nat) /\ r.sepsize + 1 \in Int
      BY <1>1, AppendType, DevNat
    <2>2. Carries(w, c, S) /\ RecordCount(w) = RecordCount(r.uids)
      BY <1>1, CarriesSep
    <2>3. f \in Seq(Proof) /\ Covers(f, P \cup tp)
      BY <1>1, AppendType, CoversAppend
    <2>4. putBack(r, t, tc, tp) = Put(sep, f)
      BY <1>5 DEF putBack
    <2>. HIDE DEF w, c, f, Put
    <2>5. sep \in Rep /\ sep.uids = w /\ sep.counters = c /\ sep.proofs = r.proofs
      BY <1>1, <2>1, UpdateSep DEF Rep, w, c
    <2>6. sep.size = r.size
      BY <1>1 DEF Rep
    <2>. HIDE DEF sep
    <2>7. Holds(sep, S, P)
      BY <1>1, <2>2, <2>5, <2>6 DEF Holds
    <2>8. Holds(Put(sep, f), S \cup U, P \cup tp)
      BY <1>3, <2>3, <2>7
    <2>. QED
      BY <2>4, <2>8
  <1>. QED
    BY <1>4, <1>5

\* handleUpReq keeps the records of both reports.
LEMMA MergeHolds ==
  ASSUME NEW r, RepOK(r), NEW S, Holds(r, S, S),
         NEW m, MsgOK(m), NEW T, MsgHolds(m, T), S \cap T = {}
  PROVE  Holds(merge(r, m), S \cup T, S \cup T)
  <1>. DEFINE a == Closed(r.uids)
              n == Len(r.uids)
              t == SubSeq(r.uids, a + 1, n)
              tc == SubSeq(r.counters, a + 1, n)
              b == Back(r.proofs)
  <1>1. r.uids \in Seq(Dev) /\ a \in 0..n /\ n \in Nat
    BY ClosedFacts, LenProperties DEF RepOK, Rep
  <1>2. CASE a = n
    <2>1. merge(r, m) = appendReport(r, m)
      BY <1>2 DEF merge
    <2>. QED
      BY <2>1, AppendReportHolds
  <1>3. CASE a # n
    <2>1. r.uids # <<>>
      BY <1>1, <1>3, EmptySeq
    <2>2. r.proofs # <<>>
      BY <2>1 DEF RepOK
    <2>3. /\ t \in Seq(Dev) /\ tc \in Seq(Nat)
          /\ \A i \in 1..Len(t) : t[i] # NOID
          /\ b \in Proof /\ b \subseteq S
      BY <2>2, SetAsideHolds
    <2>. DEFINE S1 == Kept(r)
                S2 == Aside(r)
    <2>4. /\ Holds(setAside(r), S1, S \ b) /\ Carries(t, tc, S2)
          /\ S1 \cap S2 = {} /\ S = S1 \cup S2
      BY <2>2, SetAsideHolds
    <2>. HIDE DEF S1, S2
    <2>. DEFINE s == appendReport(setAside(r), m)
    <2>5. merge(r, m) = putBack(s, t, tc, b)
      BY <1>3 DEF merge
    <2>6. s.proofs # <<>>
      BY <2>1, SetAsideOK, AppendReportOK
    <2>. HIDE DEF t, tc, b
    <2>7. Holds(s, S1 \cup T, (S \ b) \cup T)
      BY <2>4, AppendReportHolds
    <2>. HIDE DEF s
    <2>8. /\ (S1 \cup T) \cap S2 = {} /\ b \cap ((S \ b) \cup T) = {}
          /\ (S1 \cup T) \cup S2 = S \cup T /\ ((S \ b) \cup T) \cup b = S \cup T
      BY <2>3, <2>4
    <2>9. Holds(putBack(s, t, tc, b), (S1 \cup T) \cup S2, ((S \ b) \cup T) \cup b)
      BY <2>3, <2>4, <2>6, <2>7, <2>8, PutBackHolds
    <2>. QED
      BY <2>5, <2>8, <2>9
  <1>. QED
    BY <1>2, <1>3

-----------------------------------------------------------------------------
(***************************************************************************)
(* The inductive invariant: the reports still in use have no record in     *)
(* common, so that none of them is merged twice.                           *)
(***************************************************************************)

\* No counter is ahead of its prover.
Past(S) == \A x \in S : x[2] <= attestcount[x[1]]

Fresh == /\ \A p \in Prover : Past(recs[p])
         /\ \A m \in net : Past(m.recs)

\* The reports being aggregated and those on their way are disjoint.
Apart == /\ \A p, q \in Prover :
               p # q /\ ~reported[p] /\ ~reported[q] => recs[p] \cap recs[q] = {}
         /\ \A p \in Prover, m \in net : ~reported[p] => recs[p] \cap m.recs = {}
         /\ \A m, n \in net : m # n => m.recs \cap n.recs = {}

ContentInv ==
    /\ ShapeInv
    /\ \A p \in Prover : Holds(aggreport[p], recs[p], recs[p])
    /\ \A m \in net : MsgHolds(m, m.recs)
    /\ Fresh
    /\ Apart

\* A report with no entries holds no record.
LEMMA EmptyHolds ==
  ASSUME NEW r \in Rep, r.uids = <<>>, r.counters = <<>>, r.proofs = <<>>, r.size >= 0
  PROVE  Holds(r, {}, {})
  <1>1. Len(<<>>) = 0
    BY EmptySeq
  <1>2. 1..0 = {}
    OBVIOUS
  <1>3. Pos(r.uids) = {}
    BY <1>1, <1>2 DEF Pos
  <1>4. Carries(r.uids, r.counters, {})
    BY <1>1, <1>3 DEF Carries, Distinct, Listed
  <1>5. Covers(r.proofs, {})
    BY <1>1, <1>2 DEF Covers
  <1>6. RecordCount(r.uids) = 0
    BY <1>3, FS_EmptySet DEF RecordCount, Pos
  <1>. QED
    BY <1>4, <1>5, <1>6 DEF Holds

\* Initially there are no records.
LEMMA InitContent == Init => ContentInv
  <1>. SUFFICES ASSUME Init PROVE ContentInv
    OBVIOUS
  <1>1. EmptyReport \in Rep
    BY EmptySeq DEF EmptyReport, Rep
  <1>2. Holds(EmptyReport, {}, {})
    BY <1>1, EmptyHolds DEF EmptyReport
  <1>3. \A p \in Prover : recs[p] = {} /\ aggreport[p] = EmptyReport
    BY DEF Init
  <1>4. net = {}
    BY DEF Init
  <1>5. Fresh /\ Apart
    BY <1>3, <1>4 DEF Fresh, Apart, Past
  <1>. QED
    BY <1>2, <1>3, <1>4, <1>5, InitShape DEF ContentInv

\* The prover p replaces its report by one with the records S, and the reports
\* left on their way are part of those there were.  What it holds is apart
\* from what the others have.
LEMMA OwnContent ==
  ASSUME ContentInv, ShapeInv', NEW p \in Prover, NEW r, NEW S, Holds(r, S, S),
         aggreport' = [aggreport EXCEPT ![p] = r], recs' = [recs EXCEPT ![p] = S],
         attestcount' = attestcount, net' \subseteq net, Past(S),
         \A q \in Prover \ {p} : ~reported[q] => S \cap recs[q] = {},
         \A m \in net' : S \cap m.recs = {},
         \A q \in Prover \ {p} : reported'[q] = reported[q]
  PROVE  ContentInv'
  <1>1. /\ recs'[p] = S /\ aggreport'[p] = r
        /\ \A q \in Prover \ {p} : recs'[q] = recs[q] /\ aggreport'[q] = aggreport[q]
    BY DEF ContentInv, ShapeInv
  <1>2. \A q \in Prover : Holds(aggreport'[q], recs'[q], recs'[q])
    BY <1>1 DEF ContentInv
  <1>3. \A m \in net' : MsgHolds(m, m.recs)
    BY DEF ContentInv
  <1>4. Fresh'
    BY <1>1 DEF ContentInv, Fresh, Past
  <1>5. Apart'
    <2>1. ASSUME NEW q \in Prover, NEW o \in Prover, q # o, ~reported'[q], ~reported'[o]
          PROVE  recs'[q] \cap recs'[o] = {}
      <3>1. CASE q = p
        BY <1>1, <2>1, <3>1
      <3>2. CASE o = p
        BY <1>1, <2>1, <3>2
      <3>3. CASE q # p /\ o # p
        BY <1>1, <2>1, <3>3 DEF ContentInv, Apart
      <3>. QED
        BY <3>1, <3>2, <3>3
    <2>2. ASSUME NEW q \in Prover, NEW m \in net', ~reported'[q]
          PROVE  recs'[q] \cap m.recs = {}
      BY <1>1, <2>2 DEF ContentInv, Apart
    <2>3. \A m, n \in net' : m # n => m.recs \cap n.recs = {}
      BY DEF ContentInv, Apart
    <2>. QED
      BY <2>1, <2>2, <2>3 DEF Apart
  <1>. QED
    BY <1>2, <1>3, <1>4, <1>5 DEF ContentInv

\* The prover p, with the report r of the records S and those of rest still on
\* their way, adds its own record and sends the whole.
LEMMA SendContent ==
  ASSUME ContentInv, ShapeInv', NEW p \in Prover, NEW r, RepOK(r), NEW S, Holds(r, S, S),
         NEW rest \in SUBSET net, Past(S), S \in SUBSET Record,
         \A q \in Prover \ {p} : ~reported[q] => S \cap recs[q] = {},
         \A m \in rest : S \cap m.recs = {},
         sendUpReq(p, r, S, rest)
  PROVE  ContentInv'
  <1>. DEFINE own == addOwnReport(p, r)
              k == attestcount[p] + 1
              rec == <<p, k>>
              all == S \cup {rec}
              msg == [source |-> p, uids |-> own.uids, counters |-> own.counters,
                      proofs |-> own.proofs, recs |-> all]
  <1>1. attestcount[p] \in Nat
    BY DEF ContentInv, ShapeInv
  <1>2. \A T : Past(T) => rec \notin T
    BY <1>1 DEF Past
  <1>3. Holds(own, all, all)
    BY <1>1, <1>2, AddOwnReportHolds DEF RepOK
  <1>4. /\ aggreport' = [aggreport EXCEPT ![p] = own]
        /\ recs' = [recs EXCEPT ![p] = all]
        /\ attestcount' = [attestcount EXCEPT ![p] = k]
        /\ reported' = [reported EXCEPT ![p] = TRUE]
        /\ net' = rest \cup {msg}
    BY DEF sendUpReq
  <1>5. MsgOK(msg)
    BY <1>4 DEF ShapeInv
  <1>6. MsgHolds(msg, msg.recs) /\ msg.recs = all
    <2>1. /\ msg.uids = own.uids /\ msg.counters = own.counters
          /\ msg.proofs = own.proofs /\ msg.recs = all
      OBVIOUS
    <2>. HIDE DEF msg, own, all
    <2>. QED
      BY <1>3, <1>5, <2>1 DEF MsgHolds, MsgOK, Holds
  <1>7. ASSUME NEW T \in SUBSET Record, Past(T) PROVE \A x \in T : x[2] <= attestcount'[x[1]]
    <2>1. TAKE x \in T
    <2>2. x[1] \in Prover /\ x[2] \in Nat /\ x[2] <= attestcount[x[1]]
      BY <1>7 DEF Record, Past
    <2>3. attestcount'[x[1]] = IF x[1] = p THEN attestcount[p] + 1 ELSE attestcount[x[1]]
      BY <1>4, <2>2 DEF ContentInv, ShapeInv
    <2>. QED
      BY <1>1, <2>2, <2>3
  <1>8. k <= attestcount'[p] /\ rec[1] = p /\ rec[2] = k
    BY <1>1, <1>4 DEF ContentInv, ShapeInv
  <1>. HIDE DEF own, msg, rec, k
  <1>9. /\ recs'[p] = all /\ aggreport'[p] = own /\ reported'[p] = TRUE
        /\ \A q \in Prover \ {p} : /\ recs'[q] = recs[q] /\ aggreport'[q] = aggreport[q]
                                   /\ reported'[q] = reported[q]
    BY <1>4 DEF ContentInv, ShapeInv
  <1>10. /\ \A q \in Prover : recs[q] \in SUBSET Record /\ Past(recs[q])
         /\ \A m \in net : m.recs \in SUBSET Record /\ Past(m.recs)
    BY DEF ContentInv, ShapeInv, Fresh, MsgOK, Msg
  <1>11. \A q \in Prover : Holds(aggreport'[q], recs'[q], recs'[q])
    BY <1>3, <1>9 DEF ContentInv
  <1>12. \A m \in net' : MsgHolds(m, m.recs)
    BY <1>4, <1>6 DEF ContentInv
  <1>13. \A x \in all : x[2] <= attestcount'[x[1]]
    BY <1>7, <1>8
  <1>14. Fresh'
    <2>1. \A q \in Prover : \A x \in recs'[q] : x[2] <= attestcount'[x[1]]
      BY <1>7, <1>9, <1>10, <1>13
    <2>2. \A m \in net' : \A x \in m.recs : x[2] <= attestcount'[x[1]]
      BY <1>4, <1>6, <1>7, <1>10, <1>13
    <2>. QED
      BY <2>1, <2>2 DEF Fresh, Past
  <1>15. Apart'
    <2>1. ASSUME NEW q \in Prover, NEW o \in Prover, q # o, ~reported'[q], ~reported'[o]
          PROVE  recs'[q] \cap recs'[o] = {}
      BY <1>9, <2>1 DEF ContentInv, Apart
    <2>2. ASSUME NEW q \in Prover, NEW m \in net', ~reported'[q]
          PROVE  recs'[q] \cap m.recs = {}
      <3>1. q # p /\ recs'[q] = recs[q] /\ ~reported[q]
        BY <1>9, <2>2
      <3>2. CASE m = msg
        BY <1>2, <1>6, <1>10, <3>1, <3>2
      <3>3. CASE m \in rest
        BY <3>1, <3>3 DEF ContentInv, Apart
      <3>. QED
        BY <1>4, <3>2, <3>3
    <2>3. ASSUME NEW m \in rest PROVE msg.recs \cap m.recs = {}
      BY <1>2, <1>6, <1>10
    <2>4. \A m, n \in rest : m # n => m.recs \cap n.recs = {}
      BY DEF ContentInv, Apart
    <2>5. \A m, n \in net' : m # n => m.recs \cap n.recs = {}
      BY <1>4, <2>3, <2>4
    <2>. QED
      BY <2>1, <2>2, <2>5 DEF Apart
  <1>. QED
    BY <1>11, <1>12, <1>14, <1>15 DEF ContentInv

\* Every action keeps the invariant.
LEMMA NextContent == ContentInv /\ [Next]_vars => ContentInv'
  <1>. SUFFICES ASSUME ContentInv, [Next]_vars PROVE ContentInv'
    OBVIOUS
  <1>0. ShapeInv /\ ShapeInv'
    BY NextShape DEF ContentInv
  <1>1. ASSUME NEW p \in Prover, startAttestation(p) PROVE ContentInv'
    <2>. DEFINE r == clearReport(aggreport[p])
    <2>1. aggreport[p] \in Rep /\ aggreport[p].size >= 0
      BY RecordCountType DEF ContentInv, Holds, Rep
    <2>2. /\ r \in Rep /\ r.uids = <<>> /\ r.counters = <<>> /\ r.proofs = <<>>
          /\ r.size = aggreport[p].size
      <3>1. <<>> \in Seq(Dev) /\ <<>> \in Seq(Nat) /\ <<>> \in Seq(Proof)
        BY EmptySeq
      <3>. QED
        BY <2>1, <3>1 DEF clearReport, Rep
    <2>3. Holds(r, {}, {})
      BY <2>1, <2>2, EmptyHolds
    <2>4. /\ aggreport' = [aggreport EXCEPT ![p] = r]
          /\ recs' = [recs EXCEPT ![p] = {}]
          /\ reported' = [reported EXCEPT ![p] = FALSE]
          /\ attestcount' = attestcount /\ net' = net
      BY <1>1 DEF startAttestation
    <2>5. \A q \in Prover \ {p} : reported'[q] = reported[q]
      BY <2>4 DEF ContentInv, ShapeInv
    <2>6. Past({})
      BY DEF Past
    <2>. HIDE DEF r
    <2>. QED
      BY <1>0, <2>3, <2>4, <2>5, <2>6, OwnContent
  <1>2. ASSUME NEW p \in Prover, report(p) PROVE ContentInv'
    <2>1. sendUpReq(p, aggreport[p], recs[p], net) /\ ~reported[p]
      BY <1>2 DEF report
    <2>2. RepOK(aggreport[p]) /\ Holds(aggreport[p], recs[p], recs[p])
      BY DEF ContentInv, ShapeInv
    <2>3. Past(recs[p]) /\ recs[p] \in SUBSET Record
      BY DEF ContentInv, ShapeInv, Fresh
    <2>4. /\ \A q \in Prover \ {p} : ~reported[q] => recs[p] \cap recs[q] = {}
          /\ \A m \in net : recs[p] \cap m.recs = {}
      BY <2>1 DEF ContentInv, Apart
    <2>. QED
      BY <1>0, <2>1, <2>2, <2>3, <2>4, SendContent
  <1>3. ASSUME NEW p \in Prover, handleUpReq(p) PROVE ContentInv'
    <2>. DEFINE r(m) == merge(aggreport[p], m)
                rs(m) == recs[p] \cup m.recs
                Waits(m) == /\ aggreport' = [aggreport EXCEPT ![p] = r(m)]
                            /\ recs' = [recs EXCEPT ![p] = rs(m)]
                            /\ net' = net \ {m}
                            /\ UNCHANGED <<attestcount, reported>>
    <2>1. PICK m \in net : sendUpReq(p, r(m), rs(m), net \ {m}) \/ Waits(m)
      BY <1>3 DEF handleUpReq
    <2>2. ~reported[p]
      BY <1>3 DEF handleUpReq
    <2>3. /\ MsgOK(m) /\ MsgHolds(m, m.recs) /\ RepOK(aggreport[p])
          /\ Holds(aggreport[p], recs[p], recs[p])
      BY DEF ContentInv, ShapeInv
    <2>4. recs[p] \cap m.recs = {}
      BY <2>2 DEF ContentInv, Apart
    <2>5. RepOK(r(m)) /\ Holds(r(m), rs(m), rs(m))
      BY <2>3, <2>4, MergeOK, MergeHolds
    <2>6. rs(m) \in SUBSET Record /\ Past(rs(m))
      BY <2>3 DEF ContentInv, ShapeInv, MsgOK, Msg, Fresh, Past
    <2>7. \A q \in Prover \ {p} : ~reported[q] => rs(m) \cap recs[q] = {}
      BY <2>2 DEF ContentInv, Apart
    <2>8. \A n \in net \ {m} : rs(m) \cap n.recs = {}
      BY <2>2 DEF ContentInv, Apart
    <2>9. net \ {m} \in SUBSET net
      OBVIOUS
    <2>. HIDE DEF r, rs
    <2>10. CASE sendUpReq(p, r(m), rs(m), net \ {m})
      BY <1>0, <2>5, <2>6, <2>7, <2>8, <2>9, <2>10, SendContent
    <2>11. CASE Waits(m)
      BY <1>0, <2>5, <2>6, <2>7, <2>8, <2>11, OwnContent
    <2>. QED
      BY <2>1, <2>10, <2>11
  <1>4. ASSUME collect PROVE ContentInv'
    <2>1. net' \subseteq net /\ UNCHANGED <<aggreport, attestcount, reported, recs>>
      BY <1>4 DEF collect
    <2>2. Fresh' /\ Apart'
      BY <2>1 DEF ContentInv, Fresh, Apart, Past
    <2>. QED
      BY <1>0, <2>1, <2>2 DEF ContentInv
  <1>5. CASE UNCHANGED vars
    <2>1. Fresh' /\ Apart'
      BY <1>5 DEF vars, ContentInv, Fresh, Apart, Past
    <2>. QED
      BY <1>0, <1>5, <2>1 DEF vars, ContentInv
  <1>6. CASE Over
    BY <1>5, <1>6 DEF Over
  <1>. QED
    BY <1>1, <1>2, <1>3, <1>4, <1>5, <1>6 DEF Next

\* The reports that are still in use are disjoint, and each is complete.
THEOREM ContentCorrect == Spec => []ContentInv
  BY InitContent, NextContent, PTL DEF Spec

-----------------------------------------------------------------------------
\* Whatever reports handleUpReq merges and in whatever order, a report holds
\* exactly the records of its parts, and the number of entries that the
\* collector counts is the number of these records.
THEOREM RecordsKeptCorrect == Spec => []RecordsKept
  <1>1. ASSUME NEW r, NEW S, r.uids \in Seq(Dev), Carries(r.uids, r.counters, S)
        PROVE  Records(r) = S /\ RecordCount(r.uids) = Cardinality(S)
    <2>1. Records(r) = Listed(r.uids, r.counters)
      BY DEF Records, RecordsIn, Listed, Pos
    <2>. QED
      BY <1>1, <2>1, CountListed DEF Carries
  <1>2. ContentInv => RecordsKept
    BY <1>1, RepFields DEF ContentInv, ShapeInv, Holds, MsgHolds, Msg, RecordsKept
  <1>. QED
    BY <1>2, ContentCorrect, PTL

\* The MAC of every record is in one proof of its report and in no other: in
\* no XOR of handleUpReq and addOwnReport does a record cancel itself out.
THEOREM EachProvedOnceCorrect == Spec => []EachProvedOnce
  <1>1. ASSUME NEW r, NEW S, Carries(r.uids, r.counters, S), Covers(r.proofs, S),
               NEW rec \in Records(r)
        PROVE  \E k \in 1..Len(r.proofs) :
                  /\ rec \in r.proofs[k]
                  /\ \A l \in 1..Len(r.proofs) : rec \in r.proofs[l] => l = k
    <2>1. Records(r) = Listed(r.uids, r.counters)
      BY DEF Records, RecordsIn, Listed, Pos
    <2>2. rec \in S
      BY <1>1, <2>1 DEF Carries
    <2>. QED
      BY <1>1, <2>2 DEF Covers
  <1>2. ContentInv => EachProvedOnce
    <2>1. SUFFICES ASSUME ContentInv, NEW r \in Reports, NEW rec \in Records(r)
                   PROVE  \E k \in 1..Len(r.proofs) :
                             /\ rec \in r.proofs[k]
                             /\ \A l \in 1..Len(r.proofs) : rec \in r.proofs[l] => l = k
      BY DEF EachProvedOnce
    <2>2. \E S : Carries(r.uids, r.counters, S) /\ Covers(r.proofs, S)
      BY <2>1 DEF ContentInv, Reports, Holds, MsgHolds
    <2>. QED
      BY <1>1, <2>1, <2>2
  <1>. QED
    BY <1>2, ContentCorrect, PTL

\* The unsigned size of a report, which startAttestation does not reset, never
\* falls below the number of its records: handleUpReq can subtract the records
\* it sets aside.
THEOREM SizeCoversCorrect == Spec => []SizeCovers
  <1>1. ContentInv => SizeCovers
    BY DEF ContentInv, Holds, SizeCovers
  <1>. QED
    BY <1>1, ContentCorrect, PTL
=============================================================================
