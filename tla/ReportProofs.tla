---------------------------- MODULE ReportProofs ----------------------------
(***************************************************************************)
(* The shape of aggregated reports, for every aggsize, number of provers   *)
(* and number of periods.                                                  *)
(***************************************************************************)
EXTENDS Report, SequenceTheorems, FiniteSetTheorems, WellFoundedInduction, TLAPS

Dev == Prover \cup {NOID}

LEMMA DevNat == Dev \subseteq Nat /\ NOID \in Dev /\ NOID \notin Prover /\ aggsize \in Nat /\ aggsize > 0
  BY ReportAssumption DEF Dev, NOID

IsClosed(u, a) == /\ a = 0 \/ u[a] = NOID
                  /\ \A i \in (a + 1)..Len(u) : u[i] # NOID

\* The search for the last NOID ends at the last one, or at the beginning.
LEMMA ClosedFacts ==
  ASSUME NEW u \in Seq(Dev)
  PROVE  Closed(u) \in 0..Len(u) /\ IsClosed(u, Closed(u))
  <1>. DEFINE n == Len(u)
              S == {k \in 0..n : k = n \/ u[n - k] = NOID}
  <1>1. n \in Nat
    BY LenProperties
  <1>2. S \in SUBSET Nat /\ n \in S
    BY <1>1
  <1>. HIDE DEF S
  <1>3. PICK k \in S : \A l \in S : ~(<<l, k>> \in OpToRel(<, Nat))
    BY <1>2, WFMin, NatLessThanWellFounded
  <1>4. \A l \in S : ~(l < k)
    BY <1>2, <1>3 DEF OpToRel
  <1>5. k \in 0..n /\ n - k \in 0..n /\ (n - k = 0 \/ u[n - k] = NOID)
    BY <1>1 DEF S
  <1>6. ASSUME NEW i \in (n - k + 1)..n PROVE u[i] # NOID
    <2>1. n - i \in 0..n /\ n - i < k /\ n - (n - i) = i
      BY <1>1, <1>5
    <2>2. n - i \notin S
      BY <1>4, <2>1
    <2>. QED
      BY <2>1, <2>2 DEF S
  <1>7. IsClosed(u, n - k)
    BY <1>5, <1>6 DEF IsClosed
  <1>. QED
    BY <1>5, <1>7 DEF Closed, IsClosed

LEMMA ClosedUnique ==
  ASSUME NEW u \in Seq(Dev), NEW a \in 0..Len(u), IsClosed(u, a)
  PROVE  Closed(u) = a /\ uncompleted(u) = Len(u) - a
  <1>1. Closed(u) \in 0..Len(u) /\ IsClosed(u, Closed(u)) /\ Len(u) \in Nat
    BY ClosedFacts, LenProperties
  <1>2. ~(Closed(u) < a) /\ ~(a < Closed(u))
    BY <1>1 DEF IsClosed
  <1>. QED
    BY <1>1, <1>2 DEF uncompleted

-----------------------------------------------------------------------------
(***************************************************************************)
(* Groups under concatenation.                                             *)
(***************************************************************************)

\* No run of more than aggsize records.
NoRun(u) == \A i \in 1..Len(u) :
               i + aggsize <= Len(u)
                  => \E j \in i..(i + aggsize) : u[j] = NOID

Bounded(u) == uncompleted(u) < aggsize /\ NoRun(u)

\* A report is appended to closed groups.
LEMMA AppendGroups ==
  ASSUME NEW u \in Seq(Dev), NEW v \in Seq(Dev), Closed(u) = Len(u),
         NoRun(u), Bounded(v)
  PROVE  u \o v \in Seq(Dev) /\ Bounded(u \o v)
  <1>. DEFINE w == u \o v
  <1>1. /\ w \in Seq(Dev) /\ Len(w) = Len(u) + Len(v)
        /\ Len(u) \in Nat /\ Len(v) \in Nat
        /\ \A i \in 1..Len(u) : w[i] = u[i]
        /\ \A i \in 1..Len(v) : w[Len(u) + i] = v[i]
    <2>1. w \in Seq(Dev) /\ Len(w) = Len(u) + Len(v) /\ Len(u) \in Nat /\ Len(v) \in Nat
      BY ConcatProperties, LenProperties
    <2>2. \A i \in 1..(Len(u) + Len(v)) :
             w[i] = IF i <= Len(u) THEN u[i] ELSE v[i - Len(u)]
      BY ConcatProperties
    <2>. HIDE DEF w
    <2>3. ASSUME NEW i \in 1..Len(v) PROVE w[Len(u) + i] = v[i]
      <3>1. Len(u) + i \in 1..(Len(u) + Len(v)) /\ ~(Len(u) + i <= Len(u)) /\ Len(u) + i - Len(u) = i
        BY <2>1
      <3>. QED
        BY <2>2, <3>1
    <2>4. ASSUME NEW i \in 1..Len(u) PROVE w[i] = u[i]
      <3>1. i \in 1..(Len(u) + Len(v)) /\ i <= Len(u)
        BY <2>1
      <3>. QED
        BY <2>2, <3>1
    <2>. QED
      BY <2>1, <2>3, <2>4
  <1>. HIDE DEF w
  <1>2. Closed(v) \in 0..Len(v) /\ IsClosed(v, Closed(v))
    BY ClosedFacts
  <1>3. Len(u) # 0 => u[Len(u)] = NOID
    BY ClosedFacts DEF IsClosed
  <1>4. IsClosed(w, Len(u) + Closed(v))
    <2>1. ASSUME NEW i \in (Len(u) + Closed(v) + 1)..Len(w) PROVE w[i] # NOID
      <3>1. i - Len(u) \in (Closed(v) + 1)..Len(v) /\ Len(u) + (i - Len(u)) = i
            /\ i - Len(u) \in 1..Len(v)
        BY <1>1, <1>2
      <3>. QED
        BY <1>1, <1>2, <3>1 DEF IsClosed
    <2>2. Len(u) + Closed(v) = 0 \/ w[Len(u) + Closed(v)] = NOID
      <3>1. CASE Closed(v) = 0
        BY <1>1, <1>3, <3>1
      <3>2. CASE Closed(v) # 0
        BY <1>1, <1>2, <3>2 DEF IsClosed
      <3>. QED
        BY <3>1, <3>2
    <2>. QED
      BY <2>1, <2>2 DEF IsClosed
  <1>5. uncompleted(w) < aggsize
    <2>1. Len(u) + Closed(v) \in 0..Len(w)
      BY <1>1, <1>2
    <2>2. uncompleted(w) = Len(w) - (Len(u) + Closed(v))
      BY <1>1, <1>4, <2>1, ClosedUnique
    <2>3. Len(w) - (Len(u) + Closed(v)) = Len(v) - Closed(v)
      BY <1>1, <1>2
    <2>. QED
      BY <2>2, <2>3 DEF Bounded, uncompleted
  <1>6. ASSUME NEW i \in 1..Len(w), i + aggsize <= Len(w)
        PROVE  \E j \in i..(i + aggsize) : w[j] = NOID
    <2>1. CASE i + aggsize <= Len(u)
      <3>1. i \in 1..Len(u)
        BY <1>1, <2>1, DevNat
      <3>2. PICK j \in i..(i + aggsize) : u[j] = NOID
        BY <2>1, <3>1 DEF NoRun
      <3>3. j \in 1..Len(u)
        BY <1>1, <2>1, <3>1, DevNat
      <3>. QED
        BY <1>1, <3>2, <3>3
    <2>2. CASE i > Len(u)
      <3>1. i - Len(u) \in 1..Len(v) /\ (i - Len(u)) + aggsize <= Len(v)
        BY <1>1, <1>6, <2>2, DevNat
      <3>2. PICK j \in (i - Len(u))..((i - Len(u)) + aggsize) : v[j] = NOID
        BY <3>1 DEF Bounded, NoRun
      <3>3. j \in 1..Len(v) /\ Len(u) + j \in i..(i + aggsize)
        BY <1>1, <3>1, <3>2, DevNat
      <3>. QED
        BY <1>1, <3>2, <3>3
    <2>3. CASE i <= Len(u) /\ Len(u) < i + aggsize
      <3>1. Len(u) \in i..(i + aggsize) /\ Len(u) \in 1..Len(u) /\ Len(u) # 0
        BY <1>1, <2>3, DevNat
      <3>. QED
        BY <1>1, <1>3, <3>1
    <2>. QED
      BY <1>1, <2>1, <2>2, <2>3, DevNat
  <1>. QED
    BY <1>1, <1>5, <1>6 DEF Bounded, NoRun, w

\* Records are appended to the group that is not closed.
LEMMA AppendRecords ==
  ASSUME NEW u \in Seq(Dev), NEW t \in Seq(Dev), NoRun(u),
         \A i \in 1..Len(t) : t[i] # NOID,
         uncompleted(u) + Len(t) <= aggsize
  PROVE  /\ u \o t \in Seq(Dev) /\ NoRun(u \o t)
         /\ uncompleted(u \o t) = uncompleted(u) + Len(t)
  <1>. DEFINE w == u \o t
              a == Closed(u)
  <1>1. /\ w \in Seq(Dev) /\ Len(w) = Len(u) + Len(t)
        /\ Len(u) \in Nat /\ Len(t) \in Nat
        /\ \A i \in 1..Len(u) : w[i] = u[i]
        /\ \A i \in (Len(u) + 1)..Len(w) : w[i] = t[i - Len(u)]
    BY ConcatProperties, LenProperties
  <1>. HIDE DEF w
  <1>2. a \in 0..Len(u) /\ IsClosed(u, a) /\ uncompleted(u) = Len(u) - a
    BY ClosedFacts DEF uncompleted
  <1>. HIDE DEF a
  <1>3. IsClosed(w, a)
    <2>1. ASSUME NEW i \in (a + 1)..Len(w) PROVE w[i] # NOID
      <3>1. CASE i <= Len(u)
        BY <1>1, <1>2, <3>1 DEF IsClosed
      <3>2. CASE i > Len(u)
        <4>1. i \in (Len(u) + 1)..Len(w) /\ i - Len(u) \in 1..Len(t)
          BY <1>1, <1>2, <3>2
        <4>. QED
          BY <1>1, <4>1
      <3>. QED
        BY <1>1, <1>2, <3>1, <3>2
    <2>2. a = 0 \/ w[a] = NOID
      BY <1>1, <1>2 DEF IsClosed
    <2>. QED
      BY <2>1, <2>2 DEF IsClosed
  <1>4. uncompleted(w) = uncompleted(u) + Len(t)
    <2>1. a \in 0..Len(w)
      BY <1>1, <1>2
    <2>2. uncompleted(w) = Len(w) - a
      BY <1>1, <1>3, <2>1, ClosedUnique
    <2>. QED
      BY <1>1, <1>2, <2>2
  <1>5. ASSUME NEW i \in 1..Len(w), i + aggsize <= Len(w)
        PROVE  \E j \in i..(i + aggsize) : w[j] = NOID
    <2>1. CASE i + aggsize <= Len(u)
      <3>1. i \in 1..Len(u)
        BY <1>1, <2>1, DevNat
      <3>2. PICK j \in i..(i + aggsize) : u[j] = NOID
        BY <2>1, <3>1 DEF NoRun
      <3>3. j \in 1..Len(u)
        BY <1>1, <2>1, <3>1, DevNat
      <3>. QED
        BY <1>1, <3>2, <3>3
    <2>2. CASE i + aggsize > Len(u)
      <3>1. a \in i..(i + aggsize) /\ a \in 1..Len(u) /\ a # 0
        BY <1>1, <1>2, <1>5, <2>2, DevNat
      <3>. QED
        BY <1>1, <1>2, <3>1 DEF IsClosed
    <2>. QED
      BY <1>1, <2>1, <2>2, DevNat
  <1>. QED
    BY <1>1, <1>4, <1>5 DEF NoRun, w

\* The group that is not closed is closed.
LEMMA CloseGroup ==
  ASSUME NEW u \in Seq(Dev), NoRun(u)
  PROVE  LET w == Append(u, NOID) IN
         w \in Seq(Dev) /\ NoRun(w) /\ uncompleted(w) = 0 /\ Closed(w) = Len(w)
  <1>. DEFINE w == Append(u, NOID)
  <1>1. /\ w \in Seq(Dev) /\ Len(w) = Len(u) + 1 /\ Len(u) \in Nat
        /\ \A i \in 1..Len(u) : w[i] = u[i]
        /\ w[Len(u) + 1] = NOID
    BY AppendProperties, LenProperties, DevNat
  <1>. HIDE DEF w
  <1>2. Len(w) \in 0..Len(w) /\ IsClosed(w, Len(w))
    BY <1>1 DEF IsClosed
  <1>3. Closed(w) = Len(w) /\ uncompleted(w) = 0
    BY <1>1, <1>2, ClosedUnique
  <1>4. ASSUME NEW i \in 1..Len(w), i + aggsize <= Len(w)
        PROVE  \E j \in i..(i + aggsize) : w[j] = NOID
    <2>1. CASE i + aggsize <= Len(u)
      <3>1. i \in 1..Len(u)
        BY <1>1, <2>1, DevNat
      <3>2. PICK j \in i..(i + aggsize) : u[j] = NOID
        BY <2>1, <3>1 DEF NoRun
      <3>3. j \in 1..Len(u)
        BY <1>1, <2>1, <3>1, DevNat
      <3>. QED
        BY <1>1, <3>2, <3>3
    <2>2. CASE i + aggsize > Len(u)
      <3>1. Len(u) + 1 \in i..(i + aggsize)
        BY <1>1, <1>4, <2>2, DevNat
      <3>. QED
        BY <1>1, <3>1
    <2>. QED
      BY <1>1, <2>1, <2>2, DevNat
  <1>. QED
    BY <1>1, <1>3, <1>4 DEF NoRun, w

-----------------------------------------------------------------------------
(***************************************************************************)
(* The operations on a report.                                             *)
(***************************************************************************)

Rep == [uids : Seq(Dev), counters : Seq(Nat), proofs : Seq(Proof),
        size : Int, sepsize : Int]

\* The records of the last group of u, and what stands before it.
OpenGroup(u) == SubSeq(u, Closed(u) + 1, Len(u))
ClosedGroups(u) == SubSeq(u, 1, Closed(u))

Paired(r) == Len(r.counters) = Len(r.uids)

RepOK(r) == /\ r \in Rep
            /\ Paired(r)
            /\ Bounded(r.uids)
            /\ r.uids # <<>> => r.proofs # <<>>

LEMMA RecordCountType ==
  ASSUME NEW u \in Seq(Dev)
  PROVE  RecordCount(u) \in Nat
  <1>1. Len(u) \in Nat
    BY LenProperties
  <1>2. IsFiniteSet(1..Len(u))
    BY <1>1, FS_Interval
  <1>3. {i \in 1..Len(u) : u[i] # NOID} \subseteq 1..Len(u)
    OBVIOUS
  <1>. QED
    BY <1>2, <1>3, FS_Subset, FS_CardinalityType, Zenon DEF RecordCount

LEMMA FrontFacts ==
  ASSUME NEW u \in Seq(Dev), NoRun(u)
  PROVE  LET f == ClosedGroups(u) IN
         f \in Seq(Dev) /\ Len(f) = Closed(u) /\ NoRun(f) /\ Closed(f) = Len(f)
  <1>. DEFINE f == ClosedGroups(u)
              a == Closed(u)
  <1>1. a \in 0..Len(u) /\ IsClosed(u, a) /\ Len(u) \in Nat
    BY ClosedFacts, LenProperties
  <1>2. f \in Seq(Dev) /\ Len(f) = a /\ \A i \in 1..a : f[i] = u[i]
    <2>. HIDE DEF a
    <2>1. \A i \in 1..a : u[i] \in Dev
      BY <1>1, ElementOfSeq
    <2>. QED
      BY <1>1, <2>1, SubSeqProperties DEF ClosedGroups, a
  <1>. HIDE DEF f, a
  <1>3. Len(f) \in 0..Len(f) /\ IsClosed(f, Len(f))
    BY <1>1, <1>2 DEF IsClosed
  <1>4. Closed(f) = Len(f)
    BY <1>2, <1>3, ClosedUnique
  <1>5. ASSUME NEW i \in 1..Len(f), i + aggsize <= Len(f)
        PROVE  \E j \in i..(i + aggsize) : f[j] = NOID
    <2>1. i \in 1..Len(u) /\ i + aggsize <= Len(u)
      BY <1>1, <1>2, <1>5, DevNat
    <2>2. PICK j \in i..(i + aggsize) : u[j] = NOID
      BY <2>1 DEF NoRun
    <2>3. j \in 1..a
      BY <1>1, <1>2, <1>5, <2>2, DevNat
    <2>. QED
      BY <1>2, <2>2, <2>3
  <1>. QED
    BY <1>2, <1>4, <1>5 DEF NoRun, f, a

LEMMA TailFacts ==
  ASSUME NEW u \in Seq(Dev)
  PROVE  LET t == OpenGroup(u) IN
         /\ t \in Seq(Dev) /\ Len(t) = uncompleted(u) /\ Len(t) \in Nat
         /\ \A i \in 1..Len(t) : t[i] # NOID
  <1>. DEFINE t == OpenGroup(u)
              a == Closed(u)
  <1>1. a \in 0..Len(u) /\ IsClosed(u, a) /\ Len(u) \in Nat
    BY ClosedFacts, LenProperties
  <1>2. /\ t \in Seq(Dev) /\ Len(t) = Len(u) - a
        /\ \A i \in 1..Len(t) : t[i] = u[a + i]
    <2>. HIDE DEF a
    <2>1. a + 1 \in 1..(Len(u) + 1) /\ Len(u) \in a..Len(u)
      BY <1>1
    <2>2. \A i \in (a + 1)..Len(u) : u[i] \in Dev
      BY <1>1, ElementOfSeq
    <2>. QED
      BY <1>1, <2>1, <2>2, SubSeqProperties DEF OpenGroup, a
  <1>. HIDE DEF t, a
  <1>3. ASSUME NEW i \in 1..Len(t) PROVE t[i] # NOID
    <2>1. a + i \in (a + 1)..Len(u)
      BY <1>1, <1>2
    <2>. QED
      BY <1>1, <1>2, <2>1 DEF IsClosed
  <1>4. Len(t) = uncompleted(u) /\ Len(t) \in Nat
    BY <1>1, <1>2 DEF uncompleted, a
  <1>. QED
    BY <1>2, <1>3, <1>4 DEF t

LEMMA XorBackType ==
  ASSUME NEW pfs \in Seq(Proof), NEW pf \in Proof, pfs # <<>>
  PROVE  XorBack(pfs, pf) \in Seq(Proof) /\ XorBack(pfs, pf) # <<>>
  <1>1. Len(pfs) \in Nat /\ Len(pfs) # 0 /\ pfs \in [1..Len(pfs) -> Proof]
    BY LenProperties, EmptySeq
  <1>2. Len(pfs) \in 1..Len(pfs)
    BY <1>1
  <1>3. xor(pfs[Len(pfs)], pf) \in Proof
    BY <1>1, <1>2 DEF xor, Proof
  <1>4. XorBack(pfs, pf) \in [1..Len(pfs) -> Proof]
    BY <1>1, <1>2, <1>3 DEF XorBack
  <1>5. XorBack(pfs, pf) \in Seq(Proof)
    BY <1>1, <1>4, SeqDef
  <1>6. Len(XorBack(pfs, pf)) = Len(pfs)
    BY <1>1, <1>4, <1>5, LenProperties
  <1>. QED
    BY <1>1, <1>5, <1>6, EmptySeq

LEMMA AppendType ==
  ASSUME NEW S, NEW s \in Seq(S), NEW e \in S
  PROVE  Append(s, e) \in Seq(S) /\ Append(s, e) # <<>> /\ Len(Append(s, e)) = Len(s) + 1
  BY AppendProperties, LenProperties, EmptySeq

LEMMA ConcatType ==
  ASSUME NEW S, NEW s \in Seq(S), NEW t \in Seq(S)
  PROVE  /\ s \o t \in Seq(S) /\ Len(s \o t) = Len(s) + Len(t)
         /\ t # <<>> => s \o t # <<>>
  <1>1. /\ s \o t \in Seq(S) /\ Len(s \o t) = Len(s) + Len(t)
        /\ Len(s) \in Nat /\ Len(t) \in Nat
    BY ConcatProperties, LenProperties
  <1>2. t # <<>> => Len(t) # 0
    BY EmptySeq
  <1>3. t # <<>> => Len(s \o t) # 0
    BY <1>1, <1>2
  <1>4. Len(<<>>) = 0
    BY EmptySeq
  <1>. QED
    BY <1>1, <1>3, <1>4

\* Updates of a report, whatever its lists hold.
LEMMA UpdateSep ==
  ASSUME NEW A, NEW B, NEW C,
         NEW r \in [uids : A, counters : B, proofs : C, size : Int, sepsize : Int],
         NEW w \in A, NEW c \in B, NEW j \in Int
  PROVE  LET s == [r EXCEPT !.uids = w, !.counters = c, !.sepsize = j] IN
         /\ s \in [uids : A, counters : B, proofs : C, size : Int, sepsize : Int]
         /\ s.uids = w /\ s.counters = c /\ s.proofs = r.proofs
  OBVIOUS

LEMMA UpdateSize ==
  ASSUME NEW A, NEW B, NEW C,
         NEW r \in [uids : A, counters : B, proofs : C, size : Int, sepsize : Int],
         NEW w \in A, NEW c \in B, NEW f \in C, NEW i \in Int
  PROVE  LET s == [r EXCEPT !.uids = w, !.counters = c, !.proofs = f, !.size = i] IN
         /\ s \in [uids : A, counters : B, proofs : C, size : Int, sepsize : Int]
         /\ s.uids = w /\ s.counters = c /\ s.proofs = f
  OBVIOUS

LEMMA UpdateAll ==
  ASSUME NEW A, NEW B, NEW C,
         NEW r \in [uids : A, counters : B, proofs : C, size : Int, sepsize : Int],
         NEW w \in A, NEW c \in B, NEW f \in C, NEW i \in Int, NEW j \in Int
  PROVE  LET s == [r EXCEPT !.uids = w, !.counters = c, !.proofs = f,
                            !.size = i, !.sepsize = j] IN
         /\ s \in [uids : A, counters : B, proofs : C, size : Int, sepsize : Int]
         /\ s.uids = w /\ s.counters = c /\ s.proofs = f
  OBVIOUS

LEMMA RepFields ==
  ASSUME NEW r \in Rep
  PROVE  /\ r.uids \in Seq(Dev) /\ r.counters \in Seq(Nat)
         /\ r.proofs \in Seq(Proof) /\ r.size \in Int /\ r.sepsize \in Int
  BY DEF Rep

\* fixProofs closes the last group when it is full.
LEMMA FixProofsOK ==
  ASSUME NEW r \in Rep, Paired(r), NoRun(r.uids),
         uncompleted(r.uids) \in Nat, uncompleted(r.uids) <= aggsize,
         r.proofs # <<>>
  PROVE  RepOK(fixProofs(r)) /\ fixProofs(r).proofs = r.proofs
  <1>1. CASE full(r.uids)
    <2>. DEFINE w == Append(r.uids, NOID)
                c == Append(r.counters, 0)
    <2>1. w \in Seq(Dev) /\ NoRun(w) /\ uncompleted(w) = 0
      BY CloseGroup DEF Rep
    <2>2. c \in Seq(Nat) /\ Len(c) = Len(r.counters) + 1 /\ Len(w) = Len(r.uids) + 1
      BY AppendProperties, DevNat DEF Rep
    <2>. HIDE DEF w, c
    <2>3. fixProofs(r) = [r EXCEPT !.uids = w, !.counters = c, !.sepsize = r.sepsize + 1]
      BY <1>1 DEF fixProofs, w, c
    <2>. DEFINE f == [r EXCEPT !.uids = w, !.counters = c, !.sepsize = r.sepsize + 1]
    <2>4. f \in Rep /\ f.uids = w /\ f.counters = c /\ f.proofs = r.proofs
      <3>1. r.sepsize + 1 \in Int
        BY RepFields
      <3>. QED
        BY <2>1, <2>2, <3>1, UpdateSep DEF Rep
    <2>5. Bounded(w)
      BY <2>1, DevNat DEF Bounded
    <2>. HIDE DEF f
    <2>6. fixProofs(r) = f
      BY <2>3 DEF f
    <2>. QED
      BY <2>2, <2>4, <2>5, <2>6 DEF RepOK, Paired
  <1>2. CASE ~full(r.uids)
    <2>1. fixProofs(r) = r
      BY <1>2 DEF fixProofs
    <2>2. Bounded(r.uids)
      BY <1>2, DevNat DEF Bounded, full
    <2>. QED
      BY <2>1, <2>2 DEF RepOK
  <1>. QED
    BY <1>1, <1>2

LEMMA AddOwnReportOK ==
  ASSUME NEW p \in Prover, NEW r, RepOK(r), attestcount[p] \in Nat
  PROVE  /\ RepOK(addOwnReport(p, r))
         /\ addOwnReport(p, r).uids # <<>> /\ addOwnReport(p, r).proofs # <<>>
  <1>. DEFINE n == attestcount[p] + 1
              rec == <<p, n>>
              w == Append(r.uids, p)
              c == Append(r.counters, n)
              pfs == IF opensProof(r.uids) THEN Append(r.proofs, {rec})
                     ELSE XorBack(r.proofs, {rec})
              s == [r EXCEPT !.uids = w, !.counters = c, !.proofs = pfs,
                             !.size = r.size + 1]
  <1>1. /\ r.uids \in Seq(Dev) /\ r.counters \in Seq(Nat) /\ r.proofs \in Seq(Proof)
        /\ p \in Dev /\ p # NOID /\ n \in Nat /\ {rec} \in Proof
    BY DevNat DEF RepOK, Rep, Dev, Proof, Record
  <1>2. /\ w \in Seq(Dev) /\ NoRun(w) /\ uncompleted(w) = uncompleted(r.uids) + 1
        /\ Len(w) = Len(r.uids) + 1 /\ w # <<>>
    <2>. DEFINE t == <<p>>
    <2>1. t \in Seq(Dev) /\ Len(t) = 1 /\ \A i \in 1..Len(t) : t[i] # NOID
      BY <1>1
    <2>2. w = r.uids \o t
      BY <1>1, AppendIsConcat
    <2>3. uncompleted(r.uids) + Len(t) <= aggsize /\ NoRun(r.uids)
      <3>1. uncompleted(r.uids) \in Nat
        BY <1>1, TailFacts
      <3>. QED
        BY <2>1, <3>1, DevNat DEF RepOK, Bounded
    <2>. HIDE DEF t
    <2>4. /\ r.uids \o t \in Seq(Dev) /\ NoRun(r.uids \o t)
          /\ uncompleted(r.uids \o t) = uncompleted(r.uids) + 1
      BY <1>1, <2>1, <2>3, AppendRecords
    <2>5. Len(w) = Len(r.uids) + 1 /\ w # <<>>
      BY <1>1, AppendType
    <2>. QED
      BY <2>2, <2>4, <2>5
  <1>3. c \in Seq(Nat) /\ Len(c) = Len(r.counters) + 1
    BY <1>1, AppendType
  <1>4. pfs \in Seq(Proof) /\ pfs # <<>>
    <2>1. CASE opensProof(r.uids)
      BY <1>1, <2>1, AppendType
    <2>2. CASE ~opensProof(r.uids)
      <3>1. 0 % aggsize = 0
        BY DevNat
      <3>2. r.uids # <<>>
        BY <2>2, <3>1, EmptySeq DEF opensProof
      <3>3. r.proofs # <<>>
        BY <3>2 DEF RepOK
      <3>. QED
        BY <1>1, <2>2, <3>3, XorBackType
    <2>. QED
      BY <2>1, <2>2
  <1>5. addOwnReport(p, r) = fixProofs(s)
    BY DEF addOwnReport
  <1>. HIDE DEF w, c, pfs
  <1>6. s \in Rep /\ s.uids = w /\ s.counters = c /\ s.proofs = pfs
    <2>1. r \in Rep /\ r.size + 1 \in Int
      BY RepFields DEF RepOK
    <2>. QED
      BY <1>2, <1>3, <1>4, <2>1, UpdateSize DEF Rep
  <1>. HIDE DEF s
  <1>7. uncompleted(w) \in Nat /\ uncompleted(w) <= aggsize
    <2>1. uncompleted(r.uids) \in Nat
      BY <1>1, TailFacts
    <2>. QED
      BY <1>2, <2>1, DevNat DEF RepOK, Bounded
  <1>8. Paired(s)
    BY <1>2, <1>3, <1>6 DEF Paired, RepOK
  <1>9. RepOK(fixProofs(s)) /\ fixProofs(s).proofs = pfs
    BY <1>2, <1>4, <1>6, <1>7, <1>8, FixProofsOK
  <1>10. fixProofs(s).uids # <<>>
    <2>1. CASE full(w)
      <3>1. fixProofs(s).uids = Append(w, NOID)
        BY <1>6, <2>1 DEF fixProofs, Rep
      <3>. QED
        BY <1>2, <3>1, AppendType, DevNat
    <2>2. CASE ~full(w)
      BY <1>2, <1>6, <2>2 DEF fixProofs
    <2>. QED
      BY <2>1, <2>2
  <1>. QED
    BY <1>4, <1>5, <1>9, <1>10

Msg == [source : Prover, uids : Seq(Dev), counters : Seq(Nat),
        proofs : Seq(Proof), recs : SUBSET Record]

MsgOK(m) == /\ m \in Msg
            /\ Paired(m)
            /\ Bounded(m.uids)
            /\ m.uids # <<>>
            /\ m.proofs # <<>>

\* The report of a child after closed groups.
LEMMA AppendReportOK ==
  ASSUME NEW r \in Rep, Paired(r), NoRun(r.uids), Closed(r.uids) = Len(r.uids),
         NEW m, MsgOK(m)
  PROVE  RepOK(appendReport(r, m)) /\ appendReport(r, m).proofs # <<>>
         /\ appendReport(r, m).uids = r.uids \o m.uids
  <1>. DEFINE w == r.uids \o m.uids
              c == r.counters \o m.counters
              pfs == r.proofs \o m.proofs
              k == RecordCount(m.uids)
              s == [r EXCEPT !.uids = w, !.counters = c, !.proofs = pfs,
                             !.size = r.size + k,
                             !.sepsize = r.sepsize + Len(m.uids) - k]
  <1>1. /\ r.uids \in Seq(Dev) /\ r.counters \in Seq(Nat) /\ r.proofs \in Seq(Proof)
        /\ m.uids \in Seq(Dev) /\ m.counters \in Seq(Nat) /\ m.proofs \in Seq(Proof)
    BY DEF MsgOK, Msg, Rep
  <1>2. w \in Seq(Dev) /\ Bounded(w)
    BY <1>1, AppendGroups DEF MsgOK
  <1>3. /\ Len(w) = Len(r.uids) + Len(m.uids) /\ Len(m.uids) \in Nat
        /\ c \in Seq(Nat) /\ Len(c) = Len(r.counters) + Len(m.counters)
        /\ pfs \in Seq(Proof) /\ pfs # <<>>
    BY <1>1, ConcatType, LenProperties DEF MsgOK
  <1>4. k \in Nat
    BY <1>1, RecordCountType
  <1>5. appendReport(r, m) = s
    BY DEF appendReport
  <1>. HIDE DEF w, c, pfs, k
  <1>6. s \in Rep /\ s.uids = w /\ s.counters = c /\ s.proofs = pfs
    <2>1. r.size + k \in Int /\ r.sepsize + Len(m.uids) - k \in Int
      BY <1>3, <1>4, RepFields
    <2>. QED
      BY <1>2, <1>3, <2>1, UpdateAll DEF Rep
  <1>. HIDE DEF s
  <1>7. Paired(s)
    BY <1>3, <1>6 DEF Paired, MsgOK
  <1>. QED
    BY <1>2, <1>3, <1>5, <1>6, <1>7 DEF RepOK, w

LEMMA SetAsideOK ==
  ASSUME NEW r, RepOK(r), r.uids # <<>>
  PROVE  LET s == setAside(r) IN
         /\ s \in Rep /\ Paired(s) /\ NoRun(s.uids)
         /\ Closed(s.uids) = Len(s.uids)
  <1>. DEFINE a == Closed(r.uids)
              w == SubSeq(r.uids, 1, a)
              c == SubSeq(r.counters, 1, a)
              pfs == PopBack(r.proofs)
              i == r.size - uncompleted(r.uids)
              s == [r EXCEPT !.uids = w, !.counters = c, !.proofs = pfs, !.size = i]
  <1>1. /\ r \in Rep /\ r.uids \in Seq(Dev) /\ r.counters \in Seq(Nat)
        /\ r.proofs \in Seq(Proof) /\ r.size \in Int /\ r.proofs # <<>>
        /\ Len(r.counters) = Len(r.uids) /\ NoRun(r.uids)
    BY RepFields DEF RepOK, Bounded, Paired
  <1>2. a \in 0..Len(r.uids) /\ Len(r.uids) \in Nat
    BY <1>1, ClosedFacts, LenProperties
  <1>3. w \in Seq(Dev) /\ NoRun(w) /\ Closed(w) = Len(w) /\ Len(w) = a
    BY <1>1, FrontFacts DEF ClosedGroups
  <1>. HIDE DEF a
  <1>4. c \in Seq(Nat) /\ Len(c) = a
    <2>1. \A j \in 1..a : r.counters[j] \in Nat
      BY <1>1, <1>2, ElementOfSeq
    <2>. QED
      BY <1>2, <2>1, SubSeqProperties
  <1>5. pfs \in Seq(Proof)
    <2>1. Len(r.proofs) \in Nat
      BY <1>1, LenProperties
    <2>2. \A j \in 1..(Len(r.proofs) - 1) : r.proofs[j] \in Proof
      BY <1>1, <2>1, ElementOfSeq
    <2>. QED
      BY <2>1, <2>2, SubSeqProperties DEF PopBack
  <1>6. i \in Int
    BY <1>1, TailFacts
  <1>7. setAside(r) = s
    BY DEF setAside, a
  <1>. HIDE DEF w, c, pfs, i
  <1>8. s \in Rep /\ s.uids = w /\ s.counters = c
    BY <1>1, <1>3, <1>4, <1>5, <1>6, UpdateSize DEF Rep
  <1>. HIDE DEF s
  <1>. QED
    BY <1>3, <1>4, <1>7, <1>8 DEF Paired

LEMMA SmallMod ==
  ASSUME NEW n \in Nat, NEW k \in Nat, k < n
  PROVE  k % n = k
  OBVIOUS

\* A group of fewer than aggsize records is put back.
LEMMA PutBackOK ==
  ASSUME NEW r, RepOK(r), r.proofs # <<>>,
         NEW t \in Seq(Dev), NEW tc \in Seq(Nat), NEW tp \in Proof,
         Len(tc) = Len(t), Len(t) < aggsize, \A i \in 1..Len(t) : t[i] # NOID
  PROVE  RepOK(putBack(r, t, tc, tp))
  <1>. DEFINE k == uncompleted(r.uids)
              n == k % aggsize
              i == r.size + Len(t)
              pfs == IF n # 0 THEN XorBack(r.proofs, tp) ELSE Append(r.proofs, tp)
              w == r.uids \o t
              c == r.counters \o tc
              joined == [r EXCEPT !.uids = w, !.counters = c, !.proofs = pfs,
                                  !.size = i]
              sep == [r EXCEPT !.uids = Append(r.uids, NOID),
                               !.counters = Append(r.counters, 0),
                               !.sepsize = r.sepsize + 1]
              apfs == Append(r.proofs, tp)
              apart == [sep EXCEPT !.uids = sep.uids \o t,
                                   !.counters = sep.counters \o tc,
                                   !.proofs = apfs,
                                   !.size = sep.size + Len(t)]
  <1>1. /\ r \in Rep /\ r.uids \in Seq(Dev) /\ r.counters \in Seq(Nat)
        /\ r.proofs \in Seq(Proof) /\ r.size \in Int /\ r.sepsize \in Int
        /\ Len(r.counters) = Len(r.uids) /\ NoRun(r.uids) /\ k < aggsize
    BY RepFields DEF RepOK, Bounded, Paired
  <1>2. k \in Nat /\ Len(t) \in Nat /\ Len(r.uids) \in Nat
    BY <1>1, TailFacts, LenProperties
  <1>. HIDE DEF k
  <1>3. n = k
    BY <1>1, <1>2, DevNat, SmallMod
  <1>4. putBack(r, t, tc, tp) =
          IF k + Len(t) <= aggsize THEN fixProofs(joined) ELSE apart
    <2>. HIDE DEF n
    <2>. QED
      BY <1>3 DEF putBack, n, k
  <1>5. CASE k + Len(t) <= aggsize
    <2>1. w \in Seq(Dev) /\ NoRun(w) /\ uncompleted(w) = k + Len(t)
      BY <1>1, <1>2, <1>5, AppendRecords DEF k
    <2>2. c \in Seq(Nat) /\ Len(c) = Len(r.counters) + Len(tc) /\ Len(w) = Len(r.uids) + Len(t)
      BY <1>1, ConcatType
    <2>3. pfs \in Seq(Proof) /\ pfs # <<>>
      <3>1. XorBack(r.proofs, tp) \in Seq(Proof) /\ XorBack(r.proofs, tp) # <<>>
        BY <1>1, XorBackType
      <3>2. Append(r.proofs, tp) \in Seq(Proof) /\ Append(r.proofs, tp) # <<>>
        BY <1>1, AppendType
      <3>. QED
        BY <3>1, <3>2
    <2>4. i \in Int
      BY <1>1, <1>2
    <2>. HIDE DEF w, c, pfs, i
    <2>5. joined \in Rep /\ joined.uids = w /\ joined.counters = c /\ joined.proofs = pfs
      BY <1>1, <2>1, <2>2, <2>3, <2>4, UpdateSize DEF Rep
    <2>. HIDE DEF joined
    <2>6. Paired(joined) /\ uncompleted(w) \in Nat /\ uncompleted(w) <= aggsize
      BY <1>1, <1>2, <1>5, <2>1, <2>2, <2>5 DEF Paired
    <2>7. RepOK(fixProofs(joined))
      BY <2>1, <2>3, <2>5, <2>6, FixProofsOK
    <2>. QED
      BY <1>4, <1>5, <2>7
  <1>6. CASE ~(k + Len(t) <= aggsize)
    <2>1. /\ Append(r.uids, NOID) \in Seq(Dev) /\ NoRun(Append(r.uids, NOID))
          /\ uncompleted(Append(r.uids, NOID)) = 0
      BY <1>1, CloseGroup
    <2>2. /\ Append(r.counters, 0) \in Seq(Nat)
          /\ Len(Append(r.counters, 0)) = Len(r.counters) + 1
          /\ Len(Append(r.uids, NOID)) = Len(r.uids) + 1
      BY <1>1, AppendType, DevNat
    <2>3. /\ sep \in Rep /\ sep.uids = Append(r.uids, NOID)
          /\ sep.counters = Append(r.counters, 0)
      <3>. DEFINE su == Append(r.uids, NOID)
                  sc == Append(r.counters, 0)
                  j == r.sepsize + 1
      <3>1. su \in Seq(Dev) /\ sc \in Seq(Nat) /\ j \in Int
        BY <1>1, <2>1, <2>2
      <3>. HIDE DEF su, sc, j
      <3>2. LET x == [r EXCEPT !.uids = su, !.counters = sc, !.sepsize = j] IN
            x \in Rep /\ x.uids = su /\ x.counters = sc
        BY <1>1, <3>1, UpdateSep DEF Rep
      <3>. QED
        BY <3>2 DEF su, sc, j
    <2>. HIDE DEF sep
    <2>4. /\ sep.uids \in Seq(Dev) /\ sep.counters \in Seq(Nat) /\ sep.size \in Int
          /\ Len(sep.counters) = Len(sep.uids) /\ NoRun(sep.uids)
          /\ uncompleted(sep.uids) = 0
      BY <1>1, <2>1, <2>2, <2>3, RepFields
    <2>. DEFINE aw == sep.uids \o t
                ac == sep.counters \o tc
                j == sep.size + Len(t)
    <2>5. aw \in Seq(Dev) /\ NoRun(aw) /\ uncompleted(aw) = Len(t)
      <3>1. uncompleted(sep.uids) + Len(t) <= aggsize
        BY <1>2, <2>4, DevNat
      <3>. QED
        BY <1>2, <2>4, <3>1, AppendRecords
    <2>6. ac \in Seq(Nat) /\ Len(ac) = Len(sep.counters) + Len(tc) /\ Len(aw) = Len(sep.uids) + Len(t)
      BY <2>4, ConcatType
    <2>7. apfs \in Seq(Proof) /\ apfs # <<>> /\ j \in Int
      <3>1. apfs \in Seq(Proof) /\ apfs # <<>>
        BY <1>1, AppendType
      <3>2. j \in Int
        BY <1>2, <2>4
      <3>. QED
        BY <3>1, <3>2
    <2>. HIDE DEF aw, ac, apfs, j
    <2>8. LET x == [sep EXCEPT !.uids = aw, !.counters = ac, !.proofs = apfs, !.size = j]
          IN x \in Rep /\ x.uids = aw /\ x.counters = ac /\ x.proofs = apfs
      BY <2>3, <2>5, <2>6, <2>7, UpdateSize DEF Rep
    <2>9. apart \in Rep /\ apart.uids = aw /\ apart.counters = ac /\ apart.proofs = apfs
      BY <2>8 DEF aw, ac, j
    <2>. HIDE DEF apart
    <2>10. Paired(apart) /\ Bounded(apart.uids)
      BY <2>4, <2>5, <2>6, <2>9 DEF Paired, Bounded
    <2>11. RepOK(apart)
      BY <2>7, <2>9, <2>10 DEF RepOK
    <2>. QED
      BY <1>4, <1>6, <2>11
  <1>. QED
    BY <1>5, <1>6

LEMMA MergeOK ==
  ASSUME NEW r, RepOK(r), NEW m, MsgOK(m)
  PROVE  RepOK(merge(r, m))
  <1>. DEFINE a == Closed(r.uids)
              n == Len(r.uids)
              t == SubSeq(r.uids, a + 1, n)
              tc == SubSeq(r.counters, a + 1, n)
  <1>1. /\ r \in Rep /\ r.uids \in Seq(Dev) /\ r.counters \in Seq(Nat)
        /\ r.proofs \in Seq(Proof) /\ Paired(r)
        /\ Len(r.counters) = n /\ NoRun(r.uids) /\ uncompleted(r.uids) < aggsize
    BY RepFields DEF RepOK, Bounded, Paired
  <1>2. a \in 0..n /\ n \in Nat
    BY <1>1, ClosedFacts, LenProperties
  <1>3. CASE a = n
    <2>1. merge(r, m) = appendReport(r, m)
      BY <1>3 DEF merge
    <2>. QED
      BY <1>1, <1>3, <2>1, AppendReportOK
  <1>4. CASE a # n
    <2>1. r.uids # <<>>
      BY <1>2, <1>4, EmptySeq
    <2>2. r.proofs # <<>>
      BY <2>1 DEF RepOK
    <2>. DEFINE s == appendReport(setAside(r), m)
    <2>3. RepOK(s) /\ s.proofs # <<>>
      BY <2>1, SetAsideOK, AppendReportOK
    <2>4. /\ t \in Seq(Dev) /\ Len(t) = uncompleted(r.uids) /\ Len(t) < aggsize
          /\ \A i \in 1..Len(t) : t[i] # NOID
      BY <1>1, TailFacts DEF OpenGroup
    <2>5. tc \in Seq(Nat) /\ Len(tc) = Len(t)
      <3>. HIDE DEF a, n
      <3>1. \A j \in (a + 1)..n : r.counters[j] \in Nat
        BY <1>1, <1>2, ElementOfSeq
      <3>2. tc \in Seq(Nat) /\ Len(tc) = IF a + 1 <= n THEN n - (a + 1) + 1 ELSE 0
        BY <1>2, <3>1, SubSeqProperties
      <3>3. uncompleted(r.uids) = n - a
        BY DEF uncompleted, n, a
      <3>. HIDE DEF tc, t
      <3>. QED
        BY <1>2, <1>4, <2>4, <3>2, <3>3
    <2>6. Back(r.proofs) \in Proof
      <3>1. Len(r.proofs) \in 1..Len(r.proofs)
        BY <1>1, <2>2, EmptySeq
      <3>. QED
        BY <1>1, <3>1, ElementOfSeq DEF Back
    <2>7. merge(r, m) = putBack(s, t, tc, Back(r.proofs))
      BY <1>4 DEF merge
    <2>. HIDE DEF s, t, tc
    <2>8. RepOK(putBack(s, t, tc, Back(r.proofs)))
      BY <2>3, <2>4, <2>5, <2>6, PutBackOK
    <2>. QED
      BY <2>7, <2>8
  <1>. QED
    BY <1>3, <1>4

-----------------------------------------------------------------------------
(***************************************************************************)
(* The inductive invariant.                                                *)
(***************************************************************************)

ShapeInv ==
    /\ aggreport \in [Prover -> Rep]
    /\ \A p \in Prover : RepOK(aggreport[p])
    /\ \A m \in net : MsgOK(m)
    /\ attestcount \in [Prover -> Nat]
    /\ period \in [Prover -> Nat]
    /\ reported \in [Prover -> BOOLEAN]
    /\ sum \in Nat
    /\ recs \in [Prover -> SUBSET Record]

LEMMA EmptyListsOK ==
  ASSUME NEW r \in Rep, r.uids = <<>>, r.counters = <<>>
  PROVE  RepOK(r)
  <1>1. r.uids \in Seq(Dev) /\ Len(r.uids) = 0 /\ Len(r.counters) = 0
    BY EmptySeq DEF Rep
  <1>2. Closed(r.uids) \in 0..Len(r.uids)
    BY <1>1, ClosedFacts
  <1>3. uncompleted(r.uids) < aggsize
    BY <1>1, <1>2, DevNat DEF uncompleted
  <1>4. NoRun(r.uids)
    BY <1>1, DevNat DEF NoRun
  <1>. QED
    BY <1>1, <1>3, <1>4 DEF RepOK, Paired, Bounded

LEMMA InitShape == Init => ShapeInv
  <1>. SUFFICES ASSUME Init PROVE ShapeInv
    OBVIOUS
  <1>1. EmptyReport \in Rep /\ EmptyReport.uids = <<>> /\ EmptyReport.counters = <<>>
    BY EmptySeq DEF EmptyReport, Rep
  <1>2. RepOK(EmptyReport)
    BY <1>1, EmptyListsOK
  <1>. QED
    BY <1>1, <1>2 DEF Init, ShapeInv

LEMMA SendUpReqShape ==
  ASSUME ShapeInv, NEW p \in Prover, NEW r, RepOK(r),
         NEW rs \in SUBSET Record, NEW rest \in SUBSET net,
         sendUpReq(p, r, rs, rest)
  PROVE  /\ aggreport' \in [Prover -> Rep]
         /\ \A q \in Prover : RepOK(aggreport[q])'
         /\ \A m \in net' : MsgOK(m)
         /\ attestcount' \in [Prover -> Nat]
         /\ reported' \in [Prover -> BOOLEAN]
         /\ recs' \in [Prover -> SUBSET Record]
  <1>. DEFINE own == addOwnReport(p, r)
              n == attestcount[p] + 1
              all == rs \cup {<<p, n>>}
              msg == [source |-> p, uids |-> own.uids, counters |-> own.counters,
                      proofs |-> own.proofs, recs |-> all]
  <1>1. attestcount[p] \in Nat
    BY DEF ShapeInv
  <1>2. RepOK(own) /\ own.uids # <<>> /\ own.proofs # <<>>
    BY <1>1, AddOwnReportOK
  <1>3. all \in SUBSET Record
    BY <1>1 DEF Record
  <1>4. /\ aggreport' = [aggreport EXCEPT ![p] = own]
        /\ recs' = [recs EXCEPT ![p] = all]
        /\ attestcount' = [attestcount EXCEPT ![p] = n]
        /\ reported' = [reported EXCEPT ![p] = TRUE]
        /\ net' = rest \cup {msg}
    BY DEF sendUpReq
  <1>. HIDE DEF own, all
  <1>5. own \in Rep
    BY <1>2 DEF RepOK
  <1>6. MsgOK(msg)
    <2>1. msg \in Msg
      BY <1>3, <1>5, RepFields DEF Msg
    <2>2. msg.uids = own.uids /\ msg.counters = own.counters /\ msg.proofs = own.proofs
      OBVIOUS
    <2>. HIDE DEF msg
    <2>. QED
      BY <1>2, <2>1, <2>2 DEF MsgOK, RepOK, Paired
  <1>. HIDE DEF msg
  <1>7. aggreport' \in [Prover -> Rep] /\ \A q \in Prover : RepOK(aggreport'[q])
    BY <1>2, <1>4, <1>5 DEF ShapeInv
  <1>8. \A m \in net' : MsgOK(m)
    BY <1>4, <1>6 DEF ShapeInv
  <1>9. attestcount' \in [Prover -> Nat] /\ recs' \in [Prover -> SUBSET Record]
    BY <1>1, <1>3, <1>4 DEF ShapeInv
  <1>10. reported' \in [Prover -> BOOLEAN]
    BY <1>4 DEF ShapeInv
  <1>. QED
    BY <1>7, <1>8, <1>9, <1>10

LEMMA NextShape == ShapeInv /\ [Next]_vars => ShapeInv'
  <1>. SUFFICES ASSUME ShapeInv, [Next]_vars PROVE ShapeInv'
    OBVIOUS
  <1>1. ASSUME NEW p \in Prover, startAttestation(p) PROVE ShapeInv'
    <2>. DEFINE r == clearReport(aggreport[p])
    <2>1. aggreport[p] \in Rep
      BY DEF ShapeInv
    <2>2. r \in Rep /\ r.uids = <<>> /\ r.counters = <<>>
      <3>1. <<>> \in Seq(Dev) /\ <<>> \in Seq(Nat) /\ <<>> \in Seq(Proof)
        BY EmptySeq
      <3>. QED
        BY <2>1, <3>1 DEF clearReport, Rep
    <2>3. RepOK(r)
      BY <2>2, EmptyListsOK
    <2>. HIDE DEF r
    <2>4. /\ aggreport' = [aggreport EXCEPT ![p] = r]
          /\ period' = [period EXCEPT ![p] = period[p] + 1]
          /\ recs' = [recs EXCEPT ![p] = {}]
          /\ reported' = [reported EXCEPT ![p] = FALSE]
          /\ UNCHANGED <<attestcount, net, sum>>
      BY <1>1 DEF startAttestation, r
    <2>5. aggreport' \in [Prover -> Rep] /\ \A q \in Prover : RepOK(aggreport'[q])
      BY <2>2, <2>3, <2>4 DEF ShapeInv
    <2>6. period' \in [Prover -> Nat] /\ recs' \in [Prover -> SUBSET Record]
      BY <2>4 DEF ShapeInv
    <2>7. reported' \in [Prover -> BOOLEAN]
      BY <2>4 DEF ShapeInv
    <2>. QED
      BY <2>4, <2>5, <2>6, <2>7 DEF ShapeInv
  <1>2. ASSUME NEW p \in Prover, report(p) PROVE ShapeInv'
    <2>1. sendUpReq(p, aggreport[p], recs[p], net) /\ UNCHANGED <<period, sum>>
      BY <1>2 DEF report
    <2>2. RepOK(aggreport[p]) /\ recs[p] \in SUBSET Record /\ net \in SUBSET net
      BY DEF ShapeInv
    <2>. QED
      BY <2>1, <2>2, SendUpReqShape DEF ShapeInv
  <1>3. ASSUME NEW p \in Prover, handleUpReq(p) PROVE ShapeInv'
    <2>. DEFINE r(m) == merge(aggreport[p], m)
                rs(m) == recs[p] \cup m.recs
                Waits(m) == /\ aggreport' = [aggreport EXCEPT ![p] = r(m)]
                            /\ recs' = [recs EXCEPT ![p] = rs(m)]
                            /\ net' = net \ {m}
                            /\ UNCHANGED <<attestcount, reported>>
    <2>1. PICK m \in net : sendUpReq(p, r(m), rs(m), net \ {m}) \/ Waits(m)
      BY <1>3 DEF handleUpReq
    <2>2. UNCHANGED <<period, sum>>
      BY <1>3 DEF handleUpReq
    <2>3. MsgOK(m) /\ RepOK(aggreport[p])
      BY DEF ShapeInv
    <2>4. RepOK(r(m)) /\ r(m) \in Rep
      BY <2>3, MergeOK DEF RepOK
    <2>5. rs(m) \in SUBSET Record
      BY <2>3 DEF ShapeInv, MsgOK, Msg
    <2>6. net \ {m} \in SUBSET net
      OBVIOUS
    <2>7. CASE sendUpReq(p, r(m), rs(m), net \ {m})
      <3>. HIDE DEF r, rs
      <3>. QED
        BY <2>2, <2>4, <2>5, <2>6, <2>7, SendUpReqShape DEF ShapeInv
    <2>8. CASE Waits(m)
      <3>. HIDE DEF r, rs
      <3>1. aggreport' \in [Prover -> Rep] /\ \A q \in Prover : RepOK(aggreport'[q])
        BY <2>4, <2>8 DEF ShapeInv
      <3>2. recs' \in [Prover -> SUBSET Record] /\ \A q \in net' : MsgOK(q)
        BY <2>5, <2>8 DEF ShapeInv
      <3>. QED
        BY <2>2, <2>8, <3>1, <3>2 DEF ShapeInv
    <2>. QED
      BY <2>1, <2>7, <2>8
  <1>4. ASSUME collect PROVE ShapeInv'
    <2>1. PICK m \in net : net' = net \ {m} /\ sum' = sum + RecordCount(m.uids)
      BY <1>4 DEF collect
    <2>2. MsgOK(m)
      BY DEF ShapeInv
    <2>3. RecordCount(m.uids) \in Nat
      BY <2>2, RecordCountType DEF MsgOK, Msg
    <2>4. sum' \in Nat
      BY <2>1, <2>3 DEF ShapeInv
    <2>. QED
      BY <1>4, <2>1, <2>4 DEF collect, ShapeInv
  <1>5. CASE UNCHANGED vars
    BY <1>5 DEF vars, ShapeInv
  <1>6. CASE Over
    BY <1>5, <1>6 DEF Over
  <1>. QED
    BY <1>1, <1>2, <1>3, <1>4, <1>5, <1>6 DEF Next

THEOREM ShapeCorrect == Spec => []ShapeInv
  BY InitShape, NextShape, PTL DEF Spec

-----------------------------------------------------------------------------
\* A report is well typed and its two lists are equally long, for every
\* aggsize: sendUpReq never reads counters beyond its end.
THEOREM ReportTypeCorrect == Spec => []ReportTypeOK
  <1>1. ShapeInv => ReportTypeOK
    BY DEF ShapeInv, ReportTypeOK, Reports, RepOK, MsgOK, Rep, Msg, Paired, Dev
  <1>. QED
    BY <1>1, ShapeCorrect, PTL

\* Whatever reports are merged in whatever order, no group exceeds aggsize
\* and none that is full stays open.
THEOREM GroupsBoundedCorrect == Spec => []GroupsBounded
  <1>1. ShapeInv => GroupsBounded
    BY DEF ShapeInv, GroupsBounded, Reports, RepOK, MsgOK, Bounded, NoRun
  <1>. QED
    BY <1>1, ShapeCorrect, PTL

\* addOwnReport and handleUpReq never take the last of no proofs.
THEOREM BackDefinedCorrect == Spec => []BackDefined
  <1>1. ShapeInv => BackDefined
    BY DEF ShapeInv, BackDefined, Reports, RepOK, MsgOK
  <1>. QED
    BY <1>1, ShapeCorrect, PTL
=============================================================================
