----------------------- MODULE TreeAttestationProofs -----------------------
(***************************************************************************)
(* The spanning trees implement Attestation, and the collector counts no   *)
(* record twice.                                                           *)
(***************************************************************************)
EXTENDS TreeAttestation, SpanningTreeProofs

\* What is pending, by its members.
LEMMA PendingMember ==
  ASSUME NEW r
  PROVE  r \in Pending <=> \/ \E m \in net : IsReport(m) /\ r \in m.report
                           \/ \E p \in Prover : r \in Held(p)
  <1>1. r \in UNION {m.report : m \in {n \in net : IsReport(n)}}
           <=> \E m \in net : IsReport(m) /\ r \in m.report
    BY Zenon
  <1>2. r \in UNION {Held(p) : p \in Prover} <=> \E p \in Prover : r \in Held(p)
    BY Zenon
  <1>. QED
    BY <1>1, <1>2, Zenon DEF Pending

LEMMA PendingMemberNext ==
  ASSUME NEW r
  PROVE  r \in Pending' <=> \/ \E m \in net' : IsReport(m) /\ r \in m.report
                            \/ \E p \in Prover : r \in Held(p)'
  <1>1. r \in UNION {m.report : m \in {n \in net' : IsReport(n)}}
           <=> \E m \in net' : IsReport(m) /\ r \in m.report
    BY Zenon
  <1>2. r \in UNION {Held(p)' : p \in Prover} <=> \E p \in Prover : r \in Held(p)'
    BY Zenon
  <1>. QED
    BY <1>1, <1>2, Zenon DEF Pending, IsReport

LEMMA ReportsTyped ==
  ASSUME TypeOK
  PROVE  /\ \A m \in net : IsReport(m) => m.report \in Reports
         /\ Pending \subseteq Record
  <1>1. \A m \in net : IsReport(m) => m.report \in Reports
    BY DEF TypeOK, Message, CommitReq, CommitResp, CommitAck, UpdateReq, IsReport
  <1>2. \A p \in Prover : Held(p) \subseteq Record
    BY DEF TypeOK, ReportType, Held, Reports
  <1>. QED
    BY <1>1, <1>2, PendingMember DEF Reports

-----------------------------------------------------------------------------
(***************************************************************************)
(* The four things a step can do to the records.                           *)
(***************************************************************************)

\* Records stay where they are, travel on, or are lost.
LEMMA LoseStep ==
  ASSUME RecordOnce,
         UNCHANGED <<attestcount, received, sum>>,
         \A p \in Prover : Held(p)' \subseteq Held(p),
         \A m \in net' : IsReport(m)
            => \E k \in net : IsReport(k) /\ k.report = m.report,
         \A m, n \in net' : IsReport(m) /\ IsReport(n) /\ m # n
            => m.report \cap n.report = {}
  PROVE  RecordOnce' /\ [A!Next]_(A!avars)
  <1>1. Pending' \subseteq Pending
    BY PendingMember, PendingMemberNext
  <1>2. \A m \in net', p \in Prover : IsReport(m) => m.report \cap Held(p)' = {}
    BY DEF RecordOnce
  <1>3. \A p, q \in Prover : p # q => Held(p)' \cap Held(q)' = {}
    BY DEF RecordOnce
  <1>4. RecordOnce'
    BY <1>1, <1>2, <1>3 DEF RecordOnce, Made
  <1>. DEFINE S == Pending \ Pending'
  <1>5. A!Lose(S) /\ S \in SUBSET Pending
    BY <1>1 DEF A!Lose
  <1>. QED
    BY <1>4, <1>5 DEF A!Next

\* Whether the records X are taken out of net, leaving rest, by prover p.
Takes(p, X, rest) ==
    /\ rest \subseteq net
    /\ \A m \in rest : IsReport(m) => m.report \cap X = {}
    /\ \A m \in net : IsReport(m) => m \in rest \/ m.report \subseteq X
    /\ X \subseteq Pending
    /\ \A q \in Prover : X \cap Held(q) = {}

LEMMA TakesNone ==
  ASSUME NEW p, NEW rest \in SUBSET net,
         \A m \in net : IsReport(m) => m \in rest
  PROVE  Takes(p, {}, rest)
  BY DEF Takes

LEMMA TakesReport ==
  ASSUME RecordOnce, NEW p, NEW m \in net, IsReport(m)
  PROVE  Takes(p, m.report, net \ {m})
  BY PendingMember DEF Takes, RecordOnce

\* Prover p aggregates the records X of a child.
LEMMA MergeStep ==
  ASSUME RecordOnce, NEW p \in Prover, NEW X, NEW rest, Takes(p, X, rest),
         UNCHANGED <<attestcount, received, sum>>,
         net' = rest,
         Held(p)' = Held(p) \cup X,
         \A q \in Prover : q # p => Held(q)' = Held(q)
  PROVE  RecordOnce' /\ [A!Next]_(A!avars)
  <1>1. Pending' = Pending
    <2>1. ASSUME NEW r \in Pending PROVE r \in Pending'
      BY PendingMember, PendingMemberNext DEF Takes
    <2>2. ASSUME NEW r \in Pending' PROVE r \in Pending
      <3>1. CASE \E m \in net' : IsReport(m) /\ r \in m.report
        BY <3>1, PendingMember DEF Takes
      <3>2. CASE \E q \in Prover : r \in Held(q)'
        BY <3>2, PendingMember DEF Takes
      <3>. QED
        BY <2>2, <3>1, <3>2, PendingMemberNext
    <2>. QED
      BY <2>1, <2>2
  <1>2. \A m \in net', q \in Prover : IsReport(m) => m.report \cap Held(q)' = {}
    BY DEF RecordOnce, Takes
  <1>3. \A q, s \in Prover : q # s => Held(q)' \cap Held(s)' = {}
    BY DEF RecordOnce, Takes
  <1>4. \A m, n \in net' : IsReport(m) /\ IsReport(n) /\ m # n
            => m.report \cap n.report = {}
    BY DEF RecordOnce, Takes
  <1>5. RecordOnce'
    BY <1>1, <1>2, <1>3, <1>4 DEF RecordOnce, Made
  <1>. QED
    BY <1>1, <1>5 DEF A!avars

\* Prover p reports what it holds, the records X and one of its own.
LEMMA SendStep ==
  ASSUME RecordOnce, TypeOK, NEW p \in Prover, ~reported[p],
         NEW X, NEW rest, Takes(p, X, rest), NEW m0,
         IsReport(m0),
         m0.report = Held(p) \cup X \cup {<<p, attestcount[p] + 1>>},
         net' = rest \cup {m0},
         attestcount' = [attestcount EXCEPT ![p] = @ + 1],
         UNCHANGED <<received, sum>>,
         Held(p)' = {},
         \A q \in Prover : q # p => Held(q)' = Held(q)
  PROVE  RecordOnce' /\ A!Attest(p)
  <1>. DEFINE own == <<p, attestcount[p] + 1>>
  <1>0. /\ attestcount \in [Prover -> Nat] /\ own[1] = p
        /\ own[2] = attestcount[p] + 1 /\ received \subseteq Record
        /\ Pending \subseteq Record
    BY ReportsTyped DEF TypeOK, ReportType
  <1>1. own \notin Pending /\ own \notin received
    BY <1>0 DEF RecordOnce, Made
  <1>2. \A r \in Record : r[1] \in Prover /\ r[2] \in Nat
    BY DEF Record
  <1>. HIDE DEF own
  <1>3. Pending' = Pending \cup {own}
    <2>1. ASSUME NEW r \in Pending PROVE r \in Pending'
      BY PendingMember, PendingMemberNext DEF Takes
    <2>2. own \in Pending'
      BY PendingMemberNext DEF own
    <2>3. ASSUME NEW r \in Pending' PROVE r \in Pending \cup {own}
      <3>1. CASE \E m \in net' : IsReport(m) /\ r \in m.report
        BY <3>1, PendingMember DEF Takes, own
      <3>2. CASE \E q \in Prover : r \in Held(q)'
        BY <3>2, PendingMember
      <3>. QED
        BY <2>3, <3>1, <3>2, PendingMemberNext
    <2>. QED
      BY <2>1, <2>2, <2>3
  <1>4. ASSUME NEW m \in rest, IsReport(m)
        PROVE  m.report \cap m0.report = {}
    <2>1. m \in net /\ own \notin m.report
      BY <1>1, <1>4, PendingMember DEF Takes
    <2>. QED
      BY <1>4, <2>1 DEF Takes, RecordOnce, own
  <1>5. \A m, n \in net' : IsReport(m) /\ IsReport(n) /\ m # n
            => m.report \cap n.report = {}
    BY <1>4 DEF RecordOnce, Takes
  <1>6. ASSUME NEW q \in Prover, q # p PROVE m0.report \cap Held(q) = {}
    <2>1. own \notin Held(q)
      BY <1>1, PendingMember
    <2>. QED
      BY <1>6, <2>1 DEF RecordOnce, Takes, own
  <1>7. \A m \in net', q \in Prover : IsReport(m) => m.report \cap Held(q)' = {}
    BY <1>6 DEF RecordOnce, Takes
  <1>8. \A q, s \in Prover : q # s => Held(q)' \cap Held(s)' = {}
    BY DEF RecordOnce
  <1>9. \A q \in Prover : attestcount[q] <= attestcount'[q]
    BY <1>0
  <1>10. Made(Pending)' /\ Made(received)'
    <2>1. ASSUME NEW r \in Record, r[2] <= attestcount[r[1]]
          PROVE  r[2] <= attestcount'[r[1]]
      BY <1>0, <1>2, <1>9, <2>1
    <2>2. own[2] <= attestcount'[own[1]]
      BY <1>0 DEF own
    <2>. QED
      BY <1>0, <1>3, <2>1, <2>2 DEF RecordOnce, Made
  <1>11. RecordOnce'
    BY <1>1, <1>3, <1>5, <1>7, <1>8, <1>10 DEF RecordOnce
  <1>. QED
    BY <1>3, <1>11 DEF A!Attest, own

\* The collector counts the records of a report.
LEMMA DeliverStep ==
  ASSUME RecordOnce, TypeOK, NEW m0 \in net, IsReport(m0),
         net' = net \ {m0},
         received' = received \cup m0.report,
         sum' = sum + Cardinality(m0.report),
         UNCHANGED attestcount,
         \A q \in Prover : Held(q)' = Held(q)
  PROVE  RecordOnce' /\ [A!Next]_(A!avars)
  <1>. DEFINE S == m0.report
  <1>1. IsFiniteSet(S) /\ S \subseteq Pending
    BY ReportsTyped, PendingMember DEF Reports
  <1>2. Pending' = Pending \ S
    <2>1. ASSUME NEW r \in Pending' PROVE r \in Pending \ S
      BY <2>1, PendingMember, PendingMemberNext DEF RecordOnce
    <2>2. ASSUME NEW r \in Pending \ S PROVE r \in Pending'
      BY <2>2, PendingMember, PendingMemberNext
    <2>. QED
      BY <2>1, <2>2
  <1>3. received \cap S = {}
    BY <1>1 DEF RecordOnce
  <1>4. /\ IsFiniteSet(received \cup S)
        /\ Cardinality(received \cup S) = Cardinality(received) + Cardinality(S)
    <2>1. IsFiniteSet(received)
      BY DEF RecordOnce
    <2>2. /\ IsFiniteSet(received \cup S)
          /\ Cardinality(received \cup S)
                = Cardinality(received) + Cardinality(S) - Cardinality(received \cap S)
      BY <1>1, <2>1, FS_Union, Zenon
    <2>3. Cardinality(received \cap S) = 0
      BY <1>3, FS_EmptySet, Zenon
    <2>4. Cardinality(received) \in Nat /\ Cardinality(S) \in Nat
      BY <1>1, <2>1, FS_CardinalityType, Zenon
    <2>. HIDE DEF S
    <2>. QED
      BY <2>2, <2>3, <2>4
  <1>5. RecordOnce'
    <2>1. \A m, n \in net' : IsReport(m) /\ IsReport(n) /\ m # n
            => m.report \cap n.report = {}
      BY DEF RecordOnce
    <2>2. \A m \in net', q \in Prover : IsReport(m) => m.report \cap Held(q)' = {}
      BY DEF RecordOnce
    <2>3. \A q, s \in Prover : q # s => Held(q)' \cap Held(s)' = {}
      BY DEF RecordOnce
    <2>4. received' \cap Pending' = {} /\ Made(Pending)' /\ Made(received)'
      BY <1>1, <1>2 DEF RecordOnce, Made
    <2>5. IsFiniteSet(received') /\ sum' = Cardinality(received')
      BY <1>4 DEF RecordOnce
    <2>. QED
      BY <2>1, <2>2, <2>3, <2>4, <2>5 DEF RecordOnce
  <1>6. A!Deliver(S)
    BY <1>2 DEF A!Deliver, A!Cardinality, Cardinality
  <1>. QED
    BY <1>1, <1>5, <1>6 DEF A!Next

-----------------------------------------------------------------------------
(***************************************************************************)
(* What each action does to the records.                                   *)
(***************************************************************************)
RecordStep == RecordOnce' /\ [A!Next]_(A!avars)

\* No record moves, reports may get lost.
LEMMA StillStep ==
  ASSUME RecordOnce,
         UNCHANGED <<attestcount, aggreport, reported, received, sum>>,
         \A m \in net' : IsReport(m) => m \in net
  PROVE  RecordStep
  <1>1. \A p \in Prover : Held(p)' \subseteq Held(p)
    BY DEF Held
  <1>2. \A m, n \in net' : IsReport(m) /\ IsReport(n) /\ m # n
            => m.report \cap n.report = {}
    BY DEF RecordOnce
  <1>. QED
    BY <1>1, <1>2, LoseStep DEF RecordStep

LEMMA SendUpReqStep ==
  ASSUME TypeOK, RecordOnce, NEW p \in Prover, ~reported[p],
         NEW first, NEW tid, NEW cs, NEW X, NEW rest, Takes(p, X, rest),
         sendUpReq(p, first, tid, cs, aggreport[p] \cup X, rest),
         UNCHANGED <<received, sum>>
  PROVE  RecordStep
  <1>. DEFINE own == addOwnReport(p, aggreport[p] \cup X)
  <1>1. PICK m0 \in UpdateReqs(p, first, tid, own) : net' = rest \cup {m0}
    BY DEF sendUpReq
  <1>2. own = Held(p) \cup X \cup {<<p, attestcount[p] + 1>>}
    BY DEF addOwnReport, Held
  <1>. HIDE DEF own
  <1>3. IsReport(m0) /\ m0.report = own
    BY <1>1 DEF UpdateReqs, IsReport
  <1>4. /\ attestcount' = [attestcount EXCEPT ![p] = @ + 1]
        /\ Held(p)' = {}
        /\ \A q \in Prover : q # p => Held(q)' = Held(q)
    BY DEF sendUpReq, Held, TypeOK, ReportType
  <1>5. RecordOnce' /\ A!Attest(p)
    BY <1>1, <1>2, <1>3, <1>4, SendStep
  <1>. QED
    BY <1>5 DEF RecordStep, A!Next

LEMMA SendCommitReqStep ==
  ASSUME TypeOK, RecordOnce, NEW p \in Prover,
         attestcount'[p] # attestcount[p] => ~reported[p],
         NEW first, NEW second, NEW tid, NEW rest \in SUBSET net,
         \A m \in net : IsReport(m) => m \in rest,
         sendCommitReq(p, first, second, tid, rest),
         UNCHANGED <<received, sum>>
  PROVE  RecordStep
  <1>1. ASSUME NEW t, sendUpReq(p, first, t, csess[p], aggreport[p], rest)
        PROVE  RecordStep
    <2>1. attestcount'[p] # attestcount[p]
      BY <1>1 DEF sendUpReq, TypeOK, ReportType
    <2>2. aggreport[p] = aggreport[p] \cup {}
      OBVIOUS
    <2>3. sendUpReq(p, first, t, csess[p], aggreport[p] \cup {}, rest)
      BY <1>1, <2>2
    <2>. QED
      BY <2>1, <2>3, TakesNone, SendUpReqStep
  <1>2. ASSUME NEW sess, NEW d, NEW t, Invite(p, first, sess, d, t, rest)
        PROVE  RecordStep
    <2>1. \A m \in net' : IsReport(m) => m \in rest
      BY <1>2 DEF Invite, IsReport
    <2>2. UNCHANGED <<attestcount, aggreport, reported>>
      BY <1>2 DEF Invite, report
    <2>. QED
      BY <2>1, <2>2, StillStep
  <1>. QED
    BY <1>1, <1>2 DEF sendCommitReq

LEMMA UpReqStep ==
  ASSUME TypeOK, RecordOnce, NEW p \in Prover, Sessions(p), NEW m \in net,
         attestcount'[p] # attestcount[p] => ~reported[p],
         handleUpReq(p, m),
         UNCHANGED <<received, sum>>
  PROVE  RecordStep
  <1>. DEFINE rest == net \ {m}
              cs == [csess[p] EXCEPT ![m.source] = Null]
              X == m.report
  <1>1. IsReport(m) /\ m.kind = "UPRQ" /\ m.source \in Prover
    BY DEF handleUpReq, IsReport, TypeOK, Message, CommitReq, CommitResp, CommitAck, UpdateReq
  <1>2. Takes(p, X, rest)
    BY <1>1, TakesReport
  <1>3. CASE /\ net' = rest \cup {[m EXCEPT !.kind = "UPRQF",
                                            !.destination = Collector,
                                            !.ttl = MaxDelay]}
             /\ UNCHANGED report
    <2>. DEFINE f == [m EXCEPT !.kind = "UPRQF", !.destination = Collector,
                               !.ttl = MaxDelay]
    <2>1. f.report = X
      BY <1>1 DEF TypeOK, Message, CommitReq, CommitResp, CommitAck, UpdateReq
    <2>2. \A q \in Prover : Held(q)' = Held(q)
      BY <1>3 DEF Held, report
    <2>. HIDE DEF f
    <2>3. \A n \in net' : IsReport(n)
            => \E k \in net : IsReport(k) /\ k.report = n.report
      BY <1>1, <1>3, <2>1 DEF f
    <2>4. \A k, n \in net' : IsReport(k) /\ IsReport(n) /\ k # n
            => k.report \cap n.report = {}
      BY <1>1, <1>3, <2>1 DEF RecordOnce, f
    <2>. QED
      BY <1>3, <2>2, <2>3, <2>4, LoseStep DEF RecordStep, report
  <1>4. CASE net' = rest /\ UNCHANGED report
    BY <1>4, StillStep DEF report
  <1>5. CASE sendUpReq(p, pfirst[p], m.treeID, cs, aggreport[p] \cup X, rest)
    <2>1. attestcount'[p] # attestcount[p]
      BY <1>5 DEF sendUpReq, TypeOK, ReportType
    <2>. HIDE DEF rest, cs, X
    <2>. QED
      BY <1>2, <1>5, <2>1, SendUpReqStep
  <1>6. CASE /\ csess[p][m.source] # Null
             /\ aggreport' = [aggreport EXCEPT ![p] = aggreport[p] \cup X]
             /\ net' = rest
             /\ UNCHANGED <<attestcount, reported>>
    <2>1. ~reported[p]
      BY <1>1, <1>6, ProverAssumption DEF Sessions, NoChildren, Dev
    <2>2. /\ Held(p)' = Held(p) \cup X
          /\ \A q \in Prover : q # p => Held(q)' = Held(q)
      BY <1>6, <2>1 DEF Held, TypeOK, ReportType
    <2>. HIDE DEF rest, X
    <2>. QED
      BY <1>2, <1>6, <2>2, MergeStep DEF RecordStep
  <1>. QED
    BY <1>3, <1>4, <1>5, <1>6 DEF handleUpReq

LEMMA ReceiveStep ==
  ASSUME Inv, RecordOnce, NEW p \in Prover, receive(p),
         attestcount'[p] # attestcount[p] => ~reported[p]
  PROVE  RecordStep
  <1>1. TypeOK /\ Sessions(p)
    BY DEF Inv
  <1>2. PICK m \in net :
           \/ net' = net \ {m} /\ UNCHANGED report
           \/ handleCommitReq(p, m) \/ handleCommitAck(p, m)
           \/ handleCommitResp(p, m) \/ handleUpReq(p, m)
    BY DEF receive
  <1>3. UNCHANGED <<received, sum>>
    BY DEF receive, collector
  <1>4. CASE net' = net \ {m} /\ UNCHANGED report
    BY <1>3, <1>4, StillStep DEF report
  <1>5. CASE handleCommitReq(p, m)
    <2>1. UNCHANGED report /\ \A n \in net' : IsReport(n) => n \in net
      BY <1>5 DEF handleCommitReq, IsReport
    <2>. QED
      BY <1>3, <2>1, StillStep DEF report
  <1>6. CASE handleCommitResp(p, m)
    <2>1. UNCHANGED report /\ \A n \in net' : IsReport(n) => n \in net
      BY <1>6 DEF handleCommitResp, IsReport
    <2>. QED
      BY <1>3, <2>1, StillStep DEF report
  <1>7. CASE handleCommitAck(p, m)
    <2>. DEFINE rest == net \ {m}
    <2>1. \A n \in net : IsReport(n) => n \in rest
      BY <1>7 DEF handleCommitAck, IsReport
    <2>2. CASE net' = rest /\ UNCHANGED report
      BY <1>3, <2>2, StillStep DEF report
    <2>3. CASE sendUpReq(p, m.source, m.treeID, csess[p], aggreport[p], rest)
      <3>1. attestcount'[p] # attestcount[p]
        BY <1>1, <2>3 DEF sendUpReq, TypeOK, ReportType
      <3>2. aggreport[p] = aggreport[p] \cup {}
        OBVIOUS
      <3>3. sendUpReq(p, m.source, m.treeID, csess[p], aggreport[p] \cup {}, rest)
        BY <2>3, <3>2
      <3>. QED
        BY <1>1, <1>3, <2>1, <3>1, <3>3, TakesNone, SendUpReqStep
    <2>4. CASE sendCommitReq(p, m.source, psecond[p], m.treeID, rest)
      BY <1>1, <1>3, <2>1, <2>4, SendCommitReqStep
    <2>. QED
      BY <1>7, <2>2, <2>3, <2>4 DEF handleCommitAck
  <1>8. CASE handleUpReq(p, m)
    BY <1>1, <1>3, <1>8, UpReqStep
  <1>. QED
    BY <1>2, <1>4, <1>5, <1>6, <1>7, <1>8

\* Frames come closer to their receivers.
LEMMA TickStep ==
  ASSUME TypeOK, RecordOnce, Tick
  PROVE  RecordStep
  <1>. DEFINE older(m) == [m EXCEPT !.ttl = @ - 1]
  <1>1. net' = {older(m) : m \in net}
    BY DEF Tick
  <1>2. ASSUME NEW m \in net, IsReport(older(m))
        PROVE  IsReport(m) /\ older(m).report = m.report
    BY <1>2 DEF IsReport, TypeOK, Message, CommitReq, CommitResp, CommitAck, UpdateReq
  <1>. HIDE DEF older
  <1>3. UNCHANGED <<attestcount, aggreport, reported, received, sum>>
    BY DEF Tick, report, collector
  <1>4. \A p \in Prover : Held(p)' = Held(p)
    BY <1>3 DEF Held
  <1>5. \A n \in net' : IsReport(n)
            => \E k \in net : n = older(k) /\ IsReport(k) /\ k.report = n.report
    BY <1>1, <1>2
  <1>6. \A k, n \in net' : IsReport(k) /\ IsReport(n) /\ k # n
            => k.report \cap n.report = {}
    BY <1>5 DEF RecordOnce
  <1>. QED
    BY <1>3, <1>4, <1>5, <1>6, LoseStep DEF RecordStep

\* Every step keeps the records in one place and is one of Attestation.
LEMMA NextStep ==
  ASSUME Inv, RecordOnce, Next
  PROVE  RecordStep
  <1>1. TypeOK /\ \A p \in Prover : attestcount'[p] # attestcount[p] => ~reported[p]
    BY RecordIsNew DEF Inv
  <1>2. ASSUME NEW p \in Prover, startAttestation(p) PROVE RecordStep
    <2>1. \A q \in Prover : Held(q)' \subseteq Held(q)
      BY <1>1, <1>2 DEF startAttestation, clearReport, Held, TypeOK, ReportType
    <2>2. UNCHANGED <<attestcount, received, sum, net>>
      BY <1>2 DEF startAttestation, collector
    <2>3. \A k, n \in net' : IsReport(k) /\ IsReport(n) /\ k # n
            => k.report \cap n.report = {}
      BY <2>2 DEF RecordOnce
    <2>. QED
      BY <2>1, <2>2, <2>3, LoseStep DEF RecordStep
  <1>3. ASSUME NEW p \in Prover, checkSoftConfig(p) \/ crash(p) PROVE RecordStep
    BY <1>3, StillStep DEF checkSoftConfig, crash, report, collector
  <1>4. ASSUME NEW p \in Prover, mkTree(p) PROVE RecordStep
    <2>1. UNCHANGED <<received, sum>>
      BY <1>4 DEF mkTree, collector
    <2>2. CASE UNCHANGED report /\ UNCHANGED net
      BY <2>1, <2>2, StillStep DEF report
    <2>3. CASE sendCommitReq(p, pfirst[p], psecond[p], NOID, net)
      BY <1>1, <2>1, <2>3, SendCommitReqStep
    <2>. QED
      BY <1>4, <2>2, <2>3 DEF mkTree
  <1>5. ASSUME NEW p \in Prover, handleCommitAckTimeOut(p) PROVE RecordStep
    <2>1. UNCHANGED <<received, sum>>
      BY <1>5 DEF handleCommitAckTimeOut, collector
    <2>2. CASE UNCHANGED report /\ UNCHANGED net
      BY <2>1, <2>2, StillStep DEF report
    <2>3. CASE sendCommitReq(p, NOID, Null, NOID, net)
      BY <1>1, <2>1, <2>3, SendCommitReqStep
    <2>. QED
      BY <1>5, <2>2, <2>3 DEF handleCommitAckTimeOut
  <1>6. ASSUME NEW p \in Prover, NEW first, NEW tid, NEW cs,
               sendUpReq(p, first, tid, cs, aggreport[p], net),
               UNCHANGED <<received, sum>>
        PROVE  RecordStep
    <2>1. attestcount'[p] # attestcount[p]
      BY <1>1, <1>6 DEF sendUpReq, TypeOK, ReportType
    <2>2. aggreport[p] = aggreport[p] \cup {}
      OBVIOUS
    <2>3. sendUpReq(p, first, tid, cs, aggreport[p] \cup {}, net)
      BY <1>6, <2>2
    <2>. QED
      BY <1>1, <1>6, <2>1, <2>3, TakesNone, SendUpReqStep
  <1>7. ASSUME NEW p \in Prover, handleCommitRespTimeOut(p) PROVE RecordStep
    <2>1. UNCHANGED <<received, sum>>
      BY <1>7 DEF handleCommitRespTimeOut, collector
    <2>2. CASE UNCHANGED report /\ UNCHANGED net
      BY <2>1, <2>2, StillStep DEF report
    <2>. QED
      BY <1>6, <1>7, <2>1, <2>2 DEF handleCommitRespTimeOut
  <1>8. ASSUME NEW p \in Prover, handleUpdateTimeOut(p) PROVE RecordStep
    <2>1. UNCHANGED <<received, sum>>
      BY <1>8 DEF handleUpdateTimeOut, collector
    <2>2. CASE UNCHANGED report /\ UNCHANGED net
      BY <2>1, <2>2, StillStep DEF report
    <2>. QED
      BY <1>6, <1>8, <2>1, <2>2 DEF handleUpdateTimeOut
  <1>9. ASSUME NEW p \in Prover, receive(p) PROVE RecordStep
    BY <1>1, <1>9, ReceiveStep
  <1>10. CASE collect
    <2>1. PICK m \in net :
             /\ m.destination = Collector /\ net' = net \ {m}
             /\ sum' = sum + Cardinality(m.report)
             /\ received' = received \cup m.report
      BY <1>10 DEF collect
    <2>2. IsReport(m)
      BY <1>1, <2>1, ProverAssumption
      DEF TypeOK, Message, CommitReq, CommitResp, CommitAck, UpdateReq, Collector, IsReport
    <2>3. attestcount' = attestcount /\ \A q \in Prover : Held(q)' = Held(q)
      BY <1>10 DEF collect, report, Held
    <2>. QED
      BY <1>1, <2>1, <2>2, <2>3, DeliverStep DEF RecordStep
  <1>11. CASE overwrite
    BY <1>11, StillStep DEF overwrite, report, collector
  <1>12. CASE Tick
    BY <1>1, <1>12, TickStep
  <1>13. CASE Over
    BY <1>13, StillStep DEF Over, vars, report, collector
  <1>. QED
    BY <1>2, <1>3, <1>4, <1>5, <1>7, <1>8, <1>9, <1>10, <1>11, <1>12, <1>13
    DEF Next, Event

-----------------------------------------------------------------------------
LEMMA InitRecords == Init => RecordOnce /\ A!Init
  <1>. SUFFICES ASSUME Init PROVE RecordOnce /\ A!Init
    OBVIOUS
  <1>1. Pending = {}
    <2>1. net = {} /\ \A p \in Prover : Held(p) = {}
      BY DEF Init, Held
    <2>. QED
      BY <2>1, PendingMember
  <1>2. IsFiniteSet({}) /\ Cardinality({}) = 0
    BY FS_EmptySet
  <1>3. RecordOnce
    BY <1>1, <1>2 DEF RecordOnce, Made, Init, Held
  <1>. QED
    BY <1>1, <1>3 DEF A!Init, Init

\* A record is in one report, with one prover or with the collector, whatever
\* is aggregated, redirected, passed on, dropped or forgotten.
THEOREM RecordOnceCorrect == Spec => []RecordOnce
  <1>1. Inv /\ RecordOnce /\ [Next]_vars => RecordOnce'
    <2>1. Inv /\ RecordOnce /\ Next => RecordOnce'
      BY NextStep DEF RecordStep
    <2>2. RecordOnce /\ UNCHANGED vars => RecordOnce'
      <3>. SUFFICES ASSUME RecordOnce, UNCHANGED vars PROVE RecordOnce'
        OBVIOUS
      <3>. QED
        BY StillStep DEF vars, report, collector, RecordStep
    <2>. QED
      BY <2>1, <2>2
  <1>. QED
    BY <1>1, InitRecords, InvCorrect, PTL DEF Spec

\* The collector counts no record twice, whichever way it came.
THEOREM NoDoubleCountCorrect == Spec => []NoDoubleCount
  <1>1. RecordOnce => NoDoubleCount
    BY DEF RecordOnce, NoDoubleCount
  <1>. QED
    BY <1>1, RecordOnceCorrect, PTL

\* The spanning trees implement Attestation: a step makes a record, delivers
\* or loses the records of a report, or leaves them alone.
THEOREM AttestationCorrect == Spec => AttestationImplemented
  <1>1. Inv /\ RecordOnce /\ [Next]_vars => [A!Next]_(A!avars)
    <2>1. Inv /\ RecordOnce /\ Next => [A!Next]_(A!avars)
      BY NextStep DEF RecordStep
    <2>2. RecordOnce /\ UNCHANGED vars => [A!Next]_(A!avars)
      <3>. SUFFICES ASSUME RecordOnce, UNCHANGED vars PROVE [A!Next]_(A!avars)
        OBVIOUS
      <3>. QED
        BY StillStep DEF vars, report, collector, RecordStep
    <2>. QED
      BY <2>1, <2>2
  <1>. QED
    BY <1>1, InitRecords, InvCorrect, RecordOnceCorrect, PTL
    DEF Spec, AttestationImplemented, A!Spec
=============================================================================
