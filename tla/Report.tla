------------------------------- MODULE Report -------------------------------
(***************************************************************************)
(* The aggregated report of a FADIA prover (report_t aggreport, AProver.h) *)
(* and what the prover and the collector do to it.                         *)
(*                                                                         *)
(* A report lists devices and their attestation counters.  Records stand   *)
(* in groups of at most aggsize; the entry NOID closes a group.  For each  *)
(* group there is meant to be one proof, the XOR of the MACs of its        *)
(* records.  A proof is modelled as the set of records whose MACs are in   *)
(* it, so that XOR is the symmetric difference (generateMAC itself is a    *)
(* stub that returns 0).                                                   *)
(*                                                                         *)
(* Who reports to whom is SpanningTree's business.  Here any prover that   *)
(* has not reported yet may receive any report sent, so every tree occurs. *)
(***************************************************************************)
EXTENDS Integers, Sequences, FiniteSets

CONSTANTS
    Prover,         \* the UIds of the provers
    aggsize,        \* records per proof
    MaxPeriod       \* bound: periods modelled per prover

NOID == 0

ASSUME ReportAssumption ==
    /\ Prover \subseteq Nat \ {NOID}
    /\ aggsize \in Nat \ {0}
    /\ MaxPeriod \in Nat

Record == Prover \X Nat            \* a device and its attestation counter
Proof == SUBSET Record

VARIABLES
    aggreport,      \* uids, counters, proofs, size and sepsize of report_t
    attestcount,
    period,         \* periods started
    reported,       \* has reported in this period
    net,            \* reports on their way
    sum,            \* the collector's total of attested devices
    recs            \* history: the records aggregated in this period, as a set

vars == <<aggreport, attestcount, period, reported, net, sum, recs>>

-----------------------------------------------------------------------------
(***************************************************************************)
(* Parts of a report.                                                      *)
(***************************************************************************)

\* The entries up to the last closed group: where the search for NOID from
\* the end stops.
Closed(u) == CHOOSE a \in 0..Len(u) :
                /\ a = 0 \/ u[a] = NOID
                /\ \A i \in (a + 1)..Len(u) : u[i] # NOID

\* The number of records of the group that is not closed yet.
uncompleted(u) == Len(u) - Closed(u)

\* The records among the entries first..last.
RecordsIn(r, first, last) ==
    {<<r.uids[i], r.counters[i]>> :
        i \in {j \in first..last : r.uids[j] # NOID}}

Records(r) == RecordsIn(r, 1, Len(r.uids))

\* How many of the entries u are records: the loop of the collector.
RecordCount(u) == Cardinality({i \in 1..Len(u) : u[i] # NOID})

xor(a, b) == (a \ b) \cup (b \ a)

\* proofs.back() ^= pf.
XorBack(proofs, pf) == [proofs EXCEPT ![Len(proofs)] = xor(@, pf)]

Back(proofs) == proofs[Len(proofs)]
PopBack(proofs) == SubSeq(proofs, 1, Len(proofs) - 1)

-----------------------------------------------------------------------------
\* Mutant: a group is closed when it holds more than aggsize records.
full_late(u) == uncompleted(u) > aggsize

\* The last group holds aggsize records.
full(u) == uncompleted(u) = aggsize

\* Mutant: the entry that closes a group has no counter.
fixProofs_short(r) ==
    IF full(r.uids)
    THEN [r EXCEPT !.uids = Append(@, NOID),
                   !.sepsize = @ + 1]
    ELSE r

\* A full last group is closed.
fixProofs(r) ==
    IF full(r.uids)
    THEN [r EXCEPT !.uids = Append(@, NOID),
                   !.counters = Append(@, 0),
                   !.sepsize = @ + 1]
    ELSE r

\* Mutant: the proof is taken to be there already.
opensProof_never(u) == FALSE

\* Whether the prover's own record starts a new proof.  The entries counted
\* include those that close groups.
opensProof(u) == Len(u) % aggsize = 0

\* The prover's own record is added.
addOwnReport(p, r) ==
    LET rec == <<p, attestcount[p] + 1>> IN
    fixProofs([r EXCEPT !.uids = Append(@, p),
                        !.counters = Append(@, attestcount[p] + 1),
                        !.proofs = IF opensProof(r.uids)
                                   THEN Append(@, {rec})
                                   ELSE XorBack(@, {rec}),
                        !.size = @ + 1])

\* The report of a child is appended.
appendReport(r, m) ==
    [r EXCEPT !.uids = @ \o m.uids,
              !.counters = @ \o m.counters,
              !.proofs = @ \o m.proofs,
              !.size = @ + RecordCount(m.uids),
              !.sepsize = @ + Len(m.uids) - RecordCount(m.uids)]

\* Mutant: the last proof stays where it is.
setAside_unproved(r) ==
    [r EXCEPT !.uids = SubSeq(@, 1, Closed(r.uids)),
              !.counters = SubSeq(@, 1, Closed(r.uids)),
              !.size = @ - uncompleted(r.uids)]

\* The group that is not closed is set aside, with the last proof.
setAside(r) ==
    [r EXCEPT !.uids = SubSeq(@, 1, Closed(r.uids)),
              !.counters = SubSeq(@, 1, Closed(r.uids)),
              !.proofs = PopBack(@),
              !.size = @ - uncompleted(r.uids)]

\* Mutant: the records put back are not counted.
putBack_uncounted(r, tmpuids, tmpcounters, tmpproof) ==
    LET n == uncompleted(r.uids) % aggsize
        sep == [r EXCEPT !.uids = Append(@, NOID),
                         !.counters = Append(@, 0),
                         !.sepsize = @ + 1]
        Put(s, pfs) == [s EXCEPT !.uids = @ \o tmpuids,
                                 !.counters = @ \o tmpcounters,
                                 !.proofs = pfs]
    IN IF n + Len(tmpuids) <= aggsize
       THEN fixProofs(Put(r, IF n # 0 THEN XorBack(r.proofs, tmpproof)
                             ELSE Append(r.proofs, tmpproof)))
       ELSE Put(sep, Append(r.proofs, tmpproof))

\* The group set aside is put back: into the last group if they fit in one,
\* with one proof, otherwise as a group of its own.
putBack(r, tmpuids, tmpcounters, tmpproof) ==
    LET n == uncompleted(r.uids) % aggsize
        sep == [r EXCEPT !.uids = Append(@, NOID),
                         !.counters = Append(@, 0),
                         !.sepsize = @ + 1]
        Put(s, pfs) == [s EXCEPT !.uids = @ \o tmpuids,
                                 !.counters = @ \o tmpcounters,
                                 !.proofs = pfs,
                                 !.size = @ + Len(tmpuids)]
    IN IF n + Len(tmpuids) <= aggsize
       THEN fixProofs(Put(r, IF n # 0 THEN XorBack(r.proofs, tmpproof)
                             ELSE Append(r.proofs, tmpproof)))
       ELSE Put(sep, Append(r.proofs, tmpproof))

\* Mutant: the group that is not closed is overwritten.
merge_overwrite(r, m) ==
    IF uncompleted(r.uids) = 0 THEN appendReport(r, m)
    ELSE appendReport(setAside(r), m)

\* handleUpReq: the report m of a child is merged into r.
merge(r, m) ==
    LET a == Closed(r.uids)
        n == Len(r.uids)
    IN IF a = n THEN appendReport(r, m)
       ELSE putBack(appendReport(setAside(r), m),
                    SubSeq(r.uids, a + 1, n), SubSeq(r.counters, a + 1, n),
                    Back(r.proofs))

-----------------------------------------------------------------------------
EmptyReport == [uids |-> <<>>, counters |-> <<>>, proofs |-> <<>>,
                size |-> 0, sepsize |-> 0]

Init ==
    /\ aggreport = [p \in Prover |-> EmptyReport]
    /\ attestcount = [p \in Prover |-> 0]
    /\ period = [p \in Prover |-> 0]
    /\ reported = [p \in Prover |-> TRUE]
    /\ net = {}
    /\ sum = 0
    /\ recs = [p \in Prover |-> {}]

\* The lists are cleared, size and sepsize are not.
clearReport(r) == [r EXCEPT !.uids = <<>>, !.counters = <<>>, !.proofs = <<>>]

startAttestation(p) ==
    /\ period[p] < MaxPeriod
    /\ period' = [period EXCEPT ![p] = @ + 1]
    /\ aggreport' = [aggreport EXCEPT ![p] = clearReport(@)]
    /\ recs' = [recs EXCEPT ![p] = {}]
    /\ reported' = [reported EXCEPT ![p] = FALSE]
    /\ UNCHANGED <<attestcount, net, sum>>

\* The prover adds its record to r and sends a copy of the lists.
sendUpReq(p, r, rs, rest) ==
    LET own == addOwnReport(p, r)
        all == rs \cup {<<p, attestcount[p] + 1>>}
    IN
    /\ aggreport' = [aggreport EXCEPT ![p] = own]
    /\ recs' = [recs EXCEPT ![p] = all]
    /\ attestcount' = [attestcount EXCEPT ![p] = @ + 1]
    /\ reported' = [reported EXCEPT ![p] = TRUE]
    /\ net' = rest \cup {[source |-> p, uids |-> own.uids,
                          counters |-> own.counters, proofs |-> own.proofs,
                          recs |-> all]}

\* A timeout, an ack or a child limit of none makes a prover report.
report(p) ==
    /\ ~reported[p]
    /\ sendUpReq(p, aggreport[p], recs[p], net)
    /\ UNCHANGED <<period, sum>>

\* The report of a child is merged; after the last one the prover reports.
handleUpReq(p) ==
    /\ ~reported[p]
    /\ \E m \in net :
          LET r == merge(aggreport[p], m)
              rs == recs[p] \cup m.recs
              rest == net \ {m}
          IN
          /\ m.source # p
          /\ \/ sendUpReq(p, r, rs, rest)
             \/ /\ aggreport' = [aggreport EXCEPT ![p] = r]
                /\ recs' = [recs EXCEPT ![p] = rs]
                /\ net' = rest
                /\ UNCHANGED <<attestcount, reported>>
    /\ UNCHANGED <<period, sum>>

\* ACollector::handleUpReq: the entries that are records are counted.
collect ==
    /\ \E m \in net : /\ net' = net \ {m}
                      /\ sum' = sum + RecordCount(m.uids)
    /\ UNCHANGED <<aggreport, attestcount, period, reported, recs>>

\* Every prover has gone through its MaxPeriod periods.
Over ==
    /\ net = {}
    /\ \A p \in Prover : period[p] = MaxPeriod /\ reported[p]
    /\ UNCHANGED vars

Next ==
    \/ \E p \in Prover : startAttestation(p) \/ report(p) \/ handleUpReq(p)
    \/ collect
    \/ Over

Spec == Init /\ [][Next]_vars
-----------------------------------------------------------------------------
(***************************************************************************)
(* Properties.  A report is one being aggregated or one on its way.        *)
(***************************************************************************)

Reports == {aggreport[p] : p \in Prover} \cup net

\* Types; uids and counters, indexed together by sendUpReq, are as long.
ReportTypeOK ==
    /\ \A r \in Reports :
          /\ r.uids \in Seq(Prover \cup {NOID})
          /\ r.counters \in Seq(Nat)
          /\ r.proofs \in Seq(Proof)
          /\ Len(r.counters) = Len(r.uids)
    /\ \A p \in Prover : aggreport[p].size \in Int /\ aggreport[p].sepsize \in Int
    /\ attestcount \in [Prover -> Nat]
    /\ period \in [Prover -> Nat]
    /\ reported \in [Prover -> BOOLEAN]
    /\ sum \in Nat
    /\ recs \in [Prover -> SUBSET Record]

\* Whatever is set aside, appended and put back, a report holds the records
\* of its parts, each of them once: it can be taken for a set of records,
\* as SpanningTree does, and the collector counts each record of it once.
RecordsKept ==
    /\ \A p \in Prover : /\ Records(aggreport[p]) = recs[p]
                         /\ RecordCount(aggreport[p].uids) = Cardinality(recs[p])
    /\ \A m \in net : /\ Records(m) = m.recs
                      /\ RecordCount(m.uids) = Cardinality(m.recs)

\* No group grows beyond aggsize, and a full one is closed: fixProofs tests
\* for equality and would never close a group that had become longer.
GroupsBounded ==
    \A r \in Reports :
       /\ uncompleted(r.uids) < aggsize
       /\ \A i \in 1..Len(r.uids) :
             i + aggsize <= Len(r.uids)
                => \E j \in i..(i + aggsize) : r.uids[j] = NOID

\* proofs.back() and proofs.pop_back() are undefined on an empty vector;
\* addOwnReport and handleUpReq call them on a report with entries.
BackDefined == \A r \in Reports : r.uids # <<>> => r.proofs # <<>>

\* The MAC of every record is in exactly one proof of the report: none is
\* lost, and none cancels itself out in two XORs.
EachProvedOnce ==
    \A r \in Reports :
       \A rec \in Records(r) :
          \E k \in 1..Len(r.proofs) :
             /\ rec \in r.proofs[k]
             /\ \A l \in 1..Len(r.proofs) : rec \in r.proofs[l] => l = k

\* size, an unsigned count that handleUpReq decrements by the records it sets
\* aside, is never too small for it.
SizeCovers == \A p \in Prover : aggreport[p].size >= RecordCount(aggreport[p].uids)

\* handleUpReq's "remove unfinialized proof aggregates": the proof it takes
\* away with the group that is not closed is that of this group.
UnfinalizedRemoved ==
    \A p \in Prover :
       LET r == aggreport[p]
           a == Closed(r.uids)
           n == Len(r.uids)
       IN ~reported[p] /\ a < n => Back(r.proofs) = RecordsIn(r, a + 1, n)
=============================================================================
