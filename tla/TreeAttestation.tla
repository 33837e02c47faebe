-------------------------- MODULE TreeAttestation --------------------------
(***************************************************************************)
(* The spanning trees implement Attestation: reports are aggregated,       *)
(* passed on, redirected, dropped and forgotten, and yet every record is   *)
(* in one place at a time.                                                 *)
(***************************************************************************)
EXTENDS SpanningTree

IsReport(m) == m.kind \in {"UPRQ", "UPRQC", "UPRQF"}

\* A prover that has not reported holds the records it has aggregated; after
\* that aggreport is a copy of what it sent.
Held(p) == IF reported[p] THEN {} ELSE aggreport[p]

\* The records on their way: in a report, or held by a prover.
Pending == (UNION {m.report : m \in {n \in net : IsReport(n)}})
           \cup (UNION {Held(p) : p \in Prover})

A == INSTANCE Attestation WITH made <- attestcount, pending <- Pending

\* The refinement: each step of the trees makes a record, delivers or loses
\* the records of a report, or does nothing to them.
AttestationImplemented == A!Spec

\* A record is in one place: in one report, with one prover that has not
\* reported, or with the collector.  Only records that were made exist.
Made(S) == \A r \in S : r[2] <= attestcount[r[1]]

RecordOnce ==
    /\ \A m, n \in net :
          IsReport(m) /\ IsReport(n) /\ m # n => m.report \cap n.report = {}
    /\ \A m \in net, p \in Prover : IsReport(m) => m.report \cap Held(p) = {}
    /\ \A p, q \in Prover : p # q => Held(p) \cap Held(q) = {}
    /\ received \cap Pending = {}
    /\ Made(Pending) /\ Made(received)
    /\ IsFiniteSet(received) /\ sum = Cardinality(received)
=============================================================================
