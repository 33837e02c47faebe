---------------------------- MODULE Attestation ----------------------------
(***************************************************************************)
(* What FADIA promises of attestation records, whatever trees the provers  *)
(* form: a prover makes one record per report, numbered by its             *)
(* attestcount; a record is pending until a report that holds it reaches   *)
(* the collector, which counts it once, or is lost.                        *)
(***************************************************************************)
EXTENDS Integers, FiniteSets

CONSTANT Prover

VARIABLES
    made,           \* records made by each prover
    pending,        \* records on their way to the collector
    received,       \* records counted by the collector
    sum             \* the collector's total

avars == <<made, pending, received, sum>>

Init ==
    /\ made = [p \in Prover |-> 0]
    /\ pending = {}
    /\ received = {}
    /\ sum = 0

\* p adds its next record to what is on its way.
Attest(p) ==
    /\ made' = [made EXCEPT ![p] = @ + 1]
    /\ pending' = pending \cup {<<p, made[p] + 1>>}
    /\ UNCHANGED <<received, sum>>

\* A report with the records S reaches the collector.
Deliver(S) ==
    /\ pending' = pending \ S
    /\ received' = received \cup S
    /\ sum' = sum + Cardinality(S)
    /\ UNCHANGED made

\* A report with the records S is lost.
Lose(S) ==
    /\ pending' = pending \ S
    /\ UNCHANGED <<made, received, sum>>

Next ==
    \/ \E p \in Prover : Attest(p)
    \/ \E S \in SUBSET pending : Deliver(S) \/ Lose(S)

Spec == Init /\ [][Next]_avars
=============================================================================
