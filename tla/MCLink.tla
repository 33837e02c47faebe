------------------------------- MODULE MCLink -------------------------------
EXTENDS Link

F(i, k, s, d) == [id |-> i, kind |-> k, source |-> s, destination |-> d]

\* Two roots report, a child of the first one reports late, an invitation
\* and a response are exchanged.
Traffic == {F(1, "UPRQC", 1, Collector), F(2, "UPRQC", 2, Collector),
            F(3, "UPRQ", 3, 1), F(4, "CMRQ", 1, 1), F(5, "CMRP", 2, 3)}

\* The provers move: any set of the others may be in range, or nobody.
Moving == [d \in Prover |-> SUBSET (Prover \ {d})]

\* Somebody is always in range.
Together == [d \in Prover |-> SUBSET (Prover \ {d}) \ {{}}]
=============================================================================
