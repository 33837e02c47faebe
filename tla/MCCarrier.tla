----------------------------- MODULE MCCarrier -----------------------------
(* The networks for the TLC instances of Carrier. *)
EXTENDS Carrier

\* Every network with a path between any two provers.
Connected ==
    {net \in SUBSET {{p, q} : p \in Prover, q \in Prover} :
        /\ \A e \in net : Cardinality(e) = 2
        /\ \A s \in SUBSET Prover \ {{}, Prover} :
              \E e \in net : e \cap s # {} /\ e \ s # {}}
=============================================================================
