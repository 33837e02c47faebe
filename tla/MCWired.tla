------------------------------ MODULE MCWired ------------------------------
(* Networks, as the .ned files connect them, and firmware times. *)
EXTENDS Wired

CONSTANTS FirmwareTime, ShortPeriod, LongPeriod

\* Fadia-chain: each prover and the next.
Chain == {{p, p + 1} : p \in {q \in Prover : q + 1 \in Prover}}
\* Fadia-ring: a chain whose ends are joined.
Ring == Chain \cup {{1, Cardinality(Prover)}}
\* Fadia-tree with two children each.
Tree == {{c \div 2, c} : c \in Prover \ {1}}
\* Fadia-tree with more children than two.
Wide == {{1, c} : c \in Prover \ {1}}

\* Fadia-tree-fair with two neighbours: prover 2 has a parent and as many
\* children as it may have.
Fair == {{1, 2}} \cup {{2, c} : c \in Prover \ {1, 2}}

AllShapes == {Chain, Ring, Tree, Wide, Fair}

\* Some networks are given more time than any tree takes, some less.
MixedPeriods == [ls \in AllShapes |-> IF ls \in {Chain, Tree} THEN ShortPeriod
                                      ELSE LongPeriod]

\* Every prover is of the slow type, the default.
SameFirmware == [p \in Prover |-> FirmwareTime]
=============================================================================
