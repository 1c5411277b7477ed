------------------------------ MODULE MCExtFile ------------------------------
(***************************************************************************)
(* Instances of ExtFile for TLC.                                           *)
(***************************************************************************)
EXTENDS ExtFile

First == CHOOSE f \in Files : TRUE

Quota(first, others) == [f \in Files |-> IF f = First THEN first ELSE others]

\* One file grown to the last block of its triply indirect pointer.
Deep == Quota(bound3, 0)

\* Or two files that grow into each other's holes, one of them to the first
\* block of its doubly indirect pointer.
DeepOrTwo == {Deep, Quota(bound1 + 1, bound1 - 1)}

DeepOnly == {Deep}

=============================================================================
