------------------------------ MODULE MCPaging ------------------------------
(***************************************************************************)
(* Instances of Paging for TLC.                                            *)
(***************************************************************************)
EXTENDS Paging

CONSTANTS p1, p2, v1, v2

TwoProcs  == {p1, p2}
TwoValues == {v1, v2}
NoValue   == {Unset}

Size(procs, values, heap, stack, n) ==
    [procs |-> procs, values |-> values, heap |-> heap, stack |-> stack, frames |-> n]

\* Two pages of heap and one of stack on two frames.
Heap == Size({p1}, TwoValues, 2, 3, 2)

\* The same on one frame: the hand passes pages that are not resident.
Tight == Size({p1}, {v1}, 2, 3, 1)

\* One page of heap, and a stack that grows.
Stack == Size({p1}, TwoValues, 1, 2, 2)

\* Two processes with a page of heap and one of stack, and one frame each.
Pair == Size(TwoProcs, {v1}, 1, 3, 1)

AllSizes  == {Heap, Tight, Stack, Pair}
HeapSize  == {Heap}

=============================================================================
