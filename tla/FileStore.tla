------------------------------ MODULE FileStore ------------------------------
(***************************************************************************)
(* What the block layer of the file system promises: every file is a       *)
(* sequence of blocks that grows at its end, is read and written in place  *)
(* and is emptied from its end.  A new block holds whatever the disk holds *)
(* there.  The last write is visible, so that the place where it took      *)
(* effect is part of the promise.                                          *)
(***************************************************************************)
EXTENDS Integers, Sequences

CONSTANTS Files, Values

VARIABLES
    blocks,  \* blocks[f]: the contents of file f, block by block
    written  \* file, index and value of a write, if that was the last step

vars == <<blocks, written>>

Init == blocks = [f \in Files |-> <<>>] /\ written = <<>>

Grow(f) == /\ written' = <<>>
           /\ \E v \in Values : blocks' = [blocks EXCEPT ![f] = Append(@, v)]

Write(f) == /\ written' \in {f} \X (DOMAIN blocks[f]) \X Values
            /\ blocks' = [blocks EXCEPT ![f][written'[2]] = written'[3]]

Shrink(f) == /\ blocks[f] # <<>>
             /\ written' = <<>>
             /\ blocks' = [blocks EXCEPT ![f] = SubSeq(@, 1, Len(@) - 1)]

Next == \E f \in Files : Grow(f) \/ Write(f) \/ Shrink(f)

Spec == Init /\ [][Next]_vars

=============================================================================
