-------------------------------- MODULE Bitmap --------------------------------
(***************************************************************************)
(* The allocation bitmap of a block group and its count of available       *)
(* entries, as getAvailBlock, setAllocBlock, getAvailInode and             *)
(* setAllocInode use them.  The disk of this system has one group (8196    *)
(* sectors are less than one full group), so the count of the super block  *)
(* and that of the group, always changed together, are one number here.    *)
(***************************************************************************)
EXTENDS Integers, FiniteSets

CONSTANTS
    SIZE,  \* entries of the group
    BYTE   \* bits of a byte, 8 in the code

ASSUME BitmapAssumption == SIZE \in Nat /\ BYTE \in Nat \ {0}

Entries == 0 .. SIZE - 1

\* A bitmap, as the set of its entries that are 1, with the count.
Spaces == [bits : SUBSET Entries, avail : 0 .. SIZE]

Empty == [bits |-> {}, avail |-> SIZE]

Least(S) == CHOOSE x \in S : \A y \in S : x <= y

\* byte[j] == 0xff
Full(bits, j) == \A k \in 0 .. BYTE - 1 : j * BYTE + k \in bits

\* The number of bytes the search looks at: (avail + 7) / 8.
Scanned(avail) == (avail + BYTE - 1) \div BYTE

\* The first loop leaves j at the first byte that is not full, or at the
\* number of bytes it looked at.
FirstByte(space) ==
    LET free == {j \in 0 .. Scanned(space.avail) - 1 : ~Full(space.bits, j)}
    IN  IF free # {} THEN Least(free) ELSE Scanned(space.avail)

\* The second loop leaves k at the first 0 of that byte, or at 8.
FirstBit(bits, j) ==
    IF Full(bits, j) THEN BYTE
    ELSE Least({k \in 0 .. BYTE - 1 : j * BYTE + k \notin bits})

GetAvail_unmarked(space) ==
    LET j == FirstByte(space)
    IN  [entry |-> j * BYTE + FirstBit(space.bits, j),
         space |-> [bits |-> space.bits, avail |-> space.avail - 1]]

GetAvail_kept(space) ==
    LET j     == FirstByte(space)
        k     == FirstBit(space.bits, j)
        entry == j * BYTE + k
    IN  [entry |-> entry,
         space |-> [bits |-> space.bits \cup {entry}, avail |-> space.avail]]

(***************************************************************************)
(* getAvailBlock, getAvailInode: the entry they hand out, and the space    *)
(* they leave.  After a second loop without success the shift count is -1: *)
(* the processor shifts by 31, and no bit of the byte is set.              *)
(***************************************************************************)
GetAvail(space) ==
    LET j     == FirstByte(space)
        k     == FirstBit(space.bits, j)
        entry == j * BYTE + k
    IN  [entry |-> entry,
         space |-> [bits  |-> IF k < BYTE THEN space.bits \cup {entry} ELSE space.bits,
                    avail |-> space.avail - 1]]

\* setAllocBlock, setAllocInode for each entry of S: nothing happens for one
\* that is not allocated.
SetAlloc(space, S) ==
    [bits  |-> space.bits \ S,
     avail |-> space.avail + Cardinality(space.bits \cap S)]

=============================================================================
