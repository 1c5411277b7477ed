------------------------------- MODULE ExtFile -------------------------------
(***************************************************************************)
(* The blocks of files: how ext.c grows, reads, writes and empties a file  *)
(* through the direct, singly, doubly and triply indirect pointers of its  *)
(* inode, and takes the blocks from the bitmap of the group.  No two       *)
(* threads are in the file system at once (FsExclusive of SysServer), so a *)
(* call is one step; freeBlock, a loop of freeLastBlock, is a step for     *)
(* every turn.  A block is named by its place in the bitmap.  The numbers  *)
(* of pointers are constants: 12 in an inode, 256 in a block in the code.  *)
(***************************************************************************)
EXTENDS Bitmap, Sequences

CONSTANTS
    POINTER_NUM,  \* direct pointers of an inode
    DIVIDER,      \* pointers in a block: blockSize / 4
    Files,        \* the inodes in use
    Values,       \* the contents of a data block
    Junk,         \* the contents of a block no one has written as data
    Quotas,       \* bound: how many data blocks each file may have
    EMPTYINGS,    \* bound: files that are emptied in a behaviour
    WRITES        \* bound: blocks that hold a value other than Junk

divider0 == DIVIDER
divider1 == divider0 * divider0
divider2 == divider1 * divider0
bound0 == POINTER_NUM
bound1 == bound0 + divider0
bound2 == bound1 + divider1
bound3 == bound2 + divider2

\* The value of a pointer no one has set.
Unset == -1

Pointers == Entries \cup {Unset}
Tables == [0 .. DIVIDER - 1 -> Pointers]

\* 12 < 256 in the code: calNeededPointerBlocks relies on it.  Data and
\* pointers are told apart.
ASSUME FileAssumption ==
    /\ POINTER_NUM \in Nat \ {0} /\ DIVIDER \in Nat \ {0}
    /\ POINTER_NUM < DIVIDER
    /\ Junk \in Values /\ Values \cap Tables = {}
    /\ Quotas \subseteq [Files -> 0 .. bound3]
    /\ EMPTYINGS \in Nat
    /\ WRITES \in Nat

VARIABLES
    inode,    \* inode[f]: block count and pointers
    space,    \* bitmap and count of available blocks
    disk,     \* disk[b]: a data value, or the pointers of a pointer block
    freeing,  \* the file freeBlock is emptying, if any
    emptied,  \* bound: the files emptied so far
    quota,    \* bound: the blocks each file may have, chosen at the start
    written   \* file, index and value of writeBlock, if that was the last step

vars == <<inode, space, disk, freeing, emptied, quota, written>>

Inodes == [blockCount : 0 .. bound3, pointer : [0 .. POINTER_NUM - 1 -> Pointers],
           singly : Pointers, doubly : Pointers, triply : Pointers]

-----------------------------------------------------------------------------

\* Pointer i of the pointer block b, and writing it.  In a block that is not
\* a pointer block there are no pointers anyone has set.
IsTable(dsk, b) == b \in Entries /\ dsk[b] \notin Values

Follow(dsk, b, i) == IF IsTable(dsk, b) THEN dsk[b][i] ELSE Unset

Put(dsk, b, i, x) == IF IsTable(dsk, b) THEN [dsk EXCEPT ![b][i] = x] ELSE dsk

(***************************************************************************)
(* readBlock and writeBlock: the block with index n of the file.           *)
(***************************************************************************)
BlockAt(ind, dsk, n) ==
    LET m == n - bound1
        r == n - bound2
        Double(i) == Follow(dsk, ind.doubly, i)
        Triple(i, j) == Follow(dsk, Follow(dsk, ind.triply, i), j)
    IN  IF n < bound0 THEN ind.pointer[n]
        ELSE IF n < bound1 THEN Follow(dsk, ind.singly, n - bound0)
        ELSE IF n < bound2 THEN Follow(dsk, Double(m \div divider0), m % divider0)
        ELSE Follow(dsk, Triple(r \div divider1, (r % divider1) \div divider0),
                    (r % divider1) % divider0)

\* calNeededPointerBlocks: the pointer blocks that block number c needs.
calNeededPointerBlocks_flat(c) == IF c \in {bound0, bound1, bound2} THEN 1 ELSE 0

calNeededPointerBlocks(c) ==
    IF c = bound0 THEN 1
    ELSE IF c = bound1 THEN 2
    ELSE IF c < bound2 /\ (c - bound1) % divider0 = 0 THEN 1
    ELSE IF c = bound2 THEN 3
    ELSE IF c < bound3 /\ (c - bound2) % divider1 = 0 THEN 2
    ELSE IF c < bound3 /\ (c - bound2) % divider0 = 0 THEN 1
    ELSE IF c >= bound3 THEN -1
    ELSE 0

\* A pointer block whose first pointer is x; the rest of the buffer is not
\* initialised.
NewTable(x) == [i \in 0 .. DIVIDER - 1 |-> IF i = 0 THEN x ELSE Unset]

(***************************************************************************)
(* allocLastBlock: attach the block `data' at the end of the file.  s, d   *)
(* and t are the singly, doubly and triply indirect pointer blocks, taken  *)
(* from the bitmap in this order where they are needed.                    *)
(***************************************************************************)
allocLastBlock(ind, dsk, spc, data) ==
    LET c == ind.blockCount
        m == c - bound1
        r == c - bound2
        s == GetAvail(spc)
        d == GetAvail(s.space)
        t == GetAvail(d.space)
        double == Follow(dsk, ind.triply, r \div divider1)
        one   == [dsk EXCEPT ![s.entry] = NewTable(data)]
        two   == [one EXCEPT ![d.entry] = NewTable(s.entry)]
        three == [two EXCEPT ![t.entry] = NewTable(d.entry)]
        Result(i, k, p) ==
            [inode |-> [i EXCEPT !.blockCount = c + 1], disk |-> k, space |-> p]
    IN  IF c < bound0
        THEN Result([ind EXCEPT !.pointer[c] = data], dsk, spc)
        ELSE IF c = bound0
        THEN Result([ind EXCEPT !.singly = s.entry], one, s.space)
        ELSE IF c < bound1
        THEN Result(ind, Put(dsk, ind.singly, c - bound0, data), spc)
        ELSE IF c = bound1
        THEN Result([ind EXCEPT !.doubly = d.entry], two, d.space)
        ELSE IF c < bound2 /\ m % divider0 = 0
        THEN Result(ind, Put(one, ind.doubly, m \div divider0, s.entry), s.space)
        ELSE IF c < bound2
        THEN Result(ind, Put(dsk, Follow(dsk, ind.doubly, m \div divider0),
                             m % divider0, data), spc)
        ELSE IF c = bound2
        THEN Result([ind EXCEPT !.triply = t.entry], three, t.space)
        ELSE IF r % divider1 = 0
        THEN Result(ind, Put(two, ind.triply, r \div divider1, d.entry), d.space)
        ELSE IF r % divider0 = 0
        THEN Result(ind, Put(one, double, (r % divider1) \div divider0, s.entry), s.space)
        ELSE Result(ind, Put(dsk, Follow(dsk, double, (r % divider1) \div divider0),
                             (r % divider1) % divider0, data), spc)

(***************************************************************************)
(* freeLastBlock: the blocks it gives back when c is the number of blocks  *)
(* that are left, the block of data and the pointer blocks that are then   *)
(* empty.                                                                  *)
(***************************************************************************)
EmptyTables_direct(ind, dsk, c) ==
    IF c = bound0 THEN {ind.singly} ELSE IF c = bound1 THEN {ind.doubly} ELSE {}

EmptyTables(ind, dsk, c) ==
    LET m == c - bound1
        r == c - bound2
        d == Follow(dsk, ind.triply, r \div divider1)
    IN  IF c < bound0 THEN {}
        ELSE IF c = bound0 THEN {ind.singly}
        ELSE IF c < bound1 THEN {}
        ELSE IF c = bound1 THEN {Follow(dsk, ind.doubly, 0), ind.doubly}
        ELSE IF c < bound2 /\ m % divider0 = 0 THEN {Follow(dsk, ind.doubly, m \div divider0)}
        ELSE IF c < bound2 THEN {}
        ELSE IF c = bound2 THEN {Follow(dsk, d, 0), d, ind.triply}
        ELSE IF r % divider1 = 0 THEN {Follow(dsk, d, 0), d}
        ELSE IF r % divider0 = 0 THEN {Follow(dsk, d, (r % divider1) \div divider0)}
        ELSE {}

Freed(ind, dsk, c) == {BlockAt(ind, dsk, c)} \cup EmptyTables(ind, dsk, c)

-----------------------------------------------------------------------------

\* The data blocks of all files.
DataBlocks == UNION {{f} \X (0 .. inode[f].blockCount - 1) : f \in Files}

\* Bound on the instance: the values a write may choose from.
Writable ==
    IF Cardinality({b \in Entries : disk[b] \in Values \ {Junk}}) < WRITES
    THEN Values ELSE {Junk}

Init ==
    /\ inode = [f \in Files |->
                   [blockCount |-> 0, pointer |-> [i \in 0 .. POINTER_NUM - 1 |-> Unset],
                    singly |-> Unset, doubly |-> Unset, triply |-> Unset]]
    /\ space = Empty
    /\ disk = [b \in Entries |-> Junk]
    /\ freeing = {}
    /\ emptied = 0
    /\ quota \in Quotas
    /\ written = <<>>

(***************************************************************************)
(* allocBlock, from writing past the end of a file.  When too few blocks   *)
(* are available it fails and changes nothing.                             *)
(***************************************************************************)
allocBlock(f) ==
    /\ freeing = {}
    /\ inode[f].blockCount < quota[f]
    /\ space.avail >= calNeededPointerBlocks(inode[f].blockCount) + 1
    /\ LET data == GetAvail(space)
           last == allocLastBlock(inode[f], disk, data.space, data.entry)
       IN  /\ inode' = [inode EXCEPT ![f] = last.inode]
           /\ disk' = last.disk
           /\ space' = last.space
    /\ written' = <<>>
    /\ UNCHANGED <<freeing, emptied, quota>>

\* writeBlock of one of the blocks of the file.
writeBlock(f) ==
    /\ freeing = {}
    /\ \E n \in 0 .. inode[f].blockCount - 1, v \in Writable :
           /\ disk' = [disk EXCEPT ![BlockAt(inode[f], disk, n)] = v]
           /\ written' = <<f, n + 1, v>>
    /\ UNCHANGED <<inode, space, freeing, emptied, quota>>

\* One turn of the loop of freeBlock: freeLastBlock.
freeLastBlock(f) ==
    /\ freeing \subseteq {f}
    /\ inode[f].blockCount # 0
    /\ emptied < EMPTYINGS
    /\ LET c == inode[f].blockCount - 1
       IN  /\ inode' = [inode EXCEPT ![f].blockCount = c]
           /\ space' = SetAlloc(space, Freed(inode[f], disk, c))
           /\ freeing' = IF c = 0 THEN {} ELSE {f}
           /\ emptied' = IF c = 0 THEN emptied + 1 ELSE emptied
    /\ written' = <<>>
    /\ UNCHANGED <<disk, quota>>

Next == \E f \in Files : allocBlock(f) \/ writeBlock(f) \/ freeLastBlock(f)

Spec == Init /\ [][Next]_vars

-----------------------------------------------------------------------------

\* The state of the block layer has the expected form (Inode, SuperBlock,
\* GroupDesc and BlockBitmap of ext.h).
TypeOK ==
    /\ inode \in [Files -> Inodes]
    /\ space \in Spaces
    /\ DOMAIN disk = Entries
    /\ \A b \in Entries : disk[b] \in Values \/ disk[b] \in Tables
    /\ freeing \in SUBSET Files
    /\ emptied \in 0 .. EMPTYINGS
    /\ quota \in Quotas
    /\ written \in {<<>>} \cup (Files \X (1 .. bound3) \X Values)

\* What the file gives back when its block number c is freed.
Holds(x) == Freed(inode[x[1]], disk, x[2])

(***************************************************************************)
(* Every block that is marked in the bitmap is in exactly one place: it is *)
(* the data or a pointer block of one block number of one file; every      *)
(* block of a file is marked; and the count is the number of blocks that   *)
(* are not.  So no two files share a block, none is lost when files are    *)
(* emptied by freeBlock, and allocBlock's test of the count is a test of   *)
(* the bitmap.                                                             *)
(***************************************************************************)
SpaceExact ==
    /\ space.bits = UNION {Holds(x) : x \in DataBlocks}
    /\ space.avail = SIZE - Cardinality(space.bits)
    /\ \A x \in DataBlocks :
          /\ Cardinality(Holds(x)) = calNeededPointerBlocks(x[2]) + 1
          /\ \A y \in DataBlocks : x # y => Holds(x) \cap Holds(y) = {}

(***************************************************************************)
(* A file that grows takes as many blocks as allocBlock has checked for:   *)
(* the one for the data and those calNeededPointerBlocks announced for the *)
(* pointers, so getAvailBlock cannot fail inside allocLastBlock.           *)
(***************************************************************************)
GrowthAnnounced ==
    [][\A f \in Files : inode'[f].blockCount > inode[f].blockCount =>
          space.avail - space'.avail
              = calNeededPointerBlocks(inode[f].blockCount) + 1]_vars

(***************************************************************************)
(* getAvailBlock hands out available blocks ("get the blockOffset of 1     *)
(* available block"): what a file gains was not marked before.             *)
(***************************************************************************)
AvailableOnly ==
    [][\A f \in Files : inode'[f].blockCount > inode[f].blockCount =>
          Freed(inode'[f], disk', inode[f].blockCount) \cap space.bits = {}]_vars

(***************************************************************************)
(* The files are sequences of blocks: what was written at an index is read *)
(* there until it is overwritten or freed, whatever happens to the other   *)
(* blocks and files and however deep the pointers are.                     *)
(***************************************************************************)
Contents(b) == IF b \in Entries /\ disk[b] \in Values THEN disk[b] ELSE Junk

FileStore == INSTANCE FileStore WITH
    blocks <- [f \in Files |-> [i \in 1 .. inode[f].blockCount |->
                   Contents(BlockAt(inode[f], disk, i - 1))]]

IsFileStore == FileStore!Spec

=============================================================================
