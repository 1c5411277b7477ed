-------------------------------- MODULE Layout --------------------------------
(***************************************************************************)
(* Where block groups lie on a disk: calGroupNum, calGroupSize,            *)
(* calInodesPerGroup, calBlocksPerGroup, the group descriptors that        *)
(* initGroupHeader computes, and the way from a block or inode to its      *)
(* address (getAvailBlock, getAvailInode) and back (setAllocBlock,         *)
(* setAllocInode).  Pure arithmetic: the properties are about every size s *)
(* of the disk up to a bound.  Sizes are in bytes, and addresses in        *)
(* sectors, as in the code.                                                *)
(***************************************************************************)
EXTENDS Integers

CONSTANTS
    SECTOR_SIZE, SECTORS_PER_BLOCK, SUPER_BLOCK_SIZE, GROUP_DESC_SIZE, INODE_SIZE,
    BYTE,       \* bits of a byte, 8 in the code
    MAX_SECTOR  \* bound: sectors of the disk

ASSUME LayoutAssumption ==
    /\ \A x \in {SECTOR_SIZE, SECTORS_PER_BLOCK, SUPER_BLOCK_SIZE, GROUP_DESC_SIZE,
                 INODE_SIZE, BYTE} : x \in Nat \ {0}
    /\ MAX_SECTOR \in Nat
    /\ SUPER_BLOCK_SIZE % SECTOR_SIZE = 0 /\ SECTOR_SIZE % GROUP_DESC_SIZE = 0

blockSize == SECTOR_SIZE * SECTORS_PER_BLOCK

\* Super block, descriptor table and the two bitmaps; inode table; data blocks.
groupHeaderSectors(descs) ==
    SUPER_BLOCK_SIZE \div SECTOR_SIZE + (descs + 1 + 1) * SECTORS_PER_BLOCK
inodeTableSectors == INODE_SIZE * BYTE * SECTORS_PER_BLOCK
groupBodySectors == inodeTableSectors + blockSize * BYTE * SECTORS_PER_BLOCK
fullGroup(descs) == groupHeaderSectors(descs) + groupBodySectors

\* The groups whose descriptors fit into so many blocks, and the reverse.
groupsDescribed(descs) == (SECTOR_SIZE \div GROUP_DESC_SIZE) * descs * SECTORS_PER_BLOCK
groupDescBlocks(groupNum) == (groupNum * GROUP_DESC_SIZE + blockSize - 1) \div blockSize

(***************************************************************************)
(* calGroupNum: descriptor blocks are added one at a time until one of its *)
(* four returns is taken.                                                  *)
(***************************************************************************)
Returns(s, descs) ==
    LET quotient == s \div fullGroup(descs)
        partial  == s % fullGroup(descs) >= groupHeaderSectors(descs)
    IN  \/ quotient = 0
        \/ quotient <= groupsDescribed(descs) /\ ~partial
        \/ quotient < groupsDescribed(descs) /\ partial

calGroupNum_whole(s) ==
    LET descs == CHOOSE d \in 1 .. s + 1 : Returns(s, d) /\ \A e \in 1 .. d - 1 : ~Returns(s, e)
    IN  s \div fullGroup(descs) + 1

calGroupNum(s) ==
    LET descs == CHOOSE d \in 1 .. s + 1 : Returns(s, d) /\ \A e \in 1 .. d - 1 : ~Returns(s, e)
        partial == s % fullGroup(descs) >= groupHeaderSectors(descs)
    IN  s \div fullGroup(descs) + (IF partial THEN 1 ELSE 0)

\* The sectors of the last group, if it is not a full one, else 0.
lastPart(s, groupNum) ==
    LET remainder == s % fullGroup(groupDescBlocks(groupNum))
    IN  IF remainder >= groupHeaderSectors(groupDescBlocks(groupNum)) THEN remainder ELSE 0

Partial(s, groupNum, i) == i + 1 = groupNum /\ lastPart(s, groupNum) # 0

calGroupSize(s, groupNum, i) ==
    IF Partial(s, groupNum, i) THEN lastPart(s, groupNum) ELSE fullGroup(groupDescBlocks(groupNum))

\* Sectors of a group behind its header.
body(s, groupNum, i) == calGroupSize(s, groupNum, i) - groupHeaderSectors(groupDescBlocks(groupNum))

calInodesPerGroup(s, groupNum, i) ==
    IF body(s, groupNum, i) >= inodeTableSectors THEN blockSize * BYTE
    ELSE ((body(s, groupNum, i) \div SECTORS_PER_BLOCK) * blockSize) \div INODE_SIZE

calBlocksPerGroup_round(s, groupNum, i) ==
    IF ~Partial(s, groupNum, i) THEN blockSize * BYTE
    ELSE IF body(s, groupNum, i) >= inodeTableSectors
    THEN (body(s, groupNum, i) - inodeTableSectors + SECTORS_PER_BLOCK - 1) \div SECTORS_PER_BLOCK
    ELSE 0

calBlocksPerGroup(s, groupNum, i) ==
    IF ~Partial(s, groupNum, i) THEN blockSize * BYTE
    ELSE IF body(s, groupNum, i) >= inodeTableSectors
    THEN (body(s, groupNum, i) - inodeTableSectors) \div SECTORS_PER_BLOCK
    ELSE 0

\* initGroupHeader: the descriptor of a group.
groupDesc(s, groupNum, i) ==
    LET counter == i * calGroupSize(s, groupNum, 0)
        head    == SUPER_BLOCK_SIZE \div SECTOR_SIZE + groupDescBlocks(groupNum) * SECTORS_PER_BLOCK
    IN  [inodeBitmap |-> counter + head,
         blockBitmap |-> counter + head + SECTORS_PER_BLOCK,
         inodeTable  |-> counter + head + 2 * SECTORS_PER_BLOCK]

\* The address of a data block, in sectors, and of an inode, in bytes.
blockOffset(s, groupNum, i, entry) ==
    groupDesc(s, groupNum, i).inodeTable + inodeTableSectors + entry * SECTORS_PER_BLOCK
inodeOffset(s, groupNum, i, entry) ==
    groupDesc(s, groupNum, i).inodeTable * SECTOR_SIZE + entry * INODE_SIZE

\* setAllocBlock and setAllocInode: group and entry of an address.
blockPlace(s, groupNum, offset) ==
    LET i == offset \div calGroupSize(s, groupNum, 0)
    IN  <<i, (offset - groupDesc(s, groupNum, i).inodeTable - inodeTableSectors) \div SECTORS_PER_BLOCK>>

inodePlace(s, groupNum, offset) ==
    LET i == (offset \div SECTOR_SIZE) \div calGroupSize(s, groupNum, 0)
    IN  <<i, (offset - groupDesc(s, groupNum, i).inodeTable * SECTOR_SIZE) \div INODE_SIZE>>

\* #define MAX_GROUP_NUM, the length of the table of descriptors in memory.
MAX_GROUP_NUM(s) == (((s \div SECTOR_SIZE) \div SECTORS_PER_BLOCK) \div BYTE) \div SECTORS_PER_BLOCK + 1

-----------------------------------------------------------------------------
(***************************************************************************)
(* Properties.                                                             *)
(***************************************************************************)

\* Groups lie on the disk one after the other: the number calGroupNum finds fits
\* the disk with the sizes calGroupSize computes for itself, and gDesc in memory.
GroupsFitOn(s) ==
    LET n == calGroupNum(s)
    IN  n > 0 =>
            /\ (n - 1) * calGroupSize(s, n, 0) + calGroupSize(s, n, n - 1) <= s
            /\ n <= MAX_GROUP_NUM(s)

\* Every inode and every block that is counted lies within its group, and
\* setAllocInode and setAllocBlock find the bit that getAvailInode and
\* getAvailBlock have set for it.
PlacesFoundOn(s) ==
    LET n == calGroupNum(s)
    IN  \A i \in 0 .. n - 1 :
            LET end == i * calGroupSize(s, n, 0) + calGroupSize(s, n, i)
            IN  /\ \A e \in 0 .. calBlocksPerGroup(s, n, i) - 1 :
                      LET offset == blockOffset(s, n, i, e)
                      IN  /\ offset + SECTORS_PER_BLOCK <= end
                          /\ blockPlace(s, n, offset) = <<i, e>>
                /\ \A e \in 0 .. calInodesPerGroup(s, n, i) - 1 :
                      LET offset == inodeOffset(s, n, i, e)
                      IN  /\ offset + INODE_SIZE <= end * SECTOR_SIZE
                          /\ inodePlace(s, n, offset) = <<i, e>>

=============================================================================
