--------------------------------- MODULE Disk ---------------------------------
(***************************************************************************)
(* read_disk and write_disk: byte ranges over a device that transfers      *)
(* whole sectors.  The callers hold the server (see SysServer), so one     *)
(* call runs at a time; the machine may stop between two sectors, and      *)
(* what has reached the disk is there after the next start.  Where the     *)
(* callers put what they read and write is module Layout.                  *)
(***************************************************************************)
EXTENDS Layout

CONSTANTS
    SECTORS,    \* bound: the size of disk on which calls are made
    MAX_LEN,    \* bound: size * num of a call
    MAX_CALLS   \* bound: calls

ASSUME DiskAssumption ==
    SECTORS \in Nat \ {0} /\ MAX_LEN \in Nat /\ MAX_CALLS \in Nat

VARIABLES
    sectorNum,  \* sectors of the disk, a parameter of initGroupHeader
    disk,       \* byte address -> value
    call,       \* "none", "read" or "write"
    offset, len, \* arguments of the call
    i, j,       \* locals of the call: bytes done, sectors passed
    buffer,     \* local of the call: uint8_t buffer[SECTOR_SIZE]
    dest,       \* destBuffer of a read, as far as it is filled
    calls,      \* calls made so far
    old         \* history: the disk when the call began

vars == <<sectorNum, disk, call, offset, len, i, j, buffer, dest, calls, old>>

\* A transfer at the end of a range may touch the sector behind it.
Addresses == 0 .. (SECTORS + 1) * SECTOR_SIZE - 1

\* Bytes are told apart by the call that wrote them and their place in it.
Data(k) == <<calls, k>>

quotient == offset \div SECTOR_SIZE
remainder == offset % SECTOR_SIZE

read_sect(n) == [k \in 0 .. SECTOR_SIZE - 1 |-> disk[n * SECTOR_SIZE + k]]

write_sect(b, n) ==
    [a \in Addresses |-> IF a \div SECTOR_SIZE = n THEN b[a % SECTOR_SIZE] ELSE disk[a]]

-----------------------------------------------------------------------------

\* Entry of both calls: the first sector is read.
Begin(kind) ==
    /\ call = "none" /\ calls < MAX_CALLS /\ sectorNum = SECTORS
    /\ call' = kind /\ calls' = calls + 1
    /\ \E o \in 0 .. SECTORS * SECTOR_SIZE - 1, n \in 0 .. MAX_LEN :
          /\ o + n <= SECTORS * SECTOR_SIZE
          /\ offset' = o /\ len' = n
          /\ buffer' = read_sect(o \div SECTOR_SIZE)
    /\ i' = 0 /\ j' = (IF kind = "read" THEN 1 ELSE 0)
    /\ dest' = [k \in {} |-> 0] /\ old' = disk
    /\ UNCHANGED disk

\* A turn of read_disk's loop: one byte, and at the end of a sector the next.
ReadByte_start ==
    /\ call = "read" /\ i < len
    /\ dest' = [k \in 0 .. i |-> IF k < i THEN dest[k] ELSE buffer[(remainder + i) % SECTOR_SIZE]]
    /\ i' = i + 1
    /\ IF (i + 1) % SECTOR_SIZE = 0
       THEN buffer' = read_sect(quotient + j) /\ j' = j + 1
       ELSE UNCHANGED <<buffer, j>>
    /\ UNCHANGED <<disk, call, offset, len, calls, old>>

ReadByte ==
    /\ call = "read" /\ i < len
    /\ dest' = [k \in 0 .. i |-> IF k < i THEN dest[k] ELSE buffer[(remainder + i) % SECTOR_SIZE]]
    /\ i' = i + 1
    /\ IF (remainder + i + 1) % SECTOR_SIZE = 0
       THEN buffer' = read_sect(quotient + j) /\ j' = j + 1
       ELSE UNCHANGED <<buffer, j>>
    /\ UNCHANGED <<disk, call, offset, len, calls, old>>

\* A turn of write_disk's loop that stays within the sector.
WriteByte ==
    /\ call = "write" /\ i < len /\ (remainder + i + 1) % SECTOR_SIZE # 0
    /\ buffer' = [buffer EXCEPT ![(remainder + i) % SECTOR_SIZE] = Data(i)]
    /\ i' = i + 1
    /\ UNCHANGED <<disk, call, offset, len, j, dest, calls, old>>

\* A turn that fills the sector: it is written, and the next one is read.
WriteSector_keep ==
    /\ call = "write" /\ i < len /\ (remainder + i + 1) % SECTOR_SIZE = 0
    /\ buffer' = [buffer EXCEPT ![(remainder + i) % SECTOR_SIZE] = Data(i)]
    /\ disk' = write_sect(buffer', quotient + j)
    /\ i' = i + 1 /\ j' = j + 1
    /\ UNCHANGED <<call, offset, len, dest, calls, old>>

WriteSector ==
    /\ call = "write" /\ i < len /\ (remainder + i + 1) % SECTOR_SIZE = 0
    /\ LET full == [buffer EXCEPT ![(remainder + i) % SECTOR_SIZE] = Data(i)]
       IN  disk' = write_sect(full, quotient + j)
    /\ i' = i + 1 /\ j' = j + 1
    /\ buffer' = read_sect(quotient + j + 1)
    /\ UNCHANGED <<call, offset, len, dest, calls, old>>

\* The end of the calls; write_disk writes the sector it is in.
EndRead ==
    /\ call = "read" /\ i = len
    /\ call' = "none"
    /\ UNCHANGED <<disk, offset, len, i, j, buffer, dest, calls, old>>

EndWrite ==
    /\ call = "write" /\ i = len
    /\ disk' = write_sect(buffer, quotient + j)
    /\ call' = "none"
    /\ UNCHANGED <<offset, len, i, j, buffer, dest, calls, old>>

\* The machine stops during a call, and is started again.
Crash ==
    /\ call # "none"
    /\ call' = "none"
    /\ UNCHANGED <<disk, offset, len, i, j, buffer, dest, calls, old>>

Init ==
    /\ sectorNum \in 0 .. MAX_SECTOR
    /\ disk = [a \in Addresses |-> <<0, a>>]
    /\ call = "none" /\ offset = 0 /\ len = 0 /\ i = 0 /\ j = 0
    /\ buffer = [k \in 0 .. SECTOR_SIZE - 1 |-> <<0, 0>>]
    /\ dest = [k \in {} |-> 0] /\ calls = 0 /\ old = disk

Next ==
    /\ UNCHANGED sectorNum
    /\ \/ Begin("read") \/ Begin("write")
       \/ ReadByte \/ WriteByte \/ WriteSector \/ EndRead \/ EndWrite \/ Crash

Spec == Init /\ [][Next]_vars

-----------------------------------------------------------------------------
(***************************************************************************)
(* Properties.                                                             *)
(***************************************************************************)

\* read_disk hands out the bytes of its range, in order, wherever the range
\* starts and however many sectors it spans, and leaves the disk as it is.
ReadExact ==
    call = "read" => dest = [k \in 0 .. i - 1 |-> disk[offset + k]] /\ disk = old

\* The disk with the first n bytes of the call at their place.
Prefix(n) ==
    [a \in Addresses |-> IF offset <= a /\ a < offset + n THEN Data(a - offset) ELSE old[a]]

\* Whenever the machine stops, write_disk has put a prefix of its range on
\* the disk and nothing else: the bytes around it in the sectors it rewrites
\* are the old ones, and when it returns the prefix is the whole range.
WritePrefix ==
    /\ [](call = "write" => \E n \in 0 .. i : disk = Prefix(n))
    /\ [][EndWrite => disk' = Prefix(len)]_vars

\* Where the callers find groups: on a disk of any size, the groups that
\* calGroupNum counts end on the disk with the sizes calGroupSize computes for
\* itself, and their descriptors fit gDesc.
GroupsFit == GroupsFitOn(sectorNum)

\* On a disk of any size, inodes and blocks lie within their groups, and
\* setAllocInode and setAllocBlock find the bits that getAvailInode and
\* getAvailBlock have set.
PlacesFound == PlacesFoundOn(sectorNum)

=============================================================================
