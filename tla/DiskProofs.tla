----------------------------- MODULE DiskProofs -----------------------------
(***************************************************************************)
(* Proofs about Disk and Layout, for sectors, blocks, inodes and disks of  *)
(* any size: what read_disk and write_disk transfer, and where the groups, *)
(* inodes and blocks lie.                                                  *)
(***************************************************************************)
EXTENDS Disk, TLAPS, WellFoundedInduction

\* The seconds each prover has for a leaf.
USE ZenonT(20), SMTT(20)

\* The sector a call is in, and the bytes it has put on the disk: those of
\* the sectors before that one.
at == (offset + i) \div SECTOR_SIZE
Done == IF at * SECTOR_SIZE <= offset THEN 0 ELSE at * SECTOR_SIZE - offset

InRange ==
    /\ offset \in Nat /\ len \in Nat /\ i \in 0 .. len
    /\ offset + len <= SECTORS * SECTOR_SIZE
    /\ old = [a \in Addresses |-> old[a]]

\* The buffer of a read holds the sector of the next byte; that of a write
\* holds it too, with the bytes already done in place.
Reading ==
    /\ j = at + 1 - quotient
    /\ buffer = read_sect(at)
    /\ dest = [k \in 0 .. i - 1 |-> disk[offset + k]] /\ disk = old

Writing ==
    /\ j = at - quotient
    /\ buffer = [k \in 0 .. SECTOR_SIZE - 1 |-> Prefix(i)[at * SECTOR_SIZE + k]]
    /\ disk = Prefix(Done)

\* The inductive invariant.
Inv ==
    /\ call \in {"none", "read", "write"}
    /\ disk = [a \in Addresses |-> disk[a]]
    /\ call # "none" => InRange
    /\ call = "read" => Reading
    /\ call = "write" => Writing

-----------------------------------------------------------------------------
(***************************************************************************)
(* Division.                                                               *)
(***************************************************************************)
LEMMA DivMod ==
  ASSUME NEW n \in Nat \ {0}, NEW a \in Nat
  PROVE  a \div n \in Nat /\ a % n \in 0 .. n - 1 /\ a = (a \div n) * n + (a % n)
BY SMTT(30)

LEMMA DivUnique ==
  ASSUME NEW n \in Nat \ {0}, NEW q \in Nat, NEW r \in 0 .. n - 1
  PROVE  (q * n + r) \div n = q /\ (q * n + r) % n = r
BY SMTT(30)

LEMMA DivNext ==
  ASSUME NEW n \in Nat \ {0}, NEW a \in Nat
  PROVE  /\ (a + 1) % n = 0 => a % n = n - 1 /\ (a + 1) \div n = (a \div n) + 1
         /\ (a + 1) % n # 0 => (a + 1) \div n = a \div n
BY SMTT(30)

LEMMA ModShift ==
  ASSUME NEW n \in Nat \ {0}, NEW o \in Nat, NEW x \in Nat
  PROVE  ((o % n) + x) % n = (o + x) % n
<1> DEFINE y == (o % n) + x
           q == (o \div n) + (y \div n)
           r == y % n
<1>1. o = (o \div n) * n + (o % n) /\ o \div n \in Nat /\ o % n \in Nat
  BY SMTT(30), DivMod
<1>2. y \in Nat /\ o + x = (o \div n) * n + y
  BY SMTT(30), <1>1
<1> HIDE DEF y
<1>3. y = (y \div n) * n + (y % n) /\ y \div n \in Nat /\ y % n \in 0 .. n - 1
  BY <1>2, DivMod
<1>4. o + x = q * n + r /\ q \in Nat /\ r \in 0 .. n - 1
  BY SMTT(30), <1>1, <1>2, <1>3
<1> HIDE DEF q, r
<1>5. (q * n + r) % n = r
  BY <1>4, DivUnique
<1> QED BY <1>4, <1>5 DEF y, r

-----------------------------------------------------------------------------
(***************************************************************************)
(* The place of a call.                                                    *)
(***************************************************************************)
LEMMA Size == SECTOR_SIZE \in Nat \ {0} /\ SECTORS \in Nat \ {0}
BY LayoutAssumption, DiskAssumption

\* The next byte of a call is in sector at, which is on the disk or behind it.
LEMMA Place ==
  ASSUME InRange
  PROVE  /\ at \in Nat /\ quotient \in Nat /\ remainder \in Nat
         /\ (remainder + i) % SECTOR_SIZE = (offset + i) % SECTOR_SIZE
         /\ (remainder + i + 1) % SECTOR_SIZE = (offset + i + 1) % SECTOR_SIZE
         /\ (offset + i) % SECTOR_SIZE \in 0 .. SECTOR_SIZE - 1
         /\ offset + i = at * SECTOR_SIZE + ((offset + i) % SECTOR_SIZE)
         /\ \A k \in 0 .. SECTOR_SIZE - 1 : at * SECTOR_SIZE + k \in Addresses
<1> USE Size
<1>1. offset \in Nat /\ i \in Nat /\ offset + i \in Nat /\ offset + i <= SECTORS * SECTOR_SIZE
  BY SMTT(30) DEF InRange
<1>2. /\ at \in Nat /\ quotient \in Nat /\ remainder \in Nat
      /\ (offset + i) % SECTOR_SIZE \in 0 .. SECTOR_SIZE - 1
      /\ offset + i = at * SECTOR_SIZE + ((offset + i) % SECTOR_SIZE)
  <2>1. quotient \in Nat /\ remainder \in Nat
    BY SMTT(30), <1>1, DivMod DEF quotient, remainder
  <2>2. ASSUME NEW p \in Nat
        PROVE  /\ p \div SECTOR_SIZE \in Nat /\ p % SECTOR_SIZE \in 0 .. SECTOR_SIZE - 1
               /\ p = (p \div SECTOR_SIZE) * SECTOR_SIZE + (p % SECTOR_SIZE)
    BY DivMod
  <2> QED BY <1>1, <2>1, <2>2 DEF at
<1>3. /\ (remainder + i) % SECTOR_SIZE = (offset + i) % SECTOR_SIZE
      /\ (remainder + (i + 1)) % SECTOR_SIZE = (offset + (i + 1)) % SECTOR_SIZE
  <2>1. \A x \in Nat : (remainder + x) % SECTOR_SIZE = (offset + x) % SECTOR_SIZE
    BY <1>1, ModShift DEF remainder
  <2> QED BY SMTT(30), <1>1, <2>1
<1>4. remainder + (i + 1) = remainder + i + 1 /\ offset + (i + 1) = offset + i + 1
  BY SMTT(30), <1>1, <1>2
<1>5. \A k \in 0 .. SECTOR_SIZE - 1 : at * SECTOR_SIZE + k \in Addresses
  BY SMTT(30), <1>1, <1>2 DEF Addresses
<1> QED BY <1>2, <1>3, <1>4, <1>5

\* Writing the sector a call is in puts the bytes done on the disk.
LEMMA Sector ==
  ASSUME InRange, Writing, NEW m \in Nat, i <= m, offset + m <= (at + 1) * SECTOR_SIZE, NEW b,
         b = [k \in 0 .. SECTOR_SIZE - 1 |-> Prefix(m)[at * SECTOR_SIZE + k]]
  PROVE  write_sect(b, at) = Prefix(m)
<1> USE Size
<1>0. at \in Nat /\ offset \in Nat /\ at * SECTOR_SIZE \in Nat /\ i \in Nat
      /\ at * SECTOR_SIZE <= offset + i
      /\ (at + 1) * SECTOR_SIZE = at * SECTOR_SIZE + SECTOR_SIZE
  <2>1. at \in Nat /\ offset \in Nat /\ i \in Nat
    BY SMTT(30), Place DEF InRange
  <2>2. at * SECTOR_SIZE \in Nat /\ (at + 1) * SECTOR_SIZE = at * SECTOR_SIZE + SECTOR_SIZE
    BY SMTT(30), <2>1
  <2>3. (offset + i) % SECTOR_SIZE \in Nat /\ offset + i = at * SECTOR_SIZE + ((offset + i) % SECTOR_SIZE)
    BY SMTT(30), Place
  <2> QED BY SMTT(30), <2>1, <2>2, <2>3
<1>1. ASSUME NEW a \in Addresses
      PROVE  (IF a \div SECTOR_SIZE = at THEN b[a % SECTOR_SIZE] ELSE disk[a]) = Prefix(m)[a]
  <2>0. a \in Nat
    BY SMTT(30) DEF Addresses
  <2>1. CASE a \div SECTOR_SIZE = at
    <3>1. a % SECTOR_SIZE \in 0 .. SECTOR_SIZE - 1 /\ a = at * SECTOR_SIZE + (a % SECTOR_SIZE)
      BY <2>0, <2>1, DivMod
    <3> QED BY <2>1, <3>1
  <2>2. CASE a \div SECTOR_SIZE # at
    <3>1. a < at * SECTOR_SIZE \/ at * SECTOR_SIZE + SECTOR_SIZE <= a
      <4>1. SUFFICES ASSUME at * SECTOR_SIZE <= a, a < at * SECTOR_SIZE + SECTOR_SIZE PROVE FALSE
        BY SMTT(30), <1>0, <2>0
      <4>2. a - at * SECTOR_SIZE \in 0 .. SECTOR_SIZE - 1
        BY SMTT(30), <4>1, <1>0, <2>0
      <4>3. a = at * SECTOR_SIZE + (a - at * SECTOR_SIZE)
        BY SMTT(30), <1>0, <2>0
      <4> QED BY <4>2, <4>3, <1>0, <2>2, DivUnique
    <3>2. (offset <= a /\ a < offset + Done) <=> (offset <= a /\ a < offset + m)
      BY SMTT(30), <1>0, <2>0, <3>1 DEF Done
    <3>3. disk[a] = Prefix(Done)[a]
      BY DEF Writing
    <3> QED BY <2>2, <3>2, <3>3 DEF Prefix
  <2> QED BY <2>1, <2>2
<1> QED BY <1>1 DEF write_sect, Prefix


-----------------------------------------------------------------------------
(***************************************************************************)
(* The steps of a call.                                                    *)
(***************************************************************************)
\* A byte done: the place of the next one.
LEMMA Advances ==
  ASSUME InRange, i < len, i' = i + 1, UNCHANGED <<offset, len, old>>
  PROVE  /\ InRange' /\ quotient' = quotient
         /\ (remainder + i + 1) % SECTOR_SIZE = 0 =>
               at' = at + 1 /\ (at + 1) * SECTOR_SIZE = offset + i + 1
         /\ (remainder + i + 1) % SECTOR_SIZE # 0 => at' = at
<1> USE Size
<1>1. offset \in Nat /\ i \in Nat /\ offset + i \in Nat /\ offset' + i' = offset + i + 1
  BY SMTT(30) DEF InRange
<1>2. InRange' /\ quotient' = quotient
  BY SMTT(30) DEF InRange, quotient
<1>3. (remainder + i + 1) % SECTOR_SIZE = (offset + i + 1) % SECTOR_SIZE
  BY Place
<1> DEFINE p == offset + i
<1>p. p \in Nat /\ at = p \div SECTOR_SIZE /\ at' = (p + 1) \div SECTOR_SIZE
      /\ (remainder + i + 1) % SECTOR_SIZE = (p + 1) % SECTOR_SIZE
  BY <1>1, <1>3 DEF at
<1> HIDE DEF p
<1>4. (p + 1) % SECTOR_SIZE = 0 => at' = at + 1 /\ p % SECTOR_SIZE = SECTOR_SIZE - 1
  BY <1>p, DivNext
<1>5. (p + 1) % SECTOR_SIZE # 0 => at' = at
  BY <1>p, DivNext
<1>6. (p + 1) % SECTOR_SIZE = 0 => (at + 1) * SECTOR_SIZE = p + 1
  <2>1. at \in Nat /\ p = at * SECTOR_SIZE + (p % SECTOR_SIZE)
    BY <1>p, DivMod
  <2>2. (at + 1) * SECTOR_SIZE = at * SECTOR_SIZE + SECTOR_SIZE /\ at * SECTOR_SIZE \in Nat
    BY SMTT(30), <2>1
  <2> QED BY SMTT(30), <1>4, <2>1, <2>2
<1> QED BY <1>2, <1>p, <1>4, <1>5, <1>6 DEF p

LEMMA Begins ==
  ASSUME Inv, NEW kind \in {"read", "write"}, Begin(kind)
  PROVE  Inv'
<1> USE Size
<1>1. PICK o \in 0 .. SECTORS * SECTOR_SIZE - 1, n \in 0 .. MAX_LEN :
         /\ o + n <= SECTORS * SECTOR_SIZE
         /\ offset' = o /\ len' = n
         /\ buffer' = read_sect(o \div SECTOR_SIZE)
  BY DEF Begin
<1>2. /\ call' = kind /\ i' = 0 /\ j' = (IF kind = "read" THEN 1 ELSE 0)
      /\ dest' = [k \in {} |-> 0] /\ old' = disk /\ disk' = disk
  BY DEF Begin
<1>3. InRange' /\ disk = [a \in Addresses |-> disk[a]]
  BY SMTT(30), <1>1, <1>2, DiskAssumption DEF InRange, Inv
<1>4. at' = o \div SECTOR_SIZE /\ quotient' = at' /\ at' \in Nat
  <2>1. o \in Nat /\ o + 0 = o
    BY SMTT(30)
  <2> QED BY <1>1, <1>2, <2>1, DivMod DEF at, quotient
<1>5. ASSUME kind = "read" PROVE Reading'
  <2>1. dest' = [k \in 0 .. i' - 1 |-> disk'[offset' + k]]
    BY SMTT(30), <1>2
  <2>2. buffer' = read_sect(at)'
    BY <1>1, <1>2, <1>4 DEF read_sect
  <2> QED BY SMTT(30), <1>2, <1>4, <1>5, <2>1, <2>2 DEF Reading
<1>6. ASSUME kind = "write" PROVE Writing'
  <2>1. Prefix(0)' = disk
    <3>1. \A a \in Addresses : ~(offset' <= a /\ a < offset' + 0)
      BY SMTT(30), <1>1 DEF Addresses
    <3> QED BY <1>2, <1>3, <3>1 DEF Prefix
  <2>2. at' * SECTOR_SIZE <= offset'
    <3>1. o \in Nat /\ o % SECTOR_SIZE \in Nat
          /\ o = (o \div SECTOR_SIZE) * SECTOR_SIZE + (o % SECTOR_SIZE)
      BY SMTT(30), DivMod
    <3> QED BY SMTT(30), <1>1, <1>4, <3>1
  <2>3. Done' = 0
    BY <2>2 DEF Done
  <2>4. disk' = Prefix(Done)'
    BY <1>2, <2>1, <2>3 DEF Prefix
  <2>5. Prefix(i)' = disk
    BY <1>2, <2>1 DEF Prefix
  <2>6. buffer' = [k \in 0 .. SECTOR_SIZE - 1 |-> Prefix(i)'[at' * SECTOR_SIZE + k]]
    BY <1>1, <1>4, <2>5 DEF read_sect
  <2> QED BY SMTT(30), <1>2, <1>4, <1>6, <2>4, <2>6 DEF Writing
<1> QED BY <1>2, <1>3, <1>5, <1>6 DEF Inv


LEMMA ReadsByte == Inv /\ ReadByte => Inv'
<1> SUFFICES ASSUME Inv, ReadByte PROVE Inv'
  OBVIOUS
<1> USE Size
<1>1. /\ InRange /\ Reading /\ call = "read" /\ i < len /\ i' = i + 1
      /\ UNCHANGED <<disk, call, offset, len, calls, old>>
      /\ disk = [a \in Addresses |-> disk[a]]
  BY DEF Inv, ReadByte
<1>2. /\ InRange' /\ quotient' = quotient
      /\ (remainder + i + 1) % SECTOR_SIZE = 0 => at' = at + 1
      /\ (remainder + i + 1) % SECTOR_SIZE # 0 => at' = at
  BY <1>1, Advances
<1>3. at \in Nat /\ quotient \in Nat
  BY <1>1, Place
<1>4. j' = at' + 1 - quotient' /\ buffer' = read_sect(at')
  <2>1. j = at + 1 - quotient /\ buffer = read_sect(at)
    BY <1>1 DEF Reading
  <2>2. CASE (remainder + i + 1) % SECTOR_SIZE = 0
    <3>1. buffer' = read_sect(quotient + j) /\ j' = j + 1
      BY <2>2 DEF ReadByte
    <3>2. quotient + j = at + 1
      BY SMTT(30), <1>3, <2>1
    <3> QED BY SMTT(30), <1>2, <1>3, <2>1, <2>2, <3>1, <3>2
  <2>3. CASE (remainder + i + 1) % SECTOR_SIZE # 0
    <3>1. buffer' = buffer /\ j' = j
      BY <2>3 DEF ReadByte
    <3> QED BY <1>2, <2>1, <2>3, <3>1
  <2> QED BY <2>2, <2>3
<1>5. buffer[(remainder + i) % SECTOR_SIZE] = disk[offset + i]
  BY <1>1, Place DEF Reading, read_sect
<1>6. dest' = [k \in 0 .. i' - 1 |-> disk'[offset' + k]]
  <2>1. dest' = [k \in 0 .. i |-> IF k < i THEN dest[k] ELSE disk[offset + i]]
    BY <1>5 DEF ReadByte
  <2>2. i \in Nat /\ i' - 1 = i
    BY SMTT(30), <1>1 DEF InRange
  <2>3. \A k \in 0 .. i : k < i => dest[k] = disk[offset + k]
    BY SMTT(30), <1>1, <2>2 DEF Reading
  <2>4. \A k \in 0 .. i : ~(k < i) => k = i
    BY SMTT(30), <2>2
  <2> QED BY <1>1, <2>1, <2>2, <2>3, <2>4
<1>7. Reading'
  BY <1>1, <1>4, <1>6 DEF Reading, read_sect
<1> QED BY <1>1, <1>2, <1>7 DEF Inv

\* A byte put into the buffer of a write.
LEMMA PutByte ==
  ASSUME InRange, Writing
  PROVE  [buffer EXCEPT ![(remainder + i) % SECTOR_SIZE] = Data(i)]
            = [k \in 0 .. SECTOR_SIZE - 1 |-> Prefix(i + 1)[at * SECTOR_SIZE + k]]
<1> USE Size
<1> DEFINE r == (offset + i) % SECTOR_SIZE
           w == at * SECTOR_SIZE
<1>1. /\ (remainder + i) % SECTOR_SIZE = r /\ r \in 0 .. SECTOR_SIZE - 1
      /\ offset + i = w + r /\ at \in Nat
      /\ \A k \in 0 .. SECTOR_SIZE - 1 : w + k \in Addresses
  BY Place
<1>2. w \in Nat /\ offset \in Nat /\ i \in Nat
  BY SMTT(30), <1>1 DEF InRange
<1>3. buffer = [k \in 0 .. SECTOR_SIZE - 1 |-> Prefix(i)[w + k]]
  BY DEF Writing
<1> HIDE DEF r, w
<1>4. Prefix(i + 1)[w + r] = Data(i)
  <2>1. offset <= w + r /\ w + r < offset + (i + 1) /\ (w + r) - offset = i /\ w + r \in Addresses
    BY SMTT(30), <1>1, <1>2
  <2> QED BY <2>1 DEF Prefix
<1>5. ASSUME NEW k \in 0 .. SECTOR_SIZE - 1, k # r PROVE Prefix(i + 1)[w + k] = Prefix(i)[w + k]
  <2>1. w + k < offset + (i + 1) <=> w + k < offset + i
    BY SMTT(30), <1>1, <1>2, <1>5
  <2>2. w + k \in Addresses
    BY <1>1
  <2> QED BY <2>1, <2>2 DEF Prefix
<1>6. [buffer EXCEPT ![r] = Data(i)] = [k \in 0 .. SECTOR_SIZE - 1 |-> Prefix(i + 1)[w + k]]
  BY <1>1, <1>3, <1>4, <1>5
<1> QED BY <1>1, <1>6 DEF w

LEMMA WritesByte == Inv /\ WriteByte => Inv'
<1> SUFFICES ASSUME Inv, WriteByte PROVE Inv'
  OBVIOUS
<1>1. /\ InRange /\ Writing /\ call = "write" /\ i < len /\ i' = i + 1
      /\ UNCHANGED <<disk, call, offset, len, j, calls, old>>
      /\ disk = [a \in Addresses |-> disk[a]]
  BY DEF Inv, WriteByte
<1>2. InRange' /\ quotient' = quotient /\ at' = at
  BY <1>1, Advances DEF WriteByte
<1>3. buffer' = [k \in 0 .. SECTOR_SIZE - 1 |-> Prefix(i + 1)[at * SECTOR_SIZE + k]]
  BY <1>1, PutByte DEF WriteByte
<1>4. Done' = Done
  BY <1>1, <1>2 DEF Done
<1>5. Writing'
  <2>1. Prefix(i)' = Prefix(i + 1) /\ Prefix(Done)' = Prefix(Done)
    BY <1>1, <1>4 DEF Prefix, Data
  <2> QED BY <1>1, <1>2, <1>3, <2>1 DEF Writing
<1> QED BY <1>1, <1>2, <1>5 DEF Inv

LEMMA WritesSector == Inv /\ WriteSector => Inv'
<1> SUFFICES ASSUME Inv, WriteSector PROVE Inv'
  OBVIOUS
<1> USE Size
<1>1. /\ InRange /\ Writing /\ call = "write" /\ i < len /\ i' = i + 1 /\ j' = j + 1
      /\ (remainder + i + 1) % SECTOR_SIZE = 0
      /\ UNCHANGED <<call, offset, len, calls, old>>
  BY DEF Inv, WriteSector
<1>2. InRange' /\ quotient' = quotient /\ at' = at + 1 /\ (at + 1) * SECTOR_SIZE = offset + i + 1
  BY <1>1, Advances
<1>3. at \in Nat /\ quotient \in Nat /\ offset \in Nat /\ i \in Nat /\ j = at - quotient
  BY SMTT(30), <1>1, Place DEF InRange, Writing
<1>4. quotient + j = at /\ quotient + j + 1 = at + 1 /\ j' = at' - quotient'
  BY SMTT(30), <1>1, <1>2, <1>3
<1>5. disk' = Prefix(i + 1)
  <2> DEFINE full == [buffer EXCEPT ![(remainder + i) % SECTOR_SIZE] = Data(i)]
  <2>1. disk' = write_sect(full, at)
    BY <1>4 DEF WriteSector
  <2>2. full = [k \in 0 .. SECTOR_SIZE - 1 |-> Prefix(i + 1)[at * SECTOR_SIZE + k]]
    BY <1>1, PutByte
  <2>3. i + 1 \in Nat /\ i <= i + 1 /\ offset + (i + 1) <= (at + 1) * SECTOR_SIZE
    BY SMTT(30), <1>2, <1>3
  <2> HIDE DEF full
  <2> QED BY <1>1, <2>1, <2>2, <2>3, Sector
<1>6. buffer' = [k \in 0 .. SECTOR_SIZE - 1 |-> Prefix(i + 1)[at' * SECTOR_SIZE + k]]
  <2>1. buffer' = [k \in 0 .. SECTOR_SIZE - 1 |-> disk[at' * SECTOR_SIZE + k]]
    BY <1>2, <1>4 DEF WriteSector, read_sect
  <2>2. disk = Prefix(Done)
    BY <1>1 DEF Writing
  <2>3. ASSUME NEW k \in 0 .. SECTOR_SIZE - 1
        PROVE  Prefix(Done)[at' * SECTOR_SIZE + k] = Prefix(i + 1)[at' * SECTOR_SIZE + k]
    <3>1. at' * SECTOR_SIZE + k \in Addresses
      <4>1. at' * SECTOR_SIZE = offset + i + 1 /\ offset + i + 1 <= SECTORS * SECTOR_SIZE
        BY SMTT(30), <1>1, <1>2, <1>3 DEF InRange
      <4>2. (SECTORS + 1) * SECTOR_SIZE = SECTORS * SECTOR_SIZE + SECTOR_SIZE
            /\ SECTORS * SECTOR_SIZE \in Nat
        BY SMTT(30)
      <4> QED BY SMTT(30), <1>3, <4>1, <4>2 DEF Addresses
    <3>2. ~(at' * SECTOR_SIZE + k < offset + (i + 1))
      BY SMTT(30), <1>2, <1>3
    <3>3. at * SECTOR_SIZE \in Nat /\ at * SECTOR_SIZE + SECTOR_SIZE = offset + i + 1
      BY SMTT(30), <1>2, <1>3
    <3>4. ~(at' * SECTOR_SIZE + k < offset + Done)
      BY SMTT(30), <1>2, <1>3, <3>3 DEF Done
    <3> QED BY <3>1, <3>2, <3>4 DEF Prefix
  <2> QED BY <2>1, <2>2, <2>3
<1>7. Writing'
  <2>1. Done' = i + 1
    BY SMTT(30), <1>1, <1>2, <1>3 DEF Done
  <2>2. Prefix(i)' = Prefix(i + 1) /\ Prefix(Done)' = Prefix(i + 1)
    BY <1>1, <2>1 DEF Prefix, Data
  <2> QED BY <1>4, <1>5, <1>6, <2>2 DEF Writing
<1>8. disk' = [a \in Addresses |-> disk'[a]]
  BY <1>5 DEF Prefix
<1> QED BY <1>1, <1>2, <1>7, <1>8 DEF Inv

\* write_disk returns with its whole range on the disk.
LEMMA WriteEnds == Inv /\ EndWrite => Inv' /\ disk' = Prefix(len)
<1> SUFFICES ASSUME Inv, EndWrite PROVE Inv' /\ disk' = Prefix(len)
  OBVIOUS
<1> USE Size
<1>1. InRange /\ Writing /\ i = len
  BY DEF Inv, EndWrite
<1>2. at \in Nat /\ quotient \in Nat /\ i \in Nat /\ offset \in Nat /\ j = at - quotient
  BY <1>1, Place DEF InRange, Writing
<1>3. quotient + j = at
  BY SMTT(30), <1>2
<1>4. offset + i <= (at + 1) * SECTOR_SIZE
  <2>1. /\ (offset + i) % SECTOR_SIZE \in 0 .. SECTOR_SIZE - 1
        /\ offset + i = at * SECTOR_SIZE + ((offset + i) % SECTOR_SIZE)
    BY <1>1, Place
  <2>2. (at + 1) * SECTOR_SIZE = at * SECTOR_SIZE + SECTOR_SIZE /\ at * SECTOR_SIZE \in Nat
    BY SMTT(30), <1>2
  <2> QED BY SMTT(30), <2>1, <2>2
<1>5. buffer = [k \in 0 .. SECTOR_SIZE - 1 |-> Prefix(i)[at * SECTOR_SIZE + k]]
  BY <1>1 DEF Writing
<1>6. write_sect(buffer, at) = Prefix(i)
  BY SMTT(30), <1>1, <1>2, <1>4, <1>5, Sector
<1>7. disk' = Prefix(len)
  BY <1>1, <1>3, <1>6 DEF EndWrite
<1> QED BY <1>7 DEF Inv, EndWrite, Prefix


LEMMA DiskInit == Init => Inv
BY DEF Init, Inv

LEMMA DiskNext == Inv /\ [Next]_vars => Inv'
<1> SUFFICES ASSUME Inv, [Next]_vars PROVE Inv'
  OBVIOUS
<1>1. CASE UNCHANGED vars
  <2>1. at' = at /\ quotient' = quotient /\ InRange' = InRange
    BY <1>1 DEF vars, InRange, at, quotient
  <2>2. Reading' = Reading
    BY <1>1, <2>1 DEF vars, Reading, read_sect
  <2>3. Done' = Done
    BY <1>1, <2>1 DEF vars, Done
  <2>4. Prefix(i)' = Prefix(i) /\ Prefix(Done)' = Prefix(Done)
    BY <1>1, <2>3 DEF vars, Prefix, Data
  <2>5. Writing' = Writing
    BY <1>1, <2>1, <2>4 DEF vars, Writing
  <2> QED BY <1>1, <2>1, <2>2, <2>5 DEF vars, Inv
<1>2. CASE EndRead \/ Crash
  BY <1>2 DEF EndRead, Crash, Inv
<1> QED BY <1>1, <1>2, Begins, ReadsByte, WritesByte, WritesSector, WriteEnds DEF Next

\* read_disk hands out exactly the bytes of its range, for sectors of any size
\* and ranges that start anywhere and span any number of them.
THEOREM ReadIsExact == Spec => []ReadExact
<1>1. Inv => ReadExact
  BY DEF Inv, Reading, ReadExact
<1> QED BY <1>1, DiskInit, DiskNext, PTL DEF Spec

\* write_disk, wherever the machine stops it, has put a prefix of its range on
\* the disk and changed no other byte, and it returns with the whole range.
THEOREM WriteIsPrefix == Spec => WritePrefix
<1>1. Inv => (call = "write" => \E n \in 0 .. i : disk = Prefix(n))
  <2> SUFFICES ASSUME Inv, call = "write" PROVE \E n \in 0 .. i : disk = Prefix(n)
    OBVIOUS
  <2>1. InRange /\ disk = Prefix(Done)
    BY DEF Inv, Writing
  <2>2. offset \in Nat /\ i \in Nat /\ at * SECTOR_SIZE \in Nat /\ at * SECTOR_SIZE <= offset + i
    <3>1. at \in Nat /\ (offset + i) % SECTOR_SIZE \in Nat
          /\ offset + i = at * SECTOR_SIZE + ((offset + i) % SECTOR_SIZE)
      BY SMTT(30), <2>1, Place, Size
    <3> QED BY SMTT(30), <2>1, <3>1, Size DEF InRange
  <2>3. Done \in 0 .. i
    BY SMTT(30), <2>2 DEF Done
  <2> QED BY <2>1, <2>3
<1>2. Inv => [EndWrite => disk' = Prefix(len)]_vars
  BY WriteEnds
<1> QED BY <1>1, <1>2, DiskInit, DiskNext, PTL DEF Spec, WritePrefix


-----------------------------------------------------------------------------
(***************************************************************************)
(* The layout of block groups.  First, arithmetic.                         *)
(***************************************************************************)
LEMMA MulLe == ASSUME NEW a \in Nat, NEW b \in Nat, NEW c \in Nat, a <= b PROVE a * c <= b * c
BY SMTT(30)

LEMMA MulCancel == ASSUME NEW a \in Nat, NEW b \in Nat, NEW c \in Nat \ {0}, a * c <= b * c PROVE a <= b
BY SMTT(30)

LEMMA MulNat == ASSUME NEW a \in Nat, NEW b \in Nat PROVE a * b \in Nat
BY SMTT(30)

LEMMA DivLe == ASSUME NEW n \in Nat \ {0}, NEW a \in Nat, NEW m \in Nat, m * n <= a PROVE m <= a \div n
BY SMTT(30)

LEMMA DivMul == ASSUME NEW n \in Nat \ {0}, NEW a \in Nat PROVE (a \div n) * n <= a /\ a \div n \in Nat
BY SMTT(30)

LEMMA DivLt == ASSUME NEW n \in Nat \ {0}, NEW a \in Nat, NEW m \in Nat, a < m * n PROVE a \div n < m
BY SMTT(30)

LEMMA DivExact == ASSUME NEW n \in Nat \ {0}, NEW m \in Nat PROVE (m * n) \div n = m
BY SMTT(30)

\* The sizes of the parts of a group.
LEMMA Parts ==
  /\ SECTOR_SIZE \in Nat \ {0} /\ SECTORS_PER_BLOCK \in Nat \ {0} /\ SUPER_BLOCK_SIZE \in Nat \ {0}
  /\ GROUP_DESC_SIZE \in Nat \ {0} /\ INODE_SIZE \in Nat \ {0} /\ BYTE \in Nat \ {0}
  /\ blockSize \in Nat \ {0} /\ inodeTableSectors \in Nat \ {0} /\ groupBodySectors \in Nat \ {0}
<1>1. /\ SECTOR_SIZE \in Nat \ {0} /\ SECTORS_PER_BLOCK \in Nat \ {0} /\ SUPER_BLOCK_SIZE \in Nat \ {0}
      /\ GROUP_DESC_SIZE \in Nat \ {0} /\ INODE_SIZE \in Nat \ {0} /\ BYTE \in Nat \ {0}
  BY LayoutAssumption
<1>2. \A a, b \in Nat \ {0} : a * b \in Nat \ {0}
  BY SMTT(30)
<1>3. blockSize \in Nat \ {0} /\ inodeTableSectors \in Nat \ {0}
  BY <1>1, <1>2 DEF blockSize, inodeTableSectors
<1>4. blockSize * BYTE * SECTORS_PER_BLOCK \in Nat \ {0}
  BY <1>1, <1>2, <1>3
<1> QED BY SMTT(30), <1>1, <1>3, <1>4 DEF groupBodySectors

\* A group grows with the descriptors it holds.
LEMMA Header ==
  ASSUME NEW d \in Nat
  PROVE  /\ groupHeaderSectors(d) \in Nat \ {0} /\ d < groupHeaderSectors(d)
         /\ groupHeaderSectors(d) < fullGroup(d) /\ fullGroup(d) \in Nat \ {0}
<1>1. SUPER_BLOCK_SIZE \div SECTOR_SIZE \in Nat
  BY Parts, DivMod
<1>2. (d + 1 + 1) * SECTORS_PER_BLOCK \in Nat /\ d + 1 + 1 <= (d + 1 + 1) * SECTORS_PER_BLOCK
  BY SMTT(30), Parts
<1> QED BY SMTT(30), <1>1, <1>2, Parts DEF groupHeaderSectors, fullGroup

\* What fits the table of descriptors.
LEMMA Described ==
  ASSUME NEW d \in Nat \ {0}
  PROVE  /\ groupsDescribed(d) \in Nat \ {0}
         /\ groupsDescribed(d) * GROUP_DESC_SIZE = d * blockSize
<1> DEFINE x == SECTOR_SIZE \div GROUP_DESC_SIZE
<1>1. x * GROUP_DESC_SIZE = SECTOR_SIZE /\ x \in Nat
  BY SMTT(30), Parts, DivMod, LayoutAssumption
<1>2. x # 0
  BY SMTT(30), <1>1, Parts
<1>3. groupsDescribed(d) = x * d * SECTORS_PER_BLOCK
  BY DEF groupsDescribed
<1> HIDE DEF x
<1>4. x * d \in Nat \ {0}
  BY SMTT(30), <1>1, <1>2
<1>5. x * d * SECTORS_PER_BLOCK \in Nat \ {0}
  BY SMTT(30), <1>4, Parts
<1>6. x * d * SECTORS_PER_BLOCK * GROUP_DESC_SIZE = (x * GROUP_DESC_SIZE) * (d * SECTORS_PER_BLOCK)
  BY SMTT(30), <1>1, Parts
<1>7. SECTOR_SIZE * (d * SECTORS_PER_BLOCK) = d * (SECTOR_SIZE * SECTORS_PER_BLOCK)
  BY SMTT(30), Parts
<1> QED BY <1>1, <1>3, <1>5, <1>6, <1>7 DEF blockSize


\* The blocks that groupNum descriptors take: enough, and no more than needed.
LEMMA DescBlocks ==
  ASSUME NEW n \in Nat \ {0}
  PROVE  /\ groupDescBlocks(n) \in Nat \ {0}
         /\ n * GROUP_DESC_SIZE <= groupDescBlocks(n) * blockSize
         /\ \A d \in Nat : n * GROUP_DESC_SIZE <= d * blockSize => groupDescBlocks(n) <= d
<1> DEFINE x == n * GROUP_DESC_SIZE
           y == x + blockSize - 1
           D == y \div blockSize
<1>1. x \in Nat \ {0} /\ blockSize \in Nat \ {0}
  BY SMTT(30), Parts
<1>2. y \in Nat /\ x <= y /\ y = x + blockSize - 1
  BY SMTT(30), <1>1
<1>3. groupDescBlocks(n) = D
  BY DEF groupDescBlocks
<1> HIDE DEF x, y
<1>4. D \in Nat /\ y % blockSize \in 0 .. blockSize - 1 /\ y = D * blockSize + (y % blockSize)
  BY <1>1, <1>2, DivMod
<1> HIDE DEF D
<1>5. x <= D * blockSize
  <2>1. D * blockSize \in Nat
    BY SMTT(30), <1>1, <1>4
  <2> QED BY SMTT(30), <1>1, <1>2, <1>4, <2>1
<1>6. D # 0
  BY SMTT(30), <1>1, <1>5
<1>7. ASSUME NEW d \in Nat, x <= d * blockSize PROVE D <= d
  <2>1. (d + 1) * blockSize = d * blockSize + blockSize /\ d * blockSize \in Nat
    BY SMTT(30), <1>1
  <2>2. y < (d + 1) * blockSize
    BY SMTT(30), <1>1, <1>2, <1>7, <2>1
  <2>3. D < d + 1
    BY SMTT(30), <1>1, <1>2, <2>2, DivLt DEF D
  <2> QED BY SMTT(30), <1>4, <2>3
<1> QED BY <1>3, <1>4, <1>5, <1>6, <1>7 DEF x

\* calGroupNum ends, with the first number of descriptor blocks that is enough.
LEMMA Ends ==
  ASSUME NEW s \in Nat
  PROVE  \E d \in 1 .. s + 1 : Returns(s, d) /\ \A e \in 1 .. d - 1 : ~Returns(s, e)
<1> DEFINE T == {d \in 1 .. s + 1 : Returns(s, d)}
<1>1. s + 1 \in T
  <2>1. s + 1 < fullGroup(s + 1) /\ fullGroup(s + 1) \in Nat \ {0}
    BY SMTT(30), Header
  <2>2. s \div fullGroup(s + 1) = 0
    BY SMTT(30), <2>1
  <2> QED BY SMTT(30), <2>2 DEF Returns
<1>2. \E d \in T : \A e \in T : ~(<<e, d>> \in OpToRel(<, Nat))
  <2> HIDE DEF T
  <2>1. T \subseteq Nat
    BY SMTT(30) DEF T
  <2> QED BY <1>1, <2>1, NatLessThanWellFounded, WFMin
<1>3. PICK d \in T : \A e \in T : ~(<<e, d>> \in OpToRel(<, Nat))
  BY <1>2
<1>4. ASSUME NEW e \in T PROVE ~(e < d)
  <2>1. <<e, d>> \notin {x \in Nat \X Nat : x[1] < x[2]}
    BY <1>3 DEF OpToRel
  <2> QED BY SMTT(30), <2>1
<1>5. \A e \in 1 .. d - 1 : e \in 1 .. s + 1 /\ e < d
  BY SMTT(30)
<1> QED BY <1>4, <1>5


\* The number of groups that calGroupNum finds for some number d of descriptor
\* blocks.
LEMMA GroupNum ==
  ASSUME NEW s \in Nat
  PROVE  \E d \in Nat \ {0} :
            /\ Returns(s, d) /\ \A e \in 1 .. d - 1 : ~Returns(s, e)
            /\ calGroupNum(s) = s \div fullGroup(d)
                  + (IF s % fullGroup(d) >= groupHeaderSectors(d) THEN 1 ELSE 0)
<1> DEFINE P(d) == Returns(s, d) /\ \A e \in 1 .. d - 1 : ~Returns(s, e)
           c == CHOOSE d \in 1 .. s + 1 : P(d)
<1>1. \E d \in 1 .. s + 1 : P(d)
  BY Ends
<1>2. calGroupNum(s) = s \div fullGroup(c)
                  + (IF s % fullGroup(c) >= groupHeaderSectors(c) THEN 1 ELSE 0)
  BY DEF calGroupNum
<1> HIDE DEF P
<1>3. c \in 1 .. s + 1 /\ P(c)
  BY <1>1
<1> QED BY SMTT(30), <1>2, <1>3 DEF P

\* Its groups fit the disk also with the number of descriptor blocks that
\* calGroupSize and initGroupHeader compute from the number of groups.
LEMMA Fits ==
  ASSUME NEW s \in Nat, NEW n, n = calGroupNum(s), n > 0,
         NEW D, D = groupDescBlocks(n), NEW q, q = s \div fullGroup(D)
  PROVE  /\ n \in Nat \ {0} /\ D \in Nat \ {0} /\ q \in Nat
         /\ \/ n <= q
            \/ n = q + 1 /\ s % fullGroup(D) >= groupHeaderSectors(D)
<1>1. PICK d \in Nat \ {0} :
         /\ Returns(s, d) /\ \A e \in 1 .. d - 1 : ~Returns(s, e)
         /\ n = s \div fullGroup(d) + (IF s % fullGroup(d) >= groupHeaderSectors(d) THEN 1 ELSE 0)
  BY GroupNum
<1> DEFINE r == s \div fullGroup(d)
<1>2. r \in Nat /\ n = r + (IF s % fullGroup(d) >= groupHeaderSectors(d) THEN 1 ELSE 0)
  BY <1>1, Header, DivMod
<1>3. n \in Nat \ {0}
  BY SMTT(30), <1>2
<1>4. D \in Nat \ {0} /\ n * GROUP_DESC_SIZE <= D * blockSize
      /\ \A e \in Nat : n * GROUP_DESC_SIZE <= e * blockSize => D <= e
  BY <1>3, DescBlocks
<1>5. q \in Nat
  BY <1>4, Header, DivMod
<1>6. n <= groupsDescribed(d)
  <2>1. groupsDescribed(d) \in Nat \ {0}
    BY Described
  <2>2. \/ r = 0
        \/ r <= groupsDescribed(d) /\ ~(s % fullGroup(d) >= groupHeaderSectors(d))
        \/ r < groupsDescribed(d)
    BY <1>1 DEF Returns
  <2> HIDE DEF r
  <2> QED BY SMTT(30), <1>2, <2>1, <2>2
<1>7. D <= d
  <2>1. n * GROUP_DESC_SIZE <= groupsDescribed(d) * GROUP_DESC_SIZE
    BY <1>3, <1>6, Described, Parts, MulLe
  <2> QED BY <1>4, <2>1, Described
<1>8. CASE D = d
  BY SMTT(30), <1>2, <1>5, <1>8
<1>9. CASE D < d
  <2>1. ~Returns(s, D)
    BY SMTT(30), <1>1, <1>4, <1>9
  <2>2. /\ q <= groupsDescribed(D) => s % fullGroup(D) >= groupHeaderSectors(D)
        /\ ~(q < groupsDescribed(D) /\ s % fullGroup(D) >= groupHeaderSectors(D))
    BY <2>1 DEF Returns
  <2>3. groupsDescribed(D) \in Nat /\ groupsDescribed(D) <= q
    BY SMTT(30), <1>4, <1>5, <2>2, Described
  <2>4. n * GROUP_DESC_SIZE <= groupsDescribed(D) * GROUP_DESC_SIZE
    BY <1>4, Described
  <2>5. n <= groupsDescribed(D)
    BY <1>3, <2>3, <2>4, Parts, MulCancel
  <2> QED BY SMTT(30), <1>3, <1>4, <1>5, <2>3, <2>5
<1> QED BY SMTT(30), <1>3, <1>4, <1>5, <1>7, <1>8, <1>9


\* All groups are full but the last, which has a header at least.
LEMMA GroupSizes ==
  ASSUME NEW s \in Nat, NEW n \in Nat \ {0}, NEW g \in 0 .. n - 1,
         NEW D \in Nat \ {0}, D = groupDescBlocks(n), NEW r, r = s % fullGroup(D)
  PROVE  /\ r \in 0 .. fullGroup(D) - 1
         /\ calGroupSize(s, n, g) \in Nat \ {0}
         /\ groupHeaderSectors(D) <= calGroupSize(s, n, g)
         /\ calGroupSize(s, n, g) <= calGroupSize(s, n, 0)
         /\ calGroupSize(s, n, g) <= fullGroup(D)
         /\ ~Partial(s, n, g) => calGroupSize(s, n, g) = fullGroup(D)
         /\ g + 1 = n /\ r >= groupHeaderSectors(D) => calGroupSize(s, n, g) = r
<1>1. /\ groupHeaderSectors(D) \in Nat \ {0} /\ groupHeaderSectors(D) < fullGroup(D)
      /\ fullGroup(D) \in Nat \ {0}
  BY Header
<1>2. r \in 0 .. fullGroup(D) - 1
  BY <1>1, DivMod
<1>3. lastPart(s, n) = IF r >= groupHeaderSectors(D) THEN r ELSE 0
  BY DEF lastPart
<1>4. \A x : calGroupSize(s, n, x) = IF x + 1 = n /\ lastPart(s, n) # 0 THEN lastPart(s, n) ELSE fullGroup(D)
  BY DEF calGroupSize, Partial
<1>5. 0 + 1 = n => g = 0
  BY SMTT(30)
<1> QED BY SMTT(30), <1>1, <1>2, <1>3, <1>4, <1>5 DEF Partial

\* m divided by the factors of a product that goes into it q times.
LEMMA DivFour ==
  ASSUME NEW m \in Nat, NEW a \in Nat \ {0}, NEW b \in Nat \ {0}, NEW c \in Nat \ {0},
         NEW d \in Nat \ {0}, NEW q \in Nat, q * (a * b * c * d) <= m
  PROVE  q <= (((m \div a) \div b) \div c) \div d
<1>1. q * d \in Nat /\ (q * d) * c \in Nat /\ ((q * d) * c) * b \in Nat
  BY SMTT(30)
<1>2. (((q * d) * c) * b) * a = q * (a * b * c * d)
  BY SMTT(30)
<1>3. ((q * d) * c) * b <= m \div a /\ m \div a \in Nat
  BY <1>1, <1>2, DivLe, DivMul
<1>4. (q * d) * c <= (m \div a) \div b /\ (m \div a) \div b \in Nat
  BY <1>1, <1>3, DivLe, DivMul
<1>5. q * d <= ((m \div a) \div b) \div c /\ ((m \div a) \div b) \div c \in Nat
  BY <1>1, <1>4, DivLe, DivMul
<1> QED BY <1>5, DivLe

\* On a disk of any size, with blocks, descriptors and inodes of any size, the
\* groups that calGroupNum counts fit the disk and gDesc in memory.
LEMMA EveryGroupsFit == ASSUME NEW s \in Nat PROVE GroupsFitOn(s)
<1> DEFINE n == calGroupNum(s)
           D == groupDescBlocks(n)
           F == fullGroup(D)
           q == s \div F
           r == s % F
<1> SUFFICES ASSUME n > 0
             PROVE  /\ (n - 1) * calGroupSize(s, n, 0) + calGroupSize(s, n, n - 1) <= s
                    /\ n <= MAX_GROUP_NUM(s)
  BY DEF GroupsFitOn
<1>1. /\ n \in Nat \ {0} /\ D \in Nat \ {0} /\ q \in Nat
      /\ n <= q \/ (n = q + 1 /\ r >= groupHeaderSectors(D))
  BY Fits
<1>2. F \in Nat \ {0} /\ groupHeaderSectors(D) \in Nat
  BY <1>1, Header
<1>3. r \in Nat /\ s = q * F + r /\ q * F \in Nat /\ q * F <= s
  <2> HIDE DEF n, D, F
  <2>1. r \in 0 .. F - 1 /\ s = q * F + r
    BY <1>2, DivMod
  <2>2. q * F \in Nat
    BY <1>1, <1>2, MulNat
  <2> QED BY SMTT(30), <1>2, <2>1, <2>2
<1> DEFINE z0 == calGroupSize(s, n, 0)
           z  == calGroupSize(s, n, n - 1)
<1>4. /\ z0 \in Nat /\ z0 <= F /\ z \in Nat /\ z <= F
      /\ r >= groupHeaderSectors(D) => z = r
  <2>1. 0 \in 0 .. n - 1 /\ n - 1 \in 0 .. n - 1 /\ (n - 1) + 1 = n
    BY SMTT(30), <1>1
  <2> HIDE DEF n
  <2> QED BY SMTT(30), <1>1, <2>1, GroupSizes
<1>5. n <= MAX_GROUP_NUM(s)
  <2> HIDE DEF n, q, F
  <2>1. blockSize * BYTE * SECTORS_PER_BLOCK <= F /\ blockSize * BYTE * SECTORS_PER_BLOCK \in Nat
    <3>1. F = groupHeaderSectors(D) + (inodeTableSectors + blockSize * BYTE * SECTORS_PER_BLOCK)
      BY DEF F, fullGroup, groupBodySectors
    <3>2. blockSize * BYTE * SECTORS_PER_BLOCK \in Nat
      BY Parts, MulNat
    <3> QED BY SMTT(30), <1>2, <3>1, <3>2, Parts
  <2>2. q * (blockSize * BYTE * SECTORS_PER_BLOCK) <= q * F
    BY SMTT(30), <1>1, <1>2, <2>1, MulLe
  <2>3. q * (SECTOR_SIZE * SECTORS_PER_BLOCK * BYTE * SECTORS_PER_BLOCK) <= s
    BY SMTT(30), <1>1, <1>2, <1>3, <2>1, <2>2, Parts DEF blockSize
  <2>4. q <= (((s \div SECTOR_SIZE) \div SECTORS_PER_BLOCK) \div BYTE) \div SECTORS_PER_BLOCK
    BY <1>1, <2>3, Parts, DivFour
  <2>5. (((s \div SECTOR_SIZE) \div SECTORS_PER_BLOCK) \div BYTE) \div SECTORS_PER_BLOCK \in Nat
    <3>1. \A a \in Nat, b \in Nat \ {0} : a \div b \in Nat
      BY DivMod
    <3> QED BY <3>1, Parts
  <2> QED BY SMTT(30), <1>1, <2>4, <2>5 DEF MAX_GROUP_NUM
<1>6. (n - 1) * z0 + z <= s
  <2> HIDE DEF n, q, F, z0, z, r, D
  <2>0. n - 1 \in Nat /\ (n - 1) * z0 \in Nat
    BY SMTT(30), <1>1, <1>4, MulNat
  <2>1. (n - 1) * z0 <= (n - 1) * F /\ (n - 1) * F \in Nat
    BY SMTT(30), <1>2, <1>4, <2>0, MulLe, MulNat
  <2>2. CASE n <= q
    <3>1. n * F <= q * F
      BY <1>1, <1>2, <2>2, MulLe
    <3>2. (n - 1) * F + F = n * F
      BY SMTT(30), <1>1, <1>2
    <3> QED BY SMTT(30), <1>1, <1>2, <1>3, <1>4, <2>0, <2>1, <3>1, <3>2
  <2>3. CASE n = q + 1 /\ r >= groupHeaderSectors(D)
    <3>1. n - 1 = q
      BY SMTT(30), <1>1, <2>3
    <3> QED BY SMTT(30), <1>2, <1>3, <1>4, <2>0, <2>1, <2>3, <3>1
  <2> QED BY <1>1, <2>2, <2>3
<1> QED BY <1>5, <1>6


-----------------------------------------------------------------------------
(***************************************************************************)
(* Inodes and blocks in their groups.                                      *)
(***************************************************************************)
\* The inode table of a group lies behind its header.
LEMMA Tables ==
  ASSUME NEW s \in Nat, NEW n \in Nat \ {0}, NEW g \in Nat,
         NEW D \in Nat \ {0}, D = groupDescBlocks(n), calGroupSize(s, n, 0) \in Nat
  PROVE  groupDesc(s, n, g).inodeTable = g * calGroupSize(s, n, 0) + groupHeaderSectors(D)
<1>1. SUPER_BLOCK_SIZE \div SECTOR_SIZE \in Nat
  BY Parts, DivMod
<1>2. g * calGroupSize(s, n, 0) \in Nat
  BY MulNat
<1>3. (D + 1 + 1) * SECTORS_PER_BLOCK = D * SECTORS_PER_BLOCK + 2 * SECTORS_PER_BLOCK
      /\ D * SECTORS_PER_BLOCK \in Nat
  BY SMTT(30), Parts
<1>4. groupDesc(s, n, g).inodeTable =
         g * calGroupSize(s, n, 0)
         + (SUPER_BLOCK_SIZE \div SECTOR_SIZE + D * SECTORS_PER_BLOCK) + 2 * SECTORS_PER_BLOCK
  BY DEF groupDesc
<1> QED BY SMTT(30), <1>1, <1>2, <1>3, <1>4, Parts DEF groupHeaderSectors

\* The blocks of a group end within it.
LEMMA BlocksFit ==
  ASSUME NEW s \in Nat, NEW n \in Nat \ {0}, NEW g \in 0 .. n - 1,
         NEW D \in Nat \ {0}, D = groupDescBlocks(n),
         NEW e \in 0 .. calBlocksPerGroup(s, n, g) - 1
  PROVE  /\ e \in Nat
         /\ groupHeaderSectors(D) + inodeTableSectors + e * SECTORS_PER_BLOCK + SECTORS_PER_BLOCK
              <= calGroupSize(s, n, g)
<1> DEFINE z == calGroupSize(s, n, g)
           h == groupHeaderSectors(D)
           B == SECTORS_PER_BLOCK
<1>0. /\ z \in Nat /\ h \in Nat /\ h <= z /\ inodeTableSectors \in Nat /\ B \in Nat \ {0}
      /\ ~Partial(s, n, g) => z = fullGroup(D)
  BY GroupSizes, Header, Parts
<1>1. body(s, n, g) = z - h /\ z - h \in Nat
  BY SMTT(30), <1>0 DEF body
<1> HIDE DEF z, h, B
<1>2. ASSUME NEW c \in Nat, e \in 0 .. c - 1, NEW y \in Nat, c * B <= y
      PROVE  e \in Nat /\ e * B \in Nat /\ e * B + B <= y
  <2>1. e \in Nat /\ e + 1 <= c /\ e + 1 \in Nat
    BY SMTT(30), <1>2
  <2>2. (e + 1) * B <= c * B /\ c * B \in Nat
    BY <1>0, <1>2, <2>1, MulLe, MulNat
  <2>3. (e + 1) * B = e * B + B /\ e * B \in Nat
    BY SMTT(30), <1>0, <2>1
  <2> QED BY SMTT(30), <1>0, <1>2, <2>1, <2>2, <2>3
<1>3. CASE ~Partial(s, n, g)
  <2>1. e \in 0 .. blockSize * BYTE - 1 /\ blockSize * BYTE \in Nat
    BY <1>3, Parts, MulNat DEF calBlocksPerGroup
  <2>2. blockSize * BYTE * B \in Nat
    BY <1>0, <2>1, MulNat
  <2>3. e \in Nat /\ e * B \in Nat /\ e * B + B <= blockSize * BYTE * B
    BY SMTT(30), <1>2, <2>1, <2>2
  <2>4. z = h + (inodeTableSectors + blockSize * BYTE * B)
    BY <1>0, <1>3 DEF fullGroup, groupBodySectors, h, B
  <2> QED BY SMTT(30), <1>0, <2>2, <2>3, <2>4 DEF z, h, B
<1>4. CASE Partial(s, n, g)
  <2> DEFINE y == (z - h) - inodeTableSectors
  <2>1. body(s, n, g) >= inodeTableSectors /\ e \in 0 .. (y \div B) - 1
    BY SMTT(30), <1>1, <1>4 DEF calBlocksPerGroup, B
  <2>2. y \in Nat /\ z = h + inodeTableSectors + y
    BY SMTT(30), <1>0, <1>1, <2>1
  <2> HIDE DEF y
  <2>3. y \div B \in Nat /\ (y \div B) * B <= y
    BY <1>0, <2>2, DivMul
  <2>4. e \in Nat /\ e * B \in Nat /\ e * B + B <= y
    BY <1>2, <2>1, <2>2, <2>3
  <2> QED BY SMTT(30), <1>0, <2>2, <2>4 DEF z, h, B
<1> QED BY <1>3, <1>4


\* The inodes of a group end within it; here sizes are in bytes.
LEMMA InodesFit ==
  ASSUME NEW s \in Nat, NEW n \in Nat \ {0}, NEW g \in 0 .. n - 1,
         NEW D \in Nat \ {0}, D = groupDescBlocks(n),
         NEW e \in 0 .. calInodesPerGroup(s, n, g) - 1
  PROVE  /\ e \in Nat
         /\ e * INODE_SIZE + INODE_SIZE
              <= (calGroupSize(s, n, g) - groupHeaderSectors(D)) * SECTOR_SIZE
<1> DEFINE x == calGroupSize(s, n, g) - groupHeaderSectors(D)
           B == SECTORS_PER_BLOCK
           I == INODE_SIZE
           S == SECTOR_SIZE
<1>0. x \in Nat /\ I \in Nat \ {0} /\ B \in Nat \ {0} /\ S \in Nat \ {0}
      /\ inodeTableSectors \in Nat /\ blockSize \in Nat /\ BYTE \in Nat
  <2>1. /\ calGroupSize(s, n, g) \in Nat /\ groupHeaderSectors(D) \in Nat
        /\ groupHeaderSectors(D) <= calGroupSize(s, n, g)
    BY GroupSizes, Header
  <2> QED BY SMTT(30), <2>1, Parts
<1>1. body(s, n, g) = x /\ blockSize = S * B /\ inodeTableSectors = I * BYTE * B
  BY DEF body, blockSize, inodeTableSectors
<1>2. e \in 0 .. (IF x >= inodeTableSectors THEN blockSize * BYTE
                  ELSE ((x \div B) * blockSize) \div I) - 1
  BY <1>1 DEF calInodesPerGroup
<1> HIDE DEF x, B, I, S
<1>3. ASSUME NEW c \in Nat, e \in 0 .. c - 1, c * I <= x * S
      PROVE  e \in Nat /\ e * I + I <= x * S
  <2>1. e \in Nat /\ e + 1 <= c /\ e + 1 \in Nat
    BY SMTT(30), <1>3
  <2>2. (e + 1) * I <= c * I
    BY <1>0, <1>3, <2>1, MulLe
  <2>3. (e + 1) * I = e * I + I /\ e * I \in Nat /\ c * I \in Nat /\ x * S \in Nat
    BY SMTT(30), <1>0, <2>1
  <2> QED BY SMTT(30), <1>0, <1>3, <2>1, <2>2, <2>3
<1>4. CASE x >= inodeTableSectors
  <2>1. blockSize * BYTE \in Nat /\ e \in 0 .. blockSize * BYTE - 1
    BY <1>0, <1>2, <1>4, MulNat
  <2>2. (blockSize * BYTE) * I = inodeTableSectors * S
    BY SMTT(30), <1>0, <1>1
  <2>3. inodeTableSectors * S <= x * S
    BY <1>0, <1>4, MulLe
  <2>4. e \in Nat /\ e * I + I <= x * S
    BY <1>3, <2>1, <2>2, <2>3
  <2> QED BY <2>4 DEF x, I, S
<1>5. CASE ~(x >= inodeTableSectors)
  <2> DEFINE y == (x \div B) * blockSize
  <2>1. x \div B \in Nat /\ (x \div B) * B <= x
    BY <1>0, DivMul
  <2>2. y \in Nat /\ e \in 0 .. (y \div I) - 1
    BY <1>0, <1>2, <1>5, <2>1, MulNat
  <2>3. y = ((x \div B) * B) * S
    <3>1. \A m \in Nat : m * (S * B) = (m * B) * S
      BY SMTT(30), <1>0
    <3> QED BY <1>1, <2>1, <3>1
  <2>4. ((x \div B) * B) * S <= x * S
    <3>1. (x \div B) * B \in Nat
      BY <1>0, <2>1, MulNat
    <3> QED BY <1>0, <2>1, <3>1, MulLe
  <2> HIDE DEF y
  <2>5. y \div I \in Nat /\ (y \div I) * I <= y
    BY <1>0, <2>2, DivMul
  <2>6. (y \div I) * I <= x * S
    <3>1. (y \div I) * I \in Nat /\ x * S \in Nat
      BY <1>0, <2>5, MulNat
    <3> QED BY SMTT(30), <2>2, <2>3, <2>4, <2>5, <3>1
  <2>7. e \in Nat /\ e * I + I <= x * S
    BY <1>3, <2>2, <2>5, <2>6
  <2> QED BY <2>7 DEF x, I, S
<1> QED BY <1>4, <1>5

\* Every inode and block of every group, on a disk of any size, lies within
\* its group, and setAllocInode and setAllocBlock find its bit again.
LEMMA EveryPlaceFound == ASSUME NEW s \in Nat PROVE PlacesFoundOn(s)
<1> DEFINE n == calGroupNum(s)
           D == groupDescBlocks(n)
           z0 == calGroupSize(s, n, 0)
           h == groupHeaderSectors(D)
<1>a. ASSUME NEW g \in 0 .. n - 1
      PROVE  /\ n \in Nat \ {0} /\ D \in Nat \ {0} /\ g \in Nat
             /\ z0 \in Nat \ {0} /\ g * z0 \in Nat /\ h \in Nat
             /\ calGroupSize(s, n, g) \in Nat /\ calGroupSize(s, n, g) <= z0
             /\ h <= calGroupSize(s, n, g)
             /\ groupDesc(s, n, g).inodeTable = g * z0 + h
  <2>1. n \in Nat
    <3>1. PICK d \in Nat \ {0} :
             n = s \div fullGroup(d) + (IF s % fullGroup(d) >= groupHeaderSectors(d) THEN 1 ELSE 0)
      BY GroupNum
    <3>2. s \div fullGroup(d) \in Nat
      BY Header, DivMod
    <3> HIDE DEF n
    <3> QED BY SMTT(30), <3>1, <3>2
  <2>2. n > 0 /\ g \in Nat
    BY SMTT(30), <2>1
  <2>3. n \in Nat \ {0} /\ D \in Nat \ {0}
    BY <2>2, Fits
  <2> HIDE DEF n, D
  <2>4. /\ z0 \in Nat \ {0} /\ calGroupSize(s, n, g) \in Nat /\ calGroupSize(s, n, g) <= z0
        /\ h <= calGroupSize(s, n, g)
    <3>1. 0 \in 0 .. n - 1
      BY SMTT(30), <2>3
    <3> QED BY SMTT(30), <2>3, <3>1, GroupSizes DEF D
  <2>5. g * z0 \in Nat /\ h \in Nat
    BY <2>2, <2>3, <2>4, MulNat, Header
  <2>6. groupDesc(s, n, g).inodeTable = g * z0 + h
    BY <2>2, <2>3, <2>4, Tables DEF D
  <2> QED BY <2>2, <2>3, <2>4, <2>5, <2>6
<1>b. ASSUME NEW g \in 0 .. n - 1, NEW e \in 0 .. calBlocksPerGroup(s, n, g) - 1
      PROVE  LET offset_ == blockOffset(s, n, g, e)
             IN  /\ offset_ + SECTORS_PER_BLOCK <= g * z0 + calGroupSize(s, n, g)
                 /\ blockPlace(s, n, offset_) = <<g, e>>
  <2> DEFINE T == inodeTableSectors
             B == SECTORS_PER_BLOCK
             z == calGroupSize(s, n, g)
             x == h + T + e * B
             o == blockOffset(s, n, g, e)
  <2>1. /\ n \in Nat \ {0} /\ D \in Nat \ {0} /\ g \in Nat
        /\ z0 \in Nat \ {0} /\ g * z0 \in Nat /\ h \in Nat
        /\ z \in Nat /\ z <= z0 /\ groupDesc(s, n, g).inodeTable = g * z0 + h
    BY <1>a
  <2> HIDE DEF n, D
  <2>2. e \in Nat /\ h + T + e * B + B <= z
    BY <2>1, BlocksFit DEF D
  <2>3. T \in Nat /\ B \in Nat \ {0} /\ e * B \in Nat
    BY <2>2, Parts, MulNat
  <2>4. o = g * z0 + h + T + e * B
    BY <2>1 DEF blockOffset
  <2> HIDE DEF z0, h, T, B, z, o
  <2>5. o = g * z0 + x /\ x \in 0 .. z0 - 1 /\ o + B <= g * z0 + z /\ o \in Nat
    BY SMTT(30), <2>1, <2>2, <2>3, <2>4
  <2>6. o \div z0 = g
    <3> HIDE DEF x
    <3> QED BY <2>1, <2>5, DivUnique
  <2>7. (o - (g * z0 + h) - T) \div B = e
    <3>1. o - (g * z0 + h) - T = e * B
      BY SMTT(30), <2>1, <2>3, <2>4
    <3> QED BY <2>2, <2>3, <3>1, DivExact
  <2>8. blockPlace(s, n, o) = <<g, e>>
    BY <2>1, <2>6, <2>7 DEF blockPlace, z0, T, B
  <2> QED BY <2>5, <2>8 DEF o, B, z

<1>c. ASSUME NEW g \in 0 .. n - 1, NEW e \in 0 .. calInodesPerGroup(s, n, g) - 1
      PROVE  LET offset_ == inodeOffset(s, n, g, e)
             IN  /\ offset_ + INODE_SIZE <= (g * z0 + calGroupSize(s, n, g)) * SECTOR_SIZE
                 /\ inodePlace(s, n, offset_) = <<g, e>>
  <2> DEFINE I == INODE_SIZE
             S == SECTOR_SIZE
             z == calGroupSize(s, n, g)
             t == g * z0 + h
             y == e * I
             o == inodeOffset(s, n, g, e)
  <2>1. /\ n \in Nat \ {0} /\ D \in Nat \ {0} /\ g \in Nat
        /\ z0 \in Nat \ {0} /\ g * z0 \in Nat /\ h \in Nat
        /\ z \in Nat /\ z <= z0 /\ h <= z /\ groupDesc(s, n, g).inodeTable = t
    BY <1>a
  <2> HIDE DEF n, D
  <2>2. e \in Nat /\ y + I <= (z - h) * S
    BY <2>1, InodesFit DEF D
  <2>3. I \in Nat \ {0} /\ S \in Nat \ {0} /\ y \in Nat
    BY <2>2, Parts, MulNat
  <2>4. o = t * S + y
    BY <2>1 DEF inodeOffset
  <2>5. t \in Nat /\ z - h \in Nat /\ t * S \in Nat /\ (z - h) * S \in Nat
    BY SMTT(30), <2>1, <2>3, MulNat
  <2> HIDE DEF z0, h, I, S, z, o, y
  <2>6. o + I <= (g * z0 + z) * S
    <3>1. (g * z0 + z) * S = t * S + (z - h) * S
      BY SMTT(30), <2>1, <2>3
    <3> QED BY SMTT(30), <2>2, <2>3, <2>4, <2>5, <3>1
  <2>7. o \div S = t + (y \div S) /\ y \div S \in Nat /\ y \div S < z - h
    <3>1. y \div S \in Nat /\ y % S \in 0 .. S - 1 /\ y = (y \div S) * S + (y % S)
      BY <2>3, DivMod
    <3>2. y < (z - h) * S
      BY SMTT(30), <2>2, <2>3, <2>5
    <3>3. y \div S < z - h
      BY <2>3, <2>5, <3>2, DivLt
    <3> DEFINE m == t + (y \div S)
               r == y % S
    <3>4. m \in Nat /\ r \in 0 .. S - 1 /\ o = m * S + r
      BY SMTT(30), <2>3, <2>4, <2>5, <3>1
    <3> HIDE DEF m, r
    <3>5. o \div S = m
      BY <2>3, <3>4, DivUnique
    <3> QED BY <3>1, <3>3, <3>5 DEF m
  <2>8. (o \div S) \div z0 = g
    <3> DEFINE x == h + (y \div S)
    <3>1. x \in 0 .. z0 - 1 /\ o \div S = g * z0 + x
      BY SMTT(30), <2>1, <2>7
    <3>2. g \in Nat /\ z0 \in Nat \ {0}
      BY <2>1
    <3> HIDE DEF x
    <3>3. (g * z0 + x) \div z0 = g
      BY <3>1, <3>2, DivUnique
    <3> QED BY <3>1, <3>3
  <2>9. (o - t * S) \div I = e
    <3>1. o - t * S = y
      <4> HIDE DEF t
      <4> QED BY SMTT(30), <2>3, <2>4, <2>5
    <3>2. y \div I = e
      BY <2>2, <2>3, DivExact DEF y
    <3> QED BY <3>1, <3>2
  <2>10. inodePlace(s, n, o) = <<g, e>>
    BY <2>1, <2>8, <2>9 DEF inodePlace, z0, S, I
  <2> QED BY <2>6, <2>10 DEF o, I, S, z
<1> QED BY <1>b, <1>c DEF PlacesFoundOn

-----------------------------------------------------------------------------
LEMMA SectorNum == Spec => [](sectorNum \in Nat)
<1>1. Init => sectorNum \in Nat
  BY SMTT(30), LayoutAssumption DEF Init
<1>2. sectorNum \in Nat /\ [Next]_vars => (sectorNum \in Nat)'
  BY DEF Next, vars
<1> QED BY <1>1, <1>2, PTL DEF Spec

\* The groups that calGroupNum counts fit the disk and gDesc, whatever the sizes of disk, sectors, blocks and inodes.
THEOREM GroupsAlwaysFit == Spec => []GroupsFit
<1>1. sectorNum \in Nat => GroupsFit
  BY EveryGroupsFit DEF GroupsFit
<1> QED BY <1>1, SectorNum, PTL

\* Whatever these sizes are, setAllocInode and setAllocBlock find the bit that
\* getAvailInode and getAvailBlock have set, and no inode or block of a group
\* lies outside it.
THEOREM PlacesAlwaysFound == Spec => []PlacesFound
<1>1. sectorNum \in Nat => PlacesFound
  BY EveryPlaceFound DEF PlacesFound
<1> QED BY <1>1, SectorNum, PTL

=============================================================================
