---------------------------- MODULE ExtFileProofs ----------------------------
(***************************************************************************)
(* The block layer is right for every size of the group, of a byte, of an  *)
(* inode and of a pointer block, for all files and all contents, as long   *)
(* as the search of getAvailBlock is used where it works.                  *)
(*                                                                         *)
(* The search looks at as many bytes as the available entries would fill,  *)
(* so it is sure to meet a free bit while less than half of the group is   *)
(* in use (GetAvailSound).  The rest combines that with the tree of        *)
(* pointer blocks: the inductive invariant is the type of the state, the   *)
(* exact count of the bitmap and Tree of PointerTreeProofs.                *)
(***************************************************************************)
EXTENDS PointerTreeProofs, FiniteSetTheorems

\* The seconds each prover has for a leaf.
USE ZenonT(20), SMTT(20)


-----------------------------------------------------------------------------
\* The bitmap of the blocks.

\* The count kept beside a bitmap is the number of its entries that are 0.
Exact(spc) ==
    /\ spc \in Spaces
    /\ spc.avail = SIZE - Cardinality(spc.bits)

\* Quotient and remainder of a division by the bits of a byte.
LEMMA Division ==
    ASSUME NEW n \in Nat
    PROVE  /\ n \div BYTE \in Nat
           /\ n % BYTE \in 0 .. BYTE - 1
           /\ n = ((n \div BYTE) * BYTE) + (n % BYTE)
  BY BitmapAssumption, SMT

\* A product of naturals is a natural.
LEMMA Product ==
    ASSUME NEW j \in Nat
    PROVE  j * BYTE \in Nat
  BY BitmapAssumption, SMT

\* Whole bytes before byte j cover what lies before its first bit.
LEMMA BeforeByte ==
    ASSUME NEW j \in Nat, NEW n \in Nat, n < j * BYTE
    PROVE  n \div BYTE < j
  <1>1. SUFFICES ASSUME n \div BYTE >= j PROVE FALSE
    BY SMTT(30), Division
  <1>2. PICK d \in Nat : n \div BYTE = j + d
    <2>1. n \div BYTE \in Nat /\ n \div BYTE - j \in Nat
      BY SMTT(30), <1>1, Division
    <2> QED BY SMTT(30), <2>1
  <1>3. n = ((j + d) * BYTE) + (n % BYTE)
    BY <1>2, Division
  <1>4. (j + d) * BYTE = j * BYTE + d * BYTE
    BY BitmapAssumption, SMT
  <1>5. d * BYTE \in Nat /\ j * BYTE \in Nat
    BY Product
  <1> QED BY SMTT(30), <1>3, <1>4, <1>5, Division, BitmapAssumption

\* The least element of a set of naturals.
LEMMA LeastElement ==
    ASSUME NEW S, S \subseteq Nat, S # {}
    PROVE  Least(S) \in S /\ \A y \in S : Least(S) <= y
  <1> DEFINE R == OpToRel(<, Nat)
  <1>1. IsWellFoundedOn(R, Nat)
    BY NatLessThanWellFounded
  <1>2. \A x, y \in Nat : y < x => <<y, x>> \in R
    BY DEF OpToRel
  <1> HIDE DEF R
  <1>3. PICK x \in S : \A y \in S : ~ (<<y, x>> \in R)
    BY <1>1, WFMin, ZenonT(60)
  <1>4. \A y \in S : x <= y
    <2> SUFFICES ASSUME NEW y \in S PROVE x <= y
      OBVIOUS
    <2>1. x \in Nat /\ y \in Nat
      OBVIOUS
    <2>2. ~ (y < x)
      BY <1>2, <1>3, <2>1, Zenon
    <2> QED BY SMTT(30), <2>1, <2>2
  <1> QED BY <1>4, ZenonT(60) DEF Least

\* The search looks at enough bytes to hold all available entries.
LEMMA ScanReach ==
    ASSUME NEW a \in Nat
    PROVE  Scanned(a) \in Nat /\ a <= Scanned(a) * BYTE
  <1>1. a + BYTE - 1 \in Nat
    BY SMTT(30), BitmapAssumption
  <1>2. Scanned(a) \in Nat
    BY <1>1, Division DEF Scanned
  <1>3. a + BYTE - 1 = (Scanned(a) * BYTE) + ((a + BYTE - 1) % BYTE)
    BY <1>1, Division DEF Scanned
  <1>4. (a + BYTE - 1) % BYTE \in 0 .. BYTE - 1
    BY <1>1, Division
  <1>5. Scanned(a) * BYTE \in Nat
    BY <1>2, Product
  <1> QED BY SMTT(30), <1>2, <1>3, <1>4, <1>5, BitmapAssumption

\* n entries from the first on that are all marked are at most as many as
\* the marked entries.
LEMMA PrefixCount ==
    ASSUME NEW spc, Exact(spc), NEW n \in Nat, 0 .. n - 1 \subseteq spc.bits
    PROVE  n <= Cardinality(spc.bits)
  <1>1. IsFiniteSet(Entries)
    BY SMTT(30), FS_Interval, BitmapAssumption DEF Entries
  <1>2. spc.bits \in SUBSET Entries
    BY DEF Exact, Spaces
  <1>3. IsFiniteSet(spc.bits)
    BY <1>1, <1>2, FS_Subset
  <1>4. Cardinality(0 .. n - 1) = n
    <2>1. 0 \in Int /\ n - 1 \in Int
      BY SMTT(30)
    <2>2. Cardinality(0 .. n - 1) = IF 0 > n - 1 THEN 0 ELSE (n - 1) - 0 + 1
      BY <2>1, FS_Interval, Zenon
    <2> QED BY SMTT(30), <2>2
  <1>5. Cardinality(0 .. n - 1) <= Cardinality(spc.bits)
    BY <1>3, FS_Subset
  <1> QED BY <1>4, <1>5

\* When all bytes before j are full, all entries before its first are marked.
LEMMA FullBytes ==
    ASSUME NEW bits, NEW j \in Nat, \A i \in 0 .. j - 1 : Full(bits, i)
    PROVE  \A n \in 0 .. (j * BYTE) - 1 : n \in bits
  <1> SUFFICES ASSUME NEW n \in 0 .. (j * BYTE) - 1
               PROVE  n \in bits
    OBVIOUS
  <1>1. n \in Nat /\ n < j * BYTE
    BY SMTT(30), Product
  <1>2. n \div BYTE \in 0 .. j - 1
    BY SMTT(30), <1>1, BeforeByte, Division
  <1>3. n % BYTE \in 0 .. BYTE - 1 /\ n = ((n \div BYTE) * BYTE) + (n % BYTE)
    BY <1>1, Division
  <1>4. Full(bits, n \div BYTE)
    BY <1>2
  <1>5. ((n \div BYTE) * BYTE) + (n % BYTE) \in bits
    BY <1>3, <1>4 DEF Full
  <1> QED BY <1>3, <1>5

(***************************************************************************)
(* As long as less than half of the group is in use, getAvailBlock and     *)
(* getAvailInode hand out an entry of the group that is available, mark it *)
(* and keep the count exact.  Beyond one half, neither holds (run          *)
(* ext_half).                                                              *)
(***************************************************************************)
THEOREM GetAvailSound ==
    ASSUME NEW spc, Exact(spc), Cardinality(spc.bits) < spc.avail
    PROVE  /\ GetAvail(spc).entry \in Entries \ spc.bits
           /\ GetAvail(spc).space.bits = spc.bits \cup {GetAvail(spc).entry}
           /\ Exact(GetAvail(spc).space)
  <1> DEFINE last == Scanned(spc.avail)
             free == {j \in 0 .. last - 1 : ~Full(spc.bits, j)}
             zero(j) == {k \in 0 .. BYTE - 1 : j * BYTE + k \notin spc.bits}
             j0 == Least(free)
             k0 == Least(zero(j0))
             entry == j0 * BYTE + k0
  <1>1. /\ spc.bits \in SUBSET Entries /\ spc.avail \in 0 .. SIZE
        /\ IsFiniteSet(spc.bits) /\ Cardinality(spc.bits) \in Nat
    <2>1. spc.bits \in SUBSET Entries /\ spc.avail \in 0 .. SIZE
      BY DEF Exact, Spaces
    <2>2. IsFiniteSet(Entries)
      BY SMTT(30), FS_Interval, BitmapAssumption DEF Entries
    <2>3. IsFiniteSet(spc.bits)
      BY <2>1, <2>2, FS_Subset
    <2>4. Cardinality(spc.bits) \in Nat
      BY <2>3, FS_CardinalityType
    <2> QED BY <2>1, <2>3, <2>4
  <1>2. spc.avail \in Nat /\ last \in Nat /\ spc.avail <= last * BYTE
    <2>1. spc.avail \in Nat
      BY SMTT(30), <1>1, BitmapAssumption
    <2> QED BY <2>1, ScanReach
  \* The first loop succeeds: otherwise as many entries as are available
  \* would be marked.
  <1>3. free # {}
    <2> SUFFICES ASSUME free = {} PROVE FALSE
      OBVIOUS
    <2>1. \A i \in 0 .. last - 1 : Full(spc.bits, i)
      OBVIOUS
    <2>2. \A n \in 0 .. (last * BYTE) - 1 : n \in spc.bits
      BY <1>2, <2>1, FullBytes
    <2>3. last * BYTE \in Nat
      BY <1>2, Product
    <2>4. last * BYTE <= Cardinality(spc.bits)
      BY <2>2, <2>3, PrefixCount
    <2> QED BY SMTT(30), <1>1, <1>2, <2>3, <2>4
  <1>4. j0 \in Nat /\ j0 \in 0 .. last - 1 /\ ~Full(spc.bits, j0)
        /\ \A i \in 0 .. j0 - 1 : Full(spc.bits, i)
    <2>1. free \subseteq Nat
      BY SMTT(30), <1>2
    <2>2. j0 \in free /\ \A y \in free : j0 <= y
      BY <1>3, <2>1, LeastElement
    <2> HIDE DEF j0
    <2>3. j0 \in 0 .. last - 1 /\ ~Full(spc.bits, j0)
      BY <2>2
    <2>4. ASSUME NEW i \in 0 .. j0 - 1 PROVE Full(spc.bits, i)
      BY SMTT(30), <1>2, <2>2, <2>3
    <2> QED BY SMTT(30), <1>2, <2>3, <2>4
  <1> HIDE DEF j0, free
  \* So does the second: the byte is not full.
  <1>5. /\ k0 \in 0 .. BYTE - 1 /\ entry \notin spc.bits
        /\ \A k \in 0 .. k0 - 1 : j0 * BYTE + k \in spc.bits
    <2>1. zero(j0) \subseteq Nat /\ zero(j0) # {}
      <3>1. zero(j0) \subseteq Nat
        BY SMTT(30), BitmapAssumption
      <3>2. \E k \in 0 .. BYTE - 1 : j0 * BYTE + k \notin spc.bits
        BY <1>4, Zenon DEF Full
      <3> QED BY <3>1, <3>2, Zenon
    <2>2. k0 \in zero(j0) /\ \A y \in zero(j0) : k0 <= y
      BY <2>1, LeastElement, ZenonT(60)
    <2> HIDE DEF k0
    <2>3. k0 \in 0 .. BYTE - 1 /\ entry \notin spc.bits
      BY <2>2
    <2>4. ASSUME NEW k \in 0 .. k0 - 1 PROVE j0 * BYTE + k \in spc.bits
      BY SMTT(30), <2>2, <2>3, BitmapAssumption
    <2> QED BY <2>3, <2>4
  <1> HIDE DEF k0, zero
  \* All entries before the one found are marked, so it is in the group.
  <1>6. entry \in Entries
    <2>1. j0 * BYTE \in Nat /\ k0 \in Nat /\ entry \in Nat
      BY SMTT(30), <1>4, <1>5, Product, BitmapAssumption
    <2>2. \A n \in 0 .. (j0 * BYTE) - 1 : n \in spc.bits
      BY <1>4, FullBytes
    <2>3. ASSUME NEW n \in 0 .. entry - 1 PROVE n \in spc.bits
      <3>1. CASE n < j0 * BYTE
        BY SMTT(30), <2>1, <2>2, <3>1
      <3>2. CASE n >= j0 * BYTE
        <4>1. n - (j0 * BYTE) \in 0 .. k0 - 1
          BY SMTT(30), <2>1, <3>2
        <4>2. (j0 * BYTE) + (n - (j0 * BYTE)) \in spc.bits
          BY <4>1, <1>5
        <4> QED BY SMTT(30), <2>1, <4>2
      <3> QED BY SMTT(30), <2>1, <3>1, <3>2
    <2>4. entry <= Cardinality(spc.bits)
      BY <2>1, <2>3, PrefixCount
    <2> QED BY SMTT(30), <1>1, <2>1, <2>4, BitmapAssumption DEF Entries
  <1>7. GetAvail(spc) =
          [entry |-> entry,
           space |-> [bits |-> spc.bits \cup {entry}, avail |-> spc.avail - 1]]
    <2>1. FirstByte(spc) = j0
      BY <1>3 DEF FirstByte, j0, free
    <2>2. FirstBit(spc.bits, j0) = k0
      BY <1>4 DEF FirstBit, k0, zero
    <2>3. k0 < BYTE
      BY SMTT(30), <1>5, BitmapAssumption
    <2> QED BY <2>1, <2>2, <2>3 DEF GetAvail
  <1> HIDE DEF entry
  <1>8. Exact([bits |-> spc.bits \cup {entry}, avail |-> spc.avail - 1])
    <2>0. entry \notin spc.bits /\ IsFiniteSet(spc.bits)
      BY <1>1, <1>5 DEF entry
    <2>1. Cardinality(spc.bits \cup {entry}) = Cardinality(spc.bits) + 1
      BY <2>0, FS_AddElement
    <2>2. spc.avail = SIZE - Cardinality(spc.bits)
      BY DEF Exact
    <2>3. spc.avail - 1 \in 0 .. SIZE
      BY SMTT(30), <1>1, BitmapAssumption
    <2> QED BY SMTT(30), <1>1, <1>6, <2>1, <2>2, <2>3, BitmapAssumption DEF Exact, Spaces
  <1> QED BY SMTT(30), <1>5, <1>6, <1>7, <1>8 DEF entry

(***************************************************************************)
(* setAllocBlock and setAllocInode keep the count exact, also for entries  *)
(* that are not allocated.                                                 *)
(***************************************************************************)
THEOREM SetAllocSound ==
    ASSUME NEW spc, Exact(spc), NEW S
    PROVE  Exact(SetAlloc(spc, S))
  <1>1. spc.bits \in SUBSET Entries /\ spc.avail = SIZE - Cardinality(spc.bits)
    BY DEF Exact, Spaces
  <1>2. IsFiniteSet(Entries) /\ Cardinality(Entries) = SIZE
    <2>1. 0 \in Int /\ SIZE - 1 \in Int
      BY SMTT(30), BitmapAssumption
    <2>2. /\ IsFiniteSet(0 .. SIZE - 1)
          /\ Cardinality(0 .. SIZE - 1) = IF 0 > SIZE - 1 THEN 0 ELSE (SIZE - 1) - 0 + 1
      BY <2>1, FS_Interval, Zenon
    <2> QED BY SMTT(30), <2>2, BitmapAssumption DEF Entries
  <1>3. IsFiniteSet(spc.bits)
    BY <1>1, <1>2, FS_Subset
  <1>4. /\ IsFiniteSet(spc.bits \ S)
        /\ Cardinality(spc.bits \ S)
              = Cardinality(spc.bits) - Cardinality(spc.bits \cap S)
    BY <1>3, FS_Difference
  <1>5. IsFiniteSet(spc.bits \cap S)
    BY <1>3, FS_Subset
  <1>6. /\ Cardinality(spc.bits) \in Nat /\ Cardinality(spc.bits \cap S) \in Nat
        /\ Cardinality(spc.bits \ S) \in Nat
    BY <1>3, <1>4, <1>5, FS_CardinalityType
  <1>7. Cardinality(spc.bits \ S) <= SIZE
    BY <1>1, <1>2, FS_Subset
  <1>8. spc.avail + Cardinality(spc.bits \cap S) = SIZE - Cardinality(spc.bits \ S)
    BY SMTT(30), <1>1, <1>4, <1>6, BitmapAssumption
  <1>9. SIZE - Cardinality(spc.bits \ S) \in 0 .. SIZE
    BY SMTT(30), <1>6, <1>7, BitmapAssumption
  <1> QED BY <1>1, <1>8, <1>9 DEF Exact, Spaces, SetAlloc

\* k more blocks than are in use are at most half of the group.
Half(spc, k) == Exact(spc) /\ Cardinality(spc.bits) \in Nat /\ 2 * (Cardinality(spc.bits) + k) < SIZE

\* getAvailBlock, where there is room for k blocks more.
LEMMA TakeOne ==
  ASSUME NEW spc, NEW k \in Nat, Half(spc, k)
  PROVE  /\ GetAvail(spc).entry \in Entries \ spc.bits
         /\ GetAvail(spc).space.bits = spc.bits \cup {GetAvail(spc).entry}
         /\ Exact(GetAvail(spc).space)
         /\ k > 0 => Half(GetAvail(spc).space, k - 1)
<1> DEFINE n == Cardinality(spc.bits)
           g == GetAvail(spc)
<1>1. Exact(spc) /\ n \in Nat /\ 2 * (n + k) < SIZE /\ spc.avail = SIZE - n /\ SIZE \in Nat
  BY BitmapAssumption DEF Half, Exact
<1>2. n < spc.avail
  BY SMTT(30), <1>1
<1>3. /\ g.entry \in Entries \ spc.bits /\ g.space.bits = spc.bits \cup {g.entry}
      /\ Exact(g.space)
  BY <1>1, <1>2, GetAvailSound
<1>4. Cardinality(g.space.bits) = n + 1
  <2>1. IsFiniteSet(Entries)
    BY SMTT(30), <1>1, FS_Interval DEF Entries
  <2>2. spc.bits \in SUBSET Entries
    BY <1>1 DEF Exact, Spaces
  <2>3. IsFiniteSet(spc.bits)
    BY <2>1, <2>2, FS_Subset
  <2> QED BY <1>3, <2>3, FS_AddElement
<1> HIDE DEF n, g
<1>5. ASSUME k > 0 PROVE Half(g.space, k - 1)
  BY SMTT(30), <1>1, <1>3, <1>4, <1>5 DEF Half
<1> QED BY <1>3, <1>5 DEF g

\* So the blocks it hands out one after another are fresh.
LEMMA Takes ==
  ASSUME NEW spc, NEW h \in 0 .. 3, Half(spc, h)
  PROVE  /\ Fresh(Taken(spc), h, spc.bits) /\ Exact(Left(spc, h))
         /\ Left(spc, h).bits = spc.bits \cup {Taken(spc)[l] : l \in 0 .. h}
<1> DEFINE e == Taken(spc)
           b == spc.bits
<1>1. /\ e[0] = GetAvail(spc).entry /\ e[1] = GetAvail(Second(spc)).entry
      /\ e[2] = GetAvail(Third(spc)).entry /\ e[3] = GetAvail(Fourth(spc)).entry
  BY SMTT(30) DEF Taken
<1>2. /\ e[0] \in Entries /\ e[0] \notin b
      /\ Second(spc).bits = b \cup {e[0]} /\ Exact(Second(spc))
      /\ h > 0 => Half(Second(spc), h - 1)
  BY SMTT(30), <1>1, TakeOne DEF Second
<1> HIDE DEF e, b
<1>3. h > 0 =>
      /\ e[1] \in Entries /\ e[1] \notin b \cup {e[0]}
      /\ Third(spc).bits = b \cup {e[0], e[1]} /\ Exact(Third(spc))
      /\ h > 1 => Half(Third(spc), h - 2)
  <2> SUFFICES ASSUME h > 0
               PROVE  /\ e[1] \in Entries /\ e[1] \notin b \cup {e[0]}
                      /\ Third(spc).bits = b \cup {e[0], e[1]} /\ Exact(Third(spc))
                      /\ h > 1 => Half(Third(spc), h - 2)
    OBVIOUS
  <2>1. h - 1 \in Nat /\ (h - 1) - 1 = h - 2 /\ (h > 1 <=> h - 1 > 0)
    BY SMTT(30)
  <2>2. /\ e[1] \in Entries \ Second(spc).bits
        /\ Third(spc).bits = Second(spc).bits \cup {e[1]} /\ Exact(Third(spc))
        /\ h - 1 > 0 => Half(Third(spc), (h - 1) - 1)
    BY <1>1, <1>2, <2>1, TakeOne DEF Third
  <2> QED BY <1>2, <2>1, <2>2
<1>4. h > 1 =>
      /\ e[2] \in Entries /\ e[2] \notin b \cup {e[0], e[1]}
      /\ Fourth(spc).bits = b \cup {e[0], e[1], e[2]} /\ Exact(Fourth(spc))
      /\ h > 2 => Half(Fourth(spc), h - 3)
  <2> SUFFICES ASSUME h > 1
               PROVE  /\ e[2] \in Entries /\ e[2] \notin b \cup {e[0], e[1]}
                      /\ Fourth(spc).bits = b \cup {e[0], e[1], e[2]} /\ Exact(Fourth(spc))
                      /\ h > 2 => Half(Fourth(spc), h - 3)
    OBVIOUS
  <2>1. h > 0 /\ h - 2 \in Nat /\ (h - 2) - 1 = h - 3 /\ (h > 2 <=> h - 2 > 0)
    BY SMTT(30)
  <2>2. /\ e[2] \in Entries \ Third(spc).bits
        /\ Fourth(spc).bits = Third(spc).bits \cup {e[2]} /\ Exact(Fourth(spc))
        /\ h - 2 > 0 => Half(Fourth(spc), (h - 2) - 1)
    BY <1>1, <1>3, <2>1, TakeOne DEF Fourth
  <2> QED BY <1>3, <2>1, <2>2
<1>5. h > 2 =>
      /\ e[3] \in Entries /\ e[3] \notin b \cup {e[0], e[1], e[2]}
      /\ GetAvail(Fourth(spc)).space.bits = b \cup {e[0], e[1], e[2], e[3]}
      /\ Exact(GetAvail(Fourth(spc)).space)
  <2> SUFFICES ASSUME h > 2
               PROVE  /\ e[3] \in Entries /\ e[3] \notin b \cup {e[0], e[1], e[2]}
                      /\ GetAvail(Fourth(spc)).space.bits = b \cup {e[0], e[1], e[2], e[3]}
                      /\ Exact(GetAvail(Fourth(spc)).space)
    OBVIOUS
  <2>1. h > 1 /\ h - 3 \in Nat
    BY SMTT(30)
  <2>2. /\ e[3] \in Entries \ Fourth(spc).bits
        /\ GetAvail(Fourth(spc)).space.bits = Fourth(spc).bits \cup {e[3]}
        /\ Exact(GetAvail(Fourth(spc)).space)
    BY <1>1, <1>4, <2>1, TakeOne
  <2> QED BY <1>4, <2>1, <2>2
<1>6. CASE h = 0
  <2>1. \A l : l \in 0 .. h <=> l = 0
    BY SMTT(30), <1>6
  <2> QED BY SMTT(30), <1>2, <1>6, <2>1 DEF Fresh, Left, e, b
<1>7. CASE h = 1
  <2>1. \A l : l \in 0 .. h <=> l = 0 \/ l = 1
    BY SMTT(30), <1>7
  <2>2. {e[l] : l \in 0 .. h} = {e[0], e[1]}
    BY <2>1
  <2> QED BY SMTT(30), <1>2, <1>3, <1>7, <2>1, <2>2 DEF Fresh, Left, e, b
<1>8. CASE h = 2
  <2>1. \A l : l \in 0 .. h <=> l = 0 \/ l = 1 \/ l = 2
    BY SMTT(30), <1>8
  <2>2. {e[l] : l \in 0 .. h} = {e[0], e[1], e[2]}
    BY <2>1
  <2> QED BY SMTT(30), <1>2, <1>3, <1>4, <1>8, <2>1, <2>2 DEF Fresh, Left, e, b
<1>9. CASE h = 3
  <2>1. \A l : l \in 0 .. h <=> l = 0 \/ l = 1 \/ l = 2 \/ l = 3
    BY SMTT(30), <1>9
  <2>2. {e[l] : l \in 0 .. h} = {e[0], e[1], e[2], e[3]}
    BY <2>1
  <2> QED BY SMTT(30), <1>2, <1>3, <1>4, <1>5, <1>9, <2>1, <2>2 DEF Fresh, Left, e, b
<1> QED BY SMTT(30), <1>6, <1>7, <1>8, <1>9

-----------------------------------------------------------------------------
\* The inductive invariant and its steps.

(***************************************************************************)
(* What the search needs: with the blocks a file that may still grow takes *)
(* next, less than half of the group is in use.                            *)
(***************************************************************************)
HalfFree ==
    \A f \in Files : inode[f].blockCount < quota[f] =>
        2 * (Cardinality(space.bits) + calNeededPointerBlocks(inode[f].blockCount)) < SIZE

(***************************************************************************)
(* The inductive invariant.  SpaceExact alone is not inductive: it says    *)
(* which blocks a file gives back, not that the pointers to the others     *)
(* lead through pointer blocks that are in use.                            *)
(***************************************************************************)
Inv == TypeOK /\ Exact(space) /\ Tree(inode, disk, space.bits)

\* The types the lemmas on the tree ask for.
LEMMA InvTyped ==
  ASSUME Inv
  PROVE  Typed(inode, disk, space.bits)
BY DEF Inv, TypeOK, Typed, Spaces

\* The marked blocks can be counted.
LEMMA CountNat ==
  ASSUME NEW spc, Exact(spc)
  PROVE  Cardinality(spc.bits) \in Nat /\ IsFiniteSet(spc.bits)
<1>1. IsFiniteSet(Entries)
  BY SMTT(30), BitmapAssumption, FS_Interval DEF Entries
<1>2. spc.bits \in SUBSET Entries
  BY DEF Exact, Spaces
<1>3. IsFiniteSet(spc.bits)
  BY <1>1, <1>2, FS_Subset
<1> QED BY <1>3, FS_CardinalityType

\* Empty files hold nothing.
LEMMA InitInv ==
  ASSUME Init
  PROVE  Inv
<1>1. /\ inode \in [Files -> Inodes] /\ \A f \in Files : inode[f].blockCount = 0
  <2>1. 0 \in 0 .. bound3 /\ Unset \in Pointers
    BY SMTT(30), Bounds DEF Pointers
  <2> QED BY <2>1 DEF Init, Inodes
<1>2. Exact(space) /\ space.bits = {} /\ space \in Spaces
  <2>1. space = [bits |-> {}, avail |-> SIZE]
    BY DEF Init, Empty
  <2>2. Cardinality({}) = 0 /\ SIZE \in Nat
    BY FS_EmptySet, BitmapAssumption
  <2> QED BY SMTT(30), <2>1, <2>2 DEF Exact, Spaces
<1>3. TypeOK
  <2>1. DOMAIN disk = Entries /\ \A b \in Entries : disk[b] \in Values \/ disk[b] \in Tables
    BY FileAssumption DEF Init
  <2>2. freeing \in SUBSET Files /\ emptied \in 0 .. EMPTYINGS /\ quota \in Quotas /\ written = <<>>
    BY SMTT(30), FileAssumption DEF Init
  <2> QED BY <1>1, <1>2, <2>1, <2>2 DEF TypeOK
<1>4. Tree(inode, disk, space.bits)
  <2>1. \A f \in Files : \A n : n \notin 0 .. inode[f].blockCount - 1
    BY SMTT(30), <1>1
  <2> QED BY <1>2, <2>1 DEF Tree, Marked, Distinct, Pointing, Covered
<1> QED BY <1>2, <1>3, <1>4 DEF Inv

\* The blocks allocBlock takes.
Takings == Taken(space)

\* allocBlock lets the tree grow and keeps the bitmap exact.
LEMMA AllocDoes ==
  ASSUME Inv, HalfFree, NEW f \in Files, allocBlock(f)
  PROVE  /\ Grows(inode, disk, space.bits, f, inode[f].blockCount, Takings, inode'[f], disk')
         /\ inode' = [inode EXCEPT ![f] = inode'[f]]
         /\ DOMAIN disk' = Entries
         /\ \A b \in Entries : disk'[b] \in Values \/ disk'[b] \in Tables
         /\ Exact(space')
         /\ space'.bits = space.bits \cup {Takings[l] : l \in 0 .. Need(inode[f].blockCount)}
         /\ written' = <<>>
<1> DEFINE c == inode[f].blockCount
           h == Need(c)
           new == Attached(inode[f], disk, space, Takings, c, h)
<1>1. Typed(inode, disk, space.bits) /\ Exact(space) /\ Tree(inode, disk, space.bits)
  BY InvTyped DEF Inv
<1>2. c \in Indices
  <2>1. c < quota[f] /\ quota \in [Files -> 0 .. bound3]
    BY FileAssumption DEF allocBlock, Inv, TypeOK
  <2>2. quota[f] \in 0 .. bound3 /\ c \in Nat
    BY <1>1, <2>1, InIndices
  <2> QED BY SMTT(30), <2>1, <2>2, Bounds DEF Indices
<1>3. h \in 0 .. 3
  BY SMTT(30), <1>2, Levels
<1>4. Half(space, h)
  <2>1. 2 * (Cardinality(space.bits) + h) < SIZE
    BY DEF allocBlock, HalfFree, Need
  <2> QED BY <1>1, <2>1, CountNat DEF Half
<1> HIDE DEF h
<1>5. /\ Fresh(Takings, h, space.bits) /\ Exact(Left(space, h))
      /\ Left(space, h).bits = space.bits \cup {Takings[l] : l \in 0 .. h}
  BY <1>3, <1>4, Takes DEF Takings
<1>6. /\ inode' = [inode EXCEPT ![f] = new.inode] /\ disk' = new.disk /\ space' = new.space
      /\ written' = <<>>
  <2>1. allocLastBlock(inode[f], disk, GetAvail(space).space, GetAvail(space).entry) = new
    BY <1>2, LastIs DEF Second, Takings, h
  <2> HIDE DEF new
  <2> QED BY <2>1 DEF allocBlock
<1>7. new.space = Left(space, h)
  BY DEF Attached
<1> HIDE DEF new
<1>8. /\ Grows(inode, disk, space.bits, f, c, Takings, new.inode, new.disk)
      /\ DOMAIN new.disk = Entries
      /\ \A b \in Entries : new.disk[b] \in Values \/ new.disk[b] \in Tables
  BY <1>1, <1>2, <1>5, AttachedIs DEF h, new
<1>9. inode'[f] = new.inode
  BY <1>1, <1>6 DEF Typed
<1> QED BY <1>5, <1>6, <1>7, <1>8, <1>9 DEF h

\* allocBlock keeps the invariant.
LEMMA AllocInv ==
  ASSUME Inv, HalfFree, NEW f \in Files, allocBlock(f)
  PROVE  Inv'
<1> DEFINE c == inode[f].blockCount
<1>1. /\ Grows(inode, disk, space.bits, f, c, Takings, inode'[f], disk')
      /\ inode' = [inode EXCEPT ![f] = inode'[f]]
      /\ DOMAIN disk' = Entries
      /\ \A b \in Entries : disk'[b] \in Values \/ disk'[b] \in Tables
      /\ Exact(space')
      /\ space'.bits = space.bits \cup {Takings[l] : l \in 0 .. Need(c)}
      /\ written' = <<>>
  BY AllocDoes
<1>2. Typed(inode, disk, space.bits) /\ Tree(inode, disk, space.bits)
  BY InvTyped DEF Inv
<1>3. Tree(inode', disk', space'.bits)
  BY SMTT(30), <1>1, <1>2, TreeGrown
<1>4. inode' \in [Files -> Inodes]
  <2>1. inode'[f] \in Inodes /\ inode \in [Files -> Inodes]
    BY <1>1, <1>2 DEF Grows, Typed
  <2> QED BY <1>1, <2>1
<1>5. freeing' \in SUBSET Files /\ emptied' \in 0 .. EMPTYINGS /\ quota' \in Quotas
  BY DEF Inv, TypeOK, allocBlock
<1>6. TypeOK'
  BY <1>1, <1>4, <1>5 DEF TypeOK, Exact
<1>7. Exact(space)'
  BY <1>1
<1> QED BY <1>3, <1>6, <1>7 DEF Inv

\* What writeBlock does.
WritesAt(f, n, v) ==
    /\ n \in 0 .. inode[f].blockCount - 1 /\ n \in Indices /\ v \in Values
    /\ Node(inode[f], disk, 0, n) \in space.bits
    /\ disk' = [disk EXCEPT ![Node(inode[f], disk, 0, n)] = v]
    /\ written' = <<f, n + 1, v>>

\* writeBlock writes to a data block of the file.
LEMMA WriteDoes ==
  ASSUME Inv, NEW f \in Files, writeBlock(f)
  PROVE  \E n, v : WritesAt(f, n, v)
<1>1. Typed(inode, disk, space.bits) /\ Tree(inode, disk, space.bits)
  BY InvTyped DEF Inv
<1>2. PICK n \in 0 .. inode[f].blockCount - 1, v \in Writable :
           /\ disk' = [disk EXCEPT ![BlockAt(inode[f], disk, n)] = v]
           /\ written' = <<f, n + 1, v>>
  BY DEF writeBlock
<1>3. n \in Indices
  BY <1>1, InIndices
<1>4. v \in Values
  BY FileAssumption DEF Writable
<1>5. BlockAt(inode[f], disk, n) = Node(inode[f], disk, 0, n)
  BY <1>3, BlockIs
<1>6. 0 \in 0 .. Need(n)
  BY SMTT(30), <1>3, Levels
<1>7. Node(inode[f], disk, 0, n) \in space.bits
  BY <1>1, <1>6 DEF Tree, Marked
<1> QED BY <1>2, <1>3, <1>4, <1>5, <1>7 DEF WritesAt

\* writeBlock keeps the invariant.
LEMMA WriteInv ==
  ASSUME Inv, NEW f \in Files, writeBlock(f)
  PROVE  Inv'
<1>1. Typed(inode, disk, space.bits) /\ Tree(inode, disk, space.bits) /\ space.bits \subseteq Entries
  BY InvTyped DEF Inv, Typed
<1>2. PICK n, v : WritesAt(f, n, v)
  BY WriteDoes
<1>3. UNCHANGED <<inode, space, freeing, emptied, quota>>
  BY DEF writeBlock
<1>4. Tree(inode, disk', space.bits)
  BY <1>1, <1>2, TreeWritten DEF WritesAt
<1>5. DOMAIN disk' = Entries /\ \A b \in Entries : disk'[b] \in Values \/ disk'[b] \in Tables
  BY <1>1, <1>2 DEF WritesAt, Typed
<1>6. written' \in Files \X (1 .. bound3) \X Values
  <2>1. n + 1 \in 1 .. bound3 /\ v \in Values /\ written' = <<f, n + 1, v>>
    BY SMTT(30), <1>2, Bounds DEF WritesAt, Indices
  <2> QED BY <2>1
<1>7. TypeOK'
  BY <1>3, <1>5, <1>6 DEF Inv, TypeOK
<1> QED BY <1>3, <1>4, <1>7 DEF Inv, Exact

\* freeLastBlock takes off the last block and the pointer blocks it came
\* with.
LEMMA FreeDoes ==
  ASSUME Inv, NEW f \in Files, freeLastBlock(f)
  PROVE  \E c \in Indices :
            /\ inode[f].blockCount = c + 1
            /\ inode' = [inode EXCEPT ![f].blockCount = c]
            /\ space' = SetAlloc(space, {Node(inode[f], disk, l, c) : l \in 0 .. Need(c)})
            /\ disk' = disk /\ written' = <<>>
<1> DEFINE c == inode[f].blockCount - 1
<1>1. inode[f].blockCount \in 0 .. bound3 /\ inode[f].blockCount # 0
  BY InvTyped, InIndices DEF freeLastBlock
<1>2. c \in Indices /\ inode[f].blockCount = c + 1
  BY SMTT(30), <1>1, Bounds DEF Indices
<1>3. Freed(inode[f], disk, c) = {Node(inode[f], disk, l, c) : l \in 0 .. Need(c)}
  BY SMTT(30), <1>2, FreedIs
<1>4. /\ inode' = [inode EXCEPT ![f].blockCount = c]
      /\ space' = SetAlloc(space, Freed(inode[f], disk, c))
      /\ disk' = disk /\ written' = <<>>
  BY DEF freeLastBlock
<1> HIDE DEF c
<1> QED BY <1>2, <1>3, <1>4

\* freeLastBlock keeps the invariant.
LEMMA FreeInv ==
  ASSUME Inv, NEW f \in Files, freeLastBlock(f)
  PROVE  Inv'
<1>1. PICK c \in Indices :
            /\ inode[f].blockCount = c + 1
            /\ inode' = [inode EXCEPT ![f].blockCount = c]
            /\ space' = SetAlloc(space, {Node(inode[f], disk, l, c) : l \in 0 .. Need(c)})
            /\ disk' = disk /\ written' = <<>>
  BY FreeDoes
<1>2. Typed(inode, disk, space.bits) /\ Tree(inode, disk, space.bits) /\ Exact(space)
  BY InvTyped DEF Inv
<1>3. c \in Nat /\ c \in 0 .. bound3
  BY SMTT(30), Bounds DEF Indices
<1> DEFINE gone == {Node(inode[f], disk, l, c) : l \in 0 .. Need(c)}
<1>4. Tree(inode', disk, space.bits \ gone)
  <2>1. inode[f].blockCount = c + 1 /\ inode' = [inode EXCEPT ![f].blockCount = c]
    BY <1>1
  <2>2. gone = {Node(inode[f], disk, l, c) : l \in 0 .. Need(c)}
    OBVIOUS
  <2>3. Shrinks(inode, disk, f, c, inode', gone)
    BY <1>3, <2>1, <2>2 DEF Shrinks
  <2> QED BY <1>2, <2>3, TreeFreed
<1> HIDE DEF gone
<1>5. Exact(space') /\ space'.bits = space.bits \ gone
  <2>1. space' = SetAlloc(space, gone)
    BY <1>1 DEF gone
  <2>2. Exact(SetAlloc(space, gone))
    BY <1>2, SetAllocSound
  <2> QED BY <2>1, <2>2 DEF SetAlloc
<1>6. inode' \in [Files -> Inodes]
  <2>1. inode \in [Files -> Inodes] /\ inode[f] \in Inodes
    BY <1>2 DEF Typed
  <2>2. [inode[f] EXCEPT !.blockCount = c] \in Inodes
    BY <1>3, <2>1 DEF Inodes
  <2> QED BY <1>1, <2>1, <2>2
<1>7. freeing' \in SUBSET Files /\ emptied' \in 0 .. EMPTYINGS /\ quota' \in Quotas
  BY SMTT(30), FileAssumption DEF Inv, TypeOK, freeLastBlock
<1>8. TypeOK'
  BY <1>1, <1>5, <1>6, <1>7 DEF Inv, TypeOK, Exact
<1>9. Exact(space)'
  BY <1>5
<1> QED BY <1>1, <1>4, <1>5, <1>8, <1>9 DEF Inv

\* Every step keeps the invariant.
LEMMA NextInv ==
  ASSUME Inv, HalfFree, [Next]_vars
  PROVE  Inv'
<1>1. ASSUME NEW f \in Files, allocBlock(f) PROVE Inv'
  BY <1>1, AllocInv
<1>2. ASSUME NEW f \in Files, writeBlock(f) PROVE Inv'
  BY <1>2, WriteInv
<1>3. ASSUME NEW f \in Files, freeLastBlock(f) PROVE Inv'
  BY <1>3, FreeInv
<1>4. CASE UNCHANGED vars
  BY SMTT(30), <1>4 DEF vars, Inv, TypeOK, Exact, Tree, Marked, Distinct, Pointing, Covered
<1> QED BY <1>1, <1>2, <1>3, <1>4 DEF Next

-----------------------------------------------------------------------------
\* The invariants and the action properties.

(***************************************************************************)
(* The state of the block layer keeps its form: no pointer of an inode or  *)
(* of a pointer block ever leads outside the group, however deep the file  *)
(* has grown.                                                              *)
(***************************************************************************)
THEOREM TypeCorrect == Spec /\ []HalfFree => []TypeOK
<1>1. Init => Inv
  BY InitInv
<1>2. Inv /\ HalfFree /\ [Next]_vars => Inv'
  BY NextInv
<1>3. Inv => TypeOK
  BY DEF Inv
<1> QED BY <1>1, <1>2, <1>3, PTL DEF Spec

\* The pointer blocks and the data block of a block number are as many as
\* announced.
LEMMA HoldsIs ==
  ASSUME NEW ind, NEW dsk, NEW bits, Typed(ind, dsk, bits), Tree(ind, dsk, bits),
         NEW f \in Files, NEW n \in 0 .. ind[f].blockCount - 1
  PROVE  /\ Freed(ind[f], dsk, n) = {Node(ind[f], dsk, l, n) : l \in 0 .. Need(n)}
         /\ Cardinality(Freed(ind[f], dsk, n)) = Need(n) + 1
<1> DEFINE N(l) == Node(ind[f], dsk, l, n)
           S == {N(l) : l \in 0 .. Need(n)}
<1>1. n \in Indices
  BY InIndices
<1>2. Freed(ind[f], dsk, n) = S
  BY <1>1, FreedIs
<1>3. Need(n) \in 0 .. 3
  BY SMTT(30), <1>1, Levels
<1>4. \A l, k \in 0 .. Need(n) : N(l) = N(k) => l = k
  BY SMTT(30) DEF Tree, Distinct
<1>5. Cardinality(S) = Need(n) + 1
  <2> DEFINE map == [l \in 0 .. Need(n) |-> N(l)]
  <2> HIDE DEF N
  <2>1. map \in Bijection(0 .. Need(n), S)
    <3>1. map \in [0 .. Need(n) -> S]
      OBVIOUS
    <3>2. \A t \in S : \E l \in 0 .. Need(n) : map[l] = t
      OBVIOUS
    <3>3. \A l, k \in 0 .. Need(n) : map[l] = map[k] => l = k
      BY <1>4
    <3> QED BY <3>1, <3>2, <3>3 DEF Bijection, Injection, Surjection, IsInjective
  <2> HIDE DEF map
  <2>2. IsFiniteSet(0 .. Need(n)) /\ Cardinality(0 .. Need(n)) = Need(n) + 1
    <3>0. 0 \in Int /\ Need(n) \in Int
      BY SMTT(30), <1>3
    <3>1. /\ IsFiniteSet(0 .. Need(n))
          /\ Cardinality(0 .. Need(n)) = IF 0 > Need(n) THEN 0 ELSE Need(n) - 0 + 1
      BY <3>0, FS_Interval
    <3> QED BY SMTT(30), <1>3, <3>1
  <2>3. IsFiniteSet(S) /\ Cardinality(S) = Cardinality(0 .. Need(n))
    BY <2>1, <2>2, FS_Bijection DEF ExistsBijection
  <2> QED BY <2>2, <2>3
<1> QED BY <1>2, <1>5

\* The tree accounts for every block.
LEMMA InvSpaceExact ==
  ASSUME Inv
  PROVE  SpaceExact
<1>0. Typed(inode, disk, space.bits) /\ Tree(inode, disk, space.bits) /\ Exact(space)
  BY InvTyped DEF Inv
<1>1. \A x : x \in DataBlocks <=>
         \E f \in Files : \E n \in 0 .. inode[f].blockCount - 1 : x = <<f, n>>
  BY SMTT(30) DEF DataBlocks
<1>2. ASSUME NEW f \in Files, NEW n \in 0 .. inode[f].blockCount - 1
      PROVE  /\ <<f, n>> \in DataBlocks
             /\ Holds(<<f, n>>) = {Node(inode[f], disk, l, n) : l \in 0 .. Need(n)}
             /\ Cardinality(Holds(<<f, n>>)) = Need(n) + 1
  BY SMTT(30), <1>0, <1>1, HoldsIs DEF Holds
<1>3. space.bits = UNION {Holds(x) : x \in DataBlocks}
  <2>1. ASSUME NEW b \in space.bits
        PROVE  \E x \in DataBlocks : b \in Holds(x)
    <3>1. PICK f \in Files : \E n \in 0 .. inode[f].blockCount - 1 :
                   \E l \in 0 .. Need(n) : b = Node(inode[f], disk, l, n)
      BY <1>0 DEF Tree, Covered
    <3>2. PICK n \in 0 .. inode[f].blockCount - 1 :
                   \E l \in 0 .. Need(n) : b = Node(inode[f], disk, l, n)
      BY <3>1
    <3> QED BY <1>2, <3>2
  <2>2. ASSUME NEW x \in DataBlocks, NEW b \in Holds(x)
        PROVE  b \in space.bits
    <3>1. PICK f \in Files : \E n \in 0 .. inode[f].blockCount - 1 : x = <<f, n>>
      BY <1>1
    <3>2. PICK n \in 0 .. inode[f].blockCount - 1 : x = <<f, n>>
      BY <3>1
    <3>3. PICK l \in 0 .. Need(n) : b = Node(inode[f], disk, l, n)
      BY <1>2, <2>2, <3>2
    <3> QED BY <1>0, <3>3 DEF Tree, Marked
  <2> QED BY <2>1, <2>2
<1>4. ASSUME NEW x \in DataBlocks, NEW y \in DataBlocks, x # y
      PROVE  Holds(x) \cap Holds(y) = {}
  <2>1. PICK f \in Files : \E n \in 0 .. inode[f].blockCount - 1 : x = <<f, n>>
    BY <1>1
  <2>2. PICK n \in 0 .. inode[f].blockCount - 1 : x = <<f, n>>
    BY <2>1
  <2>3. PICK g \in Files : \E m \in 0 .. inode[g].blockCount - 1 : y = <<g, m>>
    BY <1>1
  <2>4. PICK m \in 0 .. inode[g].blockCount - 1 : y = <<g, m>>
    BY <2>3
  <2>5. \A l \in 0 .. Need(n), k \in 0 .. Need(m) :
           Node(inode[f], disk, l, n) = Node(inode[g], disk, k, m) => f = g /\ n = m
    BY SMTT(30), <1>0 DEF Tree, Distinct
  <2>6. ~ (f = g /\ n = m)
    BY <1>4, <2>2, <2>4
  <2>7. /\ Holds(x) = {Node(inode[f], disk, l, n) : l \in 0 .. Need(n)}
        /\ Holds(y) = {Node(inode[g], disk, k, m) : k \in 0 .. Need(m)}
    BY <1>2, <2>2, <2>4
  <2> QED BY <2>5, <2>6, <2>7
<1>5. ASSUME NEW x \in DataBlocks
      PROVE  Cardinality(Holds(x)) = calNeededPointerBlocks(x[2]) + 1
  <2>1. PICK f \in Files : \E n \in 0 .. inode[f].blockCount - 1 : x = <<f, n>>
    BY <1>1
  <2>2. PICK n \in 0 .. inode[f].blockCount - 1 : x = <<f, n>>
    BY <2>1
  <2>3. x[2] = n
    BY <2>2
  <2> QED BY <1>2, <2>2, <2>3 DEF Need
<1>6. space.avail = SIZE - Cardinality(space.bits)
  BY <1>0 DEF Exact
<1> QED BY <1>3, <1>4, <1>5, <1>6 DEF SpaceExact

(***************************************************************************)
(* While less than half of the group is in use, no two files share a block *)
(* and none is lost: allocBlock and freeBlock keep the bitmap the exact    *)
(* set of the blocks the files reach, each in one place, and the count the *)
(* number of the others.                                                   *)
(***************************************************************************)
THEOREM SpaceStaysExact == Spec /\ []HalfFree => []SpaceExact
<1>1. Init => Inv
  BY InitInv
<1>2. Inv /\ HalfFree /\ [Next]_vars => Inv'
  BY NextInv
<1>3. Inv => SpaceExact
  BY InvSpaceExact
<1> QED BY <1>1, <1>2, <1>3, PTL DEF Spec

\* A file that grows gains blocks that were not marked.
LEMMA StepAvailable ==
  ASSUME Inv, HalfFree, [Next]_vars, NEW f \in Files, inode'[f].blockCount > inode[f].blockCount
  PROVE  Freed(inode'[f], disk', inode[f].blockCount) \cap space.bits = {}
<1> DEFINE c == inode[f].blockCount
<1>0. Typed(inode, disk, space.bits) /\ Tree(inode, disk, space.bits)
  BY InvTyped DEF Inv
<1>1. \A g \in Files : inode[g].blockCount \in Nat
  BY <1>0, InIndices
<1>2. ASSUME NEW g \in Files, writeBlock(g) PROVE FALSE
  BY SMTT(30), <1>1, <1>2 DEF writeBlock
<1>3. ASSUME NEW g \in Files, freeLastBlock(g) PROVE FALSE
  <2>1. PICK d \in Indices : inode[g].blockCount = d + 1 /\ inode' = [inode EXCEPT ![g].blockCount = d]
    BY <1>3, FreeDoes
  <2>2. d \in Nat /\ inode \in [Files -> Inodes]
    BY SMTT(30), <1>0, Bounds DEF Indices, Typed
  <2>3. CASE g = f
    <3>1. inode'[f] = [inode[f] EXCEPT !.blockCount = d] /\ inode[f] \in Inodes
      BY <2>1, <2>2, <2>3
    <3>2. inode'[f].blockCount = d
      BY <3>1 DEF Inodes
    <3> QED BY SMTT(30), <2>1, <2>2, <2>3, <3>2
  <2>4. CASE g # f
    <3>1. inode'[f] = inode[f]
      BY <2>1, <2>2, <2>4
    <3> QED BY SMTT(30), <1>1, <3>1
  <2> QED BY <2>3, <2>4
<1>4. ~ UNCHANGED vars
  BY SMTT(30), <1>1 DEF vars
<1>5. PICK g \in Files : allocBlock(g)
  BY <1>2, <1>3, <1>4 DEF Next
<1>6. /\ Grows(inode, disk, space.bits, g, inode[g].blockCount, Takings, inode'[g], disk')
      /\ inode' = [inode EXCEPT ![g] = inode'[g]]
  BY <1>5, AllocDoes
<1>7. g = f
  <2>1. g # f => inode'[f] = inode[f]
    BY <1>0, <1>6 DEF Typed
  <2> QED BY SMTT(30), <1>1, <2>1
<1>8. c \in Indices /\ Fresh(Takings, Need(c), space.bits)
  BY <1>6, <1>7 DEF Grows
<1>9. Freed(inode'[f], disk', c) = {Node(inode'[f], disk', l, c) : l \in 0 .. Need(c)}
  BY <1>8, FreedIs
<1>10. \A l \in 0 .. Need(c) : Node(inode'[f], disk', l, c) = Takings[l]
  BY SMTT(30), <1>0, <1>6, <1>7, Placed
<1> QED BY SMTT(30), <1>8, <1>9, <1>10 DEF Fresh

(***************************************************************************)
(* While less than half of the group is in use, allocBlock attaches only   *)
(* blocks that getAvailBlock found available; beyond one half it does not  *)
(* (run ext_half).                                                         *)
(***************************************************************************)
THEOREM OnlyAvailable == Spec /\ []HalfFree => AvailableOnly
<1>1. Init => Inv
  BY InitInv
<1>2. Inv /\ HalfFree /\ [Next]_vars => Inv'
  BY NextInv
<1>3. Inv /\ HalfFree /\ [Next]_vars =>
        [\A f \in Files : inode'[f].blockCount > inode[f].blockCount =>
          Freed(inode'[f], disk', inode[f].blockCount) \cap space.bits = {}]_vars
  BY StepAvailable
<1> QED BY <1>1, <1>2, <1>3, PTL DEF Spec, AvailableOnly

\* What GrowthAnnounced needs, whether the search is right or not.
Counted ==
    /\ DOMAIN inode = Files /\ quota \in Quotas
    /\ \A f \in Files : "blockCount" \in DOMAIN inode[f] /\ inode[f].blockCount \in 0 .. bound3
    /\ space.avail \in Int /\ IsFiniteSet(space.bits)

\* getAvailBlock always counts one block less.
LEMMA TakenCount ==
  ASSUME NEW spc, spc.avail \in Int, IsFiniteSet(spc.bits)
  PROVE  /\ GetAvail(spc).space.avail = spc.avail - 1 /\ GetAvail(spc).space.avail \in Int
         /\ IsFiniteSet(GetAvail(spc).space.bits)
<1>1. GetAvail(spc).space.avail = spc.avail - 1
  BY DEF GetAvail
<1>2. \E x : GetAvail(spc).space.bits \in {spc.bits, spc.bits \cup {x}}
  BY DEF GetAvail
<1>3. PICK x : GetAvail(spc).space.bits \in {spc.bits, spc.bits \cup {x}}
  BY <1>2
<1>4. IsFiniteSet(spc.bits \cup {x})
  BY FS_AddElement
<1>5. CASE GetAvail(spc).space.bits = spc.bits
  BY SMTT(30), <1>1, <1>5
<1>6. CASE GetAvail(spc).space.bits = spc.bits \cup {x}
  BY SMTT(30), <1>1, <1>4, <1>6
<1> QED BY <1>3, <1>5, <1>6

\* And so for as many as are taken.
LEMMA LeftCount ==
  ASSUME NEW spc, spc.avail \in Int, IsFiniteSet(spc.bits), NEW h \in 0 .. 3
  PROVE  /\ Left(spc, h).avail = spc.avail - (h + 1)
         /\ IsFiniteSet(Left(spc, h).bits)
<1>1. /\ Second(spc).avail = spc.avail - 1 /\ Second(spc).avail \in Int
      /\ IsFiniteSet(Second(spc).bits)
  BY TakenCount DEF Second
<1>2. /\ Third(spc).avail = Second(spc).avail - 1 /\ Third(spc).avail \in Int
      /\ IsFiniteSet(Third(spc).bits)
  BY <1>1, TakenCount DEF Third
<1>3. /\ Fourth(spc).avail = Third(spc).avail - 1 /\ Fourth(spc).avail \in Int
      /\ IsFiniteSet(Fourth(spc).bits)
  BY <1>2, TakenCount DEF Fourth
<1>4. /\ GetAvail(Fourth(spc)).space.avail = Fourth(spc).avail - 1
      /\ IsFiniteSet(GetAvail(Fourth(spc)).space.bits)
  BY <1>3, TakenCount
<1>5. CASE h = 0
  BY SMTT(30), <1>1, <1>5 DEF Left
<1>6. CASE h = 1
  BY SMTT(30), <1>1, <1>2, <1>6 DEF Left
<1>7. CASE h = 2
  BY SMTT(30), <1>1, <1>2, <1>3, <1>7 DEF Left
<1>8. CASE h = 3
  BY SMTT(30), <1>1, <1>2, <1>3, <1>4, <1>8 DEF Left
<1> QED BY SMTT(30), <1>5, <1>6, <1>7, <1>8

\* allocBlock takes what calNeededPointerBlocks says, and one more.
LEMMA AllocCounts ==
  ASSUME Counted, NEW f \in Files, allocBlock(f)
  PROVE  /\ space'.avail = space.avail - (Need(inode[f].blockCount) + 1)
         /\ IsFiniteSet(space'.bits) /\ inode[f].blockCount \in Indices
         /\ "blockCount" \in DOMAIN inode'[f]
         /\ inode'[f].blockCount = inode[f].blockCount + 1
         /\ inode' = [inode EXCEPT ![f] = inode'[f]] /\ quota' = quota
<1> DEFINE c == inode[f].blockCount
           h == Need(c)
           new == Attached(inode[f], disk, space, Taken(space), c, h)
<1>1. c \in Indices /\ "blockCount" \in DOMAIN inode[f] /\ c \in Nat
  <2>1. c < quota[f] /\ quota \in [Files -> 0 .. bound3] /\ c \in 0 .. bound3
    BY FileAssumption DEF allocBlock, Counted
  <2>2. quota[f] \in 0 .. bound3
    BY <2>1
  <2> QED BY SMTT(30), <2>1, <2>2, Bounds DEF Indices, Counted
<1>2. h \in 0 .. 3
  BY SMTT(30), <1>1, Levels
<1>3. inode' = [inode EXCEPT ![f] = new.inode] /\ space' = new.space /\ quota' = quota
  <2>1. allocLastBlock(inode[f], disk, GetAvail(space).space, GetAvail(space).entry) = new
    BY <1>1, LastIs DEF Second
  <2> HIDE DEF new
  <2> QED BY <2>1 DEF allocBlock
<1>4. inode'[f] = new.inode
  BY <1>3 DEF Counted
<1>5. new.space = Left(space, h)
  BY DEF Attached
<1>6. "blockCount" \in DOMAIN new.inode /\ new.inode.blockCount = c + 1
  <2> DEFINE old == IF h = Area(c) THEN Rooted(inode[f], c, Taken(space)[h]) ELSE inode[f]
  <2>1. new.inode = [old EXCEPT !.blockCount = c + 1]
    BY DEF Attached
  <2>2. DOMAIN old = DOMAIN inode[f]
    BY DEF Rooted
  <2> HIDE DEF old, new
  <2> QED BY <1>1, <2>1, <2>2
<1> HIDE DEF h, new
<1>7. Left(space, h).avail = space.avail - (h + 1) /\ IsFiniteSet(Left(space, h).bits)
  BY <1>2, LeftCount DEF Counted
<1> QED BY <1>1, <1>3, <1>4, <1>5, <1>6, <1>7 DEF h

\* No file grows in freeLastBlock.
LEMMA FreeCounts ==
  ASSUME Counted, NEW f \in Files, freeLastBlock(f)
  PROVE  Counted' /\ inode'[f].blockCount = inode[f].blockCount - 1
                  /\ \A g \in Files : g # f => inode'[g] = inode[g]
<1> DEFINE c == inode[f].blockCount - 1
           gone == Freed(inode[f], disk, c)
<1>1. /\ DOMAIN inode = Files /\ "blockCount" \in DOMAIN inode[f] /\ c \in 0 .. bound3
      /\ inode' = [inode EXCEPT ![f].blockCount = c] /\ quota' = quota
      /\ space' = SetAlloc(space, gone)
  <2>1. inode[f].blockCount \in 0 .. bound3 /\ inode[f].blockCount # 0
    BY DEF Counted, freeLastBlock
  <2>2. c \in 0 .. bound3
    BY SMTT(30), <2>1, Bounds
  <2>3. DOMAIN inode = Files /\ "blockCount" \in DOMAIN inode[f]
    BY DEF Counted
  <2>4. /\ inode' = [inode EXCEPT ![f].blockCount = c] /\ quota' = quota
        /\ space' = SetAlloc(space, gone)
    BY DEF freeLastBlock
  <2> QED BY <2>2, <2>3, <2>4
<1> HIDE DEF gone
<1>2. /\ DOMAIN inode' = Files /\ inode'[f] = [inode[f] EXCEPT !.blockCount = c]
      /\ \A g \in Files : g # f => inode'[g] = inode[g]
  <2> DEFINE i == [inode[f] EXCEPT !.blockCount = c]
  <2>1. inode' = [inode EXCEPT ![f] = i] /\ DOMAIN inode = Files
    BY <1>1
  <2> HIDE DEF i
  <2>2. DOMAIN inode' = Files /\ inode'[f] = i /\ \A g \in Files : g # f => inode'[g] = inode[g]
    BY <2>1
  <2> QED BY <2>2 DEF i
<1>3. "blockCount" \in DOMAIN inode'[f] /\ inode'[f].blockCount = c
  BY <1>1, <1>2
<1>4. space'.avail \in Int /\ IsFiniteSet(space'.bits)
  <2>1. IsFiniteSet(space.bits \ gone) /\ IsFiniteSet(space.bits \cap gone)
    <3>1. space.bits \ gone \subseteq space.bits /\ space.bits \cap gone \subseteq space.bits
      OBVIOUS
    <3> QED BY <3>1, FS_Subset DEF Counted
  <2>2. Cardinality(space.bits \cap gone) \in Nat
    BY <2>1, FS_CardinalityType
  <2> QED BY SMTT(30), <1>1, <2>1, <2>2 DEF SetAlloc, Counted
<1> QED BY <1>1, <1>2, <1>3, <1>4 DEF Counted

\* Every step keeps the counts, and announces what it takes.
LEMMA CountedStep ==
  ASSUME Counted, [Next]_vars
  PROVE  /\ Counted'
         /\ \A f \in Files : inode'[f].blockCount > inode[f].blockCount =>
               space.avail - space'.avail = Need(inode[f].blockCount) + 1
<1>0. \A f \in Files : inode[f].blockCount \in Nat
  BY SMTT(30), Bounds DEF Counted
<1>1. ASSUME NEW f \in Files, allocBlock(f)
      PROVE  /\ Counted'
             /\ \A g \in Files : inode'[g].blockCount > inode[g].blockCount =>
                   space.avail - space'.avail = Need(inode[g].blockCount) + 1
  <2> DEFINE c == inode[f].blockCount
  <2>1. /\ space'.avail = space.avail - (Need(c) + 1) /\ IsFiniteSet(space'.bits) /\ c \in Indices
        /\ "blockCount" \in DOMAIN inode'[f] /\ inode'[f].blockCount = c + 1
        /\ inode' = [inode EXCEPT ![f] = inode'[f]] /\ quota' = quota
    BY <1>1, AllocCounts
  <2>2. c + 1 \in 0 .. bound3 /\ Need(c) \in Int /\ space.avail \in Int
    BY SMTT(30), <2>1, Bounds, Levels DEF Indices, Counted
  <2>3. DOMAIN inode' = Files /\ \A g \in Files : g # f => inode'[g] = inode[g]
    BY <2>1 DEF Counted
  <2>4. Counted'
    BY SMTT(30), <2>1, <2>2, <2>3 DEF Counted
  <2>5. ASSUME NEW g \in Files, inode'[g].blockCount > inode[g].blockCount
        PROVE  space.avail - space'.avail = Need(inode[g].blockCount) + 1
    <3>1. g = f
      BY SMTT(30), <1>0, <2>3, <2>5
    <3> QED BY SMTT(30), <2>1, <2>2, <3>1
  <2> QED BY <2>4, <2>5
<1>2. ASSUME NEW f \in Files, writeBlock(f)
      PROVE  Counted' /\ inode' = inode
  BY <1>2 DEF writeBlock, Counted
<1>3. ASSUME NEW f \in Files, freeLastBlock(f)
      PROVE  Counted' /\ \A g \in Files : ~ (inode'[g].blockCount > inode[g].blockCount)
  <2>1. /\ Counted' /\ inode'[f].blockCount = inode[f].blockCount - 1
        /\ \A g \in Files : g # f => inode'[g] = inode[g]
    BY <1>3, FreeCounts
  <2> QED BY SMTT(30), <1>0, <2>1
<1>4. CASE UNCHANGED vars
  BY SMTT(30), <1>0, <1>4 DEF vars, Counted
<1> QED BY SMTT(30), <1>0, <1>1, <1>2, <1>3, <1>4 DEF Next

(***************************************************************************)
(* allocLastBlock takes exactly the blocks allocBlock has asked for with   *)
(* calNeededPointerBlocks, in every one of its branches and whether the    *)
(* search finds a free block or not.                                       *)
(***************************************************************************)
THEOREM GrowthIsAnnounced == Spec => GrowthAnnounced
<1>1. Init => Counted
  <2> SUFFICES ASSUME Init PROVE Counted
    OBVIOUS
  <2>1. /\ DOMAIN inode = Files
        /\ \A f \in Files : "blockCount" \in DOMAIN inode[f] /\ inode[f].blockCount = 0
    BY DEF Init
  <2>2. space.avail \in Int /\ IsFiniteSet(space.bits)
    BY SMTT(30), FS_EmptySet, BitmapAssumption DEF Init, Empty
  <2> QED BY SMTT(30), <2>1, <2>2, Bounds DEF Counted, Init
<1>2. Counted /\ [Next]_vars => Counted'
  BY CountedStep
<1>3. Counted /\ [Next]_vars =>
        [\A f \in Files : inode'[f].blockCount > inode[f].blockCount =>
            space.avail - space'.avail = calNeededPointerBlocks(inode[f].blockCount) + 1]_vars
  BY CountedStep DEF Need
<1> QED BY <1>1, <1>2, <1>3, PTL DEF Spec, GrowthAnnounced

\* Every step is one of FileStore or changes nothing there.
LEMMA StepStore ==
  ASSUME Inv, HalfFree, [Next]_vars
  PROVE  [FileStore!Next]_(FileStore!vars)
<1> DEFINE bar == [f \in Files |-> [i \in 1 .. inode[f].blockCount |->
                       Contents(BlockAt(inode[f], disk, i - 1))]]
<1>0. Typed(inode, disk, space.bits) /\ Tree(inode, disk, space.bits)
  BY InvTyped DEF Inv
<1>1. bar = View(inode, disk) /\ bar' = View(inode', disk')
  BY BlocksAre
<1>2. ASSUME NEW f \in Files, allocBlock(f) PROVE FileStore!Grow(f)
  <2>1. /\ Grows(inode, disk, space.bits, f, inode[f].blockCount, Takings, inode'[f], disk')
        /\ inode' = [inode EXCEPT ![f] = inode'[f]] /\ written' = <<>>
    BY <1>2, AllocDoes
  <2>2. \E v \in Values : View(inode', disk') = [View(inode, disk) EXCEPT ![f] = Append(@, v)]
    BY SMTT(30), <1>0, <2>1, ViewGrown
  <2> HIDE DEF bar
  <2>3. \E v \in Values : bar' = [bar EXCEPT ![f] = Append(@, v)]
    BY <1>1, <2>2
  <2> QED BY <2>1, <2>3 DEF FileStore!Grow, bar
<1>3. ASSUME NEW f \in Files, writeBlock(f) PROVE FileStore!Write(f)
  <2>1. PICK n, v : WritesAt(f, n, v)
    BY <1>3, WriteDoes
  <2>2. inode' = inode
    BY <1>3 DEF writeBlock
  <2>3. View(inode, disk') = [View(inode, disk) EXCEPT ![f] = [@ EXCEPT ![n + 1] = v]]
    <3>1. /\ n \in 0 .. inode[f].blockCount - 1 /\ v \in Values
          /\ disk' = [disk EXCEPT ![Node(inode[f], disk, 0, n)] = v]
      BY <2>1 DEF WritesAt
    <3>2. Overwrites(inode, disk, f, n, v, disk')
      BY <3>1 DEF Overwrites
    <3> QED BY SMTT(30), <1>0, <3>2, ViewWritten
  <2>4. written' = <<f, n + 1, v>> /\ v \in Values /\ n \in 0 .. inode[f].blockCount - 1
    BY <2>1 DEF WritesAt
  <2>5. n + 1 \in DOMAIN View(inode, disk)[f]
    <3>1. inode[f].blockCount \in Nat
      BY <1>0, InIndices
    <3>2. n + 1 \in 1 .. inode[f].blockCount
      BY SMTT(30), <2>4, <3>1
    <3> QED BY <3>2 DEF View, Lines
  <2> HIDE DEF bar
  <2>6. written' \in {f} \X (DOMAIN bar[f]) \X Values
    BY <1>1, <2>4, <2>5
  <2>7. bar' = [bar EXCEPT ![f][n + 1] = v]
    BY <1>1, <2>2, <2>3
  <2>8. written'[2] = n + 1 /\ written'[3] = v
    BY <2>4
  <2>9. bar' = [bar EXCEPT ![f][written'[2]] = written'[3]]
    BY <2>7, <2>8
  <2> QED BY <2>6, <2>9 DEF FileStore!Write, bar
<1>4. ASSUME NEW f \in Files, freeLastBlock(f) PROVE FileStore!Shrink(f)
  <2>1. PICK c \in Indices :
            /\ inode[f].blockCount = c + 1
            /\ inode' = [inode EXCEPT ![f].blockCount = c]
            /\ disk' = disk /\ written' = <<>>
    BY <1>4, FreeDoes
  <2>2. c \in Nat
    BY SMTT(30), Bounds DEF Indices
  <2>3. /\ View(inode, disk)[f] # << >>
        /\ View(inode', disk) = [View(inode, disk) EXCEPT ![f] = SubSeq(@, 1, Len(@) - 1)]
    <3> DEFINE gone == {Node(inode[f], disk, l, c) : l \in 0 .. Need(c)}
    <3>1. Shrinks(inode, disk, f, c, inode', gone)
      BY <2>1, <2>2 DEF Shrinks
    <3> HIDE DEF gone
    <3> QED BY SMTT(30), <1>0, <3>1, ViewShrunk
  <2> HIDE DEF bar
  <2>4. bar[f] # << >> /\ bar' = [bar EXCEPT ![f] = SubSeq(@, 1, Len(@) - 1)]
    BY <1>1, <2>1, <2>3
  <2> QED BY <2>1, <2>4 DEF FileStore!Shrink, bar
<1>5. CASE UNCHANGED vars
  <2>1. inode' = inode /\ disk' = disk /\ written' = written
    BY <1>5 DEF vars
  <2>2. bar' = bar
    BY <1>1, <2>1
  <2> QED BY <2>1, <2>2 DEF FileStore!vars
<1> QED BY <1>2, <1>3, <1>4, <1>5 DEF Next, FileStore!Next

(***************************************************************************)
(* While less than half of the group is in use, the files are sequences of *)
(* blocks (FileStore): growing appends, writing changes the one block of   *)
(* the one file it names, freeing takes off the last block, and no         *)
(* operation changes what is read anywhere else, for every depth of the    *)
(* pointers.                                                               *)
(***************************************************************************)
THEOREM FilesAreStore == Spec /\ []HalfFree => IsFileStore
<1>1. Init => Inv
  BY InitInv
<1>2. Inv /\ HalfFree /\ [Next]_vars => Inv'
  BY NextInv
<1>3. Init => FileStore!Init
  <2> SUFFICES ASSUME Init PROVE FileStore!Init
    OBVIOUS
  <2>1. \A f \in Files : inode[f].blockCount = 0
    BY DEF Init
  <2>2. \A f \in Files : [i \in 1 .. inode[f].blockCount |-> Contents(BlockAt(inode[f], disk, i - 1))] = << >>
    BY SMTT(30), <2>1
  <2> QED BY <2>2 DEF FileStore!Init, Init
<1>4. Inv /\ HalfFree /\ [Next]_vars => [FileStore!Next]_(FileStore!vars)
  BY StepStore
<1> QED BY <1>1, <1>2, <1>3, <1>4, PTL DEF Spec, IsFileStore, FileStore!Spec

=============================================================================
