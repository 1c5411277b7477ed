-------------------------- MODULE PointerTreeProofs --------------------------
(***************************************************************************)
(* The tree of pointer blocks of a file, for every size of an inode and of *)
(* a pointer block.                                                        *)
(*                                                                         *)
(* Block number n of a file is below Area(n) levels of pointer blocks, and *)
(* is the first block below calNeededPointerBlocks(n) of them.  So every   *)
(* block of the tree, data or pointers, has one place: a file, a number n  *)
(* and a level up to calNeededPointerBlocks(n).  The invariant Tree says   *)
(* that the bitmap marks exactly the blocks at the places of the files,    *)
(* that no two places share one, and that the blocks above level 0 hold    *)
(* pointers.  The lemmas say what the three operations of ext_file do to   *)
(* the tree and to the sequences of blocks the files are.                  *)
(***************************************************************************)
EXTENDS ExtFile, TLAPS

\* The seconds each prover has for a leaf.
USE ZenonT(20), SMTT(20)

-----------------------------------------------------------------------------
\* The numbers: levels, slots and the ranges of the pointer blocks.

\* The block numbers a file can have, and the slots of a pointer block.
Indices == 0 .. bound3 - 1
Slots == 0 .. DIVIDER - 1

\* The levels of pointer blocks above block n.
Area(n) == IF n < bound0 THEN 0 ELSE IF n < bound1 THEN 1 ELSE IF n < bound2 THEN 2 ELSE 3

\* The slot that leads to block n in the pointer block at level l + 1.
Slot(l, n) ==
    LET m == n - bound1
        r == n - bound2
    IN  IF l = 0 THEN IF n < bound1 THEN n - bound0
                      ELSE IF n < bound2 THEN m % divider0
                      ELSE (r % divider1) % divider0
        ELSE IF l = 1 THEN IF n < bound2 THEN m \div divider0
                           ELSE (r % divider1) \div divider0
        ELSE r \div divider1

\* The first block below the pointer block at level l above block n.
Start(l, n) ==
    IF l = 0 THEN n
    ELSE IF l = 1 THEN n - Slot(0, n)
    ELSE IF l = 2 THEN n - Slot(0, n) - (Slot(1, n) * divider0)
    ELSE bound2

\* The pointer blocks that come with block n.
Need(n) == calNeededPointerBlocks(n)

\* The numbers of levels, spelled out.
LEMMA Numbers ==
  /\ 0 # 1 /\ 0 # 2 /\ 0 # 3 /\ 1 # 2 /\ 1 # 3 /\ 2 # 3
  /\ 1 - 1 = 0 /\ 2 - 1 = 1 /\ 3 - 1 = 2 /\ 0 + 1 = 1 /\ 1 + 1 = 2 /\ 2 + 1 = 3
  /\ \A l : l \notin 1 .. 0
  /\ \A l : l \in 1 .. 1 <=> l = 1
  /\ \A l : l \in 1 .. 2 <=> l = 1 \/ l = 2
  /\ \A l : l \in 1 .. 3 <=> l = 1 \/ l = 2 \/ l = 3
  /\ \A l : l \in 0 .. 0 <=> l = 0
  /\ \A l : l \in 0 .. 1 <=> l = 0 \/ l = 1
  /\ \A l : l \in 0 .. 2 <=> l = 0 \/ l = 1 \/ l = 2
  /\ \A l : l \in 0 .. 3 <=> l = 0 \/ l = 1 \/ l = 2 \/ l = 3
BY SMTT(30)

\* The ends of a range of levels, and the levels above its first.
LEMMA Within ==
  \A h \in Nat :
     /\ h \in 0 .. h /\ 0 \in 0 .. h /\ h + 1 # 0 /\ h + 1 \in Nat
     /\ \A l \in 0 .. h : l \in Nat
     /\ \A l \in 1 .. h : l # 0 /\ l \in Nat /\ l \in 0 .. h /\ l - 1 \in 0 .. h
BY SMTT(30)

\* Quotient and remainder, of every integer.
LEMMA DivMod ==
  ASSUME NEW d \in Nat \ {0}, NEW a \in Int
  PROVE  a \div d \in Int /\ a % d \in 0 .. d - 1 /\ a = (a \div d) * d + (a % d)
BY SMTT(30)

\* There is one quotient and one remainder.
LEMMA DivUnique ==
  ASSUME NEW d \in Nat \ {0}, NEW q \in Int, NEW r \in 0 .. d - 1
  PROVE  (q * d + r) \div d = q /\ (q * d + r) % d = r
BY SMTT(30)

\* The sizes of the areas.
LEMMA Bounds ==
  /\ divider0 = DIVIDER /\ divider1 = DIVIDER * DIVIDER /\ divider2 = divider1 * DIVIDER
  /\ DIVIDER \in Nat \ {0} /\ divider1 \in Nat \ {0} /\ divider2 \in Nat \ {0}
  /\ bound0 \in Nat /\ bound1 \in Nat /\ bound2 \in Nat /\ bound3 \in Nat
  /\ bound0 < DIVIDER /\ bound0 > 0
  /\ bound1 = bound0 + DIVIDER /\ bound2 = bound1 + divider1 /\ bound3 = bound2 + divider2
<1>1. DIVIDER \in Nat \ {0} /\ POINTER_NUM \in Nat \ {0} /\ POINTER_NUM < DIVIDER
  BY FileAssumption
<1>2. DIVIDER * DIVIDER \in Nat \ {0}
  BY SMTT(30), <1>1
<1>3. ASSUME NEW d \in Nat \ {0} PROVE d * DIVIDER \in Nat \ {0}
  BY SMTT(30), <1>1
<1> QED BY SMTT(30), <1>1, <1>2, <1>3 DEF divider0, divider1, divider2, bound0, bound1, bound2, bound3

\* A multiple of divider1 is one of divider0.
LEMMA Multiple ==
  ASSUME NEW x \in Int, x % divider1 = 0
  PROVE  x % divider0 = 0
<1> DEFINE q == x \div divider1
           y == q * DIVIDER
<1>1. x = q * divider1 /\ q \in Int
  <2>1. divider1 \in Nat \ {0}
    BY Bounds
  <2>2. x = (x \div divider1) * divider1 + (x % divider1) /\ x \div divider1 \in Int
    BY <2>1, DivMod, Zenon
  <2>3. (x \div divider1) * divider1 \in Int
    BY SMTT(30), <2>1, <2>2
  <2> QED BY SMTT(30), <2>2, <2>3
<1> HIDE DEF q
<1>2. x = y * DIVIDER + 0 /\ y \in Int /\ 0 \in 0 .. DIVIDER - 1
  BY SMTT(30), <1>1, Bounds
<1> HIDE DEF y
<1>3. DIVIDER \in Nat \ {0} /\ divider0 = DIVIDER
  BY Bounds
<1>4. (y * DIVIDER + 0) % DIVIDER = 0
  BY <1>2, <1>3, DivUnique, Zenon
<1> QED BY <1>2, <1>3, <1>4

\* A number with digits i, j, k to the base DIVIDER stays within its range.
LEMMA Products ==
  ASSUME NEW i \in Slots, NEW j \in Slots, NEW k \in Slots
  PROVE  /\ (j * DIVIDER) \in Nat /\ j * DIVIDER + k \in 0 .. divider1 - 1
         /\ i * divider1 \in Nat /\ i * divider1 + j * DIVIDER + k \in 0 .. divider2 - 1
         /\ (j * DIVIDER = 0 <=> j = 0) /\ (i * divider1 = 0 <=> i = 0)
<1> DEFINE d == DIVIDER
<1>1. d \in Nat \ {0} /\ i \in 0 .. d - 1 /\ j \in 0 .. d - 1 /\ k \in 0 .. d - 1
  BY Bounds DEF Slots
<1> HIDE DEF d
<1>2. ASSUME NEW e \in Nat \ {0}, NEW x \in 0 .. d - 1, NEW y \in 0 .. e - 1
      PROVE  x * e \in Nat /\ x * e + y \in 0 .. (e * d) - 1 /\ (x * e = 0 <=> x = 0)
  <2>1. x * e \in Nat /\ (x * e = 0 <=> x = 0)
    BY SMTT(30), <1>1
  <2>2. (d - 1 - x) * e \in Nat
    BY SMTT(30), <1>1
  <2>3. (d - 1 - x) * e = (d * e) - e - (x * e)
    BY SMTT(30), <1>1
  <2>4. d * e = e * d
    BY SMTT(30), <1>1
  <2>5. d * e \in Int
    BY SMTT(30), <1>1
  <2> QED BY SMTT(30), <1>1, <2>1, <2>2, <2>3, <2>4, <2>5
<1>3. divider1 \in Nat \ {0} /\ divider1 = d * d /\ divider2 = divider1 * d
  BY Bounds DEF d
<1>4. j * d \in Nat /\ j * d + k \in 0 .. (d * d) - 1 /\ (j * d = 0 <=> j = 0)
  BY <1>1, <1>2
<1>5. j * d + k \in 0 .. divider1 - 1
  BY <1>3, <1>4
<1>6. i * divider1 \in Nat /\ i * divider1 + (j * d + k) \in 0 .. (divider1 * d) - 1
      /\ (i * divider1 = 0 <=> i = 0)
  BY <1>1, <1>2, <1>3, <1>5
<1> QED BY SMTT(30), <1>1, <1>3, <1>4, <1>5, <1>6 DEF d

\* The direct pointers.
LEMMA Area0 ==
  ASSUME NEW n \in Indices, n < bound0
  PROVE  Area(n) = 0 /\ Need(n) = 0
<1>1. n \in Nat /\ n < bound1 /\ n < bound2 /\ n < bound3
  BY SMTT(30), Bounds DEF Indices
<1>2. (n - bound1) % divider0 # 0 /\ (n - bound2) % divider0 # 0
  <2> DEFINE d == DIVIDER
             one == -2
             two == -2 - d
             k == n - bound0 + d
  <2>1. d \in Nat \ {0} /\ bound0 < d /\ d = divider0
    BY Bounds DEF d
  <2>2. /\ n - bound1 = one * d + k /\ n - bound2 = two * d + k
        /\ one \in Int /\ two \in Int /\ k \in 0 .. d - 1 /\ k # 0
    BY SMTT(30), <1>1, Bounds DEF d
  <2> HIDE DEF d, k, one, two
  <2>3. (one * d + k) % d = k /\ (two * d + k) % d = k
    BY <2>1, <2>2, DivUnique, Zenon
  <2>4. (n - bound1) % d = k /\ (n - bound2) % d = k
    BY <2>2, <2>3
  <2> QED BY <2>1, <2>2, <2>4
<1>3. (n - bound2) % divider1 # 0
  BY SMTT(30), <1>1, <1>2, Bounds, Multiple
<1> QED BY SMTT(30), <1>1, <1>2, <1>3, Bounds DEF Area, Need, calNeededPointerBlocks

\* The singly indirect pointers.
LEMMA Area1 ==
  ASSUME NEW n \in Indices, bound0 <= n, n < bound1
  PROVE  /\ Area(n) = 1 /\ Need(n) = IF n = bound0 THEN 1 ELSE 0
         /\ Slot(0, n) \in Slots /\ n = bound0 + Slot(0, n)
         /\ Start(1, n) = bound0
<1>1. n \in Nat /\ n < bound2 /\ n < bound3
  BY SMTT(30), Bounds DEF Indices
<1>2. n # bound0 => (n - bound1) % divider0 # 0 /\ (n - bound2) % divider0 # 0
  <2> DEFINE d == DIVIDER
             one == -1
             two == -1 - d
             k == n - bound0
  <2>1. d \in Nat \ {0} /\ bound0 < d /\ d = divider0
    BY Bounds DEF d
  <2>2. /\ n - bound1 = one * d + k /\ n - bound2 = two * d + k
        /\ one \in Int /\ two \in Int /\ k \in 0 .. d - 1 /\ (n # bound0 => k # 0)
    BY SMTT(30), <1>1, Bounds DEF d
  <2> HIDE DEF d, k, one, two
  <2>3. (one * d + k) % d = k /\ (two * d + k) % d = k
    BY <2>1, <2>2, DivUnique, Zenon
  <2>4. (n - bound1) % d = k /\ (n - bound2) % d = k
    BY <2>2, <2>3
  <2> QED BY <2>1, <2>2, <2>4
<1>3. n # bound0 => (n - bound2) % divider1 # 0
  BY SMTT(30), <1>1, <1>2, Bounds, Multiple
<1>4. Area(n) = 1 /\ Slot(0, n) = n - bound0 /\ Start(1, n) = bound0
  BY SMTT(30), <1>1, Bounds DEF Area, Slot, Start
<1>5. Need(n) = IF n = bound0 THEN 1 ELSE 0
  BY SMTT(30), <1>1, <1>2, <1>3, Bounds DEF Need, calNeededPointerBlocks
<1> QED BY SMTT(30), <1>1, <1>4, <1>5, Bounds DEF Slots

\* A number below e * d has a quotient below e.
LEMMA DivBelow ==
  ASSUME NEW d \in Nat \ {0}, NEW e \in Nat \ {0}, NEW a \in 0 .. (e * d) - 1
  PROVE  a \div d \in 0 .. e - 1 /\ a % d \in 0 .. d - 1 /\ a = (a \div d) * d + (a % d)
<1>1. e * d \in Nat
  BY SMTT(30)
<1>2. /\ a \div d \in Int /\ a % d \in 0 .. d - 1 /\ a = (a \div d) * d + (a % d)
  BY SMTT(30), <1>1, DivMod
<1> DEFINE q == a \div d
<1> HIDE DEF q
<1>3. q \in Int /\ q * d \in Int /\ q * d > -d /\ q * d < e * d
  BY SMTT(30), <1>1, <1>2 DEF q
<1>4. q > -1
  <2>1. q <= -1 => q * d <= (-1) * d
    BY SMTT(30), <1>3
  <2> QED BY SMTT(30), <1>3, <2>1
<1>5. q < e
  <2>1. q >= e => q * d >= e * d
    BY SMTT(30), <1>3
  <2> QED BY SMTT(30), <1>1, <1>3, <2>1
<1> QED BY SMTT(30), <1>2, <1>3, <1>4, <1>5 DEF q

\* The doubly indirect pointers.
LEMMA Area2 ==
  ASSUME NEW n \in Indices, bound1 <= n, n < bound2
  PROVE  /\ Area(n) = 2 /\ Slot(0, n) \in Slots /\ Slot(1, n) \in Slots
         /\ n = bound1 + Slot(1, n) * DIVIDER + Slot(0, n)
         /\ Need(n) = IF Slot(0, n) # 0 THEN 0 ELSE IF Slot(1, n) # 0 THEN 1 ELSE 2
         /\ n = bound1 <=> Slot(1, n) = 0 /\ Slot(0, n) = 0
         /\ (n - bound1) % divider0 = Slot(0, n)
<1> DEFINE m == n - bound1
           j == m \div DIVIDER
           k == m % DIVIDER
<1>1. n \in Nat /\ n >= bound0 /\ n < bound3 /\ DIVIDER \in Nat \ {0} /\ DIVIDER = divider0
  BY SMTT(30), Bounds DEF Indices
<1>2. m \in 0 .. (DIVIDER * DIVIDER) - 1
  BY SMTT(30), <1>1, Bounds
<1>3. Slot(0, n) = k /\ Slot(1, n) = j /\ Area(n) = 2
  BY SMTT(30), <1>1, Bounds DEF Area, Slot
<1> HIDE DEF m
<1>4. j \in Slots /\ k \in Slots /\ m = j * DIVIDER + k
  BY <1>1, <1>2, DivBelow, ZenonT(60) DEF Slots
<1> HIDE DEF j, k
<1>5. j * DIVIDER \in Nat /\ (j * DIVIDER = 0 <=> j = 0)
  BY <1>4, Products
<1>6. n = bound1 + j * DIVIDER + k /\ (n = bound1 <=> j = 0 /\ k = 0)
  BY SMTT(30), <1>1, <1>4, <1>5, Bounds DEF m, Slots
<1>7. (n - bound2) % divider0 = k
  <2> DEFINE q == j - DIVIDER
  <2>1. n - bound2 = q * DIVIDER + k /\ q \in Int /\ k \in 0 .. DIVIDER - 1
    BY SMTT(30), <1>1, <1>4, <1>5, <1>6, Bounds DEF Slots
  <2> HIDE DEF q
  <2>2. (q * DIVIDER + k) % DIVIDER = k
    BY <1>1, <2>1, DivUnique, Zenon
  <2> QED BY <1>1, <2>1, <2>2
<1>8. k # 0 => (n - bound2) % divider1 # 0
  BY SMTT(30), <1>1, <1>7, Bounds, Multiple
<1>9. (n - bound1) % divider0 = k
  BY <1>1 DEF m, k
<1>10. n # bound0 /\ n < bound2 /\ n # bound2 /\ n < bound3 /\ ~ (n >= bound3)
  BY SMTT(30), <1>1, Bounds
<1>11. Need(n) = IF k # 0 THEN 0 ELSE IF j # 0 THEN 1 ELSE 2
  <2>1. n = bound1 <=> j = 0 /\ k = 0
    BY <1>6
  <2> QED BY <1>7, <1>8, <1>9, <1>10, <2>1 DEF Need, calNeededPointerBlocks
<1> QED BY <1>3, <1>4, <1>6, <1>9, <1>11

\* Each pair of slots is a place among them.
LEMMA Make2 ==
  ASSUME NEW j \in Slots, NEW k \in Slots, NEW n, n = bound1 + j * DIVIDER + k
  PROVE  /\ n \in Indices /\ bound1 <= n /\ n < bound2
         /\ Slot(1, n) = j /\ Slot(0, n) = k
<1>1. j * DIVIDER \in Nat /\ j * DIVIDER + k \in 0 .. divider1 - 1 /\ k \in Nat
  BY SMTT(30), Products, Bounds DEF Slots
<1>2. /\ n \in Indices /\ bound1 <= n /\ n < bound2 /\ n - bound1 = j * DIVIDER + k
      /\ ~ (n < bound1) /\ DIVIDER \in Nat \ {0} /\ DIVIDER = divider0
  BY SMTT(30), <1>1, Bounds DEF Indices
<1>3. (j * DIVIDER + k) \div DIVIDER = j /\ (j * DIVIDER + k) % DIVIDER = k
  <2>1. j \in Int /\ k \in 0 .. DIVIDER - 1
    BY SMTT(30), Bounds DEF Slots
  <2> QED BY <1>2, <2>1, DivUnique, Zenon
<1> QED BY SMTT(30), <1>2, <1>3 DEF Slot

\* The triply indirect pointers.
LEMMA Area3 ==
  ASSUME NEW n \in Indices, bound2 <= n
  PROVE  /\ Area(n) = 3 /\ Slot(0, n) \in Slots /\ Slot(1, n) \in Slots /\ Slot(2, n) \in Slots
         /\ n = bound2 + Slot(2, n) * divider1 + Slot(1, n) * DIVIDER + Slot(0, n)
         /\ Need(n) = IF Slot(0, n) # 0 THEN 0 ELSE IF Slot(1, n) # 0 THEN 1
                      ELSE IF Slot(2, n) # 0 THEN 2 ELSE 3
         /\ n = bound2 <=> Slot(2, n) = 0 /\ Slot(1, n) = 0 /\ Slot(0, n) = 0
         /\ (n - bound2) % divider1 = 0 <=> Slot(1, n) = 0 /\ Slot(0, n) = 0
         /\ (n - bound2) % divider0 = Slot(0, n)
<1> DEFINE r == n - bound2
           i == r \div divider1
           x == r % divider1
           j == x \div DIVIDER
           k == x % DIVIDER
<1>1. /\ n \in Nat /\ ~ (n < bound0) /\ ~ (n < bound1) /\ ~ (n < bound2) /\ n < bound3
      /\ n # bound0 /\ n # bound1 /\ ~ (n >= bound3)
      /\ DIVIDER \in Nat \ {0} /\ DIVIDER = divider0 /\ divider1 \in Nat \ {0}
  BY SMTT(30), Bounds DEF Indices
<1>2. r \in 0 .. (DIVIDER * divider1) - 1
  <2>1. DIVIDER * divider1 = divider2
    BY SMTT(30), Bounds
  <2> QED BY SMTT(30), <1>1, <2>1, Bounds
<1>3. Slot(0, n) = k /\ Slot(1, n) = j /\ Slot(2, n) = i /\ Area(n) = 3
  BY SMTT(30), <1>1 DEF Area, Slot
<1> HIDE DEF r
<1>4. i \in Slots /\ x \in 0 .. divider1 - 1 /\ r = i * divider1 + x
  BY <1>1, <1>2, DivBelow, ZenonT(60) DEF Slots
<1> HIDE DEF i, x
<1>5. j \in Slots /\ k \in Slots /\ x = j * DIVIDER + k
  <2>1. x \in 0 .. (DIVIDER * DIVIDER) - 1
    BY <1>4, Bounds
  <2> QED BY <1>1, <2>1, DivBelow, ZenonT(60) DEF Slots
<1> HIDE DEF j, k
<1>6. /\ j * DIVIDER \in Nat /\ (j * DIVIDER = 0 <=> j = 0)
      /\ i * divider1 \in Nat /\ (i * divider1 = 0 <=> i = 0)
  BY <1>4, <1>5, Products
<1>7. /\ n = bound2 + i * divider1 + j * DIVIDER + k
      /\ n = bound2 <=> i = 0 /\ j = 0 /\ k = 0
      /\ x = 0 <=> j = 0 /\ k = 0
  BY SMTT(30), <1>1, <1>4, <1>5, <1>6, Bounds DEF r, Slots
<1>8. (n - bound2) % divider0 = k
  <2> DEFINE q == i * DIVIDER + j
  <2>1. r = q * DIVIDER + k /\ q \in Int /\ k \in 0 .. DIVIDER - 1
    <3>1. i \in Int /\ j \in Int /\ k \in 0 .. DIVIDER - 1
      BY SMTT(30), <1>1, <1>4, <1>5 DEF Slots
    <3>2. i * divider1 = (i * DIVIDER) * DIVIDER
      BY SMTT(30), <3>1, Bounds
    <3>3. i * DIVIDER \in Int
      BY SMTT(30), <3>1, Bounds
    <3>4. (i * DIVIDER + j) * DIVIDER = (i * DIVIDER) * DIVIDER + j * DIVIDER
      BY SMTT(30), <3>1, <3>3, <1>1
    <3> QED BY SMTT(30), <1>4, <1>5, <1>6, <3>1, <3>2, <3>3, <3>4
  <2> HIDE DEF q
  <2>2. (q * DIVIDER + k) % DIVIDER = k
    BY <1>1, <2>1, DivUnique, Zenon
  <2> QED BY <1>1, <2>1, <2>2 DEF r
<1>9. (n - bound2) % divider1 = 0 <=> j = 0 /\ k = 0
  BY <1>7 DEF x, r
<1>10. Need(n) = IF k # 0 THEN 0 ELSE IF j # 0 THEN 1 ELSE IF i # 0 THEN 2 ELSE 3
  <2>1. n = bound2 <=> i = 0 /\ j = 0 /\ k = 0
    BY <1>7
  <2> QED BY <1>1, <1>8, <1>9, <2>1 DEF Need, calNeededPointerBlocks
<1> QED BY <1>3, <1>4, <1>5, <1>7, <1>8, <1>9, <1>10

\* Each triple of slots is a place among them.
LEMMA Make3 ==
  ASSUME NEW i \in Slots, NEW j \in Slots, NEW k \in Slots,
         NEW n, n = bound2 + i * divider1 + j * DIVIDER + k
  PROVE  /\ n \in Indices /\ bound2 <= n
         /\ Slot(2, n) = i /\ Slot(1, n) = j /\ Slot(0, n) = k
<1> DEFINE x == j * DIVIDER + k
<1>1. /\ i * divider1 \in Nat /\ j * DIVIDER \in Nat /\ x \in 0 .. divider1 - 1
      /\ i * divider1 + j * DIVIDER + k \in 0 .. divider2 - 1
      /\ i \in Int /\ j \in Int /\ k \in 0 .. DIVIDER - 1
  BY SMTT(30), Products, Bounds DEF Slots
<1>2. /\ n \in Indices /\ bound2 <= n /\ n - bound2 = i * divider1 + x
      /\ ~ (n < bound2) /\ ~ (n < bound1)
      /\ DIVIDER \in Nat \ {0} /\ DIVIDER = divider0 /\ divider1 \in Nat \ {0}
  BY SMTT(30), <1>1, Bounds DEF Indices
<1>3. x \div DIVIDER = j /\ x % DIVIDER = k
  BY <1>1, <1>2, DivUnique, Zenon
<1> HIDE DEF x
<1>4. (i * divider1 + x) \div divider1 = i /\ (i * divider1 + x) % divider1 = x
  BY <1>1, <1>2, DivUnique, Zenon
<1> QED BY SMTT(30), <1>2, <1>3, <1>4 DEF Slot

\* The area of a block number says between which bounds it is.
LEMMA Areas ==
  ASSUME NEW n \in Indices
  PROVE  /\ Area(n) \in 0 .. 3 /\ n \in Int
         /\ Area(n) = 0 <=> n < bound0
         /\ Area(n) = 1 <=> bound0 <= n /\ n < bound1
         /\ Area(n) = 2 <=> bound1 <= n /\ n < bound2
         /\ Area(n) = 3 <=> bound2 <= n
<1>1. n \in Int
  BY SMTT(30), Bounds DEF Indices
<1> QED BY SMTT(30), <1>1, Bounds DEF Area

\* A block comes with at most the pointer blocks above it.
LEMMA Levels ==
  ASSUME NEW n \in Indices
  PROVE  /\ Area(n) \in 0 .. 3 /\ Need(n) \in 0 .. Area(n)
         /\ \A l \in 0 .. Area(n) - 1 : Slot(l, n) \in Slots
<1>1. CASE Area(n) = 0
  <2>1. Need(n) = 0
    BY <1>1, Areas, Area0
  <2> QED BY SMTT(30), <1>1, <2>1
<1>2. CASE Area(n) = 1
  <2>1. Slot(0, n) \in Slots /\ Need(n) \in 0 .. 1
    BY SMTT(30), <1>2, Areas, Area1
  <2> QED BY SMTT(30), <1>2, <2>1
<1>3. CASE Area(n) = 2
  <2>1. Slot(0, n) \in Slots /\ Slot(1, n) \in Slots /\ Need(n) \in 0 .. 2
    BY SMTT(30), <1>3, Areas, Area2
  <2> QED BY SMTT(30), <1>3, <2>1
<1>4. CASE Area(n) = 3
  <2>1. Slot(0, n) \in Slots /\ Slot(1, n) \in Slots /\ Slot(2, n) \in Slots /\ Need(n) \in 0 .. 3
    BY SMTT(30), <1>4, Areas, Area3
  <2> QED BY SMTT(30), <1>4, <2>1
<1> QED BY SMTT(30), <1>1, <1>2, <1>3, <1>4, Areas

\* Where the range of a pointer block begins.
LEMMA Starts2 ==
  ASSUME NEW n \in Indices, Area(n) = 2
  PROVE  Start(1, n) = bound1 + Slot(1, n) * DIVIDER /\ Start(2, n) = bound1
<1>1. /\ Slot(0, n) \in Slots /\ Slot(1, n) \in Slots
      /\ n = bound1 + Slot(1, n) * DIVIDER + Slot(0, n)
  BY Areas, Area2
<1>2. Slot(1, n) * DIVIDER \in Nat /\ Slot(0, n) \in Int /\ divider0 = DIVIDER /\ bound1 \in Nat
  BY SMTT(30), <1>1, Products, Bounds DEF Slots
<1> QED BY SMTT(30), <1>1, <1>2 DEF Start

\* The same below the triply indirect pointer.
LEMMA Starts3 ==
  ASSUME NEW n \in Indices, Area(n) = 3
  PROVE  /\ Start(1, n) = bound2 + Slot(2, n) * divider1 + Slot(1, n) * DIVIDER
         /\ Start(2, n) = bound2 + Slot(2, n) * divider1 /\ Start(3, n) = bound2
<1>1. /\ Slot(0, n) \in Slots /\ Slot(1, n) \in Slots /\ Slot(2, n) \in Slots
      /\ n = bound2 + Slot(2, n) * divider1 + Slot(1, n) * DIVIDER + Slot(0, n)
  BY Areas, Area3
<1>2. /\ Slot(1, n) * DIVIDER \in Nat /\ Slot(2, n) * divider1 \in Nat
      /\ Slot(0, n) \in Int /\ divider0 = DIVIDER /\ bound2 \in Nat
  BY SMTT(30), <1>1, Products, Bounds DEF Slots
<1> QED BY SMTT(30), <1>1, <1>2 DEF Start

\* A place of the pointer tree: s is where the range of the block at level l
\* above n begins.
Begins(l, n, s) ==
  /\ s \in Indices /\ s <= n /\ Area(s) = Area(n) /\ l <= Need(s)
  /\ s = n <=> l <= Need(n)
  /\ \A k \in l .. Area(n) - 1 : Slot(k, s) = Slot(k, n)

\* Every pointer block above block n begins at a place of its own.
LEMMA Starts ==
  ASSUME NEW n \in Indices, NEW l \in 0 .. Area(n)
  PROVE  Begins(l, n, Start(l, n))
<1> DEFINE s == Start(l, n)
<1>0. Area(n) \in 0 .. 3 /\ Need(n) \in 0 .. Area(n) /\ n \in Int
  BY Levels, Areas
<1>1. CASE l = 0
  <2>1. s = n
    BY <1>1 DEF Start
  <2> QED BY SMTT(30), <1>0, <1>1, <2>1 DEF Begins
<1>2. CASE l = 1 /\ Area(n) = 1
  <2>1. n = bound0 + Slot(0, n) /\ s = bound0 /\ Need(n) = IF n = bound0 THEN 1 ELSE 0
    BY <1>2, Areas, Area1
  <2>2. bound0 \in Indices /\ bound0 <= n
    BY SMTT(30), <1>2, Areas, Bounds DEF Indices
  <2>3. Area(bound0) = 1 /\ Need(bound0) = 1
    BY SMTT(30), <2>2, Area1, Bounds
  <2> QED BY SMTT(30), <1>0, <1>2, <2>1, <2>2, <2>3 DEF Begins
<1>3. CASE Area(n) = 2 /\ l # 0
  <2> DEFINE j == Slot(1, n)
             k == Slot(0, n)
  <2>1. /\ j \in Slots /\ k \in Slots /\ n = bound1 + j * DIVIDER + k
        /\ Need(n) = IF k # 0 THEN 0 ELSE IF j # 0 THEN 1 ELSE 2
    BY <1>3, Areas, Area2
  <2>2. j * DIVIDER \in Nat /\ (j * DIVIDER = 0 <=> j = 0) /\ 0 \in Slots /\ k \in Nat /\ bound1 \in Nat
    BY SMTT(30), <2>1, Products, Bounds DEF Slots
  <2>3. Start(1, n) = bound1 + j * DIVIDER /\ Start(2, n) = bound1
    BY <1>3, Starts2
  <2> HIDE DEF j, k
  <2>4. CASE l = 1
    <3>1. s = bound1 + j * DIVIDER + 0
      BY SMTT(30), <2>2, <2>3, <2>4
    <3>2. s \in Indices /\ bound1 <= s /\ s < bound2 /\ Slot(1, s) = j /\ Slot(0, s) = 0
      BY SMTT(30), <2>1, <2>2, <3>1, Make2
    <3>3. Area(s) = 2 /\ 1 <= Need(s)
      BY SMTT(30), <3>2, Area2
    <3>4. s <= n /\ (s = n <=> k = 0)
      BY SMTT(30), <2>1, <2>2, <3>1
    <3>5. \A x \in l .. Area(n) - 1 : x = 1
      BY SMTT(30), <1>3, <2>4
    <3> QED BY SMTT(30), <1>3, <2>1, <2>4, <3>2, <3>3, <3>4, <3>5 DEF Begins, j
  <2>5. CASE l = 2
    <3>1. s = bound1 + 0 * DIVIDER + 0
      BY SMTT(30), <2>2, <2>3, <2>5, Bounds
    <3>2. s \in Indices /\ bound1 <= s /\ s < bound2 /\ Slot(1, s) = 0 /\ Slot(0, s) = 0
      BY <2>2, <3>1, Make2
    <3>3. Area(s) = 2 /\ Need(s) = 2
      BY <3>2, Area2
    <3>4. s <= n /\ (s = n <=> j = 0 /\ k = 0)
      BY SMTT(30), <2>1, <2>2, <2>3, <2>5
    <3>5. ~ \E x \in l .. Area(n) - 1 : TRUE
      BY SMTT(30), <1>3, <2>5
    <3> QED BY SMTT(30), <1>3, <2>1, <2>5, <3>2, <3>3, <3>4, <3>5 DEF Begins
  <2> QED BY SMTT(30), <1>3, <2>4, <2>5
<1>4. CASE Area(n) = 3 /\ l # 0
  <2> DEFINE i == Slot(2, n)
             j == Slot(1, n)
             k == Slot(0, n)
  <2>1. /\ i \in Slots /\ j \in Slots /\ k \in Slots /\ n = bound2 + i * divider1 + j * DIVIDER + k
        /\ Need(n) = IF k # 0 THEN 0 ELSE IF j # 0 THEN 1 ELSE IF i # 0 THEN 2 ELSE 3
    BY <1>4, Areas, Area3
  <2>2. /\ j * DIVIDER \in Nat /\ (j * DIVIDER = 0 <=> j = 0) /\ 0 \in Slots /\ k \in Nat /\ bound2 \in Nat
        /\ i * divider1 \in Nat /\ (i * divider1 = 0 <=> i = 0)
    BY SMTT(30), <2>1, Products, Bounds DEF Slots
  <2>3. Start(1, n) = bound2 + i * divider1 + j * DIVIDER /\ Start(2, n) = bound2 + i * divider1
        /\ Start(3, n) = bound2
    BY <1>4, Starts3
  <2> HIDE DEF i, j, k
  <2>4. CASE l = 1
    <3>1. s = bound2 + i * divider1 + j * DIVIDER + 0
      BY SMTT(30), <2>2, <2>3, <2>4
    <3>2. s \in Indices /\ bound2 <= s /\ Slot(2, s) = i /\ Slot(1, s) = j /\ Slot(0, s) = 0
      BY SMTT(30), <2>1, <2>2, <3>1, Make3
    <3>3. Area(s) = 3 /\ 1 <= Need(s)
      BY SMTT(30), <3>2, Area3
    <3>4. s <= n /\ (s = n <=> k = 0)
      BY SMTT(30), <2>1, <2>2, <3>1
    <3>5. \A x \in l .. Area(n) - 1 : x = 1 \/ x = 2
      BY SMTT(30), <1>4, <2>4
    <3> QED BY SMTT(30), <1>4, <2>1, <2>4, <3>2, <3>3, <3>4, <3>5 DEF Begins, i, j
  <2>5. CASE l = 2
    <3>1. s = bound2 + i * divider1 + 0 * DIVIDER + 0
      BY SMTT(30), <2>2, <2>3, <2>5, Bounds
    <3>2. s \in Indices /\ bound2 <= s /\ Slot(2, s) = i /\ Slot(1, s) = 0 /\ Slot(0, s) = 0
      BY SMTT(30), <2>1, <2>2, <3>1, Make3
    <3>3. Area(s) = 3 /\ 2 <= Need(s)
      BY SMTT(30), <3>2, Area3
    <3>4. s <= n /\ (s = n <=> j = 0 /\ k = 0)
      BY SMTT(30), <2>1, <2>2, <2>3, <2>5
    <3>5. \A x \in l .. Area(n) - 1 : x = 2
      BY SMTT(30), <1>4, <2>5
    <3> QED BY SMTT(30), <1>4, <2>1, <2>5, <3>2, <3>3, <3>4, <3>5 DEF Begins, i
  <2>6. CASE l = 3
    <3>1. s = bound2 + 0 * divider1 + 0 * DIVIDER + 0
      BY SMTT(30), <2>2, <2>3, <2>6, Bounds
    <3>2. s \in Indices /\ bound2 <= s /\ Slot(2, s) = 0 /\ Slot(1, s) = 0 /\ Slot(0, s) = 0
      BY SMTT(30), <2>2, <3>1, Make3
    <3>3. Area(s) = 3 /\ Need(s) = 3
      BY <3>2, Area3
    <3>4. s <= n /\ (s = n <=> i = 0 /\ j = 0 /\ k = 0)
      BY SMTT(30), <2>1, <2>2, <2>3, <2>6
    <3>5. ~ \E x \in l .. Area(n) - 1 : TRUE
      BY SMTT(30), <1>4, <2>6
    <3> QED BY SMTT(30), <1>4, <2>1, <2>6, <3>2, <3>3, <3>4, <3>5 DEF Begins
  <2> QED BY SMTT(30), <1>4, <2>4, <2>5, <2>6
<1> QED BY SMTT(30), <1>0, <1>1, <1>2, <1>3, <1>4

\* What the levels above have in common, they have in common below.
LEMMA Climb ==
  ASSUME NEW n \in Indices, NEW m \in Indices, Area(n) = Area(m),
         NEW l \in 0 .. Area(n) - 1,
         Start(l + 1, n) = Start(l + 1, m), Slot(l, n) = Slot(l, m)
  PROVE  Start(l, n) = Start(l, m)
<1>0. Area(n) \in 0 .. 3
  BY Levels
<1>1. CASE Area(n) = 1
  <2>0. l = 0
    BY SMTT(30), <1>1
  <2>1. n = bound0 + Slot(0, n) /\ m = bound0 + Slot(0, m)
    BY <1>1, Areas, Area1, ZenonT(60)
  <2> QED BY <2>0, <2>1 DEF Start
<1>2. CASE Area(n) = 2
  <2>1. /\ n = bound1 + Slot(1, n) * DIVIDER + Slot(0, n) /\ Start(1, n) = bound1 + Slot(1, n) * DIVIDER
        /\ m = bound1 + Slot(1, m) * DIVIDER + Slot(0, m) /\ Start(1, m) = bound1 + Slot(1, m) * DIVIDER
    BY <1>2, Areas, Area2, Starts2, ZenonT(60)
  <2>2. Start(0, n) = n /\ Start(0, m) = m
    BY DEF Start
  <2>3. l = 0 \/ l = 1
    BY SMTT(30), <1>2
  <2> QED BY SMTT(30), <2>1, <2>2, <2>3
<1>3. CASE Area(n) = 3
  <2>1. /\ n = bound2 + Slot(2, n) * divider1 + Slot(1, n) * DIVIDER + Slot(0, n)
        /\ m = bound2 + Slot(2, m) * divider1 + Slot(1, m) * DIVIDER + Slot(0, m)
    BY <1>3, Areas, Area3, ZenonT(60)
  <2>2. /\ Start(1, n) = bound2 + Slot(2, n) * divider1 + Slot(1, n) * DIVIDER
        /\ Start(1, m) = bound2 + Slot(2, m) * divider1 + Slot(1, m) * DIVIDER
        /\ Start(2, n) = bound2 + Slot(2, n) * divider1 /\ Start(2, m) = bound2 + Slot(2, m) * divider1
    BY <1>3, Starts3, ZenonT(60)
  <2>3. Start(0, n) = n /\ Start(0, m) = m
    BY DEF Start
  <2>4. l = 0 \/ l = 1 \/ l = 2
    BY <1>3, Numbers
  <2> QED BY SMTT(30), <2>1, <2>2, <2>3, <2>4
<1> QED BY SMTT(30), <1>0, <1>1, <1>2, <1>3

\* The range of the root is the whole area.
LEMMA Tops ==
  ASSUME NEW n \in Indices, NEW m \in Indices, Area(n) = Area(m), Area(n) # 0
  PROVE  Start(Area(n), n) = Start(Area(n), m)
<1>1. CASE Area(n) = 1
  BY <1>1, Areas, Area1, ZenonT(60)
<1>2. CASE Area(n) = 2
  BY <1>2, Starts2, ZenonT(60)
<1>3. CASE Area(n) = 3
  BY <1>3, Starts3, ZenonT(60)
<1> QED BY <1>1, <1>2, <1>3, Levels, Numbers

-----------------------------------------------------------------------------
\* The blocks of the tree, followed from the inode down.

\* The pointer of the inode above block n.
Root(ind, n) ==
    IF n < bound0 THEN ind.pointer[n]
    ELSE IF n < bound1 THEN ind.singly
    ELSE IF n < bound2 THEN ind.doubly
    ELSE ind.triply

\* The block at level l above block n, block n itself at level 0.
Node(ind, dsk, l, n) ==
    LET a == Area(n)
        three == Root(ind, n)
        two == IF a = 2 THEN Root(ind, n) ELSE Follow(dsk, three, Slot(2, n))
        one == IF a = 1 THEN Root(ind, n) ELSE Follow(dsk, two, Slot(1, n))
        zero == IF a = 0 THEN Root(ind, n) ELSE Follow(dsk, one, Slot(0, n))
    IN  IF l = 0 THEN zero ELSE IF l = 1 THEN one ELSE IF l = 2 THEN two ELSE three

\* At the top there is the pointer of the inode.
LEMMA NodeTop ==
  ASSUME NEW ind, NEW dsk, NEW n \in Indices
  PROVE  Node(ind, dsk, Area(n), n) = Root(ind, n)
<1>1. Area(n) \in 0 .. 3
  BY Levels
<1> QED BY <1>1 DEF Node

\* One level down, the block above is followed.
LEMMA NodeStep ==
  ASSUME NEW ind, NEW dsk, NEW n \in Indices, NEW l \in 0 .. Area(n) - 1
  PROVE  Node(ind, dsk, l, n) = Follow(dsk, Node(ind, dsk, l + 1, n), Slot(l, n))
<1>1. Area(n) \in 0 .. 3
  BY Levels
<1>2. CASE l = 0
  BY SMTT(30), <1>1, <1>2 DEF Node
<1>3. CASE l = 1
  BY <1>1, <1>3, Numbers DEF Node
<1>4. CASE l = 2
  BY <1>1, <1>4, Numbers DEF Node
<1> QED BY SMTT(30), <1>1, <1>2, <1>3, <1>4

\* From a level down to another one.
LEMMA Down ==
  ASSUME NEW S, NEW l \in 0 .. 3, NEW h \in 0 .. 3, h \in S,
         \A x \in l .. h - 1 : x + 1 \in S => x \in S
  PROVE  \A x \in l .. h : x \in S
<1> SUFFICES ASSUME NEW x \in l .. h PROVE x \in S
  OBVIOUS
<1>1. \A y \in 0 .. 3 : l <= y /\ y < h /\ y + 1 \in S => y \in S
  BY SMTT(30)
<1>2. l <= 2 /\ 2 < h => 2 \in S
  BY SMTT(30), <1>1
<1>3. l <= 1 /\ 1 < h => 1 \in S
  BY SMTT(30), <1>1, <1>2
<1>4. l <= 0 /\ 0 < h => 0 \in S
  BY SMTT(30), <1>1, <1>3
<1> QED BY SMTT(30), <1>2, <1>3, <1>4

\* Two blocks with the same pointers above them.
LEMMA NodeShared ==
  ASSUME NEW ind, NEW dsk, NEW n \in Indices, NEW l \in 0 .. Area(n)
  PROVE  Node(ind, dsk, l, Start(l, n)) = Node(ind, dsk, l, n)
<1> DEFINE s == Start(l, n)
           a == Area(n)
           S == {x \in l .. a : Node(ind, dsk, x, s) = Node(ind, dsk, x, n)}
<1>1. /\ s \in Indices /\ Area(s) = a /\ (\A k \in l .. a - 1 : Slot(k, s) = Slot(k, n))
      /\ a \in 0 .. 3
  BY Starts, Levels DEF Begins
<1>2. Root(ind, s) = Root(ind, n)
  <2>1. CASE a = 0
    BY <2>1, Numbers DEF Start
  <2>2. CASE a # 0
    <3>1. ASSUME NEW x \in {n, s}
          PROVE  /\ a = 1 => Root(ind, x) = ind.singly
                 /\ a = 2 => Root(ind, x) = ind.doubly
                 /\ a = 3 => Root(ind, x) = ind.triply
      <4>1. x \in Indices /\ Area(x) = a
        BY <1>1
      <4> HIDE DEF a, s
      <4>2. /\ x \in Int /\ (a = 1 => bound0 <= x /\ x < bound1)
            /\ (a = 2 => bound1 <= x /\ x < bound2) /\ (a = 3 => bound2 <= x)
        BY <4>1, Areas
      <4> QED BY SMTT(30), <4>2, Bounds DEF Root
    <3> QED BY <1>1, <2>2, <3>1, Numbers
  <2> QED BY <2>1, <2>2
<1>3. a \in S
  BY SMTT(30), <1>1, <1>2, NodeTop
<1>4. ASSUME NEW x \in l .. a - 1, x + 1 \in S
      PROVE  x \in S
  <2>1. x \in 0 .. a - 1 /\ x \in l .. a
    BY SMTT(30), <1>1
  <2>2. Node(ind, dsk, x + 1, s) = Node(ind, dsk, x + 1, n) /\ Slot(x, s) = Slot(x, n)
    BY <1>1, <1>4
  <2>3. /\ Node(ind, dsk, x, s) = Follow(dsk, Node(ind, dsk, x + 1, s), Slot(x, s))
        /\ Node(ind, dsk, x, n) = Follow(dsk, Node(ind, dsk, x + 1, n), Slot(x, n))
    BY <1>1, <2>1, NodeStep
  <2> QED BY <2>1, <2>2, <2>3
<1> HIDE DEF S, s, a
<1>5. \A x \in l .. a : x \in S
  <2>1. l \in 0 .. 3 /\ a \in 0 .. 3 /\ \A x \in l .. a - 1 : x + 1 \in S => x \in S
    BY <1>1, <1>4, Numbers DEF a
  <2> QED BY <2>1, <1>3, Down
<1>6. l \in S
  BY SMTT(30), <1>1, <1>5 DEF a
<1> QED BY <1>6 DEF S, s

\* A change of the inode and the disk that no pointer from the root down to
\* level l above block n is part of, and that the blocks there stay the same.
Alike(ind, dsk, ind2, dsk2, l, n) ==
  /\ Root(ind2, n) = Root(ind, n)
  /\ \A k \in l .. Area(n) - 1 :
        Follow(dsk2, Node(ind, dsk, k + 1, n), Slot(k, n))
           = Follow(dsk, Node(ind, dsk, k + 1, n), Slot(k, n))

\* The blocks from level l on above block n are the same ones.
SameNodes(ind, dsk, ind2, dsk2, l, n) ==
  \A k \in l .. Area(n) : Node(ind2, dsk2, k, n) = Node(ind, dsk, k, n)

\* Such a change leaves the blocks there where they are.
LEMMA NodeSame ==
  ASSUME NEW ind, NEW dsk, NEW ind2, NEW dsk2, NEW n \in Indices, NEW l \in 0 .. Area(n),
         Alike(ind, dsk, ind2, dsk2, l, n)
  PROVE  SameNodes(ind, dsk, ind2, dsk2, l, n)
<1> DEFINE a == Area(n)
           S == {x \in l .. a : Node(ind2, dsk2, x, n) = Node(ind, dsk, x, n)}
<1>1. a \in 0 .. 3
  BY Levels
<1>3. a \in S
  BY SMTT(30), <1>1, NodeTop DEF Alike
<1>4. ASSUME NEW x \in l .. a - 1, x + 1 \in S
      PROVE  x \in S
  <2>1. x \in 0 .. a - 1 /\ x \in l .. a
    BY SMTT(30), <1>1
  <2>2. Node(ind2, dsk2, x + 1, n) = Node(ind, dsk, x + 1, n)
    BY <1>4
  <2>3. /\ Node(ind2, dsk2, x, n) = Follow(dsk2, Node(ind2, dsk2, x + 1, n), Slot(x, n))
        /\ Node(ind, dsk, x, n) = Follow(dsk, Node(ind, dsk, x + 1, n), Slot(x, n))
    BY <2>1, NodeStep
  <2>4. /\ Follow(dsk2, Node(ind, dsk, x + 1, n), Slot(x, n))
             = Follow(dsk, Node(ind, dsk, x + 1, n), Slot(x, n))
    BY DEF Alike
  <2> QED BY <2>1, <2>2, <2>3, <2>4
<1> HIDE DEF S, a
<1>5. \A x \in l .. a : x \in S
  <2>1. l \in 0 .. 3 /\ a \in 0 .. 3 /\ \A x \in l .. a - 1 : x + 1 \in S => x \in S
    BY <1>1, <1>4, Numbers DEF a
  <2> QED BY <2>1, <1>3, Down
<1> QED BY <1>5 DEF S, a, SameNodes

\* Block n is in the first slots of the pointer blocks it came with.
LEMMA ZeroSlots ==
  ASSUME NEW n \in Indices, NEW l \in 0 .. Need(n) - 1
  PROVE  Slot(l, n) = 0
<1>0. Area(n) \in 0 .. 3 /\ Need(n) \in 0 .. Area(n)
  BY Levels
<1>1. CASE Area(n) = 1
  <2>1. n = bound0 + Slot(0, n) /\ Slot(0, n) \in Int /\ bound0 \in Int
        /\ Need(n) = IF n = bound0 THEN 1 ELSE 0
    BY SMTT(30), <1>1, Areas, Area1, Bounds DEF Slots
  <2> QED BY SMTT(30), <1>0, <1>1, <2>1
<1>2. CASE Area(n) = 2
  <2>1. Need(n) = IF Slot(0, n) # 0 THEN 0 ELSE IF Slot(1, n) # 0 THEN 1 ELSE 2
    BY <1>2, Areas, Area2
  <2> QED BY SMTT(30), <1>0, <1>2, <2>1
<1>3. CASE Area(n) = 3
  <2>1. Need(n) = IF Slot(0, n) # 0 THEN 0 ELSE IF Slot(1, n) # 0 THEN 1
                      ELSE IF Slot(2, n) # 0 THEN 2 ELSE 3
    BY <1>3, Areas, Area3
  <2> QED BY SMTT(30), <1>0, <1>3, <2>1
<1> QED BY SMTT(30), <1>0, <1>1, <1>2, <1>3

-----------------------------------------------------------------------------
\* The invariant of the tree, and what writeBlock and freeLastBlock do to it.

\* Every place has a block that is marked in the bitmap.
Marked(ind, dsk, bits) ==
    \A f \in Files : \A n \in 0 .. ind[f].blockCount - 1 : \A l \in 0 .. Need(n) :
        Node(ind[f], dsk, l, n) \in bits

\* No two places share a block.
Distinct(ind, dsk) ==
    \A f, g \in Files :
    \A n \in 0 .. ind[f].blockCount - 1, m \in 0 .. ind[g].blockCount - 1 :
    \A l \in 0 .. Need(n), k \in 0 .. Need(m) :
        Node(ind[f], dsk, l, n) = Node(ind[g], dsk, k, m) => f = g /\ n = m /\ l = k

\* The blocks above level 0 hold pointers.
Pointing(ind, dsk) ==
    \A f \in Files : \A n \in 0 .. ind[f].blockCount - 1 : \A l \in 1 .. Need(n) :
        dsk[Node(ind[f], dsk, l, n)] \in Tables

\* Every marked block has a place.
Covered(ind, dsk, bits) ==
    \A b \in bits : \E f \in Files : \E n \in 0 .. ind[f].blockCount - 1 : \E l \in 0 .. Need(n) :
        b = Node(ind[f], dsk, l, n)

Tree(ind, dsk, bits) ==
    /\ Marked(ind, dsk, bits) /\ Distinct(ind, dsk)
    /\ Pointing(ind, dsk) /\ Covered(ind, dsk, bits)

\* What TypeOK says about the inodes and the disk.
Typed(ind, dsk, bits) ==
    /\ ind \in [Files -> Inodes] /\ DOMAIN dsk = Entries
    /\ \A b \in Entries : dsk[b] \in Values \/ dsk[b] \in Tables
    /\ bits \subseteq Entries

\* The blocks of a file are numbered within its bounds.
LEMMA InIndices ==
  ASSUME NEW ind, NEW dsk, NEW bits, Typed(ind, dsk, bits), NEW f \in Files
  PROVE  /\ ind[f] \in Inodes /\ ind[f].blockCount \in 0 .. bound3
         /\ ind[f].blockCount \in Nat
         /\ \A n \in 0 .. ind[f].blockCount - 1 : n \in Indices /\ n < ind[f].blockCount
         /\ \A n \in Indices : n < ind[f].blockCount => n \in 0 .. ind[f].blockCount - 1
<1>1. ind[f] \in Inodes /\ ind[f].blockCount \in 0 .. bound3
  BY DEF Typed, Inodes
<1> QED BY SMTT(30), <1>1, Bounds DEF Indices

\* A block above a block of the file is a place of its own.
LEMMA Above ==
  ASSUME NEW ind, NEW dsk, NEW bits, Typed(ind, dsk, bits), NEW f \in Files,
         NEW c \in 0 .. ind[f].blockCount, NEW n \in Indices, NEW l \in 0 .. Area(n),
         n < c \/ (n = c /\ l > Need(n))
  PROVE  /\ Start(l, n) \in 0 .. c - 1 /\ l \in 0 .. Need(Start(l, n))
         /\ Start(l, n) \in 0 .. ind[f].blockCount - 1
         /\ Area(Start(l, n)) = Area(n)
         /\ Node(ind[f], dsk, l, Start(l, n)) = Node(ind[f], dsk, l, n)
<1>1. Begins(l, n, Start(l, n))
  BY Starts
<1>2. /\ ind[f].blockCount \in Nat /\ n \in Int
      /\ Area(n) \in 0 .. 3 /\ Need(n) \in 0 .. Area(n)
  BY InIndices, Areas, Levels
<1>3. /\ Start(l, n) \in Indices /\ Start(l, n) <= n /\ l <= Need(Start(l, n))
      /\ Area(Start(l, n)) = Area(n) /\ (l > Need(n) => Start(l, n) # n)
  BY SMTT(30), <1>1, <1>2 DEF Begins
<1>4. Need(Start(l, n)) \in 0 .. Area(n)
  BY <1>3, Levels
<1>5. Start(l, n) \in 0 .. c - 1
  BY SMTT(30), <1>2, <1>3, Bounds DEF Indices
<1>6. Node(ind[f], dsk, l, Start(l, n)) = Node(ind[f], dsk, l, n)
  BY NodeShared
<1> QED BY SMTT(30), <1>2, <1>3, <1>4, <1>5, <1>6

\* writeBlock: a data block is no pointer block.
LEMMA TreeWritten ==
  ASSUME NEW ind, NEW dsk, NEW bits, Typed(ind, dsk, bits), Tree(ind, dsk, bits),
         NEW f \in Files, NEW c \in 0 .. ind[f].blockCount - 1,
         NEW v, NEW dsk2, dsk2 = [dsk EXCEPT ![Node(ind[f], dsk, 0, c)] = v]
  PROVE  /\ Tree(ind, dsk2, bits)
         /\ \A g \in Files : \A n \in 0 .. ind[g].blockCount - 1 :
               SameNodes(ind[g], dsk, ind[g], dsk2, 0, n)
<1>0. ASSUME NEW g \in Files, NEW n \in 0 .. ind[g].blockCount - 1
      PROVE  SameNodes(ind[g], dsk, ind[g], dsk2, 0, n)
  <2> DEFINE b == Node(ind[f], dsk, 0, c)
  <2>1. c \in Indices /\ n \in Indices /\ n < ind[g].blockCount /\ ind[g].blockCount \in 0 .. ind[g].blockCount
    BY InIndices, Within
  <2>2. Need(c) \in 0 .. Area(c) /\ Area(c) \in 0 .. 3 /\ Area(n) \in 0 .. 3
    BY <2>1, Levels
  <2>3. ASSUME NEW k \in 0 .. Area(n) - 1
        PROVE  Follow(dsk2, Node(ind[g], dsk, k + 1, n), Slot(k, n))
                 = Follow(dsk, Node(ind[g], dsk, k + 1, n), Slot(k, n))
    <3> DEFINE x == Node(ind[g], dsk, k + 1, n)
               s == Start(k + 1, n)
    <3>1. /\ s \in 0 .. ind[g].blockCount - 1 /\ k + 1 \in 0 .. Need(s)
          /\ Node(ind[g], dsk, k + 1, s) = x
      <4>1. k + 1 \in 0 .. Area(n)
        BY SMTT(30), <2>2
      <4> QED BY <2>1, <4>1, Above
    <3> HIDE DEF x, s
    <3>2. x # b
      <4>1. 0 \in 0 .. Need(c) /\ k + 1 # 0
        BY SMTT(30), <2>2
      <4>2. Distinct(ind, dsk)
        BY DEF Tree
      <4>3. Node(ind[g], dsk, k + 1, s) = Node(ind[f], dsk, 0, c) => k + 1 = 0
        BY SMTT(30), <3>1, <4>1, <4>2 DEF Distinct
      <4> QED BY <3>1, <4>1, <4>3
    <3>3. dsk2[x] = dsk[x] \/ x \notin Entries
      BY <3>2 DEF Typed
    <3> QED BY SMTT(30), <3>3 DEF Follow, IsTable, x
  <2>4. 0 \in 0 .. Area(n)
    BY <2>2, Numbers
  <2> HIDE DEF b
  <2>5. Alike(ind[g], dsk, ind[g], dsk2, 0, n)
    BY <2>3 DEF Alike
  <2> QED BY <2>1, <2>4, <2>5, NodeSame
<1>1. ASSUME NEW g \in Files, NEW n \in 0 .. ind[g].blockCount - 1, NEW l \in 0 .. Need(n)
      PROVE  Node(ind[g], dsk2, l, n) = Node(ind[g], dsk, l, n)
  <2>1. n \in Indices
    BY InIndices
  <2>2. l \in 0 .. Area(n)
    BY <2>1, Levels, Numbers
  <2> QED BY <2>2, <1>0 DEF SameNodes
<1>2. Marked(ind, dsk2, bits)
  BY <1>1 DEF Tree, Marked
<1>3. Distinct(ind, dsk2)
  BY SMTT(30), <1>1 DEF Tree, Distinct
<1>4. Pointing(ind, dsk2)
  <2> SUFFICES ASSUME NEW g \in Files, NEW n \in 0 .. ind[g].blockCount - 1, NEW l \in 1 .. Need(n)
               PROVE  dsk2[Node(ind[g], dsk2, l, n)] \in Tables
    BY DEF Pointing
  <2> DEFINE x == Node(ind[g], dsk, l, n)
             b == Node(ind[f], dsk, 0, c)
  <2>1. n \in Indices /\ c \in Indices
    BY InIndices
  <2>2. l \in 0 .. Need(n) /\ l # 0 /\ 0 \in 0 .. Need(c)
    BY <2>1, Levels, Numbers
  <2>3. x # b
    BY SMTT(30), <2>2 DEF Tree, Distinct
  <2>4. dsk[x] \in Tables /\ x \in bits
    BY <2>2 DEF Tree, Pointing, Marked
  <2>5. dsk2[x] = dsk[x]
    BY <2>3, <2>4 DEF Typed
  <2>6. Node(ind[g], dsk2, l, n) = x
    BY <1>1, <2>2
  <2> QED BY <2>4, <2>5, <2>6
<1>5. Covered(ind, dsk2, bits)
  <2> SUFFICES ASSUME NEW b \in bits
               PROVE  \E g \in Files : \E n \in 0 .. ind[g].blockCount - 1 :
                      \E l \in 0 .. Need(n) : b = Node(ind[g], dsk2, l, n)
    BY DEF Covered
  <2>1. PICK g \in Files : \E n \in 0 .. ind[g].blockCount - 1 :
                      \E l \in 0 .. Need(n) : b = Node(ind[g], dsk, l, n)
    BY DEF Tree, Covered
  <2>2. PICK n \in 0 .. ind[g].blockCount - 1 :
                      \E l \in 0 .. Need(n) : b = Node(ind[g], dsk, l, n)
    BY <2>1
  <2>3. PICK l \in 0 .. Need(n) : b = Node(ind[g], dsk, l, n)
    BY <2>2
  <2> QED BY <1>1, <2>3
<1> QED BY <1>0, <1>2, <1>3, <1>4, <1>5 DEF Tree

\* freeLastBlock: block number c of the file and the pointer blocks it came
\* with are gone.
Shrinks(ind, dsk, f, c, ind2, gone) ==
    /\ f \in Files /\ c \in Nat /\ ind[f].blockCount = c + 1
    /\ ind2 = [ind EXCEPT ![f].blockCount = c]
    /\ gone = {Node(ind[f], dsk, l, c) : l \in 0 .. Need(c)}

\* freeLastBlock: the last block and the pointer blocks that begin with it.
LEMMA TreeFreed ==
  ASSUME NEW ind, NEW dsk, NEW bits, Typed(ind, dsk, bits), Tree(ind, dsk, bits),
         NEW f, NEW c, NEW ind2, NEW gone, Shrinks(ind, dsk, f, c, ind2, gone)
  PROVE  Tree(ind2, dsk, bits \ gone)
<1>0. /\ f \in Files /\ c \in Nat /\ ind[f].blockCount = c + 1
      /\ ind2 = [ind EXCEPT ![f].blockCount = c]
      /\ gone = {Node(ind[f], dsk, l, c) : l \in 0 .. Need(c)}
  BY DEF Shrinks
<1> USE <1>0
<1>1. /\ ind2[f].blockCount = c /\ (\A g \in Files : g # f => ind2[g] = ind[g])
      /\ ind[f] \in Inodes /\ ind2 \in [Files -> Inodes]
      /\ ind2[f] = [ind[f] EXCEPT !.blockCount = c]
  <2>1. ind \in [Files -> Inodes] /\ ind[f] \in Inodes
    BY DEF Typed
  <2>2. ind2[f] = [ind[f] EXCEPT !.blockCount = c] /\ \A g \in Files : g # f => ind2[g] = ind[g]
    BY <2>1
  <2>3. c \in 0 .. bound3
    <3>1. ind[f].blockCount \in 0 .. bound3
      BY <2>1 DEF Inodes
    <3> QED BY SMTT(30), <3>1, Bounds
  <2>4. ind2[f] \in Inodes /\ ind2[f].blockCount = c
    BY <2>1, <2>2, <2>3 DEF Inodes
  <2>5. ind2 = [ind EXCEPT ![f] = ind2[f]]
    BY <2>1
  <2> QED BY <2>1, <2>2, <2>4, <2>5
<1>2. ASSUME NEW g \in Files, NEW n \in 0 .. ind2[g].blockCount - 1
      PROVE  n \in 0 .. ind[g].blockCount - 1 /\ ~ (g = f /\ n = c)
  <2>1. CASE g = f
    BY SMTT(30), <1>1, <2>1
  <2>2. CASE g # f
    BY <1>1, <2>2
  <2> QED BY <2>1, <2>2
<1>3. ASSUME NEW g \in Files, NEW n \in 0 .. ind[g].blockCount - 1, ~ (g = f /\ n = c)
      PROVE  n \in 0 .. ind2[g].blockCount - 1
  <2>1. CASE g = f
    BY SMTT(30), <1>1, <1>3, <2>1
  <2>2. CASE g # f
    BY <1>1, <2>2
  <2> QED BY <2>1, <2>2
<1>4. ASSUME NEW g \in Files, NEW l, NEW n
      PROVE  Node(ind2[g], dsk, l, n) = Node(ind[g], dsk, l, n)
  <2>1. ind2[g].pointer = ind[g].pointer /\ ind2[g].singly = ind[g].singly
        /\ ind2[g].doubly = ind[g].doubly /\ ind2[g].triply = ind[g].triply
    <3>1. CASE g = f
      BY <1>1, <3>1 DEF Inodes
    <3>2. CASE g # f
      BY <1>1, <3>2
    <3> QED BY <3>1, <3>2
  <2>2. Root(ind2[g], n) = Root(ind[g], n)
    BY SMTT(30), <2>1 DEF Root
  <2> QED BY SMTT(30), <2>2 DEF Node
<1>5. c \in 0 .. ind[f].blockCount - 1
  BY SMTT(30)
<1>6. Distinct(ind, dsk) /\ Marked(ind, dsk, bits) /\ Pointing(ind, dsk) /\ Covered(ind, dsk, bits)
  BY DEF Tree
<1>7. Marked(ind2, dsk, bits \ gone)
  <2> SUFFICES ASSUME NEW g \in Files, NEW n \in 0 .. ind2[g].blockCount - 1, NEW l \in 0 .. Need(n)
               PROVE  Node(ind2[g], dsk, l, n) \in bits \ gone
    BY DEF Marked
  <2>1. n \in 0 .. ind[g].blockCount - 1 /\ ~ (g = f /\ n = c)
    BY <1>2
  <2>2. Node(ind[g], dsk, l, n) \in bits
    BY <1>6, <2>1 DEF Marked
  <2>3. ASSUME NEW k \in 0 .. Need(c), Node(ind[g], dsk, l, n) = Node(ind[f], dsk, k, c)
        PROVE  FALSE
    BY SMTT(30), <1>5, <1>6, <2>1, <2>3 DEF Distinct
  <2> QED BY SMTT(30), <1>4, <2>2, <2>3
<1>8. Distinct(ind2, dsk)
  <2> SUFFICES ASSUME NEW x \in Files, NEW y \in Files,
                      NEW n \in 0 .. ind2[x].blockCount - 1, NEW m \in 0 .. ind2[y].blockCount - 1,
                      NEW l \in 0 .. Need(n), NEW k \in 0 .. Need(m),
                      Node(ind2[x], dsk, l, n) = Node(ind2[y], dsk, k, m)
               PROVE  x = y /\ n = m /\ l = k
    BY DEF Distinct
  <2>1. n \in 0 .. ind[x].blockCount - 1 /\ m \in 0 .. ind[y].blockCount - 1
    BY <1>2
  <2>2. Node(ind[x], dsk, l, n) = Node(ind[y], dsk, k, m)
    BY SMTT(30), <1>4
  <2> QED BY SMTT(30), <1>6, <2>1, <2>2 DEF Distinct
<1>9. Pointing(ind2, dsk)
  <2> SUFFICES ASSUME NEW g \in Files, NEW n \in 0 .. ind2[g].blockCount - 1, NEW l \in 1 .. Need(n)
               PROVE  dsk[Node(ind2[g], dsk, l, n)] \in Tables
    BY DEF Pointing
  <2>1. n \in 0 .. ind[g].blockCount - 1
    BY <1>2
  <2>2. Node(ind2[g], dsk, l, n) = Node(ind[g], dsk, l, n)
    BY <1>4
  <2> QED BY <1>6, <2>1, <2>2 DEF Pointing
<1>10. Covered(ind2, dsk, bits \ gone)
  <2> SUFFICES ASSUME NEW b \in bits, b \notin gone
               PROVE  \E g \in Files : \E n \in 0 .. ind2[g].blockCount - 1 :
                      \E l \in 0 .. Need(n) : b = Node(ind2[g], dsk, l, n)
    BY DEF Covered
  <2>1. PICK g \in Files : \E n \in 0 .. ind[g].blockCount - 1 :
                      \E l \in 0 .. Need(n) : b = Node(ind[g], dsk, l, n)
    BY <1>6 DEF Covered
  <2>2. PICK n \in 0 .. ind[g].blockCount - 1 :
                      \E l \in 0 .. Need(n) : b = Node(ind[g], dsk, l, n)
    BY <2>1
  <2>3. PICK l \in 0 .. Need(n) : b = Node(ind[g], dsk, l, n)
    BY <2>2
  <2>4. ~ (g = f /\ n = c)
    BY <2>3
  <2>5. n \in 0 .. ind2[g].blockCount - 1
    BY <1>3, <2>4
  <2> QED BY SMTT(30), <1>4, <2>3, <2>5
<1> QED BY <1>7, <1>8, <1>9, <1>10 DEF Tree

-----------------------------------------------------------------------------
\* What allocBlock does to the tree.

\* e[0], ..., e[h] are different blocks that are not in use.
Fresh(e, h, bits) ==
    /\ \A l \in 0 .. h : e[l] \in Entries \ bits
    /\ \A l, k \in 0 .. h : e[l] = e[k] => l = k

\* The pointer block that is there and gets a new slot when block c comes.
Parent(ind, dsk, c) == Node(ind, dsk, Need(c) + 1, c)

\* The inode changes only where block c is the first one below a pointer.
NewRoots(ind, ind2, e, c) ==
    /\ ind2.blockCount = c + 1
    /\ \A n \in 0 .. c - 1 : Root(ind2, n) = Root(ind, n)
    /\ Need(c) = Area(c) => Root(ind2, c) = e[Need(c)]
    /\ Need(c) # Area(c) => Root(ind2, c) = Root(ind, c)

\* The new pointer blocks are chained, the topmost one is put in the slot of
\* its parent, and nothing else on the disk changes.
NewDisk(ind, dsk, dsk2, e, c) ==
    /\ \A l \in 1 .. Need(c) : dsk2[e[l]] = NewTable(e[l - 1])
    /\ Need(c) # Area(c) =>
          dsk2[Parent(ind, dsk, c)]
             = [dsk[Parent(ind, dsk, c)] EXCEPT ![Slot(Need(c), c)] = e[Need(c)]]
    /\ \A b \in Entries :
          (\A l \in 1 .. Need(c) : b # e[l]) /\ (Need(c) # Area(c) => b # Parent(ind, dsk, c))
             => dsk2[b] = dsk[b]

\* The file f gets block c at e[0] with the pointer blocks e[1], e[2], ...
Grows(ind, dsk, bits, f, c, e, i2, dsk2) ==
    /\ f \in Files /\ c \in Indices /\ c = ind[f].blockCount
    /\ Fresh(e, Need(c), bits) /\ i2 \in Inodes
    /\ NewRoots(ind[f], i2, e, c) /\ NewDisk(ind[f], dsk, dsk2, e, c)

\* The parent is a pointer block of the file that is there already.
LEMMA ParentIs ==
  ASSUME NEW ind, NEW dsk, NEW bits, Typed(ind, dsk, bits), Tree(ind, dsk, bits), NEW f \in Files,
         NEW c \in Indices, c = ind[f].blockCount, Need(c) # Area(c)
  PROVE  /\ Start(Need(c) + 1, c) \in 0 .. c - 1 /\ Area(Start(Need(c) + 1, c)) = Area(c)
         /\ Need(c) + 1 \in 0 .. Need(Start(Need(c) + 1, c))
         /\ Node(ind[f], dsk, Need(c) + 1, Start(Need(c) + 1, c)) = Parent(ind[f], dsk, c)
         /\ Parent(ind[f], dsk, c) \in bits
         /\ dsk[Parent(ind[f], dsk, c)] \in Tables
<1> DEFINE l == Need(c) + 1
           s == Start(l, c)
<1>1. /\ Area(c) \in 0 .. 3 /\ Need(c) \in 0 .. Area(c) /\ c \in Nat
      /\ l \in 0 .. Area(c) /\ l > Need(c) /\ c \in 0 .. ind[f].blockCount
  <2>1. Area(c) \in 0 .. 3 /\ Need(c) \in 0 .. Area(c)
    BY Levels
  <2>2. c \in Nat
    BY SMTT(30), Bounds DEF Indices
  <2> QED BY SMTT(30), <2>1, <2>2
<1>2. /\ s \in 0 .. c - 1 /\ l \in 0 .. Need(s) /\ Area(s) = Area(c)
      /\ Node(ind[f], dsk, l, s) = Node(ind[f], dsk, l, c)
  BY SMTT(30), <1>1, Above
<1>3. l \in 1 .. Need(s)
  <2>1. s \in Indices
    BY SMTT(30), <1>1, <1>2, Bounds DEF Indices
  <2>2. Need(s) \in Int
    BY SMTT(30), <1>1, <1>2, <2>1, Levels
  <2> QED BY SMTT(30), <1>1, <1>2, <2>2
<1> HIDE DEF s
<1>4. Node(ind[f], dsk, l, s) \in bits /\ dsk[Node(ind[f], dsk, l, s)] \in Tables
  BY <1>2, <1>3 DEF Tree, Marked, Pointing
<1> QED BY <1>2, <1>4 DEF Parent, s

\* A new pointer block leads to the block below it.
LEMMA NewTableIs ==
  ASSUME NEW x \in Entries
  PROVE  NewTable(x) \in Tables /\ NewTable(x)[0] = x
<1>1. DIVIDER \in Nat \ {0} /\ x \in Pointers /\ Unset \in Pointers
  BY Bounds DEF Pointers
<1> QED BY SMTT(30), <1>1 DEF NewTable, Tables

\* allocBlock: the blocks the file has stay where they are.
LEMMA Kept ==
  ASSUME NEW ind, NEW dsk, NEW bits, Typed(ind, dsk, bits), Tree(ind, dsk, bits),
         NEW f, NEW c, NEW e, NEW i2, NEW dsk2, Grows(ind, dsk, bits, f, c, e, i2, dsk2),
         NEW g \in Files, NEW j, (g = f => j = i2) /\ (g # f => j = ind[g]),
         NEW n \in 0 .. ind[g].blockCount - 1
  PROVE  SameNodes(ind[g], dsk, j, dsk2, 0, n)
<1> DEFINE h == Need(c)
           a == Area(c)
           P == Parent(ind[f], dsk, c)
<1>0. /\ f \in Files /\ c \in Indices /\ c = ind[f].blockCount
      /\ Fresh(e, Need(c), bits) /\ i2 \in Inodes
      /\ NewRoots(ind[f], i2, e, c) /\ NewDisk(ind[f], dsk, dsk2, e, c)
  BY DEF Grows
<1> USE <1>0
<1>1. /\ n \in Indices /\ n < ind[g].blockCount /\ ind[g].blockCount \in 0 .. ind[g].blockCount
      /\ a \in 0 .. 3 /\ h \in 0 .. a /\ Area(n) \in 0 .. 3 /\ n \in Int /\ c \in Int
  BY InIndices, Levels, Areas, Within
<1>2. ASSUME NEW k \in 0 .. Area(n) - 1
      PROVE  Follow(dsk2, Node(ind[g], dsk, k + 1, n), Slot(k, n))
               = Follow(dsk, Node(ind[g], dsk, k + 1, n), Slot(k, n))
  <2> DEFINE x == Node(ind[g], dsk, k + 1, n)
             s == Start(k + 1, n)
  <2>1. /\ s \in 0 .. ind[g].blockCount - 1 /\ k + 1 \in 0 .. Need(s) /\ Area(s) = Area(n)
        /\ Node(ind[g], dsk, k + 1, s) = x
    <3>1. k + 1 \in 0 .. Area(n)
      BY SMTT(30), <1>1
    <3> QED BY SMTT(30), <1>1, <3>1, Above
  <2> HIDE DEF x, s
  <2>2. x \in bits /\ x \in Entries
    BY <2>1 DEF Tree, Marked, Typed
  <2>3. \A l \in 1 .. h : x # e[l]
    <3>1. \A l \in 0 .. h : x # e[l]
      BY <2>2, Numbers DEF Fresh
    <3> QED BY <3>1, <1>1, Numbers
  <2>4. CASE h # a => x # P
    <3>1. dsk2[x] = dsk[x]
      BY <2>2, <2>3, <2>4 DEF NewDisk
    <3> QED BY <3>1 DEF Follow, IsTable, x
  <2>5. CASE h # a /\ x = P
    <3> DEFINE t == Start(h + 1, c)
    <3>1. /\ t \in 0 .. c - 1 /\ Area(t) = a /\ h + 1 \in 0 .. Need(t)
          /\ Node(ind[f], dsk, h + 1, t) = P /\ dsk[P] \in Tables
      BY SMTT(30), <2>5, ParentIs
    <3>2. g = f /\ s = t /\ k + 1 = h + 1
      <4>1. Distinct(ind, dsk)
        BY DEF Tree
      <4> HIDE DEF t, P
      <4>2. Node(ind[g], dsk, k + 1, s) = Node(ind[f], dsk, h + 1, t)
        BY <2>1, <2>5, <3>1
      <4> QED BY SMTT(30), <2>1, <3>1, <4>1, <4>2 DEF Distinct
    <3>3. k = h /\ Area(n) = a /\ h \in 0 .. Area(n) - 1 /\ h \in 0 .. Area(c) - 1
      BY SMTT(30), <1>1, <2>1, <2>5, <3>1, <3>2
    <3>4. Slot(h, n) # Slot(h, c)
      <4> SUFFICES ASSUME Slot(h, n) = Slot(h, c) PROVE FALSE
        OBVIOUS
      <4>1. Start(h + 1, n) = Start(h + 1, c)
        BY <3>2, <3>3 DEF s, t
      <4>2. Start(h, n) = Start(h, c)
        BY <1>1, <3>3, <4>1, Climb
      <4>3. Begins(h, n, Start(h, n)) /\ Begins(h, c, Start(h, c))
        BY <1>1, <3>3, Starts
      <4>4. Start(h, n) <= n /\ Start(h, c) = c
        BY SMTT(30), <1>1, <4>3 DEF Begins
      <4>5. n < c
        BY <1>1, <3>2
      <4> QED BY SMTT(30), <1>1, <4>2, <4>4, <4>5
    <3>5. Slot(h, n) \in Slots /\ Slot(h, c) \in Slots
      BY <1>1, <3>3, Levels
    <3>6. e[h] \in Entries
      BY <1>1, Numbers DEF Fresh
    <3>7. dsk2[P] = [dsk[P] EXCEPT ![Slot(h, c)] = e[h]]
      BY <2>5 DEF NewDisk
    <3> HIDE DEF P, t
    <3>8. dsk2[P] \in Tables /\ dsk2[P][Slot(h, n)] = dsk[P][Slot(h, n)]
      BY SMTT(30), <3>1, <3>4, <3>5, <3>6, <3>7 DEF Tables, Slots, Pointers
    <3>9. IsTable(dsk2, P) /\ IsTable(dsk, P)
      BY <2>2, <2>5, <3>1, <3>8, FileAssumption DEF IsTable
    <3>10. Follow(dsk2, P, Slot(h, n)) = Follow(dsk, P, Slot(h, n))
      BY <3>8, <3>9 DEF Follow
    <3> QED BY <2>5, <3>3, <3>10 DEF x
  <2> QED BY <2>4, <2>5
<1>3. Root(j, n) = Root(ind[g], n)
  <2>1. CASE g = f
    <3>1. n \in 0 .. c - 1
      BY <2>1
    <3> QED BY <2>1, <3>1 DEF NewRoots
  <2>2. CASE g # f
    BY <2>2
  <2> QED BY <2>1, <2>2
<1>4. 0 \in 0 .. Area(n)
  BY <1>1, Numbers
<1>5. Alike(ind[g], dsk, j, dsk2, 0, n)
  BY <1>2, <1>3 DEF Alike
<1> QED BY <1>1, <1>4, <1>5, NodeSame

\* And the new blocks are in place.
LEMMA Placed ==
  ASSUME NEW ind, NEW dsk, NEW bits, Typed(ind, dsk, bits), Tree(ind, dsk, bits),
         NEW f, NEW c, NEW e, NEW i2, NEW dsk2, Grows(ind, dsk, bits, f, c, e, i2, dsk2)
  PROVE  \A l \in 0 .. Need(c) : Node(i2, dsk2, l, c) = e[l]
<1> DEFINE h == Need(c)
           a == Area(c)
           P == Parent(ind[f], dsk, c)
           S == {l \in 0 .. h : Node(i2, dsk2, l, c) = e[l]}
<1>0. /\ f \in Files /\ c \in Indices /\ c = ind[f].blockCount
      /\ Fresh(e, Need(c), bits) /\ i2 \in Inodes
      /\ NewRoots(ind[f], i2, e, c) /\ NewDisk(ind[f], dsk, dsk2, e, c)
  BY DEF Grows
<1> USE <1>0
<1>1. a \in 0 .. 3 /\ h \in 0 .. a /\ c \in Nat /\ c \in 0 .. ind[f].blockCount
  BY SMTT(30), Levels, Bounds DEF Indices
<1>2. ASSUME h = a PROVE Node(i2, dsk2, h, c) = e[h]
  <2>1. Node(i2, dsk2, h, c) = Root(i2, c)
    BY <1>2, NodeTop
  <2>2. Root(i2, c) = e[h]
    BY <1>2 DEF NewRoots
  <2> QED BY <2>1, <2>2
<1>3. ASSUME h # a PROVE Node(i2, dsk2, h, c) = e[h]
  <2>1. ASSUME NEW k \in h + 1 .. a - 1
        PROVE  Follow(dsk2, Node(ind[f], dsk, k + 1, c), Slot(k, c))
                 = Follow(dsk, Node(ind[f], dsk, k + 1, c), Slot(k, c))
    <3> DEFINE x == Node(ind[f], dsk, k + 1, c)
               s == Start(k + 1, c)
               t == Start(h + 1, c)
    <3>1. k + 1 \in 0 .. Area(c) /\ k + 1 > Need(c) /\ k + 1 # h + 1
      BY SMTT(30), <1>1
    <3>2. /\ s \in 0 .. ind[f].blockCount - 1 /\ k + 1 \in 0 .. Need(s)
          /\ Node(ind[f], dsk, k + 1, s) = x
      BY SMTT(30), <1>1, <3>1, Above
    <3>3. /\ t \in 0 .. ind[f].blockCount - 1 /\ h + 1 \in 0 .. Need(t)
          /\ Node(ind[f], dsk, h + 1, t) = P
      BY <1>3, ParentIs
    <3> HIDE DEF x, s, t, P
    <3>4. x # P
      <4>1. Distinct(ind, dsk)
        BY DEF Tree
      <4>2. Node(ind[f], dsk, k + 1, s) = Node(ind[f], dsk, h + 1, t) => k + 1 = h + 1
        BY SMTT(30), <3>2, <3>3, <4>1 DEF Distinct
      <4> QED BY <3>1, <3>2, <3>3, <4>2
    <3>5. x \in bits /\ x \in Entries
      BY <3>2 DEF Tree, Marked, Typed
    <3>6. \A l \in 1 .. h : x # e[l]
      <4>1. \A l \in 0 .. h : x # e[l]
        BY <3>5, Numbers DEF Fresh
      <4> QED BY <4>1, <1>1, Numbers
    <3>7. dsk2[x] = dsk[x]
      BY <3>4, <3>5, <3>6 DEF NewDisk, P
    <3> QED BY <3>7 DEF Follow, IsTable, x
  <2>2. Root(i2, c) = Root(ind[f], c)
    BY <1>3 DEF NewRoots
  <2>3. h + 1 \in 0 .. Area(c) /\ h + 1 \in h + 1 .. Area(c) /\ h \in 0 .. Area(c) - 1
    BY SMTT(30), <1>1, <1>3
  <2>4. Alike(ind[f], dsk, i2, dsk2, h + 1, c)
    BY <2>1, <2>2 DEF Alike
  <2>5. SameNodes(ind[f], dsk, i2, dsk2, h + 1, c)
    BY <2>3, <2>4, NodeSame
  <2>6. Node(i2, dsk2, h + 1, c) = P
    BY <2>3, <2>5 DEF SameNodes, Parent
  <2>7. P \in Entries /\ dsk[P] \in Tables
    BY <1>3, ParentIs DEF Typed
  <2>8. dsk2[P] = [dsk[P] EXCEPT ![Slot(h, c)] = e[h]]
    BY <1>3 DEF NewDisk
  <2>9. Slot(h, c) \in Slots /\ e[h] \in Entries
    BY <1>1, <2>3, Levels, Numbers DEF Fresh
  <2> HIDE DEF P
  <2>10. dsk2[P] \in Tables /\ dsk2[P][Slot(h, c)] = e[h]
    BY <2>7, <2>8, <2>9 DEF Tables, Slots, Pointers
  <2>11. Follow(dsk2, P, Slot(h, c)) = e[h]
    BY <2>7, <2>10, FileAssumption DEF Follow, IsTable
  <2>12. Node(i2, dsk2, h, c) = Follow(dsk2, Node(i2, dsk2, h + 1, c), Slot(h, c))
    BY <2>3, NodeStep
  <2> QED BY <2>6, <2>11, <2>12
<1>4. h \in S
  BY <1>1, <1>2, <1>3, Numbers
<1>5. ASSUME NEW x \in 0 .. h - 1, x + 1 \in S
      PROVE  x \in S
  <2>1. x \in 0 .. h /\ x + 1 \in 1 .. h /\ x \in 0 .. Area(c) - 1 /\ (x + 1) - 1 = x /\ x + 1 \in 0 .. h
    BY SMTT(30), <1>1
  <2>2. Node(i2, dsk2, x, c) = Follow(dsk2, Node(i2, dsk2, x + 1, c), Slot(x, c))
    BY <2>1, NodeStep
  <2>3. Node(i2, dsk2, x + 1, c) = e[x + 1] /\ Slot(x, c) = 0
    BY <1>5, ZeroSlots
  <2>4. e[x + 1] \in Entries /\ e[x] \in Entries
    BY <2>1 DEF Fresh
  <2>5. dsk2[e[x + 1]] = NewTable(e[x])
    BY <2>1 DEF NewDisk
  <2>6. NewTable(e[x]) \in Tables /\ NewTable(e[x])[0] = e[x]
    BY <2>4, NewTableIs
  <2>7. Follow(dsk2, e[x + 1], 0) = e[x]
    BY <2>4, <2>5, <2>6, FileAssumption DEF Follow, IsTable
  <2> QED BY <2>1, <2>2, <2>3, <2>7
<1> HIDE DEF S
<1>6. \A l \in 0 .. h : l \in S
  <2>1. 0 \in 0 .. 3 /\ h \in 0 .. 3 /\ \A x \in 0 .. h - 1 : x + 1 \in S => x \in S
    BY <1>1, <1>5, Numbers
  <2> QED BY <1>4, <2>1, Down
<1> QED BY <1>6 DEF S

\* allocBlock keeps the tree.
LEMMA TreeGrown ==
  ASSUME NEW ind, NEW dsk, NEW bits, Typed(ind, dsk, bits), Tree(ind, dsk, bits),
         NEW f, NEW c, NEW e, NEW i2, NEW dsk2, Grows(ind, dsk, bits, f, c, e, i2, dsk2),
         NEW ind2, ind2 = [ind EXCEPT ![f] = i2],
         NEW bits2, bits2 = bits \cup {e[l] : l \in 0 .. Need(c)}
  PROVE  Tree(ind2, dsk2, bits2)
<1> DEFINE h == Need(c)
<1>0. /\ f \in Files /\ c \in Indices /\ c = ind[f].blockCount /\ Fresh(e, h, bits)
      /\ i2.blockCount = c + 1
  BY DEF Grows, NewRoots
<1>1. /\ ind2[f] = i2 /\ (\A g \in Files : g # f => ind2[g] = ind[g])
      /\ c \in Nat /\ Area(c) \in 0 .. 3 /\ h \in 0 .. Area(c)
  BY SMTT(30), <1>0, Levels, Bounds DEF Typed, Indices
<1>2. ASSUME NEW g \in Files, NEW n \in 0 .. ind2[g].blockCount - 1, ~ (g = f /\ n = c)
      PROVE  n \in 0 .. ind[g].blockCount - 1
  <2>1. CASE g = f
    BY SMTT(30), <1>0, <1>1, <1>2, <2>1
  <2>2. CASE g # f
    BY <1>1, <2>2
  <2> QED BY <2>1, <2>2
<1>3. /\ c \in 0 .. ind2[f].blockCount - 1
      /\ \A g \in Files : \A n \in 0 .. ind[g].blockCount - 1 : n \in 0 .. ind2[g].blockCount - 1
  <2>1. c \in 0 .. ind2[f].blockCount - 1 /\ \A n \in 0 .. c - 1 : n \in 0 .. ind2[f].blockCount - 1
    BY SMTT(30), <1>0, <1>1
  <2> QED BY <1>0, <1>1, <2>1
<1>4. ASSUME NEW g \in Files, NEW n \in 0 .. ind[g].blockCount - 1, NEW l \in 0 .. Need(n)
      PROVE  Node(ind2[g], dsk2, l, n) = Node(ind[g], dsk, l, n)
  <2>1. (g = f => ind2[g] = i2) /\ (g # f => ind2[g] = ind[g])
    BY <1>1
  <2>2. SameNodes(ind[g], dsk, ind2[g], dsk2, 0, n)
    BY <2>1, Kept
  <2>3. l \in 0 .. Area(n)
    BY InIndices, Levels, Numbers
  <2> QED BY <2>2, <2>3 DEF SameNodes
<1>5. \A l \in 0 .. h : Node(ind2[f], dsk2, l, c) = e[l] /\ e[l] \notin bits
  <2>1. \A l \in 0 .. h : Node(i2, dsk2, l, c) = e[l]
    BY SMTT(30), Placed
  <2> QED BY <1>0, <1>1, <2>1 DEF Fresh
<1>6. Marked(ind, dsk, bits) /\ Distinct(ind, dsk) /\ Pointing(ind, dsk) /\ Covered(ind, dsk, bits)
  BY DEF Tree
\* The block at a place is new or was there.
<1>7. ASSUME NEW g \in Files, NEW n \in 0 .. ind2[g].blockCount - 1, NEW l \in 0 .. Need(n)
      PROVE  \/ /\ g = f /\ n = c /\ l \in 0 .. h
                /\ Node(ind2[g], dsk2, l, n) = e[l] /\ e[l] \notin bits
             \/ /\ n \in 0 .. ind[g].blockCount - 1
                /\ Node(ind2[g], dsk2, l, n) = Node(ind[g], dsk, l, n)
                /\ Node(ind[g], dsk, l, n) \in bits
  <2>1. CASE g = f /\ n = c
    BY <1>5, <2>1
  <2>2. CASE ~ (g = f /\ n = c)
    <3>1. n \in 0 .. ind[g].blockCount - 1
      BY <1>2, <2>2
    <3> QED BY <1>4, <1>6, <3>1 DEF Marked
  <2> QED BY <2>1, <2>2
<1>8. Marked(ind2, dsk2, bits2)
  BY SMTT(30), <1>7 DEF Marked
<1>9. Distinct(ind2, dsk2)
  <2> SUFFICES ASSUME NEW x \in Files, NEW y \in Files,
                      NEW n \in 0 .. ind2[x].blockCount - 1, NEW m \in 0 .. ind2[y].blockCount - 1,
                      NEW l \in 0 .. Need(n), NEW k \in 0 .. Need(m),
                      Node(ind2[x], dsk2, l, n) = Node(ind2[y], dsk2, k, m)
               PROVE  x = y /\ n = m /\ l = k
    BY DEF Distinct
  <2>1. CASE x = f /\ n = c /\ l \in 0 .. h /\ Node(ind2[x], dsk2, l, n) = e[l] /\ e[l] \notin bits
    <3>1. y = f /\ m = c /\ k \in 0 .. h /\ Node(ind2[y], dsk2, k, m) = e[k]
      BY SMTT(30), <1>7, <2>1
    <3>2. l = k
      BY <1>0, <2>1, <3>1 DEF Fresh
    <3> QED BY <2>1, <3>1, <3>2
  <2>2. CASE /\ n \in 0 .. ind[x].blockCount - 1 /\ Node(ind2[x], dsk2, l, n) = Node(ind[x], dsk, l, n)
             /\ Node(ind[x], dsk, l, n) \in bits
    <3>1. m \in 0 .. ind[y].blockCount - 1 /\ Node(ind2[y], dsk2, k, m) = Node(ind[y], dsk, k, m)
      BY SMTT(30), <1>7, <2>2
    <3>2. Node(ind[x], dsk, l, n) = Node(ind[y], dsk, k, m)
      BY <2>2, <3>1
    <3> QED BY SMTT(30), <1>6, <2>2, <3>1, <3>2 DEF Distinct
  <2> QED BY <1>7, <2>1, <2>2
<1>10. Pointing(ind2, dsk2)
  <2> SUFFICES ASSUME NEW g \in Files, NEW n \in 0 .. ind2[g].blockCount - 1, NEW l \in 1 .. Need(n)
               PROVE  dsk2[Node(ind2[g], dsk2, l, n)] \in Tables
    BY DEF Pointing
  <2>0. l \in 0 .. Need(n)
    BY SMTT(30)
  <2>1. NewDisk(ind[f], dsk, dsk2, e, c)
    BY DEF Grows
  <2>2. CASE g = f /\ n = c
    <3>1. l \in 0 .. h /\ l - 1 \in 0 .. h /\ l \in 1 .. h
      BY <1>1, <2>2, Numbers
    <3>2. Node(ind2[g], dsk2, l, n) = e[l] /\ e[l - 1] \in Entries
      BY <1>0, <1>5, <2>2, <3>1 DEF Fresh
    <3>3. dsk2[e[l]] = NewTable(e[l - 1])
      BY <2>1, <3>1 DEF NewDisk
    <3> QED BY <3>2, <3>3, NewTableIs
  <2>3. CASE ~ (g = f /\ n = c)
    <3> DEFINE x == Node(ind[g], dsk, l, n)
               P == Parent(ind[f], dsk, c)
    <3>1. n \in 0 .. ind[g].blockCount - 1 /\ Node(ind2[g], dsk2, l, n) = x /\ x \in bits
      BY <1>2, <1>7, <2>0, <2>3
    <3>2. dsk[x] \in Tables /\ x \in Entries
      BY <1>6, <3>1 DEF Pointing, Typed
    <3>3. CASE h # Area(c) /\ x = P
      <4>1. dsk2[P] = [dsk[P] EXCEPT ![Slot(h, c)] = e[h]]
        BY <2>1, <3>3 DEF NewDisk
      <4>2. e[h] \in Entries
        BY <1>0, <1>1, Within DEF Fresh
      <4> HIDE DEF P, x
      <4>3. dsk2[P] \in Tables
        BY <3>2, <3>3, <4>1, <4>2 DEF Tables, Pointers
      <4> QED BY <3>1, <3>3, <4>3
    <3>4. CASE h # Area(c) => x # P
      <4>1. \A k \in 1 .. h : x # e[k]
        <5>1. \A k \in 1 .. h : k \in 0 .. h
          BY <1>1, Numbers
        <5> QED BY SMTT(30), <1>0, <3>1, <5>1 DEF Fresh
      <4>2. dsk2[x] = dsk[x]
        BY <2>1, <3>2, <3>4, <4>1 DEF NewDisk
      <4> QED BY <3>1, <3>2, <4>2
    <3> QED BY <3>3, <3>4
  <2> QED BY <2>2, <2>3
<1>11. Covered(ind2, dsk2, bits2)
  <2> SUFFICES ASSUME NEW b \in bits2
               PROVE  \E g \in Files : \E n \in 0 .. ind2[g].blockCount - 1 :
                      \E l \in 0 .. Need(n) : b = Node(ind2[g], dsk2, l, n)
    BY DEF Covered
  <2>1. CASE b \in bits
    <3>1. PICK g \in Files : \E n \in 0 .. ind[g].blockCount - 1 :
                      \E l \in 0 .. Need(n) : b = Node(ind[g], dsk, l, n)
      BY <1>6, <2>1 DEF Covered
    <3>2. PICK n \in 0 .. ind[g].blockCount - 1 :
                      \E l \in 0 .. Need(n) : b = Node(ind[g], dsk, l, n)
      BY <3>1
    <3>3. PICK l \in 0 .. Need(n) : b = Node(ind[g], dsk, l, n)
      BY <3>2
    <3> QED BY <1>3, <1>4, <3>3
  <2>2. CASE b \notin bits
    <3>1. PICK l \in 0 .. h : b = e[l]
      BY <2>2
    <3> QED BY <1>0, <1>3, <1>5, <3>1
  <2> QED BY <2>1, <2>2
<1> QED BY <1>8, <1>9, <1>10, <1>11 DEF Tree

-----------------------------------------------------------------------------
\* The operators of the code in terms of the tree.

\* How the code tells the block numbers apart: below the singly indirect
\* pointer, ...
LEMMA Guards1 ==
  ASSUME NEW n \in Indices, Area(n) = 1
  PROVE  /\ ~ (n < bound0) /\ n < bound1 /\ Need(n) \in {0, 1}
         /\ n = bound0 <=> Need(n) = 1
         /\ Slot(0, n) = n - bound0
<1>1. bound0 <= n /\ n < bound1 /\ n \in Int
  BY Areas
<1>2. Need(n) = (IF n = bound0 THEN 1 ELSE 0)
  BY <1>1, Area1
<1> QED BY SMTT(30), <1>1, <1>2, Bounds DEF Slot

\* ... below the doubly indirect one, ...
LEMMA Guards2 ==
  ASSUME NEW n \in Indices, Area(n) = 2
  PROVE  /\ ~ (n < bound0) /\ n # bound0 /\ ~ (n < bound1) /\ n < bound2 /\ Need(n) \in {0, 1, 2}
         /\ n = bound1 <=> Need(n) = 2
         /\ (n - bound1) % divider0 = 0 <=> Need(n) # 0
         /\ Slot(1, n) = (n - bound1) \div divider0 /\ Slot(0, n) = (n - bound1) % divider0
<1>1. bound1 <= n /\ n < bound2 /\ n \in Int
  BY Areas
<1>2. /\ Need(n) = (IF Slot(0, n) # 0 THEN 0 ELSE IF Slot(1, n) # 0 THEN 1 ELSE 2)
      /\ n = bound1 <=> Slot(1, n) = 0 /\ Slot(0, n) = 0
      /\ (n - bound1) % divider0 = Slot(0, n)
  BY <1>1, Area2
<1>3. ~ (n < bound0) /\ n # bound0 /\ ~ (n < bound1)
  BY SMTT(30), <1>1, Bounds
<1> QED BY <1>1, <1>2, <1>3, Numbers DEF Slot

\* ... and below the triply indirect one.
LEMMA Guards3 ==
  ASSUME NEW n \in Indices, Area(n) = 3
  PROVE  /\ ~ (n < bound0) /\ n # bound0 /\ ~ (n < bound1) /\ n # bound1 /\ ~ (n < bound2)
         /\ Need(n) \in {0, 1, 2, 3}
         /\ n = bound2 <=> Need(n) = 3
         /\ (n - bound2) % divider1 = 0 <=> Need(n) \in {2, 3}
         /\ (n - bound2) % divider0 = 0 <=> Need(n) # 0
         /\ Slot(2, n) = (n - bound2) \div divider1
         /\ Slot(1, n) = ((n - bound2) % divider1) \div divider0
         /\ Slot(0, n) = ((n - bound2) % divider1) % divider0
<1>1. bound2 <= n /\ n \in Int
  BY Areas
<1>2. /\ Need(n) = (IF Slot(0, n) # 0 THEN 0 ELSE IF Slot(1, n) # 0 THEN 1
                    ELSE IF Slot(2, n) # 0 THEN 2 ELSE 3)
      /\ n = bound2 <=> Slot(2, n) = 0 /\ Slot(1, n) = 0 /\ Slot(0, n) = 0
      /\ (n - bound2) % divider1 = 0 <=> Slot(1, n) = 0 /\ Slot(0, n) = 0
      /\ (n - bound2) % divider0 = Slot(0, n)
  BY <1>1, Area3
<1>3. ~ (n < bound0) /\ n # bound0 /\ ~ (n < bound1) /\ n # bound1 /\ ~ (n < bound2)
  BY SMTT(30), <1>1, Bounds
<1> QED BY <1>1, <1>2, <1>3, Numbers DEF Slot

\* readBlock and writeBlock reach the block at level 0.
LEMMA BlockIs ==
  ASSUME NEW ind, NEW dsk, NEW n \in Indices
  PROVE  BlockAt(ind, dsk, n) = Node(ind, dsk, 0, n)
<1>1. CASE Area(n) = 0
  <2>1. n < bound0
    BY <1>1, Areas
  <2> QED BY <1>1, <2>1 DEF BlockAt, Node, Root
<1>2. CASE Area(n) = 1
  BY <1>2, Guards1, Numbers DEF BlockAt, Node, Root
<1>3. CASE Area(n) = 2
  BY <1>3, Guards2, Numbers DEF BlockAt, Node, Root
<1>4. CASE Area(n) = 3
  BY <1>4, Guards3, Numbers DEF BlockAt, Node, Root
<1> QED BY <1>1, <1>2, <1>3, <1>4, Areas, Numbers

\* The pointer blocks freeLastBlock gives back are those block n came with.
LEMMA TablesAre ==
  ASSUME NEW ind, NEW dsk, NEW n \in Indices
  PROVE  EmptyTables(ind, dsk, n) = {Node(ind, dsk, l, n) : l \in 1 .. Need(n)}
<1> DEFINE N(l) == Node(ind, dsk, l, n)
<1>1. CASE Area(n) = 0
  <2>1. n < bound0 /\ Need(n) = 0
    BY <1>1, Areas, Area0
  <2> QED BY <2>1, Numbers DEF EmptyTables
<1>2. CASE Area(n) = 1
  <2>1. N(1) = ind.singly
    BY <1>2, Guards1 DEF Node, Root
  <2> HIDE DEF N
  <2>2. EmptyTables(ind, dsk, n) = IF Need(n) = 1 THEN {N(1)} ELSE {}
    BY <1>2, <2>1, Guards1 DEF EmptyTables
  <2>3. Need(n) = 0 \/ Need(n) = 1
    BY <1>2, Guards1
  <2> QED BY <2>2, <2>3, Numbers DEF N
<1>3. CASE Area(n) = 2
  <2>1. N(2) = ind.doubly /\ N(1) = Follow(dsk, ind.doubly, Slot(1, n))
    BY <1>3, Guards2, Numbers DEF Node, Root
  <2>2. Need(n) = 2 => Slot(1, n) = 0
    BY ZeroSlots, Numbers
  <2> HIDE DEF N
  <2>3. EmptyTables(ind, dsk, n) = IF Need(n) = 2 THEN {N(1), N(2)}
                                   ELSE IF Need(n) = 1 THEN {N(1)} ELSE {}
    BY <1>3, <2>1, <2>2, Guards2 DEF EmptyTables
  <2>4. Need(n) = 0 \/ Need(n) = 1 \/ Need(n) = 2
    BY <1>3, Guards2
  <2> QED BY <2>3, <2>4, Numbers DEF N
<1>4. CASE Area(n) = 3
  <2>1. /\ N(3) = ind.triply /\ N(2) = Follow(dsk, ind.triply, Slot(2, n))
        /\ N(1) = Follow(dsk, N(2), Slot(1, n))
    BY <1>4, Guards3, Numbers DEF Node, Root
  <2>2. Need(n) \in {2, 3} => Slot(1, n) = 0
    BY ZeroSlots, Numbers
  <2> HIDE DEF N
  <2>3. EmptyTables(ind, dsk, n) = IF Need(n) = 3 THEN {N(1), N(2), N(3)}
                                   ELSE IF Need(n) = 2 THEN {N(1), N(2)}
                                   ELSE IF Need(n) = 1 THEN {N(1)} ELSE {}
    BY <1>4, <2>1, <2>2, Guards3 DEF EmptyTables
  <2>4. Need(n) = 0 \/ Need(n) = 1 \/ Need(n) = 2 \/ Need(n) = 3
    BY <1>4, Guards3
  <2> QED BY <2>3, <2>4, Numbers DEF N
<1> QED BY <1>1, <1>2, <1>3, <1>4, Areas, Numbers

\* What is given back with block n is the block at every level that begins
\* with it.
LEMMA FreedIs ==
  ASSUME NEW ind, NEW dsk, NEW n \in Indices
  PROVE  Freed(ind, dsk, n) = {Node(ind, dsk, l, n) : l \in 0 .. Need(n)}
<1>1. Need(n) \in Nat
  BY Levels, Within
<1>2. \A l : l \in 0 .. Need(n) <=> l = 0 \/ l \in 1 .. Need(n)
  BY SMTT(30), <1>1
<1> QED BY SMTT(30), <1>2, BlockIs, TablesAre DEF Freed

-----------------------------------------------------------------------------
\* What allocLastBlock takes from the bitmap and writes.

\* The entries getAvailBlock hands out one after another, and what is left.
Second(spc) == GetAvail(spc).space
Third(spc) == GetAvail(Second(spc)).space
Fourth(spc) == GetAvail(Third(spc)).space

Taken(spc) ==
    [l \in 0 .. 3 |-> IF l = 0 THEN GetAvail(spc).entry
                      ELSE IF l = 1 THEN GetAvail(Second(spc)).entry
                      ELSE IF l = 2 THEN GetAvail(Third(spc)).entry
                      ELSE GetAvail(Fourth(spc)).entry]

Left(spc, h) ==
    IF h = 0 THEN Second(spc) ELSE IF h = 1 THEN Third(spc)
    ELSE IF h = 2 THEN Fourth(spc) ELSE GetAvail(Fourth(spc)).space

\* The new pointer blocks of allocLastBlock, and the inode that points to
\* the topmost new block.
One(dsk, e) == [dsk EXCEPT ![e[1]] = NewTable(e[0])]
Two(dsk, e) == [One(dsk, e) EXCEPT ![e[2]] = NewTable(e[1])]
Three(dsk, e) == [Two(dsk, e) EXCEPT ![e[3]] = NewTable(e[2])]

Chained(dsk, e, h) ==
    IF h = 0 THEN dsk ELSE IF h = 1 THEN One(dsk, e) ELSE IF h = 2 THEN Two(dsk, e)
    ELSE Three(dsk, e)

\* The inode with x as the pointer above block c.
Rooted(ind, c, x) ==
    IF c < bound0 THEN [ind EXCEPT !.pointer[c] = x]
    ELSE IF c < bound1 THEN [ind EXCEPT !.singly = x]
    ELSE IF c < bound2 THEN [ind EXCEPT !.doubly = x]
    ELSE [ind EXCEPT !.triply = x]

\* What allocLastBlock leaves, in terms of the tree.
Attached(ind, dsk, spc, e, c, h) ==
    [inode |-> [(IF h = Area(c) THEN Rooted(ind, c, e[h]) ELSE ind) EXCEPT !.blockCount = c + 1],
     disk |-> IF h = Area(c) THEN Chained(dsk, e, h)
              ELSE Put(Chained(dsk, e, h), Parent(ind, dsk, c), Slot(h, c), e[h]),
     space |-> Left(spc, h)]

\* The ten branches of allocLastBlock do just that.
LEMMA LastIs ==
  ASSUME NEW ind, NEW dsk, NEW spc, NEW c \in Indices, c = ind.blockCount
  PROVE  allocLastBlock(ind, dsk, Second(spc), GetAvail(spc).entry)
            = Attached(ind, dsk, spc, Taken(spc), c, Need(c))
<1> DEFINE e == Taken(spc)
           last == allocLastBlock(ind, dsk, Second(spc), GetAvail(spc).entry)
<1>1. /\ GetAvail(spc).entry = e[0] /\ GetAvail(Second(spc)).entry = e[1]
      /\ GetAvail(Third(spc)).entry = e[2] /\ GetAvail(Fourth(spc)).entry = e[3]
      /\ GetAvail(Second(spc)).space = Third(spc) /\ GetAvail(Third(spc)).space = Fourth(spc)
      /\ GetAvail(Fourth(spc)).space = Left(spc, 3)
  BY Numbers DEF Taken, Left, Third, Fourth
<1>2. Left(spc, 0) = Second(spc) /\ Left(spc, 1) = Third(spc) /\ Left(spc, 2) = Fourth(spc)
  BY Numbers DEF Left
<1> HIDE DEF e
<1>3. CASE Area(c) = 0
  <2>1. c < bound0 /\ Need(c) = 0
    BY <1>3, Areas, Area0
  <2> QED BY <1>1, <1>2, <1>3, <2>1 DEF allocLastBlock, Attached, Rooted, Chained, One, e
<1>4. CASE Area(c) = 1
  <2>1. CASE Need(c) = 1
    <3> DEFINE new == [inode |-> [[ind EXCEPT !.singly = e[1]] EXCEPT !.blockCount = c + 1],
                       disk |-> Chained(dsk, e, 1), space |-> Left(spc, 1)]
    <3>1. last = new
      BY <1>1, <1>2, <1>4, <2>1, Guards1, Numbers DEF allocLastBlock, Chained, One
    <3>2. Rooted(ind, c, e[1]) = [ind EXCEPT !.singly = e[1]]
      BY <1>4, <2>1, Guards1 DEF Rooted
    <3>3. Attached(ind, dsk, spc, e, c, 1) = new
      BY <1>4, <3>2 DEF Attached
    <3> QED BY <2>1, <3>1, <3>3 DEF e
  <2>2. CASE Need(c) = 0
    <3>1. Parent(ind, dsk, c) = ind.singly
      BY <1>4, <2>2, Guards1, Numbers DEF Parent, Node, Root
    <3> QED BY <1>1, <1>2, <1>4, <2>2, <3>1, Guards1, Numbers DEF allocLastBlock, Attached, Chained, One, e
  <2> QED BY <1>4, <2>1, <2>2, Guards1
<1>5. CASE Area(c) = 2
  <2>1. CASE Need(c) = 2
    <3> DEFINE new == [inode |-> [[ind EXCEPT !.doubly = e[2]] EXCEPT !.blockCount = c + 1],
                       disk |-> Chained(dsk, e, 2), space |-> Left(spc, 2)]
    <3>0. ~ (c < bound0) /\ c # bound0 /\ ~ (c < bound1) /\ c = bound1
      BY <1>5, <2>1, Guards2
    <3>1. last = new
      <4> DEFINE s == GetAvail(Second(spc))
                 d == GetAvail(s.space)
                 one == [dsk EXCEPT ![s.entry] = NewTable(GetAvail(spc).entry)]
                 two == [one EXCEPT ![d.entry] = NewTable(s.entry)]
      <4>1. last = [inode |-> [[ind EXCEPT !.doubly = d.entry] EXCEPT !.blockCount = c + 1],
                    disk |-> two, space |-> d.space]
        BY <3>0 DEF allocLastBlock
      <4>2. d.entry = e[2] /\ s.entry = e[1] /\ d.space = Left(spc, 2)
        BY <1>1, <1>2
      <4>3. two = Chained(dsk, e, 2)
        <5>1. one = One(dsk, e)
          BY <1>1, <4>2 DEF One
        <5> HIDE DEF one, d, s
        <5> QED BY <4>2, <5>1, Numbers DEF Chained, Two
      <4> HIDE DEF two, d, last
      <4> QED BY <4>1, <4>2, <4>3
    <3>2. Rooted(ind, c, e[2]) = [ind EXCEPT !.doubly = e[2]]
      BY <1>5, <2>1, Guards2 DEF Rooted
    <3>3. Attached(ind, dsk, spc, e, c, 2) = new
      BY <1>5, <3>2 DEF Attached
    <3> QED BY <2>1, <3>1, <3>3 DEF e
  <2>2. CASE Need(c) = 1
    <3>1. Parent(ind, dsk, c) = ind.doubly
      BY <1>5, <2>2, Guards2, Numbers DEF Parent, Node, Root
    <3> QED BY <1>1, <1>2, <1>5, <2>2, <3>1, Guards2, Numbers DEF allocLastBlock, Attached, Chained, One, e
  <2>3. CASE Need(c) = 0
    <3>1. Parent(ind, dsk, c) = Follow(dsk, ind.doubly, Slot(1, c))
      BY <1>5, <2>3, Guards2, Numbers DEF Parent, Node, Root
    <3> QED BY SMTT(30), <1>1, <1>2, <1>5, <2>3, <3>1, Guards2 DEF allocLastBlock, Attached, Chained, One, e
  <2> QED BY <1>5, <2>1, <2>2, <2>3, Guards2
<1>6. CASE Area(c) = 3
  <2>1. CASE Need(c) = 3
    <3> DEFINE new == [inode |-> [[ind EXCEPT !.triply = e[3]] EXCEPT !.blockCount = c + 1],
                       disk |-> Chained(dsk, e, 3), space |-> Left(spc, 3)]
    <3>0. /\ ~ (c < bound0) /\ c # bound0 /\ ~ (c < bound1) /\ c # bound1 /\ ~ (c < bound2)
          /\ c = bound2
      BY <1>6, <2>1, Guards3
    <3>1. last = new
      <4> DEFINE s == GetAvail(Second(spc))
                 d == GetAvail(s.space)
                 t == GetAvail(d.space)
                 one == [dsk EXCEPT ![s.entry] = NewTable(GetAvail(spc).entry)]
                 two == [one EXCEPT ![d.entry] = NewTable(s.entry)]
                 three == [two EXCEPT ![t.entry] = NewTable(d.entry)]
      <4>1. last = [inode |-> [[ind EXCEPT !.triply = t.entry] EXCEPT !.blockCount = c + 1],
                    disk |-> three, space |-> t.space]
        BY <3>0 DEF allocLastBlock
      <4>2. t.entry = e[3] /\ d.entry = e[2] /\ s.entry = e[1] /\ t.space = Left(spc, 3)
        BY <1>1
      <4>3. three = Chained(dsk, e, 3)
        <5>1. one = One(dsk, e)
          BY <1>1, <4>2 DEF One
        <5> HIDE DEF one, d, s, t
        <5>2. two = Two(dsk, e)
          BY <4>2, <5>1 DEF Two
        <5> HIDE DEF two
        <5> QED BY <4>2, <5>2, Numbers DEF Chained, Three
      <4> HIDE DEF three, t, last
      <4> QED BY <4>1, <4>2, <4>3
    <3>2. Rooted(ind, c, e[3]) = [ind EXCEPT !.triply = e[3]]
      BY <1>6, <2>1, Guards3 DEF Rooted
    <3>3. Attached(ind, dsk, spc, e, c, 3) = new
      BY <1>6, <3>2 DEF Attached
    <3> QED BY <2>1, <3>1, <3>3 DEF e
  <2>2. CASE Need(c) = 2
    <3>1. Parent(ind, dsk, c) = ind.triply
      BY <1>6, <2>2, Guards3, Numbers DEF Parent, Node, Root
    <3>2. /\ ~ (c < bound0) /\ c # bound0 /\ ~ (c < bound1) /\ c # bound1 /\ ~ (c < bound2)
          /\ c # bound2 /\ (c - bound2) % divider1 = 0 /\ Slot(2, c) = (c - bound2) \div divider1
      BY <1>6, <2>2, Guards3, Numbers
    <3> DEFINE new == [inode |-> [ind EXCEPT !.blockCount = c + 1],
                       disk |-> Put(Chained(dsk, e, 2), ind.triply, Slot(2, c), e[2]),
                       space |-> Left(spc, 2)]
    <3>3. last = new
      <4> DEFINE s == GetAvail(Second(spc))
                 d == GetAvail(s.space)
                 one == [dsk EXCEPT ![s.entry] = NewTable(GetAvail(spc).entry)]
                 two == [one EXCEPT ![d.entry] = NewTable(s.entry)]
      <4>1. last = [inode |-> [ind EXCEPT !.blockCount = c + 1],
                    disk |-> Put(two, ind.triply, (c - bound2) \div divider1, d.entry),
                    space |-> d.space]
        BY <3>2 DEF allocLastBlock
      <4>2. d.entry = e[2] /\ s.entry = e[1] /\ d.space = Left(spc, 2)
        BY <1>1, <1>2
      <4>3. two = Chained(dsk, e, 2)
        <5>1. one = One(dsk, e)
          BY <1>1, <4>2 DEF One
        <5> HIDE DEF one, d, s
        <5> QED BY <4>2, <5>1, Numbers DEF Chained, Two
      <4> HIDE DEF two, d, last
      <4> QED BY <3>2, <4>1, <4>2, <4>3
    <3>4. Attached(ind, dsk, spc, e, c, 2) = new
      BY <1>6, <3>1, Numbers DEF Attached
    <3> QED BY <2>2, <3>3, <3>4 DEF e
  <2>3. CASE Need(c) = 1
    <3>1. Parent(ind, dsk, c) = Follow(dsk, ind.triply, Slot(2, c))
      BY <1>6, <2>3, Guards3, Numbers DEF Parent, Node, Root
    <3> QED BY <1>1, <1>2, <1>6, <2>3, <3>1, Guards3, Numbers DEF allocLastBlock, Attached, Chained, One, e
  <2>4. CASE Need(c) = 0
    <3>1. Parent(ind, dsk, c) = Follow(dsk, Follow(dsk, ind.triply, Slot(2, c)), Slot(1, c))
      BY <1>6, <2>4, Guards3, Numbers DEF Parent, Node, Root
    <3> QED BY SMTT(30), <1>1, <1>2, <1>6, <2>4, <3>1, Guards3 DEF allocLastBlock, Attached, Chained, One, e
  <2> QED BY <1>6, <2>1, <2>2, <2>3, <2>4, Guards3
<1> QED BY <1>3, <1>4, <1>5, <1>6, Areas, Numbers

\* The new pointer blocks lead to each other.
LEMMA ChainedIs ==
  ASSUME NEW dsk, DOMAIN dsk = Entries, NEW e, NEW h \in 0 .. 3, NEW bits, Fresh(e, h, bits)
  PROVE  /\ DOMAIN Chained(dsk, e, h) = Entries
         /\ \A l \in 1 .. h : Chained(dsk, e, h)[e[l]] = NewTable(e[l - 1])
         /\ \A b \in Entries : (\A l \in 1 .. h : b # e[l]) => Chained(dsk, e, h)[b] = dsk[b]
<1>0. /\ \A l \in 0 .. h : e[l] \in Entries
      /\ \A l, k \in 0 .. h : l # k => e[l] # e[k]
  BY DEF Fresh
<1> DEFINE t1 == NewTable(e[0])
           t2 == NewTable(e[1])
           t3 == NewTable(e[2])
<1>1. One(dsk, e) = [dsk EXCEPT ![e[1]] = t1]
  BY DEF One
<1>2. Two(dsk, e) = [One(dsk, e) EXCEPT ![e[2]] = t2]
  BY DEF Two
<1>3. Three(dsk, e) = [Two(dsk, e) EXCEPT ![e[3]] = t3]
  BY DEF Three
<1>4. CASE h = 0
  <2>1. \A l : l \notin 1 .. h
    BY <1>4, Numbers
  <2> QED BY <1>4, <2>1 DEF Chained
<1>5. CASE h = 1
  <2>1. \A l : l \in 1 .. h <=> l = 1
    BY <1>5, Numbers
  <2>2. e[1] \in Entries
    BY <1>0, <1>5, Numbers
  <2>3. Chained(dsk, e, h) = One(dsk, e)
    BY <1>5, Numbers DEF Chained
  <2>4. NewTable(e[1 - 1]) = t1
    BY Numbers
  <2> HIDE DEF t1
  <2> QED BY <1>1, <2>1, <2>2, <2>3, <2>4, Numbers
<1>6. CASE h = 2
  <2>1. \A l : l \in 1 .. h <=> l = 1 \/ l = 2
    BY <1>6, Numbers
  <2>2. e[1] \in Entries /\ e[2] \in Entries /\ e[1] # e[2]
    BY <1>0, <1>6, Numbers
  <2>3. Chained(dsk, e, h) = Two(dsk, e)
    BY <1>6, Numbers DEF Chained
  <2>4. NewTable(e[1 - 1]) = t1 /\ NewTable(e[2 - 1]) = t2
    BY Numbers
  <2> HIDE DEF t1, t2
  <2>5. /\ DOMAIN One(dsk, e) = Entries /\ One(dsk, e)[e[1]] = t1
        /\ \A b \in Entries : b # e[1] => One(dsk, e)[b] = dsk[b]
    BY <1>1, <2>2
  <2> QED BY SMTT(30), <1>2, <2>1, <2>2, <2>3, <2>4, <2>5
<1>7. CASE h = 3
  <2>1. \A l : l \in 1 .. h <=> l = 1 \/ l = 2 \/ l = 3
    BY <1>7, Numbers
  <2>2. /\ e[1] \in Entries /\ e[2] \in Entries /\ e[3] \in Entries
        /\ e[1] # e[2] /\ e[1] # e[3] /\ e[2] # e[3]
    BY <1>0, <1>7, Numbers
  <2>3. Chained(dsk, e, h) = Three(dsk, e)
    BY <1>7, Numbers DEF Chained
  <2>4. NewTable(e[1 - 1]) = t1 /\ NewTable(e[2 - 1]) = t2 /\ NewTable(e[3 - 1]) = t3
    BY Numbers
  <2> HIDE DEF t1, t2, t3
  <2>5. /\ DOMAIN One(dsk, e) = Entries /\ One(dsk, e)[e[1]] = t1
        /\ \A b \in Entries : b # e[1] => One(dsk, e)[b] = dsk[b]
    BY <1>1, <2>2
  <2>6. /\ DOMAIN Two(dsk, e) = Entries /\ Two(dsk, e)[e[1]] = t1 /\ Two(dsk, e)[e[2]] = t2
        /\ \A b \in Entries : b # e[1] /\ b # e[2] => Two(dsk, e)[b] = dsk[b]
    BY <1>2, <2>2, <2>5
  <2> QED BY SMTT(30), <1>3, <2>1, <2>2, <2>3, <2>4, <2>6
<1> QED BY <1>4, <1>5, <1>6, <1>7, Numbers

\* The first block below a pointer of the inode.
LEMMA TopFirst ==
  ASSUME NEW c \in Indices, Need(c) = Area(c)
  PROVE  c < bound0 \/ c = bound0 \/ c = bound1 \/ c = bound2
<1>1. CASE Area(c) = 0
  BY <1>1, Areas
<1>2. CASE Area(c) = 1
  BY <1>2, Guards1
<1>3. CASE Area(c) = 2
  BY <1>3, Guards2
<1>4. CASE Area(c) = 3
  BY <1>4, Guards3
<1> QED BY <1>1, <1>2, <1>3, <1>4, Areas, Numbers

\* A new root is seen from block c on.
LEMMA RootedIs ==
  ASSUME NEW ind \in Inodes, NEW c \in Indices, c = ind.blockCount, NEW x \in Entries,
         Need(c) = Area(c),
         NEW new, new = [Rooted(ind, c, x) EXCEPT !.blockCount = c + 1]
  PROVE  /\ new \in Inodes /\ new.blockCount = c + 1 /\ Root(new, c) = x
         /\ \A n \in 0 .. c - 1 : Root(new, n) = Root(ind, n)
<1>1. /\ c + 1 \in 0 .. bound3 /\ x \in Pointers /\ c \in Nat
      /\ bound0 = POINTER_NUM /\ bound0 \in Nat /\ bound1 \in Nat /\ bound2 \in Nat
      /\ bound0 < bound1 /\ bound1 < bound2
  BY SMTT(30), Bounds DEF Indices, Pointers, bound0
<1>2. CASE c < bound0
  <2> DEFINE p == [ind.pointer EXCEPT ![c] = x]
  <2>1. c \in 0 .. POINTER_NUM - 1 /\ ind.pointer \in [0 .. POINTER_NUM - 1 -> Pointers]
    BY SMTT(30), <1>1, <1>2 DEF Inodes
  <2>2. p \in [0 .. POINTER_NUM - 1 -> Pointers] /\ p[c] = x
    BY <1>1, <2>1
  <2>3. \A n \in 0 .. c - 1 : n < bound0 /\ p[n] = ind.pointer[n]
    BY SMTT(30), <1>1, <1>2, <2>1
  <2>4. new = [ind EXCEPT !.pointer = p, !.blockCount = c + 1]
    <3>1. Rooted(ind, c, x) = [ind EXCEPT !.pointer = p]
      BY <1>2 DEF Rooted, Inodes
    <3> HIDE DEF p
    <3> QED BY <3>1 DEF Inodes
  <2> HIDE DEF p
  <2>5. new \in Inodes /\ new.blockCount = c + 1 /\ new.pointer = p
    BY <1>1, <2>2, <2>4 DEF Inodes
  <2> QED BY <1>2, <2>2, <2>3, <2>5 DEF Root
<1>3. CASE c = bound0
  <2>1. new = [ind EXCEPT !.singly = x, !.blockCount = c + 1]
    <3>1. Rooted(ind, c, x) = [ind EXCEPT !.singly = x]
      BY SMTT(30), <1>1, <1>3 DEF Rooted
    <3> QED BY <3>1 DEF Inodes
  <2>2. new \in Inodes /\ new.blockCount = c + 1 /\ new.singly = x /\ new.pointer = ind.pointer
    BY <1>1, <2>1 DEF Inodes
  <2> QED BY SMTT(30), <1>1, <1>3, <2>2 DEF Root
<1>4. CASE c = bound1
  <2>1. new = [ind EXCEPT !.doubly = x, !.blockCount = c + 1]
    <3>1. Rooted(ind, c, x) = [ind EXCEPT !.doubly = x]
      BY SMTT(30), <1>1, <1>4 DEF Rooted
    <3> QED BY <3>1 DEF Inodes
  <2>2. /\ new \in Inodes /\ new.blockCount = c + 1 /\ new.doubly = x
        /\ new.pointer = ind.pointer /\ new.singly = ind.singly
    BY <1>1, <2>1 DEF Inodes
  <2> QED BY SMTT(30), <1>1, <1>4, <2>2 DEF Root
<1>5. CASE c = bound2
  <2>1. new = [ind EXCEPT !.triply = x, !.blockCount = c + 1]
    <3>1. Rooted(ind, c, x) = [ind EXCEPT !.triply = x]
      BY SMTT(30), <1>1, <1>5 DEF Rooted
    <3> QED BY <3>1 DEF Inodes
  <2>2. /\ new \in Inodes /\ new.blockCount = c + 1 /\ new.triply = x
        /\ new.pointer = ind.pointer /\ new.singly = ind.singly /\ new.doubly = ind.doubly
    BY <1>1, <2>1 DEF Inodes
  <2> QED BY SMTT(30), <1>1, <1>5, <2>2 DEF Root
<1> QED BY <1>2, <1>3, <1>4, <1>5, TopFirst

\* allocBlock: what it does to the state is what Grows says of it.
LEMMA AttachedIs ==
  ASSUME NEW ind, NEW dsk, NEW spc, Typed(ind, dsk, spc.bits), Tree(ind, dsk, spc.bits),
         NEW f \in Files, NEW c \in Indices, c = ind[f].blockCount,
         NEW e, Fresh(e, Need(c), spc.bits),
         NEW new, new = Attached(ind[f], dsk, spc, e, c, Need(c))
  PROVE  /\ Grows(ind, dsk, spc.bits, f, c, e, new.inode, new.disk)
         /\ DOMAIN new.disk = Entries
         /\ \A b \in Entries : new.disk[b] \in Values \/ new.disk[b] \in Tables
<1> DEFINE h == Need(c)
           k == Chained(dsk, e, h)
           P == Parent(ind[f], dsk, c)
<1>1. h \in 0 .. Area(c) /\ h \in 0 .. 3 /\ Area(c) \in 0 .. 3
  BY Levels, Numbers
<1>2. /\ ind[f] \in Inodes /\ DOMAIN dsk = Entries
      /\ \A b \in Entries : dsk[b] \in Values \/ dsk[b] \in Tables
      /\ spc.bits \subseteq Entries
  BY DEF Typed
<1>3. \A l \in 0 .. h : e[l] \in Entries /\ e[l] \notin spc.bits
  BY DEF Fresh
<1>4. /\ DOMAIN k = Entries
      /\ \A l \in 1 .. h : k[e[l]] = NewTable(e[l - 1])
      /\ \A b \in Entries : (\A l \in 1 .. h : b # e[l]) => k[b] = dsk[b]
  BY SMTT(30), <1>1, <1>2, ChainedIs
<1> HIDE DEF k
<1>5. \A b \in Entries : k[b] \in Values \/ k[b] \in Tables
  <2> SUFFICES ASSUME NEW b \in Entries PROVE k[b] \in Values \/ k[b] \in Tables
    OBVIOUS
  <2>1. CASE \E l \in 1 .. h : b = e[l]
    <3>1. PICK l \in 1 .. h : b = e[l]
      BY <2>1
    <3>2. k[b] = NewTable(e[l - 1]) /\ e[l - 1] \in Entries
      BY <1>1, <1>3, <1>4, <3>1, Within
    <3> QED BY <3>2, NewTableIs
  <2>2. CASE ~ \E l \in 1 .. h : b = e[l]
    BY <1>2, <1>4, <2>2
  <2> QED BY <2>1, <2>2
<1>6. CASE h = Area(c)
  <2>1. new.inode = [Rooted(ind[f], c, e[h]) EXCEPT !.blockCount = c + 1] /\ new.disk = k
    BY <1>6 DEF Attached, k
  <2>2. NewRoots(ind[f], new.inode, e, c) /\ new.inode \in Inodes
    <3>1. e[h] \in Entries
      BY <1>1, <1>3, Numbers
    <3>2. /\ new.inode \in Inodes /\ new.inode.blockCount = c + 1 /\ Root(new.inode, c) = e[h]
          /\ \A n \in 0 .. c - 1 : Root(new.inode, n) = Root(ind[f], n)
      BY SMTT(30), <1>2, <1>6, <2>1, <3>1, RootedIs
    <3> QED BY <1>6, <3>2 DEF NewRoots
  <2>3. NewDisk(ind[f], dsk, new.disk, e, c)
    BY <1>4, <1>6, <2>1 DEF NewDisk
  <2> QED BY <1>4, <1>5, <2>1, <2>2, <2>3 DEF Grows
<1>7. CASE h # Area(c)
  <2>1. /\ new.inode = [ind[f] EXCEPT !.blockCount = c + 1]
        /\ new.disk = Put(k, P, Slot(h, c), e[h])
    BY <1>7 DEF Attached, k
  <2>2. new.inode \in Inodes /\ NewRoots(ind[f], new.inode, e, c)
    <3>1. c + 1 \in 0 .. bound3
      BY SMTT(30), Bounds DEF Indices
    <3>2. /\ new.inode \in Inodes /\ new.inode.blockCount = c + 1
          /\ new.inode.pointer = ind[f].pointer /\ new.inode.singly = ind[f].singly
          /\ new.inode.doubly = ind[f].doubly /\ new.inode.triply = ind[f].triply
      BY <1>2, <2>1, <3>1 DEF Inodes
    <3>3. \A n : Root(new.inode, n) = Root(ind[f], n)
      BY <3>2 DEF Root
    <3> QED BY <1>7, <3>2, <3>3 DEF NewRoots
  <2>3. P \in spc.bits /\ dsk[P] \in Tables /\ P \in Entries
    BY <1>2, <1>7, ParentIs
  <2> HIDE DEF P
  <2>4. (\A l \in 1 .. h : P # e[l]) /\ k[P] = dsk[P]
    <3>1. \A l \in 1 .. h : P # e[l]
      BY <1>1, <1>3, <2>3, Within
    <3> QED BY <1>4, <2>3, <3>1
  <2>5. new.disk = [k EXCEPT ![P] = [dsk[P] EXCEPT ![Slot(h, c)] = e[h]]]
    <3>1. IsTable(k, P)
      BY <2>3, <2>4, FileAssumption DEF IsTable
    <3>2. new.disk = [k EXCEPT ![P][Slot(h, c)] = e[h]]
      BY <2>1, <3>1 DEF Put
    <3> QED BY <2>4, <3>2
  <2>6. [dsk[P] EXCEPT ![Slot(h, c)] = e[h]] \in Tables
    <3>1. e[h] \in Pointers
      BY <1>1, <1>3, Numbers DEF Pointers
    <3> QED BY <2>3, <3>1 DEF Tables
  <2>7. /\ DOMAIN new.disk = Entries
        /\ new.disk[P] = [dsk[P] EXCEPT ![Slot(h, c)] = e[h]]
        /\ \A b \in Entries : b # P => new.disk[b] = k[b]
    BY <1>4, <2>3, <2>5
  <2>8. NewDisk(ind[f], dsk, new.disk, e, c)
    <3>1. \A l \in 1 .. h : new.disk[e[l]] = NewTable(e[l - 1])
      <4>1. \A l \in 1 .. h : e[l] \in Entries /\ P # e[l]
        BY <1>1, <1>3, <2>4, Numbers
      <4> QED BY <1>4, <2>7, <4>1
    <3>2. \A b \in Entries : (\A l \in 1 .. h : b # e[l]) /\ b # P => new.disk[b] = dsk[b]
      BY <1>4, <2>7
    <3> QED BY <1>7, <2>7, <3>1, <3>2 DEF NewDisk, P
  <2>9. \A b \in Entries : new.disk[b] \in Values \/ new.disk[b] \in Tables
    BY <1>5, <2>6, <2>7, Within
  <2> QED BY <2>2, <2>7, <2>8, <2>9 DEF Grows
<1> QED BY <1>6, <1>7

-----------------------------------------------------------------------------
\* The files as sequences of blocks.

\* What is read from a block.
Text(dsk, b) == IF b \in Entries /\ dsk[b] \in Values THEN dsk[b] ELSE Junk

\* A file, block by block, and all files.
Lines(i, dsk) == [k \in 1 .. i.blockCount |-> Text(dsk, BlockAt(i, dsk, k - 1))]

View(ind, dsk) == [f \in Files |-> Lines(ind[f], dsk)]

\* What is read is a value.
LEMMA TextIs ==
  ASSUME NEW dsk, NEW b
  PROVE  Text(dsk, b) \in Values
BY FileAssumption DEF Text

\* A file is a sequence of values.
LEMMA LinesAre ==
  ASSUME NEW i, NEW dsk, i.blockCount \in Nat
  PROVE  /\ Lines(i, dsk) \in Seq(Values) /\ Len(Lines(i, dsk)) = i.blockCount
         /\ \A k \in 1 .. i.blockCount : Lines(i, dsk)[k] = Text(dsk, BlockAt(i, dsk, k - 1))
<1> DEFINE s == Lines(i, dsk)
<1>1. s \in [1 .. i.blockCount -> Values] /\ DOMAIN s = 1 .. i.blockCount
  BY TextIs DEF Lines
<1>2. \A k \in 1 .. i.blockCount : s[k] = Text(dsk, BlockAt(i, dsk, k - 1))
  BY DEF Lines
<1> HIDE DEF s
<1>3. s \in Seq(Values) /\ Len(s) = i.blockCount
  BY SMTT(30), <1>1
<1> QED BY <1>2, <1>3 DEF s

\* Two files whose blocks have the same contents ...
SameText(i, dsk, j, dsk2) ==
    /\ i.blockCount \in 0 .. bound3 /\ j.blockCount = i.blockCount
    /\ \A n \in 0 .. i.blockCount - 1 :
          Text(dsk2, Node(j, dsk2, 0, n)) = Text(dsk, Node(i, dsk, 0, n))

\* ... are the same sequence.
LEMMA SameLines ==
  ASSUME NEW i, NEW dsk, NEW j, NEW dsk2, SameText(i, dsk, j, dsk2)
  PROVE  Lines(j, dsk2) = Lines(i, dsk)
<1>0. /\ i.blockCount \in 0 .. bound3 /\ j.blockCount = i.blockCount
      /\ \A n \in 0 .. i.blockCount - 1 :
            Text(dsk2, Node(j, dsk2, 0, n)) = Text(dsk, Node(i, dsk, 0, n))
  BY DEF SameText
<1> SUFFICES ASSUME NEW k \in 1 .. i.blockCount
             PROVE  Text(dsk2, BlockAt(j, dsk2, k - 1)) = Text(dsk, BlockAt(i, dsk, k - 1))
  BY <1>0 DEF Lines
<1>1. k - 1 \in 0 .. i.blockCount - 1 /\ k - 1 \in Indices
  BY SMTT(30), <1>0, Bounds DEF Indices
<1>2. /\ BlockAt(j, dsk2, k - 1) = Node(j, dsk2, 0, k - 1)
      /\ BlockAt(i, dsk, k - 1) = Node(i, dsk, 0, k - 1)
  BY <1>1, BlockIs
<1> QED BY <1>0, <1>1, <1>2

\* allocBlock leaves the contents of the files alone.
LEMMA TextKept ==
  ASSUME NEW ind, NEW dsk, NEW bits, Typed(ind, dsk, bits), Tree(ind, dsk, bits),
         NEW f, NEW c, NEW e, NEW i2, NEW dsk2, Grows(ind, dsk, bits, f, c, e, i2, dsk2),
         NEW g \in Files, NEW j, (g = f => j = i2) /\ (g # f => j = ind[g]),
         NEW n \in 0 .. ind[g].blockCount - 1
  PROVE  Text(dsk2, Node(j, dsk2, 0, n)) = Text(dsk, Node(ind[g], dsk, 0, n))
<1> DEFINE b == Node(ind[g], dsk, 0, n)
           h == Need(c)
           P == Parent(ind[f], dsk, c)
<1>0. /\ f \in Files /\ c \in Indices /\ c = ind[f].blockCount /\ Fresh(e, h, bits)
      /\ NewDisk(ind[f], dsk, dsk2, e, c)
  BY DEF Grows
<1>1. n \in Indices /\ 0 \in 0 .. Area(n) /\ 0 \in 0 .. Need(n) /\ h \in 0 .. 3
  <2>1. n \in Indices
    BY InIndices
  <2>2. Area(n) \in 0 .. 3 /\ Need(n) \in 0 .. Area(n) /\ h \in 0 .. 3
    BY <1>0, <2>1, Levels, Numbers
  <2> QED BY <2>1, <2>2, Numbers
<1>2. Node(j, dsk2, 0, n) = b
  <2>1. SameNodes(ind[g], dsk, j, dsk2, 0, n)
    BY Kept
  <2> QED BY <1>1, <2>1 DEF SameNodes
<1>3. b \in bits /\ b \in Entries
  BY <1>1 DEF Tree, Marked, Typed
<1>4. \A l \in 1 .. h : b # e[l]
  <2>1. \A l \in 0 .. h : b # e[l]
    BY <1>0, <1>3, Numbers DEF Fresh
  <2> QED BY <1>1, <2>1, Numbers
<1>5. ASSUME h # Area(c) PROVE b # P
  <2> DEFINE t == Start(h + 1, c)
  <2>1. t \in 0 .. c - 1 /\ h + 1 \in 0 .. Need(t) /\ Node(ind[f], dsk, h + 1, t) = P
    BY SMTT(30), <1>0, <1>5, ParentIs
  <2>2. Distinct(ind, dsk) /\ h + 1 # 0
    BY <1>1, Within DEF Tree
  <2> HIDE DEF t, P
  <2>3. Node(ind[g], dsk, 0, n) = Node(ind[f], dsk, h + 1, t) => 0 = h + 1
    BY SMTT(30), <1>0, <1>1, <2>1, <2>2 DEF Distinct
  <2> QED BY <2>1, <2>2, <2>3
<1>6. dsk2[b] = dsk[b]
  BY <1>0, <1>3, <1>4, <1>5 DEF NewDisk
<1> QED BY <1>2, <1>6 DEF Text

\* A sequence that is as long as another one and one more is the other one
\* with an element appended.
LEMMA Appended ==
  ASSUME NEW i, NEW dsk, NEW j, NEW dsk2, i.blockCount \in Nat, j.blockCount = i.blockCount + 1,
         \A k \in 1 .. i.blockCount : Lines(j, dsk2)[k] = Lines(i, dsk)[k]
  PROVE  \E v \in Values : Lines(j, dsk2) = Append(Lines(i, dsk), v)
<1> DEFINE s == Lines(i, dsk)
           t == Lines(j, dsk2)
           c == i.blockCount
           v == t[c + 1]
<1>1. s \in Seq(Values) /\ Len(s) = c /\ c \in Nat
  BY LinesAre
<1>2. t \in Seq(Values) /\ Len(t) = c + 1
  <2>1. j.blockCount \in Nat
    BY Within
  <2> QED BY <2>1, LinesAre
<1> HIDE DEF s, t, c
<1>3. \A k \in 1 .. c : t[k] = s[k]
  BY DEF s, t, c
<1>4. v \in Values
  BY SMTT(30), <1>1, <1>2
<1>5. t = Append(s, v)
  <2>1. Append(s, v) \in Seq(Values) /\ Len(Append(s, v)) = c + 1
    BY SMTT(30), <1>1, <1>4
  <2>2. \A k \in 1 .. c + 1 : Append(s, v)[k] = t[k]
    BY SMTT(30), <1>1, <1>2, <1>3, <1>4
  <2> QED BY SMTT(30), <1>2, <2>1, <2>2
<1> QED BY <1>4, <1>5 DEF s, t

\* allocBlock appends a block to one file.
LEMMA ViewGrown ==
  ASSUME NEW ind, NEW dsk, NEW bits, Typed(ind, dsk, bits), Tree(ind, dsk, bits),
         NEW f, NEW c, NEW e, NEW i2, NEW dsk2, Grows(ind, dsk, bits, f, c, e, i2, dsk2),
         NEW ind2, ind2 = [ind EXCEPT ![f] = i2]
  PROVE  \E v \in Values : View(ind2, dsk2) = [View(ind, dsk) EXCEPT ![f] = Append(@, v)]
<1>0. f \in Files /\ c \in Indices /\ c = ind[f].blockCount /\ i2.blockCount = c + 1
  BY DEF Grows, NewRoots
<1>1. /\ ind2[f] = i2 /\ (\A g \in Files : g # f => ind2[g] = ind[g])
      /\ c \in Nat /\ c \in 0 .. bound3
  BY SMTT(30), <1>0, Bounds DEF Typed, Indices
<1>2. ASSUME NEW g \in Files, g # f
      PROVE  Lines(ind2[g], dsk2) = Lines(ind[g], dsk)
  <2>1. \A n \in 0 .. ind[g].blockCount - 1 :
            Text(dsk2, Node(ind[g], dsk2, 0, n)) = Text(dsk, Node(ind[g], dsk, 0, n))
    BY SMTT(30), <1>2, TextKept
  <2>2. ind[g].blockCount \in 0 .. bound3
    BY InIndices
  <2>3. SameText(ind[g], dsk, ind2[g], dsk2)
    BY <1>1, <1>2, <2>1, <2>2 DEF SameText
  <2> QED BY SMTT(30), <2>3, SameLines
<1>3. \A k \in 1 .. c : Lines(i2, dsk2)[k] = Lines(ind[f], dsk)[k]
  <2> SUFFICES ASSUME NEW k \in 1 .. c
               PROVE  Lines(i2, dsk2)[k] = Lines(ind[f], dsk)[k]
    OBVIOUS
  <2>1. k - 1 \in 0 .. ind[f].blockCount - 1 /\ k - 1 \in Indices /\ k \in 1 .. i2.blockCount
    BY SMTT(30), <1>0, <1>1, Bounds DEF Indices
  <2>2. Text(dsk2, Node(i2, dsk2, 0, k - 1)) = Text(dsk, Node(ind[f], dsk, 0, k - 1))
    BY SMTT(30), <1>0, <2>1, TextKept
  <2>3. /\ BlockAt(i2, dsk2, k - 1) = Node(i2, dsk2, 0, k - 1)
        /\ BlockAt(ind[f], dsk, k - 1) = Node(ind[f], dsk, 0, k - 1)
    BY <2>1, BlockIs
  <2>4. /\ Lines(i2, dsk2)[k] = Text(dsk2, BlockAt(i2, dsk2, k - 1))
        /\ Lines(ind[f], dsk)[k] = Text(dsk, BlockAt(ind[f], dsk, k - 1))
    BY <1>0, <2>1 DEF Lines
  <2> QED BY <2>2, <2>3, <2>4
<1>4. PICK v \in Values : Lines(i2, dsk2) = Append(Lines(ind[f], dsk), v)
  BY SMTT(30), <1>0, <1>1, <1>3, Appended
<1>5. View(ind2, dsk2) = [View(ind, dsk) EXCEPT ![f] = Append(Lines(ind[f], dsk), v)]
  BY <1>0, <1>1, <1>2, <1>4 DEF View
<1>6. View(ind, dsk)[f] = Lines(ind[f], dsk)
  BY <1>0 DEF View
<1> QED BY <1>5, <1>6

\* writeBlock: block number c of the file is v now.
Overwrites(ind, dsk, f, c, v, dsk2) ==
    /\ f \in Files /\ c \in 0 .. ind[f].blockCount - 1 /\ v \in Values
    /\ dsk2 = [dsk EXCEPT ![Node(ind[f], dsk, 0, c)] = v]

\* writeBlock changes one block of one file.
LEMMA ViewWritten ==
  ASSUME NEW ind, NEW dsk, NEW bits, Typed(ind, dsk, bits), Tree(ind, dsk, bits),
         NEW f, NEW c, NEW v, NEW dsk2, Overwrites(ind, dsk, f, c, v, dsk2)
  PROVE  View(ind, dsk2) = [View(ind, dsk) EXCEPT ![f] = [@ EXCEPT ![c + 1] = v]]
<1> DEFINE b == Node(ind[f], dsk, 0, c)
<1> f \in Files /\ c \in 0 .. ind[f].blockCount - 1 /\ v \in Values
  BY DEF Overwrites
<1>11. dsk2 = [dsk EXCEPT ![b] = v]
  BY DEF Overwrites
<1>0. \A g \in Files : /\ ind[g].blockCount \in 0 .. bound3
                       /\ \A n \in 0 .. ind[g].blockCount - 1 : n \in Indices
  BY InIndices
<1>1. \A g \in Files : \A n \in 0 .. ind[g].blockCount - 1 : 0 \in 0 .. Area(n) /\ 0 \in 0 .. Need(n)
  <2>1. \A n \in Indices : 0 \in 0 .. Area(n) /\ 0 \in 0 .. Need(n)
    BY Levels, Numbers
  <2> QED BY <1>0, <2>1
<1>2. b \in Entries
  BY <1>1 DEF Tree, Marked, Typed
<1>3. \A g \in Files : \A n \in 0 .. ind[g].blockCount - 1 :
         SameNodes(ind[g], dsk, ind[g], dsk2, 0, n)
  BY <1>11, TreeWritten
<1>4. ASSUME NEW g \in Files, NEW n \in 0 .. ind[g].blockCount - 1
      PROVE  Node(ind[g], dsk2, 0, n) = Node(ind[g], dsk, 0, n)
  BY <1>1, <1>3 DEF SameNodes
<1>5. ASSUME NEW g \in Files, NEW n \in 0 .. ind[g].blockCount - 1, ~ (g = f /\ n = c)
      PROVE  Text(dsk2, Node(ind[g], dsk2, 0, n)) = Text(dsk, Node(ind[g], dsk, 0, n))
  <2>1. Node(ind[g], dsk, 0, n) # b
    BY SMTT(30), <1>1, <1>5 DEF Tree, Distinct
  <2> HIDE DEF b
  <2>2. dsk2[Node(ind[g], dsk, 0, n)] = dsk[Node(ind[g], dsk, 0, n)] \/ Node(ind[g], dsk, 0, n) \notin Entries
    BY <1>11, <2>1 DEF Typed
  <2> QED BY <1>4, <2>2 DEF Text
<1>6. Text(dsk2, Node(ind[f], dsk2, 0, c)) = v
  <2>1. dsk2[b] = v
    BY <1>11, <1>2 DEF Typed
  <2> QED BY <1>2, <1>4, <2>1 DEF Text
<1>7. ASSUME NEW g \in Files, g # f
      PROVE  Lines(ind[g], dsk2) = Lines(ind[g], dsk)
  <2>1. \A n \in 0 .. ind[g].blockCount - 1 :
           Text(dsk2, Node(ind[g], dsk2, 0, n)) = Text(dsk, Node(ind[g], dsk, 0, n))
    BY <1>5, <1>7
  <2>2. ind[g].blockCount \in 0 .. bound3
    BY <1>0
  <2>3. SameText(ind[g], dsk, ind[g], dsk2)
    BY <2>1, <2>2 DEF SameText
  <2> QED BY SMTT(30), <2>3, SameLines
<1>8. Lines(ind[f], dsk2) = [Lines(ind[f], dsk) EXCEPT ![c + 1] = v]
  <2>1. \A k \in 1 .. ind[f].blockCount :
          /\ k - 1 \in 0 .. ind[f].blockCount - 1 /\ k - 1 \in Indices
          /\ k - 1 = c <=> k = c + 1
    BY SMTT(30), <1>0
  <2>2. ASSUME NEW k \in 1 .. ind[f].blockCount
        PROVE  Text(dsk2, BlockAt(ind[f], dsk2, k - 1))
                 = IF k = c + 1 THEN v ELSE Text(dsk, BlockAt(ind[f], dsk, k - 1))
    <3>1. k - 1 \in 0 .. ind[f].blockCount - 1 /\ k - 1 \in Indices /\ (k - 1 = c <=> k = c + 1)
      BY <2>1
    <3>2. /\ BlockAt(ind[f], dsk2, k - 1) = Node(ind[f], dsk2, 0, k - 1)
          /\ BlockAt(ind[f], dsk, k - 1) = Node(ind[f], dsk, 0, k - 1)
      BY <3>1, BlockIs
    <3>3. k - 1 # c => Text(dsk2, Node(ind[f], dsk2, 0, k - 1)) = Text(dsk, Node(ind[f], dsk, 0, k - 1))
      BY <1>5, <3>1
    <3>4. k - 1 = c => Text(dsk2, Node(ind[f], dsk2, 0, k - 1)) = v
      BY <1>6
    <3> QED BY <3>1, <3>2, <3>3, <3>4
  <2> QED BY <2>2 DEF Lines
<1>9. View(ind, dsk2) = [View(ind, dsk) EXCEPT ![f] = [Lines(ind[f], dsk) EXCEPT ![c + 1] = v]]
  BY <1>7, <1>8 DEF View
<1>10. View(ind, dsk)[f] = Lines(ind[f], dsk)
  BY DEF View
<1> QED BY <1>9, <1>10

\* freeLastBlock takes the last block off.
LEMMA ViewShrunk ==
  ASSUME NEW ind, NEW dsk, NEW bits, Typed(ind, dsk, bits),
         NEW f, NEW c, NEW ind2, NEW gone, Shrinks(ind, dsk, f, c, ind2, gone)
  PROVE  /\ View(ind, dsk)[f] # << >>
         /\ View(ind2, dsk) = [View(ind, dsk) EXCEPT ![f] = SubSeq(@, 1, Len(@) - 1)]
<1> DEFINE s == Lines(ind[f], dsk)
           t == Lines(ind2[f], dsk)
<1>0. f \in Files /\ c \in Nat /\ ind[f].blockCount = c + 1
  BY DEF Shrinks
<1> USE <1>0
<1>1. /\ ind2[f] = [ind[f] EXCEPT !.blockCount = c] /\ ind[f] \in Inodes
      /\ \A g \in Files : g # f => ind2[g] = ind[g]
  <2> DEFINE i == [ind[f] EXCEPT !.blockCount = c]
  <2>1. ind \in [Files -> Inodes] /\ ind2 = [ind EXCEPT ![f] = i]
    BY DEF Typed, Shrinks
  <2> HIDE DEF i
  <2>2. ind2[f] = i /\ ind[f] \in Inodes /\ \A g \in Files : g # f => ind2[g] = ind[g]
    BY <2>1
  <2> QED BY <2>2 DEF i
<1>2. /\ ind2[f].blockCount = c /\ ind2[f].pointer = ind[f].pointer
      /\ ind2[f].singly = ind[f].singly /\ ind2[f].doubly = ind[f].doubly
      /\ ind2[f].triply = ind[f].triply
  BY <1>1 DEF Inodes
<1>3. \A n : BlockAt(ind2[f], dsk, n) = BlockAt(ind[f], dsk, n)
  BY <1>2 DEF BlockAt
<1>4. /\ s \in Seq(Values) /\ Len(s) = c + 1
      /\ \A k \in 1 .. c + 1 : s[k] = Text(dsk, BlockAt(ind[f], dsk, k - 1))
  <2>1. ind[f].blockCount \in Nat
    BY Within
  <2>2. /\ s \in Seq(Values) /\ Len(s) = ind[f].blockCount
        /\ \A k \in 1 .. ind[f].blockCount : s[k] = Text(dsk, BlockAt(ind[f], dsk, k - 1))
    BY <2>1, LinesAre
  <2> HIDE DEF s
  <2> QED BY <2>2
<1>5. /\ t \in Seq(Values) /\ Len(t) = c
      /\ \A k \in 1 .. c : t[k] = Text(dsk, BlockAt(ind2[f], dsk, k - 1))
  <2>1. ind2[f].blockCount \in Nat /\ ind2[f].blockCount = c
    BY <1>2
  <2>2. /\ t \in Seq(Values) /\ Len(t) = ind2[f].blockCount
        /\ \A k \in 1 .. ind2[f].blockCount : t[k] = Text(dsk, BlockAt(ind2[f], dsk, k - 1))
    BY <2>1, LinesAre
  <2> HIDE DEF t
  <2> QED BY <2>1, <2>2
<1>6. \A k \in 1 .. c : t[k] = s[k]
  <2> SUFFICES ASSUME NEW k \in 1 .. c PROVE t[k] = s[k]
    OBVIOUS
  <2> HIDE DEF s, t
  <2>1. k \in 1 .. c + 1
    BY SMTT(30)
  <2> QED BY <1>3, <1>4, <1>5, <2>1
<1> HIDE DEF s, t
<1>7. t = SubSeq(s, 1, Len(s) - 1)
  <2>1. SubSeq(s, 1, c) \in Seq(Values) /\ Len(SubSeq(s, 1, c)) = c
    BY SMTT(30), <1>4
  <2>2. \A k \in 1 .. c : SubSeq(s, 1, c)[k] = s[k]
    BY SMTT(30), <1>4
  <2>3. t = SubSeq(s, 1, c)
    BY SMTT(30), <1>5, <1>6, <2>1, <2>2
  <2>4. Len(s) - 1 = c
    BY SMTT(30), <1>4
  <2> QED BY <2>3, <2>4
<1>8. s # << >>
  BY <1>4, Within
<1>9. View(ind, dsk)[f] = s
  BY DEF View, s
<1>10. View(ind2, dsk) = [View(ind, dsk) EXCEPT ![f] = t]
  <2>1. \A g \in Files : Lines(ind2[g], dsk) = IF g = f THEN t ELSE Lines(ind[g], dsk)
    BY <1>1 DEF t
  <2>2. View(ind2, dsk) = [g \in Files |-> IF g = f THEN t ELSE Lines(ind[g], dsk)]
    BY <2>1 DEF View
  <2> QED BY <2>2 DEF View
<1> QED BY <1>7, <1>8, <1>9, <1>10

\* The files of the refinement mapping, now and after a step.
LEMMA BlocksAre ==
  /\ [f \in Files |-> [i \in 1 .. inode[f].blockCount |-> Contents(BlockAt(inode[f], disk, i - 1))]]
        = View(inode, disk)
  /\ [f \in Files |-> [i \in 1 .. inode[f].blockCount |-> Contents(BlockAt(inode[f], disk, i - 1))]]'
        = View(inode', disk')
<1>1. \A b : Contents(b) = Text(disk, b)
  BY DEF Contents, Text
<1>2. \A b : Contents(b)' = Text(disk', b)
  BY DEF Contents, Text
<1> QED BY <1>1, <1>2 DEF View, Lines

=============================================================================
