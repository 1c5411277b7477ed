-------------------------- MODULE SchedulerProofs --------------------------
(***************************************************************************)
(* Proofs about Scheduler, for any threads, any number of priorities and   *)
(* any split of them into the words of the bitmap.  A kernel entry is      *)
(* composed of few changes of the state.  Each is shown to keep the state  *)
(* such that schedule finds what it needs at the end of the entry.         *)
(***************************************************************************)
EXTENDS Scheduler, TLAPS

\* The seconds each prover has for a leaf.
USE ZenonT(20), SMTT(20)

\* The place of a priority in the second bitmap.
Bit(p) == p % wordBits
Word(p) == invert_l1index(prio_to_l1index(p))

L1Indices == 0 .. L2_BITMAP_SIZE - 1
Bits == 0 .. wordBits - 1

States ==
    [ts     : [Threads -> {"Running", "Restart", "Blocked", "Inactive"}],
     prio   : [Threads -> Priorities],
     slice  : [Threads -> Nat],
     queued : [Threads -> BOOLEAN],
     ready  : [Priorities -> Seq(Threads)],
     L1     : SUBSET L1Indices,
     L2     : [L1Indices -> SUBSET Bits],
     cur    : Threads \cup {Idle},
     action : Threads \cup {ResumeCurrentThread, ChooseNewThread},
     failed : BOOLEAN]

Elems(q) == {q[i] : i \in DOMAIN q}
Once(q) == \A i, j \in DOMAIN q : q[i] = q[j] => i = j

\* A ready queue holds the threads of its priority that are marked, each once.
Queues(s) ==
    \A p \in Priorities :
        Once(s.ready[p]) /\ Elems(s.ready[p]) = {t \in Threads : s.queued[t] /\ s.prio[t] = p}

\* The bitmaps name the queues that are not empty.
Bitmaps(s) ==
    /\ \A p \in Priorities :
          /\ Bit(p) \in s.L2[Word(p)] <=> s.ready[p] # << >>
          /\ s.ready[p] # << >> => prio_to_l1index(p) \in s.L1
    /\ \A l1 \in s.L1 : \E p \in Priorities : prio_to_l1index(p) = l1 /\ s.ready[p] # << >>

Sound(s) == s \in States /\ Queues(s) /\ Bitmaps(s) /\ ~s.failed

\* During an entry: a queued thread is runnable, and a runnable thread is
\* current, queued or the one that schedule is to switch to.
Kept(s) ==
    /\ Sound(s)
    /\ \A t \in Threads : s.queued[t] => isRunnable(s, t)
    /\ \A t \in Threads : isRunnable(s, t) /\ t # s.cur => s.queued[t] \/ s.action = t

\* No runnable thread but x has a higher priority than the current one.
Highest(s, x) == \A t \in Threads \ {x} : isRunnable(s, t) => s.prio[t] <= s.prio[s.cur]

\* Before schedule: the pending action is one it can carry out.
Ready(s) ==
    /\ Kept(s)
    /\ s.action = ResumeCurrentThread =>
          /\ \A t \in Threads : isRunnable(s, t) => s.cur # Idle
          /\ s.cur # Idle => isRunnable(s, s.cur) /\ ~s.queued[s.cur] /\ Highest(s, Idle)
    /\ s.action \in Threads =>
          /\ isRunnable(s, s.action)
          /\ s.cur # Idle => Highest(s, s.action)

\* Outside the kernel: the inductive invariant is Left(k).
Left(s) ==
    /\ Ready(s) /\ s.action = ResumeCurrentThread
    /\ s.cur # Idle => s.ts[s.cur] = "Running"

Inv == Left(k)

-----------------------------------------------------------------------------
(***************************************************************************)
(* Priorities and their places in the bitmaps.                             *)
(***************************************************************************)
LEMMA DivMod ==
  ASSUME NEW n \in Nat \ {0}, NEW a \in Nat
  PROVE  a \div n \in Nat /\ a % n \in 0 .. n - 1 /\ a = n * (a \div n) + (a % n)
BY SMTT(30)

LEMMA DivUnique ==
  ASSUME NEW n \in Nat \ {0}, NEW q \in Nat, NEW r \in 0 .. n - 1
  PROVE  (n * q + r) \div n = q /\ (n * q + r) % n = r
BY SMTT(30)

LEMMA Below ==
  ASSUME NEW n \in Nat \ {0}, NEW m \in Nat, NEW q \in Nat, NEW r \in 0 .. n - 1
  PROVE  n * q + r \in Nat /\ (n * q + r < n * m <=> q < m)
<1>1. n * q \in Nat /\ n * m \in Nat
  BY SMTT(30)
<1>2. q < m => n * q + n <= n * m
  <2>1. q < m => n * (q + 1) <= n * m
    BY SMTT(30)
  <2> QED BY SMTT(30), <1>1, <2>1
<1>3. q >= m => n * q >= n * m
  BY SMTT(30)
<1> QED BY SMTT(30), <1>1, <1>2, <1>3

LEMMA PlaceOf ==
  ASSUME NEW p \in Priorities
  PROVE  /\ prio_to_l1index(p) \in L1Indices /\ Bit(p) \in Bits
         /\ p = wordBits * prio_to_l1index(p) + Bit(p)
<1> DEFINE q == p \div wordBits
           r == p % wordBits
           size == wordBits * L2_BITMAP_SIZE
<1>1. size \in Nat /\ p \in Nat /\ p < size
  BY SMTT(30), SchedulerAssumption DEF Priorities
<1>2. q \in Nat /\ r \in 0 .. wordBits - 1 /\ p = wordBits * q + r
  BY <1>1, SchedulerAssumption, DivMod
<1>3. wordBits * q + r < wordBits * L2_BITMAP_SIZE
  BY <1>1, <1>2
<1> HIDE DEF q, r
<1>4. q < L2_BITMAP_SIZE
  BY <1>2, <1>3, SchedulerAssumption, Below
<1> QED BY SMTT(30), <1>2, <1>4, SchedulerAssumption DEF L1Indices, Bits, Bit, prio_to_l1index, q, r

LEMMA AtPlace ==
  ASSUME NEW l \in L1Indices, NEW b \in Bits
  PROVE  /\ wordBits * l + b \in Priorities
         /\ prio_to_l1index(wordBits * l + b) = l /\ Bit(wordBits * l + b) = b
<1>1. l \in Nat /\ b \in 0 .. wordBits - 1 /\ l < L2_BITMAP_SIZE
  BY SMTT(30), SchedulerAssumption DEF L1Indices, Bits
<1>2. wordBits * l + b \in Nat /\ wordBits * l + b < wordBits * L2_BITMAP_SIZE
  BY <1>1, SchedulerAssumption, Below
<1>3. (wordBits * l + b) \div wordBits = l /\ (wordBits * l + b) % wordBits = b
  BY <1>1, SchedulerAssumption, DivUnique
<1> DEFINE p == wordBits * l + b
           size == wordBits * L2_BITMAP_SIZE
<1>4. size \in Nat /\ p \in Nat /\ p < size
  BY SMTT(30), <1>2, SchedulerAssumption
<1> HIDE DEF p, size
<1>5. p \in 0 .. size - 1
  BY SMTT(30), <1>4
<1> QED BY <1>3, <1>5 DEF Priorities, prio_to_l1index, Bit, p, size

\* A priority is known by its word and its bit.
LEMMA WordType ==
  ASSUME NEW p \in Priorities
  PROVE  Word(p) \in L1Indices
BY SMTT(30), PlaceOf, SchedulerAssumption DEF Word, invert_l1index, L1Indices

LEMMA SameWord ==
  ASSUME NEW p \in Priorities, NEW q \in Priorities, Word(p) = Word(q)
  PROVE  prio_to_l1index(p) = prio_to_l1index(q) /\ (Bit(p) = Bit(q) => p = q)
<1>1. prio_to_l1index(p) \in Int /\ prio_to_l1index(q) \in Int
  BY SMTT(30), PlaceOf, SchedulerAssumption DEF L1Indices
<1>2. prio_to_l1index(p) = prio_to_l1index(q)
  BY SMTT(30), <1>1, SchedulerAssumption DEF Word, invert_l1index
<1> QED BY <1>2, PlaceOf

\* The order of priorities is that of their words and then of their bits.
LEMMA PlaceOrder ==
  ASSUME NEW l \in L1Indices, NEW b \in Bits, NEW p \in Priorities,
         prio_to_l1index(p) <= l, prio_to_l1index(p) = l => Bit(p) <= b
  PROVE  p <= wordBits * l + b
<1> DEFINE m == prio_to_l1index(p)
           c == Bit(p)
<1>1. m \in L1Indices /\ c \in Bits /\ p = wordBits * m + c /\ m <= l /\ (m = l => c <= b)
  BY PlaceOf
<1> HIDE DEF m, c
<1>2. m \in Nat /\ l \in Nat /\ c \in 0 .. wordBits - 1 /\ b \in 0 .. wordBits - 1
  BY SMTT(30), <1>1, SchedulerAssumption DEF L1Indices, Bits
<1>3. CASE m = l
  BY SMTT(30), <1>1, <1>2, <1>3, SchedulerAssumption
<1>4. CASE m < l
  <2>1. wordBits * m + c < wordBits * l
    BY <1>2, <1>4, SchedulerAssumption, Below
  <2>2. wordBits * m \in Nat /\ wordBits * l \in Nat
    BY SMTT(30), <1>2, SchedulerAssumption
  <2> QED BY SMTT(30), <1>1, <1>2, <2>1, <2>2
<1> QED BY SMTT(30), <1>1, <1>2, <1>3, <1>4

-----------------------------------------------------------------------------
(***************************************************************************)
(* Ready queues.                                                           *)
(***************************************************************************)
LEMMA Members ==
  ASSUME NEW q \in Seq(Threads)
  PROVE  /\ q = << >> <=> Elems(q) = {}
         /\ q # << >> => Head(q) \in Elems(q)
         /\ Elems(q) \subseteq Threads
<1>1. Len(q) \in Nat /\ DOMAIN q = 1 .. Len(q)
  BY SMTT(30)
<1>2. q # << >> => Len(q) > 0 /\ Head(q) = q[1]
  BY SMTT(30)
<1>3. q # << >> => Head(q) \in Elems(q)
  BY SMTT(30), <1>1, <1>2 DEF Elems
<1>4. q = << >> => Elems(q) = {}
  BY SMTT(30) DEF Elems
<1>5. Elems(q) \subseteq Threads
  BY SMTT(30), <1>1 DEF Elems
<1> QED BY <1>3, <1>4, <1>5

Extended(q, t, r) ==
    r \in Seq(Threads) /\ Once(r) /\ Elems(r) = Elems(q) \cup {t} /\ r # << >>

LEMMA Appended ==
  ASSUME NEW q \in Seq(Threads), NEW t \in Threads, t \notin Elems(q), Once(q)
  PROVE  Extended(q, t, Append(q, t))
<1> DEFINE a == Append(q, t)
<1>1. /\ a \in Seq(Threads) /\ DOMAIN a = 1 .. Len(q) + 1
      /\ a[Len(q) + 1] = t /\ \A i \in 1 .. Len(q) : a[i] = q[i]
  BY SMTT(30)
<1>2. Len(q) \in Nat /\ DOMAIN q = 1 .. Len(q)
  BY SMTT(30)
<1> HIDE DEF a
<1>3. Elems(a) = Elems(q) \cup {t}
  BY SMTT(30), <1>1, <1>2 DEF Elems
<1>4. ASSUME NEW i \in DOMAIN a, NEW j \in DOMAIN a, a[i] = a[j] PROVE i = j
  BY SMTT(30), <1>4, <1>1, <1>2 DEF Elems, Once
<1>5. a # << >>
  BY SMTT(30), <1>1, <1>2
<1> QED BY <1>1, <1>3, <1>4, <1>5 DEF Extended, Once, a

LEMMA Prepended ==
  ASSUME NEW q \in Seq(Threads), NEW t \in Threads, t \notin Elems(q), Once(q)
  PROVE  Extended(q, t, << t >> \o q)
<1> DEFINE a == << t >> \o q
<1>0. Len(q) \in Nat /\ DOMAIN q = 1 .. Len(q) /\ << t >> \in Seq(Threads)
      /\ Len(<< t >>) = 1 /\ << t >>[1] = t
  BY SMTT(30)
<1>1. /\ a \in Seq(Threads) /\ Len(a) = 1 + Len(q)
      /\ \A i \in 1 .. 1 + Len(q) : a[i] = IF i <= 1 THEN << t >>[i] ELSE q[i - 1]
  BY SMTT(30), <1>0
<1> HIDE DEF a
<1>2. DOMAIN a = 1 .. 1 + Len(q) /\ a[1] = t /\ \A i \in 2 .. 1 + Len(q) : a[i] = q[i - 1]
  BY SMTT(30), <1>0, <1>1
<1>3. Elems(a) = Elems(q) \cup {t}
  <2>1. ASSUME NEW x \in Elems(a) PROVE x \in Elems(q) \cup {t}
    <3>1. PICK i \in 1 .. 1 + Len(q) : x = a[i]
      BY <1>2, <2>1 DEF Elems
    <3>2. CASE i = 1
      BY <1>2, <3>1, <3>2
    <3>3. CASE i # 1
      <4>1. i - 1 \in DOMAIN q /\ x = q[i - 1]
        BY SMTT(30), <1>0, <1>2, <3>1, <3>3
      <4> QED BY <4>1 DEF Elems
    <3> QED BY <3>2, <3>3
  <2>2. ASSUME NEW x \in Elems(q) PROVE x \in Elems(a)
    <3>1. PICK i \in 1 .. Len(q) : x = q[i]
      BY <1>0, <2>2 DEF Elems
    <3>2. i + 1 \in DOMAIN a /\ a[i + 1] = x
      BY SMTT(30), <1>0, <1>2, <3>1
    <3> QED BY <3>2 DEF Elems
  <2>3. t \in Elems(a)
    <3>1. 1 \in DOMAIN a
      BY SMTT(30), <1>0, <1>2
    <3> QED BY <1>2, <3>1 DEF Elems
  <2> QED BY <2>1, <2>2, <2>3
<1>4. ASSUME NEW i \in DOMAIN a, NEW j \in DOMAIN a, a[i] = a[j], i < j PROVE FALSE
  <2>1. i \in 1 .. 1 + Len(q) /\ j \in 2 .. 1 + Len(q) /\ a[j] = q[j - 1] /\ j - 1 \in DOMAIN q
    BY SMTT(30), <1>0, <1>2, <1>4
  <2>2. CASE i = 1
    BY <1>2, <1>4, <2>1, <2>2 DEF Elems
  <2>3. CASE i # 1
    <3>1. i - 1 \in DOMAIN q /\ a[i] = q[i - 1]
      BY SMTT(30), <1>0, <1>2, <2>1, <2>3
    <3>2. i - 1 = j - 1
      BY <1>4, <2>1, <3>1 DEF Once
    <3> QED BY SMTT(30), <1>4, <2>1, <3>2
  <2> QED BY <2>2, <2>3
<1>5. Once(a)
  <2> SUFFICES ASSUME NEW i \in DOMAIN a, NEW j \in DOMAIN a, a[i] = a[j] PROVE i = j
    BY DEF Once
  <2>1. ~(i < j) /\ ~(j < i) /\ i \in Int /\ j \in Int
    BY SMTT(30), <1>0, <1>2, <1>4
  <2> QED BY SMTT(30), <2>1
<1>6. a # << >>
  BY SMTT(30), <1>0, <1>1
<1> QED BY <1>1, <1>3, <1>5, <1>6 DEF Extended, a

LEMMA Removed ==
  ASSUME NEW q \in Seq(Threads), NEW t \in Elems(q), Once(q)
  PROVE  /\ Without(q, t) \in Seq(Threads) /\ Once(Without(q, t))
         /\ Elems(Without(q, t)) = Elems(q) \ {t}
<1> DEFINE at == CHOOSE i \in DOMAIN q : q[i] = t
           d  == [i \in 1 .. Len(q) - 1 |-> IF i < at THEN q[i] ELSE q[i + 1]]
<1>1. at \in DOMAIN q /\ q[at] = t
  BY DEF Elems
<1>2. Len(q) \in Nat /\ DOMAIN q = 1 .. Len(q) /\ \A i \in 1 .. Len(q) : q[i] \in Threads
  BY SMTT(30)
<1> HIDE DEF at
<1>3. Len(q) - 1 \in Nat /\ \A i \in 1 .. Len(q) - 1 : d[i] \in Threads
  BY SMTT(30), <1>1, <1>2
<1>4. d \in Seq(Threads)
  BY SMTT(30), <1>3
<1>5. Elems(d) = Elems(q) \ {t}
  <2>1. ASSUME NEW x \in Elems(d) PROVE x \in Elems(q) \ {t}
    <3>1. PICK i \in 1 .. Len(q) - 1 : x = IF i < at THEN q[i] ELSE q[i + 1]
      BY <2>1 DEF Elems
    <3> QED BY SMTT(30), <1>1, <1>2, <3>1 DEF Elems, Once
  <2>2. ASSUME NEW x \in Elems(q) \ {t} PROVE x \in Elems(d)
    <3>1. PICK i \in DOMAIN q : x = q[i]
      BY <2>2 DEF Elems
    <3>2. i # at
      BY <3>1, <1>1
    <3>3. CASE i < at
      BY SMTT(30), <3>1, <3>3, <1>1, <1>2 DEF Elems
    <3>4. CASE i > at
      <4>1. i - 1 \in 1 .. Len(q) - 1 /\ d[i - 1] = x
        BY SMTT(30), <3>1, <3>4, <1>1, <1>2
      <4> QED BY <4>1 DEF Elems
    <3> QED BY SMTT(30), <3>2, <3>3, <3>4, <1>1, <1>2
  <2> QED BY <2>1, <2>2
<1>6. ASSUME NEW i \in DOMAIN d, NEW j \in DOMAIN d, d[i] = d[j] PROVE i = j
  BY SMTT(30), <1>6, <1>1, <1>2 DEF Once
<1>7. d = Without(q, t)
  BY DEF Without, at
<1> HIDE DEF d
<1> QED BY <1>4, <1>5, <1>6, <1>7 DEF Once

-----------------------------------------------------------------------------
(***************************************************************************)
(* Changes of the ready queues keep queues and bitmaps together.           *)
(***************************************************************************)
Same(e, s) ==
    /\ e.ts = s.ts /\ e.prio = s.prio /\ e.slice = s.slice
    /\ e.cur = s.cur /\ e.action = s.action /\ e.failed = s.failed

\* The queue of one priority changes, and becomes r.
Requeued(s, e, p, r) ==
    /\ e \in States /\ ~e.failed /\ p \in Priorities /\ r \in Seq(Threads)
    /\ e.ready = [s.ready EXCEPT ![p] = r] /\ e.prio = s.prio
    /\ \A u \in Threads : s.prio[u] # p => (e.queued[u] <=> s.queued[u])
    /\ Once(r) /\ Elems(r) = {u \in Threads : e.queued[u] /\ e.prio[u] = p}
    /\ Bitmaps(e)

LEMMA QueueChanged ==
  ASSUME NEW s, Sound(s), NEW e, NEW p, NEW r, Requeued(s, e, p, r)
  PROVE  Sound(e)
<1> USE DEF Requeued
<1>1. s \in States /\ Queues(s)
  BY DEF Sound
<1>2. s.ready \in [Priorities -> Seq(Threads)]
  BY <1>1 DEF States
<1>3. ASSUME NEW x \in Priorities
      PROVE  Once(e.ready[x]) /\ Elems(e.ready[x]) = {u \in Threads : e.queued[u] /\ e.prio[u] = x}
  <2>1. CASE x = p
    BY <1>2, <2>1
  <2>2. CASE x # p
    <3>1. e.ready[x] = s.ready[x]
      BY <1>2, <2>2
    <3> QED BY SMTT(30), <1>1, <2>2, <3>1 DEF Queues
  <2> QED BY <2>1, <2>2
<1> QED BY <1>3 DEF Sound, Queues

LEMMA AddBits ==
  ASSUME NEW s \in States, NEW p \in Priorities, NEW b, b = addToBitmap(s, p)
  PROVE  /\ b \in States /\ Same(b, s) /\ b.ready = s.ready /\ b.queued = s.queued
         /\ b.L1 = s.L1 \cup {prio_to_l1index(p)}
         /\ b.L2 = [s.L2 EXCEPT ![Word(p)] = s.L2[Word(p)] \cup {Bit(p)}]
<1> DEFINE one == s.L1 \cup {prio_to_l1index(p)}
           two == [s.L2 EXCEPT ![Word(p)] = s.L2[Word(p)] \cup {Bit(p)}]
<1>1. prio_to_l1index(p) \in L1Indices /\ Word(p) \in L1Indices /\ Bit(p) \in Bits
  BY PlaceOf, WordType
<1>2. one \in SUBSET L1Indices /\ two \in [L1Indices -> SUBSET Bits]
  BY <1>1 DEF States
<1>3. b = [s EXCEPT !.L1 = one, !.L2 = two]
  BY DEF addToBitmap, Word, Bit, States
<1> HIDE DEF one, two
<1>4. b \in States
  BY <1>2, <1>3 DEF States
<1>5. Same(b, s) /\ b.ready = s.ready /\ b.queued = s.queued /\ b.L1 = one /\ b.L2 = two
  BY <1>3 DEF States, Same
<1> QED BY <1>4, <1>5 DEF one, two

EnqueuedAt(s, t, q, e, p) ==
    /\ e \in States /\ Same(e, s)
    /\ e.ready = [s.ready EXCEPT ![p] = q] /\ e.queued = [s.queued EXCEPT ![t] = TRUE]
    /\ s.ready[p] # << >> => e.L1 = s.L1 /\ e.L2 = s.L2
    /\ s.ready[p] = << >> => /\ e.L1 = s.L1 \cup {prio_to_l1index(p)}
                             /\ e.L2 = [s.L2 EXCEPT ![Word(p)] = s.L2[Word(p)] \cup {Bit(p)}]

LEMMA EnqueueFields ==
  ASSUME NEW s \in States, NEW t \in Threads, NEW q \in Seq(Threads), ~s.queued[t],
         NEW e, e = Enqueued(s, t, q), NEW p \in Priorities, p = s.prio[t]
  PROVE  EnqueuedAt(s, t, q, e, p)
<1> DEFINE b == IF s.ready[p] = << >> THEN addToBitmap(s, p) ELSE s
<1>1. /\ b \in States /\ Same(b, s) /\ b.ready = s.ready /\ b.queued = s.queued
      /\ s.ready[p] # << >> => b.L1 = s.L1 /\ b.L2 = s.L2
      /\ s.ready[p] = << >> => /\ b.L1 = s.L1 \cup {prio_to_l1index(p)}
                               /\ b.L2 = [s.L2 EXCEPT ![Word(p)] = s.L2[Word(p)] \cup {Bit(p)}]
  <2>1. CASE s.ready[p] = << >>
    BY SMTT(30), <2>1, AddBits
  <2>2. CASE s.ready[p] # << >>
    BY <2>2 DEF Same
  <2> QED BY <2>1, <2>2
<1>2. e = [b EXCEPT !.ready[p] = q, !.queued[t] = TRUE]
  BY DEF Enqueued
<1> HIDE DEF b
<1>3. /\ b.ready \in [Priorities -> Seq(Threads)] /\ b.queued \in [Threads -> BOOLEAN]
      /\ [b.ready EXCEPT ![p] = q] \in [Priorities -> Seq(Threads)]
      /\ [b.queued EXCEPT ![t] = TRUE] \in [Threads -> BOOLEAN]
  BY <1>1 DEF States
<1>4. /\ e = [b EXCEPT !.ready = [b.ready EXCEPT ![p] = q], !.queued = [b.queued EXCEPT ![t] = TRUE]]
  BY <1>1, <1>2 DEF States
<1>5. /\ Same(e, b) /\ e.L1 = b.L1 /\ e.L2 = b.L2
      /\ e.ready = [b.ready EXCEPT ![p] = q] /\ e.queued = [b.queued EXCEPT ![t] = TRUE]
  BY <1>1, <1>4 DEF States, Same
<1>6. e \in States
  BY <1>1, <1>3, <1>4 DEF States
<1> QED BY <1>1, <1>5, <1>6 DEF Same, EnqueuedAt

LEMMA EnqueueSound ==
  ASSUME NEW s, Sound(s), NEW t \in Threads, NEW q,
         ~s.queued[t] => Extended(s.ready[s.prio[t]], t, q),
         NEW e, e = Enqueued(s, t, q)
  PROVE  Sound(e) /\ Same(e, s) /\ e.queued = [s.queued EXCEPT ![t] = TRUE]
<1>0. s \in States /\ Queues(s) /\ Bitmaps(s) /\ ~s.failed
  BY DEF Sound
<1>1. CASE s.queued[t]
  <2>1. e = s
    BY <1>1 DEF Enqueued
  <2>2. s.queued \in [Threads -> BOOLEAN]
    BY <1>0 DEF States
  <2>3. s.queued = [s.queued EXCEPT ![t] = TRUE]
    BY <1>1, <2>2
  <2> QED BY <2>1, <2>3 DEF Same
<1>2. CASE ~s.queued[t]
  <2> DEFINE p == s.prio[t]
  <2>0. p \in Priorities /\ Extended(s.ready[p], t, q) /\ s.ready \in [Priorities -> Seq(Threads)]
        /\ s.queued \in [Threads -> BOOLEAN] /\ s.L2 \in [L1Indices -> SUBSET Bits]
    BY <1>0, <1>2 DEF States
  <2>1. q \in Seq(Threads) /\ Once(q) /\ q # << >> /\ Elems(q) = Elems(s.ready[p]) \cup {t}
    BY <2>0 DEF Extended
  <2>2. p = s.prio[t]
    OBVIOUS
  <2> HIDE DEF p
  <2>3. /\ e \in States /\ Same(e, s)
        /\ e.ready = [s.ready EXCEPT ![p] = q] /\ e.queued = [s.queued EXCEPT ![t] = TRUE]
        /\ s.ready[p] # << >> => e.L1 = s.L1 /\ e.L2 = s.L2
        /\ s.ready[p] = << >> => /\ e.L1 = s.L1 \cup {prio_to_l1index(p)}
                                 /\ e.L2 = [s.L2 EXCEPT ![Word(p)] = s.L2[Word(p)] \cup {Bit(p)}]
    <3>1. EnqueuedAt(s, t, q, e, p)
      BY <1>0, <1>2, <2>0, <2>1, <2>2, EnqueueFields
    <3> QED BY <3>1 DEF EnqueuedAt
  <2>4. e.ready[p] = q /\ \A x \in Priorities : x # p => e.ready[x] = s.ready[x]
    BY <2>0, <2>3
  <2>5. Bitmaps(e)
    <3>1. CASE s.ready[p] # << >>
      <4>1. e.L1 = s.L1 /\ e.L2 = s.L2 /\ \A x \in Priorities : e.ready[x] = << >> <=> s.ready[x] = << >>
        BY <2>1, <2>3, <2>4, <3>1
      <4> QED BY <1>0, <4>1 DEF Bitmaps
    <3>2. CASE s.ready[p] = << >>
      <4>0. /\ e.L1 = s.L1 \cup {prio_to_l1index(p)}
            /\ e.L2 = [s.L2 EXCEPT ![Word(p)] = s.L2[Word(p)] \cup {Bit(p)}]
        BY <2>3, <3>2
      <4>1. ASSUME NEW x \in Priorities
            PROVE  /\ Bit(x) \in e.L2[Word(x)] <=> e.ready[x] # << >>
                   /\ e.ready[x] # << >> => prio_to_l1index(x) \in e.L1
        <5>1. CASE x = p
          BY <2>0, <2>1, <2>4, <4>0, <5>1, WordType
        <5>2. CASE x # p
          <6>1. Bit(x) \in e.L2[Word(x)] <=> Bit(x) \in s.L2[Word(x)]
            BY <2>0, <4>0, <5>2, WordType, SameWord
          <6> QED BY <1>0, <2>4, <4>0, <5>2, <6>1 DEF Bitmaps
        <5> QED BY <5>1, <5>2
      <4>2. ASSUME NEW l \in e.L1
            PROVE  \E x \in Priorities : prio_to_l1index(x) = l /\ e.ready[x] # << >>
        <5>1. CASE l = prio_to_l1index(p)
          BY <2>0, <2>1, <2>4, <5>1
        <5>2. CASE l \in s.L1
          <6>1. PICK x \in Priorities : prio_to_l1index(x) = l /\ s.ready[x] # << >>
            BY <1>0, <5>2 DEF Bitmaps
          <6> QED BY <2>4, <3>2, <6>1
        <5> QED BY <4>0, <5>1, <5>2
      <4> QED BY <4>1, <4>2 DEF Bitmaps
    <3> QED BY <3>1, <3>2
  <2>6. ~e.failed /\ e.prio = s.prio
    BY <1>0, <2>3 DEF Same
  <2>7. \A u \in Threads : s.prio[u] # p => (e.queued[u] <=> s.queued[u])
    BY <2>0, <2>2, <2>3
  <2>8. Elems(q) = {u \in Threads : e.queued[u] /\ e.prio[u] = p}
    <3>1. Elems(s.ready[p]) = {u \in Threads : s.queued[u] /\ s.prio[u] = p}
      BY <1>0, <2>0 DEF Queues
    <3>2. \A u \in Threads : e.queued[u] <=> s.queued[u] \/ u = t
      BY <2>0, <2>3
    <3> QED BY <2>1, <2>2, <2>6, <3>1, <3>2
  <2>9. Sound(e)
    <3>1. Requeued(s, e, p, q)
      BY <2>0, <2>1, <2>3, <2>5, <2>6, <2>7, <2>8 DEF Requeued
    <3> QED BY <3>1, QueueChanged
  <2> QED BY <2>3, <2>9
<1> QED BY <1>1, <1>2

LEMMA Enqueue ==
  ASSUME NEW s, Sound(s), NEW t \in Threads,
         NEW e, e \in {tcbSchedEnqueue(s, t), tcbSchedAppend(s, t)}
  PROVE  Sound(e) /\ Same(e, s) /\ e.queued = [s.queued EXCEPT ![t] = TRUE]
<1> DEFINE q == s.ready[s.prio[t]]
<1>1. ~s.queued[t] => q \in Seq(Threads) /\ t \notin Elems(q) /\ Once(q)
  BY SMTT(30) DEF Sound, States, Queues
<1>2. ~s.queued[t] => Extended(q, t, << t >> \o q) /\ Extended(q, t, Append(q, t))
  BY <1>1, Appended, Prepended
<1> QED BY <1>2, EnqueueSound DEF tcbSchedEnqueue, tcbSchedAppend

L1Without(s, p) == IF s.L2[Word(p)] \ {Bit(p)} = {} THEN s.L1 \ {prio_to_l1index(p)} ELSE s.L1
L2Without(s, p) == [s.L2 EXCEPT ![Word(p)] = s.L2[Word(p)] \ {Bit(p)}]

LEMMA RemoveBits ==
  ASSUME NEW s \in States, NEW p \in Priorities, NEW b, b = removeFromBitmap(s, p)
  PROVE  /\ b \in States /\ Same(b, s) /\ b.ready = s.ready /\ b.queued = s.queued
         /\ b.L1 = L1Without(s, p)
         /\ b.L2 = L2Without(s, p)
<1> DEFINE one == L1Without(s, p)
           two == L2Without(s, p)
<1>1. Word(p) \in L1Indices
  BY WordType
<1>2. one \in SUBSET L1Indices /\ two \in [L1Indices -> SUBSET Bits]
  BY <1>1 DEF States, L1Without, L2Without
<1>3. b = [s EXCEPT !.L1 = one, !.L2 = two]
  BY DEF removeFromBitmap, Word, Bit, States, L1Without, L2Without
<1> HIDE DEF one, two
<1>4. b \in States
  BY <1>2, <1>3 DEF States
<1>5. Same(b, s) /\ b.ready = s.ready /\ b.queued = s.queued /\ b.L1 = one /\ b.L2 = two
  BY <1>3 DEF States, Same
<1> QED BY <1>4, <1>5 DEF one, two

DequeuedAt(s, t, q, e, p) ==
    /\ e \in States /\ Same(e, s)
    /\ e.ready = [s.ready EXCEPT ![p] = q] /\ e.queued = [s.queued EXCEPT ![t] = FALSE]
    /\ q # << >> => e.L1 = s.L1 /\ e.L2 = s.L2
    /\ q = << >> =>
          /\ e.L1 = L1Without(s, p)
          /\ e.L2 = L2Without(s, p)

LEMMA DequeueFields ==
  ASSUME NEW s \in States, NEW t \in Threads, NEW q \in Seq(Threads), s.queued[t],
         q = Without(s.ready[s.prio[t]], t),
         NEW e, e = tcbSchedDequeue(s, t), NEW p \in Priorities, p = s.prio[t]
  PROVE  DequeuedAt(s, t, q, e, p)
<1> DEFINE b == IF q = << >> THEN removeFromBitmap(s, p) ELSE s
<1>1. /\ b \in States /\ Same(b, s) /\ b.ready = s.ready /\ b.queued = s.queued
      /\ q # << >> => b.L1 = s.L1 /\ b.L2 = s.L2
      /\ q = << >> =>
            /\ b.L1 = L1Without(s, p)
            /\ b.L2 = L2Without(s, p)
  <2>1. CASE q = << >>
    <3>1. b = removeFromBitmap(s, p)
      BY <2>1
    <3> HIDE DEF b
    <3>2. /\ b \in States /\ Same(b, s) /\ b.ready = s.ready /\ b.queued = s.queued
          /\ b.L1 = L1Without(s, p)
          /\ b.L2 = L2Without(s, p)
      BY SMTT(30), <3>1, RemoveBits
    <3> QED BY <2>1, <3>2
  <2>2. CASE q # << >>
    BY <2>2 DEF Same
  <2> QED BY <2>1, <2>2
<1>2. e = [b EXCEPT !.ready[p] = q, !.queued[t] = FALSE]
  BY DEF tcbSchedDequeue
<1> HIDE DEF b
<1>3. /\ b.ready \in [Priorities -> Seq(Threads)] /\ b.queued \in [Threads -> BOOLEAN]
      /\ [b.ready EXCEPT ![p] = q] \in [Priorities -> Seq(Threads)]
      /\ [b.queued EXCEPT ![t] = FALSE] \in [Threads -> BOOLEAN]
  BY <1>1 DEF States
<1>4. /\ e = [b EXCEPT !.ready = [b.ready EXCEPT ![p] = q], !.queued = [b.queued EXCEPT ![t] = FALSE]]
  BY <1>1, <1>2 DEF States
<1>5. /\ Same(e, b) /\ e.L1 = b.L1 /\ e.L2 = b.L2
      /\ e.ready = [b.ready EXCEPT ![p] = q] /\ e.queued = [b.queued EXCEPT ![t] = FALSE]
  BY <1>1, <1>4 DEF States, Same
<1>6. e \in States
  BY <1>1, <1>3, <1>4 DEF States
<1> QED BY <1>1, <1>5, <1>6 DEF Same, DequeuedAt

LEMMA Dequeue ==
  ASSUME NEW s, Sound(s), NEW t \in Threads, NEW e, e = tcbSchedDequeue(s, t)
  PROVE  Sound(e) /\ Same(e, s) /\ e.queued = [s.queued EXCEPT ![t] = FALSE]
<1>0. s \in States /\ Queues(s) /\ Bitmaps(s) /\ ~s.failed
  BY DEF Sound
<1>1. CASE ~s.queued[t]
  <2>1. e = s
    BY <1>1 DEF tcbSchedDequeue
  <2>2. s.queued \in [Threads -> BOOLEAN]
    BY <1>0 DEF States
  <2>3. s.queued = [s.queued EXCEPT ![t] = FALSE]
    BY <1>1, <2>2
  <2> QED BY <2>1, <2>3 DEF Same
<1>2. CASE s.queued[t]
  <2> DEFINE p == s.prio[t]
             q == Without(s.ready[p], t)
  <2>0. p \in Priorities /\ s.ready \in [Priorities -> Seq(Threads)]
        /\ s.queued \in [Threads -> BOOLEAN] /\ s.L2 \in [L1Indices -> SUBSET Bits]
        /\ s.ready[p] \in Seq(Threads)
    BY <1>0 DEF States
  <2>1. t \in Elems(s.ready[p]) /\ Once(s.ready[p])
    BY <1>0, <1>2, <2>0 DEF Queues
  <2>2. q \in Seq(Threads) /\ Once(q) /\ Elems(q) = Elems(s.ready[p]) \ {t}
    BY <2>0, <2>1, Removed
  <2>3. s.ready[p] # << >>
    BY <2>0, <2>1, Members
  <2>4. p = s.prio[t] /\ q = Without(s.ready[s.prio[t]], t)
    OBVIOUS
  <2> HIDE DEF p, q
  <2>5. DequeuedAt(s, t, q, e, p)
    BY <1>0, <1>2, <2>0, <2>2, <2>4, DequeueFields
  <2>6. e.ready[p] = q /\ \A x \in Priorities : x # p => e.ready[x] = s.ready[x]
    BY <2>0, <2>5 DEF DequeuedAt
  <2>7. Bitmaps(e)
    <3>1. CASE q # << >>
      <4>1. e.L1 = s.L1 /\ e.L2 = s.L2 /\ \A x \in Priorities : e.ready[x] = << >> <=> s.ready[x] = << >>
        BY <2>3, <2>5, <2>6, <3>1 DEF DequeuedAt
      <4> QED BY <1>0, <4>1 DEF Bitmaps
    <3>2. CASE q = << >>
      <4>0. /\ e.L1 = IF s.L2[Word(p)] \ {Bit(p)} = {} THEN s.L1 \ {prio_to_l1index(p)} ELSE s.L1
            /\ e.L2 = [s.L2 EXCEPT ![Word(p)] = s.L2[Word(p)] \ {Bit(p)}]
        BY <2>5, <3>2 DEF DequeuedAt, L1Without, L2Without
      <4>1. ASSUME NEW x \in Priorities
            PROVE  Bit(x) \in e.L2[Word(x)] <=> e.ready[x] # << >>
        <5>1. CASE x = p
          BY <2>0, <2>6, <3>2, <4>0, <5>1, WordType
        <5>2. CASE x # p
          <6>1. Bit(x) \in e.L2[Word(x)] <=> Bit(x) \in s.L2[Word(x)]
            BY <2>0, <4>0, <5>2, WordType, SameWord
          <6> QED BY <1>0, <2>6, <5>2, <6>1 DEF Bitmaps
        <5> QED BY <5>1, <5>2
      <4>2. ASSUME NEW x \in Priorities, e.ready[x] # << >>
            PROVE  prio_to_l1index(x) \in e.L1
        <5>1. x # p /\ s.ready[x] # << >> /\ prio_to_l1index(x) \in s.L1 /\ Bit(x) \in s.L2[Word(x)]
          BY <1>0, <2>6, <3>2, <4>2 DEF Bitmaps
        <5>2. CASE prio_to_l1index(x) # prio_to_l1index(p)
          BY <4>0, <5>1, <5>2
        <5>3. CASE prio_to_l1index(x) = prio_to_l1index(p)
          <6>1. Word(x) = Word(p) /\ Bit(x) # Bit(p)
            BY <2>0, <5>1, <5>3, SameWord DEF Word
          <6> QED BY <4>0, <5>1, <6>1
        <5> QED BY <5>2, <5>3
      <4>3. ASSUME NEW l \in e.L1
            PROVE  \E x \in Priorities : prio_to_l1index(x) = l /\ e.ready[x] # << >>
        <5>1. l \in s.L1
          BY <4>0
        <5>2. PICK x \in Priorities : prio_to_l1index(x) = l /\ s.ready[x] # << >>
          BY <1>0, <5>1 DEF Bitmaps
        <5>3. CASE x # p
          BY <2>6, <5>2, <5>3
        <5>4. CASE x = p
          <6>1. PICK b \in s.L2[Word(p)] : b # Bit(p)
            BY <4>0, <5>2, <5>4
          <6>2. b \in Bits /\ l \in L1Indices
            BY <2>0, <5>2, <6>1, WordType, PlaceOf
          <6>3. PICK y \in Priorities : prio_to_l1index(y) = l /\ Bit(y) = b
            BY <6>2, AtPlace
          <6>4. y # p /\ Word(y) = Word(p)
            BY <5>2, <5>4, <6>1, <6>3 DEF Word
          <6>5. s.ready[y] # << >>
            BY <1>0, <6>1, <6>3, <6>4 DEF Bitmaps
          <6> QED BY <2>6, <6>3, <6>4, <6>5
        <5> QED BY <5>3, <5>4
      <4> QED BY <4>1, <4>2, <4>3 DEF Bitmaps
    <3> QED BY <3>1, <3>2
  <2>8. ~e.failed /\ e.prio = s.prio
    BY <1>0, <2>5 DEF Same, DequeuedAt
  <2>9. \A u \in Threads : s.prio[u] # p => (e.queued[u] <=> s.queued[u])
    BY <2>0, <2>4, <2>5 DEF DequeuedAt
  <2>10. Elems(q) = {u \in Threads : e.queued[u] /\ e.prio[u] = p}
    <3>1. Elems(s.ready[p]) = {u \in Threads : s.queued[u] /\ s.prio[u] = p}
      BY <1>0, <2>0 DEF Queues
    <3>2. \A u \in Threads : e.queued[u] <=> s.queued[u] /\ u # t
      BY <2>0, <2>5 DEF DequeuedAt
    <3> QED BY <2>2, <2>8, <3>1, <3>2
  <2>11. Sound(e)
    <3>1. Requeued(s, e, p, q)
      BY <2>0, <2>2, <2>5, <2>7, <2>8, <2>9, <2>10 DEF Requeued, DequeuedAt
    <3> QED BY <3>1, QueueChanged
  <2> QED BY <2>5, <2>11 DEF DequeuedAt
<1> QED BY <1>1, <1>2

-----------------------------------------------------------------------------
(***************************************************************************)
(* The choice of a thread.                                                 *)
(***************************************************************************)
\* Of a set of naturals that is not empty one is the least: needed for clzl,
\* and for the loops over threads.
INSTANCE WellFoundedInduction

\* clzl finds the highest bit.
LEMMA HighestOf ==
  ASSUME NEW n \in Nat, NEW S \in SUBSET (0 .. n - 1), S # {}
  PROVE  HighestBit(S) \in S /\ \A y \in S : y <= HighestBit(S)
<1> DEFINE T == {n - x : x \in S}
<1>0. PICK x0 \in S : TRUE
  OBVIOUS
<1>1. T \subseteq Nat /\ n - x0 \in T
  <2>1. \A x \in S : x \in 0 .. n - 1 /\ n - x \in Nat
    BY SMTT(30)
  <2> QED BY <2>1
<1> HIDE DEF T
<1>2. PICK y \in T : \A z \in T : ~(<<z, y>> \in OpToRel(<, Nat))
  BY <1>1, NatLessThanWellFounded, WFMin
<1>3. \A z \in T : y <= z
  <2> SUFFICES ASSUME NEW z \in T PROVE ~(z < y)
    BY SMTT(30), <1>1
  <2>1. <<z, y>> \notin {x \in Nat \X Nat : x[1] < x[2]}
    BY <1>2 DEF OpToRel
  <2> QED BY <1>1, <2>1
<1>4. PICK x \in S : y = n - x
  BY DEF T
<1>5. \A z \in S : z <= x
  <2> SUFFICES ASSUME NEW z \in S PROVE z <= x
    OBVIOUS
  <2>1. n - x <= n - z
    BY <1>3, <1>4 DEF T
  <2> QED BY SMTT(30), <2>1
<1>6. \E w \in S : \A z \in S : w >= z
  BY <1>5
<1>7. Max(S) \in S /\ \A z \in S : Max(S) >= z
  BY <1>6 DEF Max
<1> QED BY <1>7 DEF HighestBit

LEMMA HighestPrio ==
  ASSUME NEW s, Sound(s), s.L1 # {}
  PROVE  /\ getHighestPrio(s) \in Priorities /\ s.ready[getHighestPrio(s)] # << >>
         /\ \A x \in Priorities : s.ready[x] # << >> => x <= getHighestPrio(s)
<1> DEFINE l == HighestBit(s.L1)
           word == s.L2[invert_l1index(l)]
           b == HighestBit(word)
           h == wordBits * l + b
<1>0. s \in States /\ Bitmaps(s) /\ s.L1 \in SUBSET (0 .. L2_BITMAP_SIZE - 1) /\ L2_BITMAP_SIZE \in Nat
      /\ wordBits \in Nat
  BY SchedulerAssumption DEF Sound, States, L1Indices
<1>1. l \in s.L1 /\ (\A y \in s.L1 : y <= l) /\ l \in L1Indices
  BY <1>0, HighestOf DEF L1Indices
<1> HIDE DEF l
<1>2. PICK p \in Priorities : prio_to_l1index(p) = l /\ s.ready[p] # << >>
  BY <1>0, <1>1 DEF Bitmaps
<1>3. Word(p) = invert_l1index(l) /\ invert_l1index(l) \in L1Indices /\ Bit(p) \in word
  BY <1>0, <1>2, WordType DEF Word, Bitmaps
<1>4. word \in SUBSET (0 .. wordBits - 1) /\ word # {}
  BY <1>0, <1>3 DEF States, Bits
<1>5. b \in word /\ (\A y \in word : y <= b) /\ b \in Bits
  <2> HIDE DEF word
  <2> QED BY <1>0, <1>4, HighestOf DEF Bits
<1> HIDE DEF b
<1>6. h \in Priorities /\ prio_to_l1index(h) = l /\ Bit(h) = b
  BY <1>1, <1>5, AtPlace
<1>7. h = getHighestPrio(s)
  BY DEF getHighestPrio, l, b
<1> HIDE DEF h
<1>8. s.ready[h] # << >>
  BY <1>0, <1>5, <1>6 DEF Bitmaps, Word
<1>9. ASSUME NEW x \in Priorities, s.ready[x] # << >> PROVE x <= h
  <2>1. prio_to_l1index(x) \in s.L1 /\ Bit(x) \in s.L2[Word(x)]
    BY <1>0, <1>9 DEF Bitmaps
  <2>2. prio_to_l1index(x) <= l
    BY <1>1, <2>1
  <2>3. prio_to_l1index(x) = l => Bit(x) <= b
    BY <1>5, <2>1 DEF Word
  <2> QED BY <1>1, <1>5, <2>2, <2>3, PlaceOrder DEF h
<1> QED BY <1>6, <1>7, <1>8, <1>9

\* A marked thread is in the queue of its priority.
LEMMA InQueue ==
  ASSUME NEW s, Sound(s), NEW t \in Threads, s.queued[t]
  PROVE  s.prio[t] \in Priorities /\ s.ready[s.prio[t]] # << >>
<1>1. s.prio[t] \in Priorities /\ s.ready[s.prio[t]] \in Seq(Threads) /\ Queues(s)
  BY DEF Sound, States
<1>2. t \in Elems(s.ready[s.prio[t]])
  BY <1>1 DEF Queues
<1> QED BY <1>1, <1>2, Members

LEMMA QueuedPrio ==
  ASSUME NEW s, Sound(s), NEW t \in Threads, s.queued[t]
  PROVE  /\ s.L1 # {} /\ s.prio[t] <= getHighestPrio(s)
         /\ \A p \in Priorities : isHighestPrio(s, p) => s.prio[t] <= p
<1>1. s.prio[t] \in Priorities /\ s.ready[s.prio[t]] # << >>
  BY InQueue
<1>2. s.L1 # {}
  BY <1>1 DEF Sound, Bitmaps
<1>3. getHighestPrio(s) \in Priorities /\ s.prio[t] <= getHighestPrio(s)
  BY <1>1, <1>2, HighestPrio
<1>4. \A p \in Priorities : p \in Int
  BY SMTT(30), SchedulerAssumption DEF Priorities
<1> QED BY SMTT(30), <1>1, <1>2, <1>3, <1>4 DEF isHighestPrio

\* Only fields that the queues do not depend on change.
LEMMA Unmoved ==
  ASSUME NEW s, Sound(s), NEW e, e \in States, ~e.failed,
         e.ready = s.ready, e.queued = s.queued, e.prio = s.prio, e.L1 = s.L1, e.L2 = s.L2
  PROVE  Sound(e)
BY SMTT(30) DEF Sound, Queues, Bitmaps

LEMMA SwitchTo ==
  ASSUME NEW s, Sound(s), NEW t \in Threads, NEW e, e = switchToThread(s, t)
  PROVE  /\ Sound(e) /\ e.ts = s.ts /\ e.prio = s.prio /\ e.slice = s.slice /\ e.action = s.action
         /\ e.cur = t /\ e.queued = [s.queued EXCEPT ![t] = FALSE]
<1> DEFINE d == tcbSchedDequeue(s, t)
<1>1. Sound(d) /\ Same(d, s) /\ d.queued = [s.queued EXCEPT ![t] = FALSE]
  BY Dequeue
<1>2. e = [d EXCEPT !.cur = t]
  BY DEF switchToThread
<1> HIDE DEF d
<1>3. d \in States /\ ~d.failed
  BY <1>1 DEF Sound
<1>4. e \in States /\ e.ts = d.ts /\ e.prio = d.prio /\ e.slice = d.slice /\ e.action = d.action
      /\ e.cur = t /\ e.queued = d.queued /\ e.ready = d.ready /\ e.L1 = d.L1 /\ e.L2 = d.L2
      /\ e.failed = d.failed
  BY <1>2, <1>3 DEF States
<1>5. Sound(e)
  BY <1>1, <1>3, <1>4, Unmoved
<1> QED BY <1>1, <1>4, <1>5 DEF Same

LEMMA AssertTrue ==
  ASSUME NEW s \in States, ~s.failed, NEW holds, holds = TRUE
  PROVE  Assert_(s, holds) = s
<1>0. s.failed = FALSE
  BY DEF States
<1>1. (s.failed \/ ~holds) = FALSE
  BY <1>0
<1>2. Assert_(s, holds) = [s EXCEPT !.failed = FALSE]
  BY <1>1 DEF Assert_
<1> QED BY <1>0, <1>2 DEF States

Chosen(s, e) ==
    /\ Sound(e) /\ e.ts = s.ts /\ e.prio = s.prio /\ e.slice = s.slice /\ e.action = s.action
    /\ \/ e.cur = Idle /\ e.queued = s.queued /\ \A t \in Threads : ~s.queued[t]
       \/ /\ e.cur \in Threads /\ s.queued[e.cur] /\ e.queued = [s.queued EXCEPT ![e.cur] = FALSE]
          /\ \A t \in Threads : s.queued[t] => s.prio[t] <= s.prio[e.cur]

LEMMA ChooseThread ==
  ASSUME NEW s, Sound(s), \A t \in Threads : s.queued[t] => isRunnable(s, t),
         NEW e, e = chooseThread(s)
  PROVE  Chosen(s, e)
<1>0. s \in States /\ ~s.failed /\ Queues(s)
  BY DEF Sound
<1>1. CASE s.L1 = {}
  <2>1. e = [s EXCEPT !.cur = Idle]
    BY <1>1 DEF chooseThread
  <2>2. e \in States /\ e.ts = s.ts /\ e.prio = s.prio /\ e.slice = s.slice /\ e.action = s.action
        /\ e.cur = Idle /\ e.queued = s.queued /\ e.ready = s.ready /\ e.L1 = s.L1 /\ e.L2 = s.L2
        /\ e.failed = s.failed
    BY <1>0, <2>1 DEF States
  <2>3. Sound(e)
    BY <1>0, <2>2, Unmoved
  <2>4. \A t \in Threads : ~s.queued[t]
    BY <1>1, QueuedPrio
  <2> QED BY <2>2, <2>3, <2>4 DEF Chosen
<1>2. CASE s.L1 # {}
  <2> DEFINE h == getHighestPrio(s)
             t == Head(s.ready[h])
  <2>1. h \in Priorities /\ s.ready[h] # << >>
    BY <1>2, HighestPrio
  <2>2. s.ready[h] \in Seq(Threads)
    BY <1>0, <2>1 DEF States
  <2>3. t \in Elems(s.ready[h]) /\ Elems(s.ready[h]) = {u \in Threads : s.queued[u] /\ s.prio[u] = h}
    BY <1>0, <2>1, <2>2, Members DEF Queues
  <2>4. t \in Threads /\ s.queued[t] /\ s.prio[t] = h
    BY <2>3
  <2>5. Assert_(s, isRunnable(s, t)) = s
    <3>1. isRunnable(s, t) = TRUE
      BY <2>4 DEF isRunnable
    <3> QED BY <1>0, <3>1, AssertTrue
  <2>6. e = switchToThread(s, t)
    BY <1>2, <2>1, <2>5 DEF chooseThread
  <2>7. \A u \in Threads : s.queued[u] => s.prio[u] <= s.prio[t]
    BY <2>4, QueuedPrio
  <2> HIDE DEF t
  <2>8. /\ Sound(e) /\ e.ts = s.ts /\ e.prio = s.prio /\ e.slice = s.slice /\ e.action = s.action
        /\ e.cur = t /\ e.queued = [s.queued EXCEPT ![t] = FALSE]
    BY SMTT(30), <2>4, <2>6, SwitchTo
  <2> QED BY <2>4, <2>7, <2>8 DEF Chosen
<1> QED BY <1>1, <1>2

\* After schedule: what holds of the thread that is left to.
Settled(e) ==
    /\ Sound(e) /\ e.action = ResumeCurrentThread
    /\ \A t \in Threads : e.queued[t] <=> isRunnable(e, t) /\ t # e.cur
    /\ \A t \in Threads : isRunnable(e, t) => e.cur # Idle
    /\ e.cur # Idle => isRunnable(e, e.cur) /\ Highest(e, Idle)

\* The action is forgotten.
LEMMA Forget ==
  ASSUME NEW s, Sound(s), NEW a \in Threads \cup {ResumeCurrentThread, ChooseNewThread},
         NEW e, e = [s EXCEPT !.action = a]
  PROVE  /\ Sound(e) /\ e.ts = s.ts /\ e.prio = s.prio /\ e.slice = s.slice /\ e.cur = s.cur
         /\ e.queued = s.queued /\ e.action = a
<1>0. s \in States /\ ~s.failed
  BY DEF Sound
<1>1. e \in States /\ e.ts = s.ts /\ e.prio = s.prio /\ e.slice = s.slice /\ e.cur = s.cur
      /\ e.queued = s.queued /\ e.ready = s.ready /\ e.L1 = s.L1 /\ e.L2 = s.L2
      /\ e.failed = s.failed /\ e.action = a
  BY <1>0 DEF States
<1>2. Sound(e)
  BY <1>0, <1>1, Unmoved
<1> QED BY <1>1, <1>2

\* The choice among the marked threads, which are all the runnable ones.
LEMMA ChooseSettles ==
  ASSUME NEW s, Sound(s), \A t \in Threads : s.queued[t] <=> isRunnable(s, t),
         NEW e, e = [chooseThread(s) EXCEPT !.action = ResumeCurrentThread]
  PROVE  Settled(e)
<1> DEFINE c == chooseThread(s)
<1>1. Chosen(s, c)
  BY ChooseThread
<1> HIDE DEF c
<1>2. /\ Sound(e) /\ e.ts = c.ts /\ e.prio = c.prio /\ e.cur = c.cur
      /\ e.queued = c.queued /\ e.action = ResumeCurrentThread
  BY SMTT(30), <1>1, Forget DEF Chosen, c
<1>3. \A t \in Threads : isRunnable(e, t) <=> isRunnable(s, t)
  BY <1>1, <1>2 DEF isRunnable, Chosen
<1>4. s.queued \in [Threads -> BOOLEAN] /\ Idle \notin Threads
  BY SchedulerAssumption DEF Sound, States
<1>5. CASE c.cur = Idle
  <2>1. c.queued = s.queued /\ \A t \in Threads : ~s.queued[t]
    BY <1>1, <1>4, <1>5 DEF Chosen
  <2> QED BY <1>2, <1>3, <1>5, <2>1 DEF Settled
<1>6. CASE c.cur # Idle
  <2>1. /\ c.cur \in Threads /\ s.queued[c.cur] /\ c.queued = [s.queued EXCEPT ![c.cur] = FALSE]
        /\ \A t \in Threads : s.queued[t] => s.prio[t] <= s.prio[c.cur]
    BY <1>1, <1>6 DEF Chosen
  <2>2. \A t \in Threads : c.queued[t] <=> s.queued[t] /\ t # c.cur
    BY <1>4, <2>1
  <2>3. Highest(e, Idle) /\ isRunnable(e, e.cur)
    BY <1>1, <1>2, <1>3, <2>1 DEF Highest, Chosen
  <2> QED BY <1>2, <1>3, <1>6, <2>2, <2>3 DEF Settled
<1> QED BY <1>5, <1>6

LEMMA NoThread == /\ ResumeCurrentThread \notin Threads /\ ChooseNewThread \notin Threads
                  /\ ResumeCurrentThread # ChooseNewThread /\ Idle \notin Threads
BY SchedulerAssumption DEF ResumeCurrentThread, ChooseNewThread

LEMMA ScheduleSettles ==
  ASSUME NEW s, Ready(s), NEW e, e = schedule(s)
  PROVE  Settled(e)
<1> DEFINE z == IF isRunnable(s, s.cur) THEN tcbSchedEnqueue(s, s.cur) ELSE s
           c == s.action
<1>0. /\ Sound(s) /\ s \in States
      /\ \A t \in Threads : s.queued[t] => isRunnable(s, t)
      /\ \A t \in Threads : isRunnable(s, t) /\ t # s.cur => s.queued[t] \/ s.action = t
  BY DEF Ready, Kept, Sound
<1>t. /\ s.queued \in [Threads -> BOOLEAN] /\ s.prio \in [Threads -> Priorities]
      /\ s.cur \in Threads \cup {Idle} /\ c \in Threads \cup {ResumeCurrentThread, ChooseNewThread}
      /\ \A p \in Priorities : p \in Int
  BY SMTT(30), <1>0, SchedulerAssumption DEF States, Priorities
<1>z. /\ Sound(z) /\ Same(z, s)
      /\ \A t \in Threads : z.queued[t] <=> s.queued[t] \/ (isRunnable(s, t) /\ t = s.cur)
  <2>1. CASE isRunnable(s, s.cur)
    <3>1. z = tcbSchedEnqueue(s, s.cur) /\ s.cur \in Threads
      BY <2>1 DEF isRunnable
    <3> HIDE DEF z
    <3>2. Sound(z) /\ Same(z, s) /\ z.queued = [s.queued EXCEPT ![s.cur] = TRUE]
      BY <1>0, <3>1, Enqueue
    <3> QED BY <1>t, <2>1, <3>1, <3>2
  <2>2. CASE ~isRunnable(s, s.cur)
    BY <1>0, <2>2 DEF Same
  <2> QED BY <2>1, <2>2
<1>r. \A t \in Threads : isRunnable(z, t) <=> isRunnable(s, t)
  BY <1>z DEF Same, isRunnable
<1>1. CASE c = ResumeCurrentThread
  <2>1. e = [s EXCEPT !.action = ResumeCurrentThread]
    BY <1>1, NoThread DEF schedule
  <2>2. /\ Sound(e) /\ e.ts = s.ts /\ e.prio = s.prio /\ e.cur = s.cur
        /\ e.queued = s.queued /\ e.action = ResumeCurrentThread
    BY SMTT(30), <1>0, <2>1, Forget
  <2>3. \A t \in Threads : isRunnable(e, t) <=> isRunnable(s, t)
    BY <2>2 DEF isRunnable
  <2>4. /\ \A t \in Threads : isRunnable(s, t) => s.cur # Idle
        /\ s.cur # Idle => isRunnable(s, s.cur) /\ ~s.queued[s.cur] /\ Highest(s, Idle)
    BY <1>1 DEF Ready
  <2>5. \A t \in Threads : s.queued[t] <=> isRunnable(s, t) /\ t # s.cur
    BY <1>0, <1>1, <2>4, NoThread
  <2>6. e.cur # Idle => isRunnable(e, e.cur) /\ Highest(e, Idle)
    BY <1>t, <2>2, <2>3, <2>4 DEF Highest
  <2> QED BY <2>2, <2>3, <2>4, <2>5, <2>6 DEF Settled
<1>2. CASE c = ChooseNewThread
  <2>1. e = [chooseThread(z) EXCEPT !.action = ResumeCurrentThread]
    BY <1>2, NoThread DEF schedule
  <2>2. \A t \in Threads : z.queued[t] <=> isRunnable(z, t)
    BY <1>0, <1>2, <1>z, <1>r, NoThread
  <2> HIDE DEF z
  <2> QED BY <1>z, <2>1, <2>2, ChooseSettles
<1>3. CASE c \in Threads
  <2> DEFINE fastfail == s.cur = Idle \/ s.prio[c] < s.prio[s.cur]
             slow == fastfail /\ ~isHighestPrio(z, s.prio[c])
             equal == isRunnable(s, s.cur) /\ s.prio[c] = s.prio[s.cur]
  <2>1. isRunnable(s, c) /\ (s.cur # Idle => Highest(s, c))
    BY <1>3 DEF Ready
  <2>2. Assert_(z, isRunnable(z, c)) = z
    <3>1. isRunnable(z, c) = TRUE
      BY <1>3, <1>r, <2>1 DEF isRunnable
    <3>2. z \in States /\ ~z.failed
      BY <1>z DEF Sound
    <3> HIDE DEF z
    <3> QED BY <3>1, <3>2, AssertTrue
  <2>3. e = [(IF slow THEN chooseThread(tcbSchedEnqueue(z, c))
              ELSE IF equal THEN chooseThread(tcbSchedAppend(z, c))
              ELSE switchToThread(Assert_(z, c # s.cur), c)) EXCEPT !.action = ResumeCurrentThread]
    BY <1>3, <2>2, NoThread DEF schedule
  <2>4. z.queued \in [Threads -> BOOLEAN]
    BY <1>z DEF Sound, States
  <2>5. ASSUME NEW y, y \in {tcbSchedEnqueue(z, c), tcbSchedAppend(z, c)},
               e = [chooseThread(y) EXCEPT !.action = ResumeCurrentThread]
        PROVE  Settled(e)
    <3> HIDE DEF z, c
    <3>1. Sound(y) /\ Same(y, z) /\ y.queued = [z.queued EXCEPT ![c] = TRUE]
      BY SMTT(30), <1>3, <1>z, <2>5, Enqueue
    <3>2. \A t \in Threads : isRunnable(y, t) <=> isRunnable(s, t)
      BY <1>r, <3>1 DEF Same, isRunnable
    <3>3. \A t \in Threads : y.queued[t] <=> isRunnable(y, t)
      BY <1>0, <1>3, <1>z, <2>1, <2>4, <3>1, <3>2 DEF c
    <3> QED BY <2>5, <3>1, <3>3, ChooseSettles
  <2>6. CASE ~slow /\ ~equal
    <3>1. c # s.cur
      BY <2>1, <2>6
    <3>2. Assert_(z, c # s.cur) = z
      <4>1. (c # s.cur) = TRUE
        BY <3>1
      <4>2. z \in States /\ ~z.failed
        BY <1>z DEF Sound
      <4> HIDE DEF z, c
      <4> QED BY <4>1, <4>2, AssertTrue
    <3> DEFINE x == switchToThread(z, c)
    <3>3. e = [x EXCEPT !.action = ResumeCurrentThread]
      BY <2>3, <2>6, <3>2
    <3>4. /\ Sound(x) /\ x.ts = z.ts /\ x.prio = z.prio
          /\ x.cur = c /\ x.queued = [z.queued EXCEPT ![c] = FALSE]
      <4> HIDE DEF z, c
      <4> QED BY SMTT(30), <1>3, <1>z, SwitchTo
    <3> HIDE DEF x
    <3>5. /\ Sound(e) /\ e.ts = x.ts /\ e.prio = x.prio /\ e.cur = x.cur
          /\ e.queued = x.queued /\ e.action = ResumeCurrentThread
      BY SMTT(30), <3>3, <3>4, Forget
    <3>6. \A t \in Threads : isRunnable(e, t) <=> isRunnable(s, t)
      BY <1>z, <3>4, <3>5 DEF Same, isRunnable
    <3>7. \A t \in Threads : e.queued[t] <=> z.queued[t] /\ t # c
      BY SMTT(30), <2>4, <3>4, <3>5
    <3>8. \A t \in Threads : z.queued[t] \/ t = c <=> isRunnable(s, t)
      BY <1>0, <1>3, <1>z, <2>1
    <3>9. ASSUME NEW t \in Threads, isRunnable(s, t) PROVE s.prio[t] <= s.prio[c]
      <4>0. s.prio[t] \in Int /\ s.prio[c] \in Priorities /\ s.prio[c] \in Int
        BY <1>t, <1>3
      <4>1. CASE t = c
        BY SMTT(30), <4>0, <4>1
      <4>2. CASE t # c /\ isHighestPrio(z, s.prio[c])
        <5>1. z.queued[t] /\ z.prio = s.prio
          BY <1>z, <3>8, <3>9, <4>2 DEF Same
        <5> HIDE DEF z
        <5> QED BY <1>z, <4>0, <4>2, <5>1, QueuedPrio
      <4>3. CASE t # c /\ ~isHighestPrio(z, s.prio[c])
        <5>1. s.cur \in Threads /\ ~(s.prio[c] < s.prio[s.cur]) /\ Highest(s, c)
          BY <1>t, <2>1, <2>6, <4>3
        <5>2. s.prio[t] <= s.prio[s.cur] /\ s.prio[s.cur] \in Int
          BY <1>t, <3>9, <4>3, <5>1 DEF Highest
        <5> QED BY SMTT(30), <4>0, <5>1, <5>2
      <4> QED BY <4>1, <4>2, <4>3
    <3>10. e.cur = c /\ e.prio = s.prio
      BY <1>z, <3>4, <3>5 DEF Same
    <3>11. Highest(e, Idle) /\ isRunnable(e, e.cur) /\ e.cur # Idle
      BY <1>3, <2>1, <3>6, <3>9, <3>10, NoThread DEF Highest
    <3> QED BY <3>5, <3>6, <3>7, <3>8, <3>10, <3>11 DEF Settled
  <2> QED BY <2>3, <2>5, <2>6
<1> QED BY <1>t, <1>1, <1>2, <1>3

\* A thread's state changes.
StateSet(s, t, x, e) ==
    /\ Sound(e) /\ e.prio = s.prio /\ e.slice = s.slice /\ e.cur = s.cur
    /\ e.queued = s.queued /\ e.action = s.action /\ e.ts = [s.ts EXCEPT ![t] = x]

LEMMA SetState ==
  ASSUME NEW s, Sound(s), NEW t \in Threads, NEW x \in {"Running", "Restart", "Blocked", "Inactive"},
         NEW e, e = [s EXCEPT !.ts[t] = x]
  PROVE  StateSet(s, t, x, e)
<1>0. s \in States /\ ~s.failed /\ s.ts \in [Threads -> {"Running", "Restart", "Blocked", "Inactive"}]
  BY DEF Sound, States
<1> DEFINE ts == [s.ts EXCEPT ![t] = x]
<1>1. ts \in [Threads -> {"Running", "Restart", "Blocked", "Inactive"}] /\ e = [s EXCEPT !.ts = ts]
  BY <1>0 DEF States
<1> HIDE DEF ts
<1>2. e \in States /\ e.prio = s.prio /\ e.slice = s.slice /\ e.cur = s.cur
      /\ e.queued = s.queued /\ e.ready = s.ready /\ e.L1 = s.L1 /\ e.L2 = s.L2
      /\ e.failed = s.failed /\ e.action = s.action /\ e.ts = ts
  BY <1>0, <1>1 DEF States
<1>3. Sound(e)
  BY <1>0, <1>2, Unmoved
<1> QED BY <1>2, <1>3 DEF ts, StateSet

LEMMA Leaves ==
  ASSUME NEW s, Ready(s), NEW e, e = Leave(s)
  PROVE  Left(e)
<1> DEFINE c == schedule(s)
<1>1. Settled(c)
  BY ScheduleSettles
<1>2. e = activateThread(c)
  BY DEF Leave
<1> HIDE DEF c
<1>3. c \in States /\ ~c.failed /\ c.cur \in Threads \cup {Idle} /\ Sound(c)
      /\ c.ts \in [Threads -> {"Running", "Restart", "Blocked", "Inactive"}]
  BY <1>1 DEF Settled, Sound, States
<1>4. Settled(e) /\ (e.cur # Idle => e.ts[e.cur] = "Running")
  <2>1. CASE c.cur = Idle
    <3>1. e = c
      BY <1>2, <2>1 DEF activateThread
    <3> QED BY <1>1, <2>1, <3>1
  <2>2. CASE c.cur # Idle
    <3>1. c.cur \in Threads /\ c.ts[c.cur] \in {"Running", "Restart"}
      BY <1>1, <1>3, <2>2 DEF Settled, isRunnable
    <3>2. Assert_(c, isRunnable(c, c.cur)) = c
      <4>1. isRunnable(c, c.cur) = TRUE
        BY <3>1 DEF isRunnable
      <4> QED BY <1>3, <4>1, AssertTrue
    <3>3. e = [c EXCEPT !.ts[c.cur] = "Running"]
      BY <1>2, <2>2, <3>1, <3>2 DEF activateThread
    <3>4. /\ Sound(e) /\ e.prio = c.prio /\ e.cur = c.cur
          /\ e.queued = c.queued /\ e.action = c.action /\ e.ts = [c.ts EXCEPT ![c.cur] = "Running"]
      <4>1. StateSet(c, c.cur, "Running", e)
        BY <1>3, <3>1, <3>3, SetState
      <4> QED BY <4>1 DEF StateSet
    <3>5. e.ts[e.cur] = "Running"
      BY <1>3, <3>1, <3>4
    <3>6. \A t \in Threads : isRunnable(e, t) <=> isRunnable(c, t)
      BY <1>3, <3>1, <3>4 DEF isRunnable
    <3> QED BY <1>1, <3>1, <3>4, <3>5, <3>6 DEF Settled, Highest
  <2> QED BY <2>1, <2>2
<1>5. e.queued \in [Threads -> BOOLEAN]
  BY <1>4 DEF Settled, Sound, States
<1>6. e.action = ResumeCurrentThread /\ e.action \notin Threads
  BY <1>4, NoThread DEF Settled
<1>7. Kept(e) /\ (e.cur # Idle => ~e.queued[e.cur])
  <2>1. e.cur \in Threads \cup {Idle}
    BY <1>4 DEF Settled, Sound, States
  <2> QED BY <1>4, <2>1 DEF Settled, Kept
<1> QED BY <1>4, <1>6, <1>7 DEF Settled, Ready, Left

-----------------------------------------------------------------------------
(***************************************************************************)
(* Parts of kernel entries.                                                *)
(***************************************************************************)
Reschedules(s, e) ==
    /\ Sound(e) /\ e.ts = s.ts /\ e.prio = s.prio /\ e.slice = s.slice /\ e.cur = s.cur
    /\ e.action = ChooseNewThread
    /\ \A t \in Threads : e.queued[t] <=> s.queued[t] \/ t = s.action

LEMMA Reschedule ==
  ASSUME NEW s, Sound(s), NEW e, e = rescheduleRequired(s)
  PROVE  Reschedules(s, e)
<1> DEFINE y == IF s.action \in Threads THEN tcbSchedEnqueue(s, s.action) ELSE s
<1>0. s.queued \in [Threads -> BOOLEAN]
  BY DEF Sound, States
<1>1. Sound(y) /\ Same(y, s) /\ \A t \in Threads : y.queued[t] <=> s.queued[t] \/ t = s.action
  <2>1. CASE s.action \in Threads
    <3>1. Sound(y) /\ Same(y, s) /\ y.queued = [s.queued EXCEPT ![s.action] = TRUE]
      BY <2>1, Enqueue
    <3> HIDE DEF y
    <3> QED BY <1>0, <3>1, <2>1
  <2>2. CASE s.action \notin Threads
    BY <2>2 DEF Same
  <2> QED BY <2>1, <2>2
<1>2. e = [y EXCEPT !.action = ChooseNewThread]
  BY DEF rescheduleRequired
<1> HIDE DEF y
<1>3. /\ Sound(e) /\ e.ts = y.ts /\ e.prio = y.prio /\ e.slice = y.slice /\ e.cur = y.cur
      /\ e.queued = y.queued /\ e.action = ChooseNewThread
  BY SMTT(30), <1>1, <1>2, Forget
<1> QED BY <1>1, <1>3 DEF Same, Reschedules

\* Then schedule chooses among all the runnable threads.
LEMMA RescheduleReady ==
  ASSUME NEW s, Kept(s), s.action \in Threads => isRunnable(s, s.action),
         NEW e, e = rescheduleRequired(s)
  PROVE  Ready(e) /\ Reschedules(s, e)
<1>1. Reschedules(s, e)
  BY Reschedule DEF Kept
<1>2. \A t \in Threads : isRunnable(e, t) <=> isRunnable(s, t)
  BY <1>1 DEF Reschedules, isRunnable
<1> QED BY <1>1, <1>2, NoThread DEF Kept, Ready, Reschedules

ThreadStates == {"Running", "Restart", "Blocked", "Inactive"}
Runnable == {"Running", "Restart"}

StateOf(s, t, x, e) ==
    /\ e.ts = [s.ts EXCEPT ![t] = x]
    /\ \A u \in Threads : isRunnable(e, u) <=> IF u = t THEN x \in Runnable ELSE isRunnable(s, u)

LEMMA RunnableAfter ==
  ASSUME NEW s, Sound(s), NEW t \in Threads, NEW x \in ThreadStates, NEW e,
         e.ts = [s.ts EXCEPT ![t] = x]
  PROVE  StateOf(s, t, x, e)
<1>1. s.ts \in [Threads -> ThreadStates]
  BY DEF Sound, States, ThreadStates
<1> QED BY <1>1 DEF isRunnable, Runnable, StateOf

ThreadStateSet(s, t, x, e) ==
    /\ Sound(e) /\ e.prio = s.prio /\ e.slice = s.slice /\ e.cur = s.cur
    /\ StateOf(s, t, x, e)
    /\ \A u \in Threads : e.queued[u] <=> s.queued[u]
    /\ e.action = IF t = s.cur /\ s.action = ResumeCurrentThread /\ x \notin Runnable
                  THEN ChooseNewThread ELSE s.action

LEMMA SetThreadState ==
  ASSUME NEW s, Sound(s), NEW t \in Threads, NEW x \in ThreadStates, NEW e, e = setThreadState(s, t, x)
  PROVE  ThreadStateSet(s, t, x, e)
<1> DEFINE z == [s EXCEPT !.ts[t] = x]
<1>1. StateSet(s, t, x, z)
  BY SetState DEF ThreadStates
<1>2. e = IF t = s.cur /\ s.action = ResumeCurrentThread /\ ~isRunnable(z, t)
          THEN rescheduleRequired(z) ELSE z
  BY DEF setThreadState
<1> HIDE DEF z
<1>3. StateOf(s, t, x, z)
  BY <1>1, RunnableAfter DEF StateSet
<1>4. isRunnable(z, t) <=> x \in Runnable
  BY <1>3 DEF StateOf
<1>5. CASE t = s.cur /\ s.action = ResumeCurrentThread /\ x \notin Runnable
  <2>1. e = rescheduleRequired(z)
    BY <1>2, <1>4, <1>5
  <2>2. Reschedules(z, e)
    BY <1>1, <2>1, Reschedule DEF StateSet
  <2>3. StateOf(s, t, x, e)
    BY <1>1, <2>2, RunnableAfter DEF StateSet, Reschedules
  <2>4. \A u \in Threads : e.queued[u] <=> s.queued[u]
    BY <1>1, <1>5, <2>2, NoThread DEF StateSet, Reschedules
  <2> QED BY <1>1, <1>5, <2>2, <2>3, <2>4 DEF StateSet, Reschedules, ThreadStateSet
<1>6. CASE ~(t = s.cur /\ s.action = ResumeCurrentThread /\ x \notin Runnable)
  <2>1. e = z
    BY <1>2, <1>4, <1>6
  <2> QED BY <1>1, <1>3, <1>6, <2>1 DEF StateSet, ThreadStateSet
<1> QED BY <1>5, <1>6

SwitchPending(s, t, e) ==
    /\ Sound(e) /\ e.ts = s.ts /\ e.prio = s.prio /\ e.slice = s.slice /\ e.cur = s.cur
    /\ s.action = ResumeCurrentThread =>
          e.action = t /\ \A u \in Threads : e.queued[u] <=> s.queued[u]
    /\ s.action # ResumeCurrentThread =>
          /\ e.action = ChooseNewThread
          /\ \A u \in Threads : e.queued[u] <=> s.queued[u] \/ u = s.action \/ u = t

LEMMA PossibleSwitch ==
  ASSUME NEW s, Sound(s), NEW t \in Threads, NEW e, e = possibleSwitchTo(s, t)
  PROVE  SwitchPending(s, t, e)
<1>1. CASE s.action = ResumeCurrentThread
  <2>1. e = [s EXCEPT !.action = t]
    BY <1>1 DEF possibleSwitchTo
  <2> QED BY SMTT(30), <1>1, <2>1, Forget DEF SwitchPending
<1>2. CASE s.action # ResumeCurrentThread
  <2> DEFINE y == rescheduleRequired(s)
  <2>1. Reschedules(s, y)
    BY Reschedule
  <2>2. e = tcbSchedEnqueue(y, t)
    BY <1>2 DEF possibleSwitchTo
  <2> HIDE DEF y
  <2>3. Sound(e) /\ Same(e, y) /\ e.queued = [y.queued EXCEPT ![t] = TRUE]
    BY SMTT(30), <2>1, <2>2, Enqueue DEF Reschedules
  <2>4. y.queued \in [Threads -> BOOLEAN]
    BY <2>1 DEF Reschedules, Sound, States
  <2>5. \A u \in Threads : e.queued[u] <=> y.queued[u] \/ u = t
    BY <2>3, <2>4
  <2> QED BY <1>2, <2>1, <2>3, <2>5 DEF Same, Reschedules, SwitchPending
<1> QED BY <1>1, <1>2

\* A thread that could not run is woken.
Woken(s, t, x, e) ==
    /\ Ready(e) /\ e.cur = s.cur /\ StateOf(s, t, x, e)
    /\ s.action = ResumeCurrentThread =>
          e.action = t /\ \A u \in Threads : e.queued[u] <=> s.queued[u]

LEMMA WakeReady ==
  ASSUME NEW s, Ready(s), NEW t \in Threads, ~isRunnable(s, t), t # s.cur, NEW x \in Runnable,
         NEW e, e = Wake(s, t, x)
  PROVE  Woken(s, t, x, e)
<1> DEFINE y == setThreadState(s, t, x)
<1>0. Sound(s) /\ x \in ThreadStates
  BY DEF Ready, Kept, Runnable, ThreadStates
<1>1. ThreadStateSet(s, t, x, y)
  BY <1>0, SetThreadState
<1>2. e = possibleSwitchTo(y, t)
  BY DEF Wake
<1> HIDE DEF y
<1>3. SwitchPending(y, t, e)
  BY <1>1, <1>2, PossibleSwitch DEF ThreadStateSet
<1>4. y.action = s.action /\ e.cur = s.cur /\ e.prio = s.prio /\ e.ts = y.ts
  BY <1>1, <1>3 DEF ThreadStateSet, SwitchPending
<1>5. StateOf(s, t, x, e)
  BY SMTT(30), <1>0, <1>1, <1>4, RunnableAfter DEF ThreadStateSet, StateOf
<1>6. \A u \in Threads : isRunnable(e, u) <=> u = t \/ isRunnable(s, u)
  BY <1>5 DEF StateOf
<1>7. CASE s.action = ResumeCurrentThread
  <2>1. e.action = t /\ \A u \in Threads : e.queued[u] <=> s.queued[u]
    BY <1>1, <1>3, <1>4, <1>7 DEF SwitchPending, ThreadStateSet
  <2>2. Kept(e)
    BY <1>3, <1>4, <1>6, <1>7, <2>1, NoThread DEF Ready, Kept, SwitchPending
  <2>3. e.cur # Idle => Highest(e, t)
    BY <1>4, <1>6, <1>7, NoThread DEF Ready, Highest
  <2> QED BY <1>4, <1>5, <1>6, <2>1, <2>2, <2>3, NoThread DEF Ready, Woken
<1>8. CASE s.action # ResumeCurrentThread
  <2>1. e.action = ChooseNewThread
        /\ \A u \in Threads : e.queued[u] <=> s.queued[u] \/ u = s.action \/ u = t
    BY <1>1, <1>3, <1>4, <1>8 DEF SwitchPending, ThreadStateSet
  <2>2. Kept(e)
    BY <1>3, <1>4, <1>6, <2>1, NoThread DEF Ready, Kept, SwitchPending
  <2> QED BY <1>4, <1>5, <1>8, <2>1, <2>2, NoThread DEF Ready, Woken
<1> QED BY <1>7, <1>8

\* A thread that is not queued, and not to be switched to, stops.
LEMMA StopReady ==
  ASSUME NEW s, Ready(s), NEW t \in Threads, ~s.queued[t], s.action # t,
         NEW x \in {"Blocked", "Inactive"}, NEW e, e = setThreadState(s, t, x)
  PROVE  Ready(e) /\ ThreadStateSet(s, t, x, e)
<1>0. Sound(s) /\ x \in ThreadStates /\ x \notin Runnable
  BY DEF Ready, Kept, Runnable, ThreadStates
<1>1. ThreadStateSet(s, t, x, e)
  BY <1>0, SetThreadState
<1>2. \A u \in Threads : isRunnable(e, u) <=> u # t /\ isRunnable(s, u)
  BY <1>0, <1>1 DEF ThreadStateSet, StateOf
<1>3. CASE t = s.cur /\ s.action = ResumeCurrentThread
  <2>1. e.action = ChooseNewThread
    BY <1>0, <1>1, <1>3 DEF ThreadStateSet
  <2>2. Kept(e)
    BY <1>1, <1>2, <1>3, <2>1, NoThread DEF Ready, Kept, ThreadStateSet
  <2> QED BY <1>1, <2>1, <2>2, NoThread DEF Ready
<1>4. CASE ~(t = s.cur /\ s.action = ResumeCurrentThread)
  <2>1. e.action = s.action
    BY <1>1, <1>4 DEF ThreadStateSet
  <2>2. Kept(e)
    BY <1>1, <1>2, <2>1, NoThread DEF Ready, Kept, ThreadStateSet
  <2>3. e.cur = s.cur /\ e.prio = s.prio /\ \A u \in Threads : e.queued[u] <=> s.queued[u]
    BY <1>1 DEF ThreadStateSet
  <2>4. e.cur \in Threads \cup {Idle}
    BY <2>2 DEF Kept, Sound, States
  <2>5. e.action = ResumeCurrentThread =>
          /\ \A u \in Threads : isRunnable(e, u) => e.cur # Idle
          /\ e.cur # Idle => isRunnable(e, e.cur) /\ ~e.queued[e.cur] /\ Highest(e, Idle)
    BY <1>2, <1>4, <2>1, <2>3, <2>4 DEF Ready, Highest
  <2>6. e.action \in Threads =>
          /\ isRunnable(e, e.action)
          /\ e.cur # Idle => Highest(e, e.action)
    BY <1>2, <2>1, <2>3 DEF Ready, Highest
  <2> QED BY <1>1, <2>2, <2>5, <2>6 DEF Ready
<1> QED BY <1>3, <1>4

\* A thread stops, and leaves its ready queue.
Suspended(s, t, e) ==
    Ready(e) /\ e.action \notin Threads /\ e.cur = s.cur /\ StateOf(s, t, "Inactive", e)

LEMMA SuspendReady ==
  ASSUME NEW s, Ready(s), s.action \notin Threads, NEW t \in Threads, NEW e, e = suspend(s, t)
  PROVE  Suspended(s, t, e)
<1> DEFINE y == setThreadState(s, t, "Inactive")
<1>0. Sound(s) /\ "Inactive" \in ThreadStates /\ "Inactive" \notin Runnable
  BY DEF Ready, Kept, ThreadStates, Runnable
<1>1. ThreadStateSet(s, t, "Inactive", y)
  BY <1>0, SetThreadState
<1>2. e = tcbSchedDequeue(y, t)
  BY DEF suspend
<1> HIDE DEF y
<1>3. Sound(e) /\ Same(e, y) /\ e.queued = [y.queued EXCEPT ![t] = FALSE]
  BY SMTT(30), <1>1, <1>2, Dequeue DEF ThreadStateSet
<1>4. y.queued \in [Threads -> BOOLEAN]
  BY <1>1 DEF ThreadStateSet, Sound, States
<1>5. \A u \in Threads : e.queued[u] <=> s.queued[u] /\ u # t
  BY <1>1, <1>3, <1>4 DEF ThreadStateSet
<1>6. e.cur = s.cur /\ e.prio = s.prio /\ e.ts = y.ts /\ e.action = y.action
  BY <1>1, <1>3 DEF Same, ThreadStateSet
<1>7. StateOf(s, t, "Inactive", e)
  BY SMTT(30), <1>0, <1>1, <1>6, RunnableAfter DEF ThreadStateSet, StateOf
<1>8. \A u \in Threads : isRunnable(e, u) <=> u # t /\ isRunnable(s, u)
  BY <1>0, <1>7 DEF StateOf
<1>9. Kept(e)
  BY <1>3, <1>5, <1>6, <1>8 DEF Ready, Kept
<1>10. CASE t = s.cur /\ s.action = ResumeCurrentThread
  <2>1. e.action = ChooseNewThread
    BY <1>0, <1>1, <1>6, <1>10 DEF ThreadStateSet
  <2> QED BY <1>6, <1>7, <1>9, <2>1, NoThread DEF Ready, Suspended
<1>11. CASE ~(t = s.cur /\ s.action = ResumeCurrentThread)
  <2>1. e.action = s.action
    BY <1>1, <1>6, <1>11 DEF ThreadStateSet
  <2>2. e.cur \in Threads \cup {Idle}
    BY <1>9 DEF Kept, Sound, States
  <2>3. e.action = ResumeCurrentThread =>
          /\ \A u \in Threads : isRunnable(e, u) => e.cur # Idle
          /\ e.cur # Idle => isRunnable(e, e.cur) /\ ~e.queued[e.cur] /\ Highest(e, Idle)
    BY <1>5, <1>6, <1>8, <1>11, <2>1, <2>2 DEF Ready, Highest
  <2> QED BY <1>6, <1>7, <1>9, <2>1, <2>3 DEF Ready, Suspended
<1> QED BY <1>10, <1>11

\* What Left says of a state.
LEMMA LeftFacts ==
  ASSUME NEW s, Left(s)
  PROVE  /\ Ready(s) /\ Kept(s) /\ Sound(s) /\ s.action = ResumeCurrentThread /\ s.action \notin Threads
         /\ s.cur \in Threads \cup {Idle}
         /\ s.cur # Idle => /\ s.cur \in Threads /\ isRunnable(s, s.cur) /\ ~s.queued[s.cur]
                            /\ Highest(s, Idle) /\ s.ts[s.cur] = "Running"
BY NoThread DEF Left, Ready, Kept, Sound, States

LEMMA RestartReady ==
  ASSUME NEW s, Left(s), NEW t \in Threads, NEW e, e = restart(s, t)
  PROVE  Ready(e)
<1>0. Ready(s) /\ Kept(s) /\ Sound(s) /\ s.action = ResumeCurrentThread
      /\ "Restart" \in ThreadStates /\ "Restart" \in Runnable
  BY LeftFacts DEF ThreadStates, Runnable
<1>1. CASE isRunnable(s, t)
  BY <1>0, <1>1 DEF restart
<1>2. CASE ~isRunnable(s, t)
  <2> DEFINE y == setThreadState(s, t, "Restart")
             w == tcbSchedEnqueue(y, t)
  <2>1. ThreadStateSet(s, t, "Restart", y)
    BY <1>0, SetThreadState
  <2>2. e = possibleSwitchTo(w, t)
    BY <1>2 DEF restart
  <2> HIDE DEF y
  <2>3. Sound(w) /\ Same(w, y) /\ w.queued = [y.queued EXCEPT ![t] = TRUE]
    BY <2>1, Enqueue DEF ThreadStateSet
  <2> HIDE DEF w
  <2>4. SwitchPending(w, t, e)
    BY <2>2, <2>3, PossibleSwitch
  <2>5. y.queued \in [Threads -> BOOLEAN]
    BY <2>1 DEF ThreadStateSet, Sound, States
  <2>6. w.action = ResumeCurrentThread
    BY <1>0, <2>1, <2>3 DEF ThreadStateSet, Same
  <2>7. e.action = t /\ \A u \in Threads : e.queued[u] <=> s.queued[u] \/ u = t
    BY <2>1, <2>3, <2>4, <2>5, <2>6 DEF ThreadStateSet, SwitchPending
  <2>8. Sound(e) /\ e.cur = s.cur /\ e.prio = s.prio /\ e.ts = y.ts
    BY <2>1, <2>3, <2>4 DEF ThreadStateSet, SwitchPending, Same
  <2>9. StateOf(s, t, "Restart", e)
    BY SMTT(30), <1>0, <2>1, <2>8, RunnableAfter DEF ThreadStateSet, StateOf
  <2>10. \A u \in Threads : isRunnable(e, u) <=> u = t \/ isRunnable(s, u)
    BY <1>0, <2>9 DEF StateOf
  <2>11. Kept(e)
    BY <1>0, <2>7, <2>8, <2>10, NoThread DEF Kept
  <2>12. e.cur # Idle => Highest(e, t)
    BY <2>8, <2>10, LeftFacts, NoThread DEF Highest
  <2> QED BY <2>7, <2>10, <2>11, <2>12, NoThread DEF Ready
<1> QED BY <1>1, <1>2

\* The priority of a thread that is not queued changes.
PrioritySet(s, t, p, e) ==
    /\ Sound(e) /\ e.ts = s.ts /\ e.cur = s.cur /\ e.queued = s.queued /\ e.action = s.action
    /\ e.prio[t] = p /\ \A u \in Threads : u # t => e.prio[u] = s.prio[u]

LEMMA SetPrio ==
  ASSUME NEW s, Sound(s), NEW t \in Threads, ~s.queued[t], NEW p \in Priorities,
         NEW e, e = [s EXCEPT !.prio[t] = p]
  PROVE  PrioritySet(s, t, p, e)
<1> DEFINE prio == [s.prio EXCEPT ![t] = p]
<1>0. s \in States /\ ~s.failed /\ s.prio \in [Threads -> Priorities] /\ Queues(s) /\ Bitmaps(s)
  BY DEF Sound, States
<1>1. prio \in [Threads -> Priorities] /\ e = [s EXCEPT !.prio = prio]
      /\ prio[t] = p /\ \A u \in Threads : u # t => prio[u] = s.prio[u]
  BY <1>0 DEF States
<1> HIDE DEF prio
<1>2. e \in States /\ e.prio = prio /\ e.cur = s.cur
      /\ e.queued = s.queued /\ e.ready = s.ready /\ e.L1 = s.L1 /\ e.L2 = s.L2
      /\ e.failed = s.failed /\ e.action = s.action /\ e.ts = s.ts
  BY <1>0, <1>1 DEF States
<1>3. Bitmaps(e)
  BY SMTT(30), <1>0, <1>2 DEF Bitmaps
<1>4. Queues(e)
  <2> SUFFICES ASSUME NEW x \in Priorities
               PROVE  {u \in Threads : s.queued[u] /\ prio[u] = x}
                        = {u \in Threads : s.queued[u] /\ s.prio[u] = x}
    BY SMTT(30), <1>0, <1>2 DEF Queues
  <2> QED BY <1>1
<1> QED BY <1>0, <1>1, <1>2, <1>3, <1>4 DEF Sound, PrioritySet

LEMMA SetPriorityReady ==
  ASSUME NEW s, Left(s), s.cur # Idle, NEW t \in Threads, NEW p \in Priorities,
         NEW e, e = setPriority(s, t, p)
  PROVE  Ready(e)
<1> DEFINE d == tcbSchedDequeue(s, t)
           z == [d EXCEPT !.prio[t] = p]
<1>0. Kept(s) /\ Sound(s) /\ s.action = ResumeCurrentThread /\ s.cur \in Threads
      /\ isRunnable(s, s.cur) /\ ~s.queued[s.cur] /\ Highest(s, Idle)
      /\ s.queued \in [Threads -> BOOLEAN]
  BY LeftFacts DEF Sound, States
<1>1. Sound(d) /\ Same(d, s) /\ d.queued = [s.queued EXCEPT ![t] = FALSE]
  BY <1>0, Dequeue
<1>2. e = CASE ~isRunnable(z, t) -> z
            [] isRunnable(z, t) /\ t = s.cur -> rescheduleRequired(z)
            [] isRunnable(z, t) /\ t # s.cur -> possibleSwitchTo(z, t)
  BY DEF setPriority
<1> HIDE DEF d
<1>3. \A u \in Threads : d.queued[u] <=> s.queued[u] /\ u # t
  BY <1>0, <1>1
<1>4. PrioritySet(d, t, p, z)
  BY <1>1, <1>3, SetPrio
<1> HIDE DEF z
<1>5. /\ Sound(z) /\ z.ts = s.ts /\ z.cur = s.cur /\ z.action = ResumeCurrentThread
      /\ \A u \in Threads : z.queued[u] <=> s.queued[u] /\ u # t
      /\ \A u \in Threads : u # t => z.prio[u] = s.prio[u]
  BY <1>0, <1>1, <1>3, <1>4 DEF Same, PrioritySet
<1>6. \A u \in Threads : isRunnable(z, u) <=> isRunnable(s, u)
  BY <1>5 DEF isRunnable
<1>7. CASE ~isRunnable(z, t)
  <2>1. e = z
    BY <1>2, <1>7
  <2>2. Kept(z)
    BY <1>0, <1>5, <1>6, <1>7 DEF Kept
  <2>3. t # z.cur /\ Highest(z, Idle)
    BY <1>0, <1>5, <1>6, <1>7 DEF Highest
  <2> QED BY <1>0, <1>5, <1>6, <2>1, <2>2, <2>3, NoThread DEF Ready
<1>8. CASE isRunnable(z, t) /\ t = s.cur
  <2>1. e = rescheduleRequired(z)
    BY <1>2, <1>8
  <2>2. Kept(z)
    BY <1>0, <1>5, <1>6, <1>8, NoThread DEF Kept
  <2> QED BY <1>5, <2>1, <2>2, RescheduleReady, NoThread
<1>9. CASE isRunnable(z, t) /\ t # s.cur
  <2>1. e = possibleSwitchTo(z, t)
    BY <1>2, <1>9
  <2>2. SwitchPending(z, t, e)
    BY <1>5, <2>1, PossibleSwitch
  <2>3. /\ Sound(e) /\ e.ts = z.ts /\ e.prio = z.prio /\ e.cur = s.cur /\ e.action = t
        /\ \A u \in Threads : e.queued[u] <=> z.queued[u]
    BY <1>5, <2>2 DEF SwitchPending
  <2>4. \A u \in Threads : isRunnable(e, u) <=> isRunnable(s, u)
    BY <1>5, <2>3 DEF isRunnable
  <2>5. Kept(e)
    BY SMTT(30), <1>0, <1>5, <2>3, <2>4, NoThread DEF Kept
  <2>6. Highest(e, t)
    BY SMTT(30), <1>0, <1>5, <1>9, <2>3, <2>4, NoThread DEF Highest
  <2>7. isRunnable(e, t)
    BY <1>6, <1>9, <2>4
  <2> QED BY <2>3, <2>5, <2>6, <2>7, NoThread DEF Ready
<1> QED BY <1>7, <1>8, <1>9

\* The current thread goes to a ready queue, and schedule chooses.
LEMMA RequeueReady ==
  ASSUME NEW s, Ready(s), s.cur \in Threads, isRunnable(s, s.cur),
         NEW e, e = rescheduleRequired(tcbSchedAppend(s, s.cur))
  PROVE  Ready(e)
<1> DEFINE a == tcbSchedAppend(s, s.cur)
<1>0. Sound(s) /\ Kept(s) /\ s.queued \in [Threads -> BOOLEAN]
  BY DEF Ready, Kept, Sound, States
<1>1. Sound(a) /\ Same(a, s) /\ a.queued = [s.queued EXCEPT ![s.cur] = TRUE]
  BY <1>0, Enqueue
<1> HIDE DEF a
<1>2. \A u \in Threads : a.queued[u] <=> s.queued[u] \/ u = s.cur
  BY <1>0, <1>1
<1>3. \A u \in Threads : isRunnable(a, u) <=> isRunnable(s, u)
  BY <1>1 DEF Same, isRunnable
<1>4. Kept(a)
  BY <1>0, <1>1, <1>2, <1>3 DEF Kept, Same
<1>5. a.action \in Threads => isRunnable(a, a.action)
  BY <1>1, <1>3 DEF Ready, Same
<1> QED BY <1>4, <1>5, RescheduleReady DEF a

\* A state that differs only in what schedule does not look at.
LEMMA ReadyAlike ==
  ASSUME NEW s, Ready(s), NEW e, Sound(e), e.prio = s.prio, e.cur = s.cur, e.action = s.action,
         \A u \in Threads : e.queued[u] <=> s.queued[u],
         \A u \in Threads : isRunnable(e, u) <=> isRunnable(s, u)
  PROVE  Ready(e)
<1>1. Kept(e) /\ e.cur \in Threads \cup {Idle}
  BY DEF Ready, Kept, Sound, States
<1> QED BY <1>1 DEF Ready, Highest

LEMMA SetSlice ==
  ASSUME NEW s, Ready(s), NEW t \in Threads, NEW n \in Nat, NEW e, e = [s EXCEPT !.slice[t] = n]
  PROVE  Ready(e) /\ e.cur = s.cur /\ e.ts = s.ts
<1> DEFINE slice == [s.slice EXCEPT ![t] = n]
<1>0. s \in States /\ Sound(s) /\ ~s.failed /\ s.slice \in [Threads -> Nat]
  BY DEF Ready, Kept, Sound, States
<1>1. slice \in [Threads -> Nat] /\ e = [s EXCEPT !.slice = slice]
  BY <1>0 DEF States
<1> HIDE DEF slice
<1>2. e \in States /\ e.prio = s.prio /\ e.cur = s.cur
      /\ e.queued = s.queued /\ e.ready = s.ready /\ e.L1 = s.L1 /\ e.L2 = s.L2
      /\ e.failed = s.failed /\ e.action = s.action /\ e.ts = s.ts
  BY <1>0, <1>1 DEF States
<1>3. Sound(e)
  BY <1>0, <1>2, Unmoved
<1>4. \A u \in Threads : isRunnable(e, u) <=> isRunnable(s, u)
  BY <1>2 DEF isRunnable
<1> QED BY <1>2, <1>3, <1>4, ReadyAlike

LEMMA TickReady ==
  ASSUME NEW s, Ready(s), NEW e, e = timerTick(s)
  PROVE  Ready(e)
<1>0. s.cur \in Threads \cup {Idle} /\ s.slice \in [Threads -> Nat]
  BY DEF Ready, Kept, Sound, States
<1>1. CASE s.cur = Idle \/ s.ts[s.cur] # "Running"
  BY <1>1 DEF timerTick
<1>2. CASE s.cur # Idle /\ s.ts[s.cur] = "Running" /\ s.slice[s.cur] > 1
  <2>1. e = [s EXCEPT !.slice[s.cur] = s.slice[s.cur] - 1]
    BY <1>2 DEF timerTick
  <2>2. s.cur \in Threads /\ s.slice[s.cur] - 1 \in Nat
    BY SMTT(30), <1>0, <1>2
  <2> QED BY SMTT(30), <2>1, <2>2, SetSlice
<1>3. CASE s.cur # Idle /\ s.ts[s.cur] = "Running" /\ ~(s.slice[s.cur] > 1)
  <2> DEFINE y == [s EXCEPT !.slice[s.cur] = CONFIG_TIME_SLICE]
  <2>1. e = rescheduleRequired(tcbSchedAppend(y, s.cur))
    BY <1>3 DEF timerTick
  <2>2. Ready(y) /\ y.cur = s.cur /\ y.ts = s.ts
    BY SMTT(30), <1>0, <1>3, SetSlice, SchedulerAssumption
  <2> HIDE DEF y
  <2>3. isRunnable(y, y.cur) /\ y.cur \in Threads
    BY <1>0, <1>3, <2>2 DEF isRunnable
  <2> QED BY <2>1, <2>2, <2>3, RequeueReady
<1> QED BY <1>1, <1>2, <1>3

\* A thread of a queue that is cancelled.
LEMMA CancelledKept ==
  ASSUME NEW s, Kept(s), s.action = ResumeCurrentThread, NEW t \in Threads, NEW e, e = cancelled(s, t)
  PROVE  Kept(e) /\ e.action = ResumeCurrentThread /\ e.cur = s.cur /\ StateOf(s, t, "Restart", e)
<1> DEFINE y == setThreadState(s, t, "Restart")
<1>0. Sound(s) /\ "Restart" \in ThreadStates /\ "Restart" \in Runnable
  BY DEF Kept, ThreadStates, Runnable
<1>1. ThreadStateSet(s, t, "Restart", y)
  BY <1>0, SetThreadState
<1>2. e = tcbSchedEnqueue(y, t)
  BY DEF cancelled
<1> HIDE DEF y
<1>3. Sound(e) /\ Same(e, y) /\ e.queued = [y.queued EXCEPT ![t] = TRUE]
  BY SMTT(30), <1>1, <1>2, Enqueue DEF ThreadStateSet
<1>4. y.queued \in [Threads -> BOOLEAN]
  BY <1>1 DEF ThreadStateSet, Sound, States
<1>5. \A u \in Threads : e.queued[u] <=> s.queued[u] \/ u = t
  BY <1>1, <1>3, <1>4 DEF ThreadStateSet
<1>6. e.cur = s.cur /\ e.ts = y.ts /\ e.action = ResumeCurrentThread
  BY <1>0, <1>1, <1>3 DEF Same, ThreadStateSet
<1>7. StateOf(s, t, "Restart", e)
  BY SMTT(30), <1>0, <1>1, <1>6, RunnableAfter DEF ThreadStateSet, StateOf
<1>8. \A u \in Threads : isRunnable(e, u) <=> u = t \/ isRunnable(s, u)
  BY <1>0, <1>7 DEF StateOf
<1> QED BY <1>3, <1>5, <1>6, <1>7, <1>8, NoThread DEF Kept

LEMMA OrderMembers ==
  ASSUME NEW S \in SUBSET Threads, NEW q \in Orders(S)
  PROVE  q \in Seq(Threads)
<1>1. PICK n \in 0 .. Cardinality(S) : q \in [1 .. n -> S]
  BY DEF Orders
<1>2. n \in Nat
  BY SMTT(30), <1>1
<1> QED BY SMTT(30), <1>1, <1>2

\* Induction up to N over a set of numbers.
LEMMA Counting ==
  ASSUME NEW N \in Nat, NEW G \in SUBSET (0 .. N), 0 \in G,
         \A n \in 1 .. N : n - 1 \in G => n \in G
  PROVE  G = 0 .. N
<1> DEFINE T == (0 .. N) \ G
<1> SUFFICES ASSUME T # {} PROVE FALSE
  OBVIOUS
<1>1. T \subseteq Nat
  BY SMTT(30)
<1>2. PICK y \in T : \A z \in T : ~(<<z, y>> \in OpToRel(<, Nat))
  <2> HIDE DEF T
  <2> QED BY <1>1, NatLessThanWellFounded, WFMin
<1>3. y \in 1 .. N /\ y - 1 \in T
  <2>1. y \in 0 .. N /\ y \notin G /\ y # 0
    OBVIOUS
  <2>2. y \in 1 .. N /\ y - 1 \in 0 .. N
    BY SMTT(30), <2>1
  <2> QED BY <2>1, <2>2
<1>4. <<y - 1, y>> \notin {x \in Nat \X Nat : x[1] < x[2]}
  BY <1>2, <1>3 DEF OpToRel
<1> QED BY SMTT(30), <1>1, <1>3, <1>4

\* A loop over q whose body maps states of S to states of S has a run.
LoopRun(S, F, s, q, g) ==
    /\ g \in [0 .. Len(q) -> S] /\ g[0] = s
    /\ \A i \in 1 .. Len(q) : g[i] = F[<<g[i - 1], q[i]>>]

LEMMA LoopRuns ==
  ASSUME NEW S, NEW F \in [S \X Threads -> S], NEW s \in S, NEW q \in Seq(Threads)
  PROVE  \E g : LoopRun(S, F, s, q, g)
<1> DEFINE Run(n, g) == g[0] = s /\ \A i \in 1 .. n : g[i] = F[<<g[i - 1], q[i]>>]
           G == {n \in 0 .. Len(q) : \E g \in [0 .. n -> S] : Run(n, g)}
<1>0. Len(q) \in Nat /\ \A i \in 1 .. Len(q) : q[i] \in Threads
  BY SMTT(30)
<1>1. 0 \in G
  <2> DEFINE g == [i \in 0 .. 0 |-> s]
  <2>1. g \in [0 .. 0 -> S] /\ g[0] = s /\ 1 .. 0 = {}
    BY SMTT(30)
  <2> HIDE DEF g
  <2>2. Run(0, g)
    BY <2>1
  <2>3. 0 \in 0 .. Len(q)
    BY SMTT(30), <1>0
  <2> HIDE DEF Run
  <2> QED BY <2>1, <2>2, <2>3
<1>2. ASSUME NEW n \in 1 .. Len(q), n - 1 \in G PROVE n \in G
  <2>1. PICK g \in [0 .. n - 1 -> S] : Run(n - 1, g)
    BY <1>2
  <2> DEFINE h == [i \in 0 .. n |-> IF i = n THEN F[<<g[n - 1], q[n]>>] ELSE g[i]]
  <2>2. F[<<g[n - 1], q[n]>>] \in S
    BY SMTT(30), <1>0, <2>1
  <2>3. h \in [0 .. n -> S]
    BY SMTT(30), <1>0, <2>1, <2>2
  <2>4. h[0] = s
    BY SMTT(30), <1>0, <2>1
  <2>5. ASSUME NEW i \in 1 .. n PROVE h[i] = F[<<h[i - 1], q[i]>>]
    <3>1. CASE i = n
      <4>1. h[n] = F[<<g[n - 1], q[n]>>] /\ n - 1 \in 0 .. n /\ n - 1 # n
        BY SMTT(30), <1>0
      <4>2. h[n - 1] = g[n - 1]
        BY <4>1
      <4> QED BY <3>1, <4>1, <4>2
    <3>2. CASE i # n
      <4>1. i \in 1 .. n - 1 /\ h[i] = g[i] /\ h[i - 1] = g[i - 1]
        BY SMTT(30), <1>0, <3>2
      <4> QED BY <2>1, <4>1
    <3> QED BY <3>1, <3>2
  <2> HIDE DEF h
  <2>6. Run(n, h) /\ n \in 0 .. Len(q)
    BY SMTT(30), <1>0, <2>4, <2>5
  <2> HIDE DEF Run
  <2> QED BY <2>3, <2>6
<1>3. G \in SUBSET (0 .. Len(q))
  OBVIOUS
<1> HIDE DEF G
<1>4. G = 0 .. Len(q)
  BY <1>0, <1>1, <1>2, <1>3, Counting
<1>5. Len(q) \in G
  BY SMTT(30), <1>0, <1>4
<1>6. PICK g \in [0 .. Len(q) -> S] : Run(Len(q), g)
  BY <1>5 DEF G
<1>7. LoopRun(S, F, s, q, g)
  BY <1>6 DEF LoopRun
<1> QED BY <1>7

LEMMA LoopKeeps ==
  ASSUME NEW N \in Nat, NEW f, NEW S, f[0] \in S, \A n \in 1 .. N : f[n - 1] \in S => f[n] \in S
  PROVE  f[N] \in S
<1> DEFINE G == {n \in 0 .. N : f[n] \in S}
<1>1. G \in SUBSET (0 .. N) /\ 0 \in G /\ \A n \in 1 .. N : n - 1 \in G => n \in G
  BY SMTT(30)
<1> HIDE DEF G
<1>2. N \in G
  BY SMTT(30), <1>1, Counting
<1> QED BY <1>2 DEF G

\* While objects are deleted: the thread that deletes them may be one of them.
Deleting(s, c) ==
    Ready(s) /\ s.action \notin Threads /\ s.cur = c /\ s.ts[c] \in {"Restart", "Inactive"}

LEMMA SuspendDeleting ==
  ASSUME NEW s, NEW c \in Threads, Deleting(s, c), NEW t \in Threads, NEW e, e = suspend(s, t)
  PROVE  Deleting(e, c)
<1>1. Suspended(s, t, e)
  BY SuspendReady DEF Deleting
<1>2. s.ts \in [Threads -> ThreadStates]
  BY DEF Deleting, Ready, Kept, Sound, States, ThreadStates
<1>3. e.ts[c] \in {"Restart", "Inactive"}
  BY <1>1, <1>2 DEF Suspended, StateOf, Deleting
<1> QED BY <1>1, <1>3 DEF Suspended, Deleting

LEMMA SuspendEach ==
  ASSUME NEW s, NEW c \in Threads, Deleting(s, c), NEW q \in Seq(Threads),
         NEW e, e = suspendAll(s, q)
  PROVE  Deleting(e, c)
<1> DEFINE S == {x \in States : Deleting(x, c)}
           F == [p \in S \X Threads |-> suspend(p[1], p[2])]
           Step(f) == [n \in 0 .. Len(q) |-> IF n = 0 THEN s ELSE suspend(f[n - 1], q[n])]
           after == CHOOSE f : f = Step(f)
<1>0. Len(q) \in Nat /\ \A i \in 1 .. Len(q) : q[i] \in Threads
  BY SMTT(30)
<1>1. ASSUME NEW x \in S, NEW t \in Threads PROVE suspend(x, t) \in S
  <2> DEFINE y == suspend(x, t)
  <2>1. Deleting(y, c)
    BY SuspendDeleting
  <2>2. y \in States
    BY <2>1 DEF Deleting, Ready, Kept, Sound
  <2> QED BY <2>1, <2>2
<1>2. F \in [S \X Threads -> S]
  BY <1>1
<1>3. s \in S
  BY DEF Deleting, Ready, Kept, Sound
<1>4. \E f : f = Step(f)
  <2> HIDE DEF F, S
  <2>0. PICK g : LoopRun(S, F, s, q, g)
    BY <1>2, <1>3, LoopRuns
  <2>1. /\ g \in [0 .. Len(q) -> S] /\ g[0] = s
        /\ \A i \in 1 .. Len(q) : g[i] = F[<<g[i - 1], q[i]>>]
    BY <2>0 DEF LoopRun
  <2>2. \A i \in 1 .. Len(q) : g[i] = suspend(g[i - 1], q[i])
    <3> TAKE i \in 1 .. Len(q)
    <3>1. g[i - 1] \in S /\ q[i] \in Threads
      BY SMTT(30), <1>0, <2>1
    <3> QED BY <2>1, <3>1 DEF F
  <2>3. g = Step(g)
    <3> DEFINE h == Step(g)
    <3>1. \A n \in 0 .. Len(q) : g[n] = h[n]
      BY SMTT(30), <1>0, <2>1, <2>2
    <3>2. DOMAIN h = 0 .. Len(q) /\ h = [n \in DOMAIN h |-> h[n]]
      OBVIOUS
    <3>3. g = [n \in 0 .. Len(q) |-> g[n]]
      BY <2>1
    <3> QED BY <3>1, <3>2, <3>3
  <2> QED BY <2>3
<1>5. after = Step(after)
  <2> HIDE DEF Step
  <2> QED BY <1>4
<1>6. e = after[Len(q)]
  BY DEF suspendAll
<1> HIDE DEF after, S
<1>7. after[0] \in S /\ \A n \in 1 .. Len(q) : after[n - 1] \in S => after[n] \in S
  BY SMTT(30), <1>0, <1>1, <1>3, <1>5
<1>8. after[Len(q)] \in S
  BY <1>0, <1>7, LoopKeeps
<1> QED BY <1>6, <1>8 DEF S

\* While a queue is cancelled nothing is pending yet.
Cancelling(s, c) ==
    Kept(s) /\ s.action = ResumeCurrentThread /\ s.cur = c /\ s.ts[c] = "Restart"

LEMMA CancelledOne ==
  ASSUME NEW s, NEW c \in Threads, Cancelling(s, c), NEW t \in Threads, NEW e, e = cancelled(s, t)
  PROVE  Cancelling(e, c)
<1>1. Kept(e) /\ e.action = ResumeCurrentThread /\ e.cur = s.cur /\ StateOf(s, t, "Restart", e)
  BY CancelledKept DEF Cancelling
<1>2. s.ts \in [Threads -> ThreadStates]
  BY DEF Cancelling, Kept, Sound, States, ThreadStates
<1>3. e.ts[c] = "Restart"
  BY <1>1, <1>2 DEF StateOf, Cancelling
<1> QED BY <1>1, <1>3 DEF Cancelling

LEMMA CancelEach ==
  ASSUME NEW s, NEW c \in Threads, Cancelling(s, c), NEW q \in Seq(Threads),
         NEW e, e = cancelAll(s, q)
  PROVE  Deleting(e, c)
<1> DEFINE S == {x \in States : Cancelling(x, c)}
           F == [p \in S \X Threads |-> cancelled(p[1], p[2])]
           Step(f) == [n \in 0 .. Len(q) |-> IF n = 0 THEN s ELSE cancelled(f[n - 1], q[n])]
           after == CHOOSE f : f = Step(f)
<1>0. Len(q) \in Nat /\ \A i \in 1 .. Len(q) : q[i] \in Threads
  BY SMTT(30)
<1>1. ASSUME NEW x \in S, NEW t \in Threads PROVE cancelled(x, t) \in S
  <2> DEFINE y == cancelled(x, t)
  <2>1. Cancelling(y, c)
    BY CancelledOne
  <2>2. y \in States
    BY <2>1 DEF Cancelling, Kept, Sound
  <2> QED BY <2>1, <2>2
<1>2. F \in [S \X Threads -> S]
  BY <1>1
<1>3. s \in S
  BY DEF Cancelling, Kept, Sound
<1>4. \E f : f = Step(f)
  <2> HIDE DEF F, S
  <2>0. PICK g : LoopRun(S, F, s, q, g)
    BY <1>2, <1>3, LoopRuns
  <2>1. /\ g \in [0 .. Len(q) -> S] /\ g[0] = s
        /\ \A i \in 1 .. Len(q) : g[i] = F[<<g[i - 1], q[i]>>]
    BY <2>0 DEF LoopRun
  <2>2. \A i \in 1 .. Len(q) : g[i] = cancelled(g[i - 1], q[i])
    <3> TAKE i \in 1 .. Len(q)
    <3>1. g[i - 1] \in S /\ q[i] \in Threads
      BY SMTT(30), <1>0, <2>1
    <3> QED BY <2>1, <3>1 DEF F
  <2>3. g = Step(g)
    <3> DEFINE h == Step(g)
    <3>1. \A n \in 0 .. Len(q) : g[n] = h[n]
      BY SMTT(30), <1>0, <2>1, <2>2
    <3>2. DOMAIN h = 0 .. Len(q) /\ h = [n \in DOMAIN h |-> h[n]]
      OBVIOUS
    <3>3. g = [n \in 0 .. Len(q) |-> g[n]]
      BY <2>1
    <3> QED BY <3>1, <3>2, <3>3
  <2> QED BY <2>3
<1>5. after = Step(after)
  <2> HIDE DEF Step
  <2> QED BY <1>4
<1>6. e = rescheduleRequired(after[Len(q)])
  BY DEF cancelAll
<1> HIDE DEF after, S
<1>7. after[0] \in S /\ \A n \in 1 .. Len(q) : after[n - 1] \in S => after[n] \in S
  BY SMTT(30), <1>0, <1>1, <1>3, <1>5
<1>8. after[Len(q)] \in S
  BY <1>0, <1>7, LoopKeeps
<1>9. Cancelling(after[Len(q)], c)
  BY <1>8 DEF S
<1>10. Ready(e) /\ Reschedules(after[Len(q)], e)
  BY <1>6, <1>9, RescheduleReady, NoThread DEF Cancelling
<1> QED BY <1>9, <1>10, NoThread DEF Cancelling, Deleting, Reschedules

\* A runnable thread stays runnable.
LEMMA RunsOn ==
  ASSUME NEW s, Ready(s), NEW t \in Threads, isRunnable(s, t), NEW x \in Runnable,
         NEW e, e = setThreadState(s, t, x) \/ e = [s EXCEPT !.ts[t] = x]
  PROVE  Ready(e) /\ e.cur = s.cur /\ e.action = s.action /\ StateOf(s, t, x, e)
<1>0. Sound(s) /\ x \in ThreadStates
  BY DEF Ready, Kept, Runnable, ThreadStates
<1>1. /\ Sound(e) /\ e.prio = s.prio /\ e.cur = s.cur /\ e.action = s.action /\ StateOf(s, t, x, e)
      /\ \A u \in Threads : e.queued[u] <=> s.queued[u]
  <2>1. CASE e = setThreadState(s, t, x)
    <3>1. ThreadStateSet(s, t, x, e)
      BY <1>0, <2>1, SetThreadState
    <3> QED BY <3>1 DEF ThreadStateSet
  <2>2. CASE e = [s EXCEPT !.ts[t] = x]
    <3>1. StateSet(s, t, x, e)
      BY <1>0, <2>2, SetState DEF ThreadStates
    <3> QED BY <1>0, <3>1, RunnableAfter DEF StateSet
  <2> QED BY <2>1, <2>2
<1>2. \A u \in Threads : isRunnable(e, u) <=> isRunnable(s, u)
  BY <1>1 DEF StateOf
<1>3. Ready(e)
  BY <1>1, <1>2, ReadyAlike
<1> QED BY <1>1, <1>3

-----------------------------------------------------------------------------
(***************************************************************************)
(* Kernel entries.                                                         *)
(***************************************************************************)
\* A blocked thread is not the current one.
LEMMA BlockedFacts ==
  ASSUME Inv, NEW t \in Blocked
  PROVE  t \in Threads /\ k.ts[t] = "Blocked" /\ ~isRunnable(k, t) /\ t # k.cur /\ ~k.queued[t]
<1>1. t \in Threads /\ k.ts[t] = "Blocked"
  BY DEF Blocked
<1>2. ~isRunnable(k, t)
  BY <1>1 DEF isRunnable
<1> QED BY <1>1, <1>2, LeftFacts, NoThread DEF Inv, Kept

\* The first half of a delivery: a message wakes the thread, or a reply to its
\* fault stops it.
Delivered(s, t, state) == IF state = "Inactive" THEN setThreadState(s, t, state) ELSE Wake(s, t, state)

LEMMA DeliverReady ==
  ASSUME Inv, NEW t \in Blocked, NEW x \in {"Running", "Restart", "Inactive"},
         NEW e, e = Delivered(k, t, x)
  PROVE  /\ Ready(e) /\ e.cur = k.cur /\ StateOf(k, t, x, e)
         /\ e.action \in {ResumeCurrentThread, t} /\ \A u \in Threads : e.queued[u] <=> k.queued[u]
<1>0. Ready(k) /\ k.action = ResumeCurrentThread /\ k.action \notin Threads /\ t \in Threads
      /\ ~isRunnable(k, t) /\ t # k.cur /\ ~k.queued[t]
  BY LeftFacts, BlockedFacts DEF Inv
<1>1. CASE x = "Inactive"
  <2>1. e = setThreadState(k, t, x) /\ x \in {"Blocked", "Inactive"} /\ k.action # t
    BY <1>0, <1>1 DEF Delivered
  <2>2. Ready(e) /\ ThreadStateSet(k, t, x, e)
    BY <1>0, <2>1, StopReady
  <2> QED BY <1>0, <2>2 DEF ThreadStateSet
<1>2. CASE x # "Inactive"
  <2>1. e = Wake(k, t, x) /\ x \in Runnable
    BY <1>2 DEF Delivered, Runnable
  <2>2. Woken(k, t, x, e)
    BY <1>0, <2>1, WakeReady
  <2> QED BY <1>0, <2>2 DEF Woken
<1> QED BY <1>1, <1>2

LEMMA DeliverInv ==
  ASSUME Inv, NEW t \in Blocked, NEW x \in {"Running", "Restart", "Inactive"}, Deliver(t, x)
  PROVE  Inv'
<1> DEFINE e == Delivered(k, t, x)
<1>1. Ready(e)
  BY DeliverReady
<1>2. k' = Leave(e)
  BY DEF Deliver, Delivered
<1> HIDE DEF e
<1> QED BY <1>1, <1>2, Leaves DEF Inv

\* The current thread stops after it has woken another, or not.
LEMMA CurrentStops ==
  ASSUME Inv, k.cur \in Threads, NEW s, Ready(s), s.cur = k.cur, NEW x \in {"Blocked", "Inactive"},
         s.action = ResumeCurrentThread \/ s.action \in Blocked,
         \A u \in Threads : s.queued[u] <=> k.queued[u],
         NEW e, e = setThreadState(s, k.cur, x)
  PROVE  Ready(e)
<1>1. ~k.queued[k.cur] /\ k.cur \notin Blocked
  BY LeftFacts, NoThread DEF Inv, Blocked
<1>2. ~s.queued[k.cur] /\ s.action # k.cur
  BY <1>1, NoThread
<1> QED BY <1>2, StopReady

LEMMA CallInv ==
  ASSUME Inv, NEW t \in Blocked, NEW x \in {"Blocked", "Inactive"}, Call(t, x)
  PROVE  Inv'
<1> DEFINE w == Wake(k, t, "Running")
           e == setThreadState(w, k.cur, x)
<1>0. k.cur \in Threads
  BY LeftFacts DEF Inv, Call, User
<1>1. w = Delivered(k, t, "Running")
  BY DEF Delivered
<1>2. /\ Ready(w) /\ w.cur = k.cur
      /\ w.action \in {ResumeCurrentThread, t} /\ \A u \in Threads : w.queued[u] <=> k.queued[u]
  BY SMTT(30), <1>1, DeliverReady
<1>3. k' = Leave(e)
  BY DEF Call
<1> HIDE DEF w
<1>4. Ready(e)
  BY <1>0, <1>2, CurrentStops
<1> HIDE DEF e
<1> QED BY <1>3, <1>4, Leaves DEF Inv

LEMMA StopInv ==
  ASSUME Inv, NEW x \in {"Blocked", "Inactive"}, Stop(x)
  PROVE  Inv'
<1> DEFINE e == setThreadState(k, k.cur, x)
<1>0. k.cur \in Threads /\ Ready(k) /\ k.action = ResumeCurrentThread
  BY LeftFacts DEF Inv, Stop, User
<1>1. Ready(e)
  BY <1>0, CurrentStops
<1>2. k' = Leave(e)
  BY DEF Stop
<1> HIDE DEF e
<1> QED BY <1>1, <1>2, Leaves DEF Inv

LEMMA ReplyRecvInv ==
  ASSUME Inv, NEW t \in Blocked, NEW x \in {"Running", "Restart", "Inactive"}, NEW u \in Blocked,
         ReplyRecv(t, x, u)
  PROVE  Inv'
<1> DEFINE r == Delivered(k, t, x)
<1>0. k.cur \in Threads
  BY LeftFacts DEF Inv, ReplyRecv, User
<1>1. /\ Ready(r) /\ r.cur = k.cur /\ StateOf(k, t, x, r)
      /\ r.action \in {ResumeCurrentThread, t} /\ \A v \in Threads : r.queued[v] <=> k.queued[v]
  BY SMTT(30), DeliverReady
<1>2. k' = Leave(IF u = t THEN setThreadState(r, r.cur, "Blocked") ELSE Wake(r, u, "Running"))
  BY DEF ReplyRecv, Delivered, Block
<1> HIDE DEF r
<1>3. CASE u = t
  <2> DEFINE e == setThreadState(r, k.cur, "Blocked")
  <2>1. Ready(e)
    BY <1>0, <1>1, CurrentStops
  <2>2. k' = Leave(e)
    BY <1>1, <1>2, <1>3
  <2> HIDE DEF e
  <2> QED BY <2>1, <2>2, Leaves DEF Inv
<1>4. CASE u # t
  <2> DEFINE e == Wake(r, u, "Running")
  <2>1. u \in Threads /\ ~isRunnable(r, u) /\ u # r.cur /\ "Running" \in Runnable
    BY <1>1, <1>4, BlockedFacts DEF StateOf, Runnable
  <2>2. Woken(r, u, "Running", e)
    BY <1>1, <2>1, WakeReady
  <2>3. k' = Leave(e)
    BY <1>2, <1>4
  <2> HIDE DEF e
  <2> QED BY <2>2, <2>3, Leaves DEF Inv, Woken
<1> QED BY <1>3, <1>4

LEMMA SignalInv ==
  ASSUME Inv, NEW t \in Blocked, Signal(t)
  PROVE  Inv'
<1> DEFINE e == Delivered(k, t, "Running")
<1>1. Ready(e)
  BY DeliverReady
<1>2. k' = Leave(e)
  BY DEF Signal, Delivered
<1> HIDE DEF e
<1> QED BY <1>1, <1>2, Leaves DEF Inv


LEMMA ThreadInv ==
  ASSUME Inv, NEW t \in Threads,
         Suspend(t) \/ Resume(t) \/ \E prio \in Priorities : SetPriority(t, prio)
  PROVE  Inv'
<1>1. ASSUME Suspend(t) PROVE Inv'
  <2> DEFINE e == suspend(k, t)
  <2>1. Suspended(k, t, e)
    BY LeftFacts, SuspendReady DEF Inv
  <2>2. k' = Leave(e)
    BY <1>1 DEF Suspend
  <2> HIDE DEF e
  <2> QED BY <2>1, <2>2, Leaves DEF Inv, Suspended
<1>2. ASSUME Resume(t) PROVE Inv'
  <2> DEFINE e == restart(k, t)
  <2>1. Ready(e)
    BY RestartReady DEF Inv
  <2>2. k' = Leave(e)
    BY <1>2 DEF Resume
  <2> HIDE DEF e
  <2> QED BY <2>1, <2>2, Leaves DEF Inv
<1>3. ASSUME NEW prio \in Priorities, SetPriority(t, prio) PROVE Inv'
  <2> DEFINE e == setPriority(k, t, prio)
  <2>1. Ready(e)
    BY <1>3, SetPriorityReady DEF Inv, SetPriority, User
  <2>2. k' = Leave(e)
    BY <1>3 DEF SetPriority
  <2> HIDE DEF e
  <2> QED BY <2>1, <2>2, Leaves DEF Inv
<1> QED BY <1>1, <1>2, <1>3

LEMMA SelfInv ==
  ASSUME Inv, Tick \/ handleYield \/ WriteRegisters
  PROVE  Inv'
<1>0. Ready(k) /\ Kept(k) /\ k.action \notin Threads
  BY LeftFacts DEF Inv
<1>1. ASSUME Tick PROVE Inv'
  <2> DEFINE e == timerTick(k)
  <2>1. Ready(e)
    BY <1>0, TickReady
  <2>2. k' = Leave(e)
    BY <1>1 DEF Tick
  <2> HIDE DEF e
  <2> QED BY <2>1, <2>2, Leaves DEF Inv
<1>2. ASSUME handleYield PROVE Inv'
  <2> DEFINE e == rescheduleRequired(tcbSchedAppend(k, k.cur))
  <2>1. k.cur \in Threads /\ isRunnable(k, k.cur) /\ ~k.queued[k.cur]
    BY <1>2, LeftFacts DEF Inv, handleYield, User
  <2>2. tcbSchedDequeue(k, k.cur) = k
    BY <2>1 DEF tcbSchedDequeue
  <2>3. k' = Leave(e)
    BY <1>2, <2>2 DEF handleYield
  <2>4. Ready(e)
    BY <1>0, <2>1, RequeueReady
  <2> HIDE DEF e
  <2> QED BY <2>3, <2>4, Leaves DEF Inv
<1>3. ASSUME WriteRegisters PROVE Inv'
  <2> DEFINE e == rescheduleRequired(k)
  <2>1. Ready(e)
    BY <1>0, RescheduleReady
  <2>2. k' = Leave(e)
    BY <1>3 DEF WriteRegisters
  <2> HIDE DEF e
  <2> QED BY <2>1, <2>2, Leaves DEF Inv
<1> QED BY <1>1, <1>2, <1>3

Moved(s, t, e) ==
    /\ Sound(e) /\ e.ts = s.ts /\ e.prio = s.prio /\ e.queued = s.queued
    /\ e.action = s.action /\ e.cur = t

LEMMA MoveTo ==
  ASSUME NEW s, Sound(s), NEW t \in Threads, NEW e, e = [s EXCEPT !.cur = t]
  PROVE  Moved(s, t, e)
<1>1. s \in States /\ Queues(s) /\ Bitmaps(s) /\ ~s.failed
  BY DEF Sound
<1>2. /\ e \in States /\ e.ts = s.ts /\ e.prio = s.prio /\ e.queued = s.queued /\ e.cur = t
      /\ e.action = s.action /\ e.ready = s.ready /\ e.L1 = s.L1 /\ e.L2 = s.L2
  BY <1>1 DEF States
<1>3. ~e.failed
  BY <1>1 DEF States
<1>4. Queues(e)
  BY SMTT(30), <1>1, <1>2 DEF Queues
<1>5. Bitmaps(e)
  BY SMTT(30), <1>1, <1>2 DEF Bitmaps
<1> QED BY <1>2, <1>3, <1>4, <1>5 DEF Moved, Sound

\* The fast paths: no queue changes, and the thread that runs has no runnable
\* thread above it.
LEMMA FastInv ==
  ASSUME Inv, NEW t \in Blocked, FastCall(t) \/ FastReplyRecv(t)
  PROVE  Inv'
<1> DEFINE c == k.cur
           a == [k EXCEPT !.ts[c] = "Blocked"]
           b == [a EXCEPT !.ts[t] = "Running"]
           e == [b EXCEPT !.cur = t]
<1>0. /\ Kept(k) /\ Sound(k) /\ k.action = ResumeCurrentThread /\ c \in Threads /\ isRunnable(k, c)
      /\ ~k.queued[c] /\ Highest(k, Idle) /\ c # Idle
  BY LeftFacts DEF Inv, FastCall, FastReplyRecv, User
<1>1. t \in Threads /\ ~isRunnable(k, t) /\ t # c /\ ~k.queued[t]
  BY BlockedFacts
<1>2. k' = e /\ (k.prio[t] >= k.prio[c] \/ isHighestPrio(k, k.prio[t]))
  <2>1. k' = [k EXCEPT !.ts[c] = "Blocked", !.ts[t] = "Running", !.cur = t]
    BY DEF FastCall, FastReplyRecv
  <2>2. k.prio[t] >= k.prio[c] \/ isHighestPrio(k, k.prio[t])
    BY DEF FastCall, FastReplyRecv
  <2> QED BY <2>1, <2>2
<1>3. k.prio \in [Threads -> Priorities] /\ \A u \in Threads : k.prio[u] \in Nat
  BY SMTT(30), <1>0, SchedulerAssumption DEF Sound, States, Priorities
<1>4. StateSet(k, c, "Blocked", a)
  BY <1>0, SetState
<1> HIDE DEF a
<1>5. StateSet(a, t, "Running", b)
  <2>1. Sound(a)
    BY <1>4 DEF StateSet
  <2> QED BY <1>1, <2>1, SetState
<1> HIDE DEF b
<1>6. /\ Sound(b) /\ b.prio = k.prio /\ b.action = k.action /\ b.queued = k.queued
      /\ b.ts = [[k.ts EXCEPT ![c] = "Blocked"] EXCEPT ![t] = "Running"]
  BY <1>4, <1>5 DEF StateSet
<1>7. Moved(b, t, e)
  BY <1>1, <1>6, MoveTo
<1> HIDE DEF e
<1>8. \A u \in Threads : isRunnable(e, u) <=> u = t \/ (isRunnable(k, u) /\ u # c)
  <2>1. k.ts \in [Threads -> ThreadStates]
    BY <1>0 DEF Sound, States, ThreadStates
  <2>2. e.ts = [[k.ts EXCEPT ![c] = "Blocked"] EXCEPT ![t] = "Running"]
    BY <1>6, <1>7 DEF Moved
  <2> QED BY <1>0, <1>1, <2>1, <2>2 DEF isRunnable
<1>9. e.ts[t] = "Running"
  BY <1>1, <1>6, <1>7, <1>0 DEF Moved, Sound, States
<1>10. \A u \in Threads : e.queued[u] <=> k.queued[u]
  BY <1>6, <1>7 DEF Moved
<1>11. e.prio = k.prio /\ e.cur = t /\ e.action = ResumeCurrentThread /\ Sound(e) /\ t # Idle
  BY <1>0, <1>1, <1>6, <1>7, NoThread DEF Moved
<1>12. \A u \in Threads : isRunnable(k, u) /\ u # c => k.queued[u]
  BY <1>0, NoThread DEF Kept
<1>13. Kept(e)
  <2>1. \A u \in Threads : e.queued[u] => isRunnable(e, u)
    BY <1>0, <1>8, <1>10 DEF Kept
  <2>2. \A u \in Threads : isRunnable(e, u) /\ u # e.cur => e.queued[u]
    BY <1>8, <1>10, <1>11, <1>12
  <2> QED BY <1>11, <2>1, <2>2 DEF Kept
<1>14. Highest(e, Idle)
  <2> SUFFICES ASSUME NEW u \in Threads, isRunnable(e, u), u # t PROVE k.prio[u] <= k.prio[t]
    BY SMTT(30), <1>1, <1>3, <1>11 DEF Highest
  <2>1. isRunnable(k, u) /\ u # c /\ k.queued[u]
    BY <1>8, <1>12
  <2>2. k.prio[u] <= k.prio[c]
    BY <1>0, <2>1, NoThread DEF Highest
  <2>3. isHighestPrio(k, k.prio[t]) => k.prio[u] <= k.prio[t]
    BY <1>0, <1>1, <1>3, <2>1, QueuedPrio
  <2> QED BY SMTT(30), <1>0, <1>1, <1>2, <1>3, <2>2, <2>3
<1>15. Ready(e)
  BY <1>1, <1>8, <1>10, <1>11, <1>13, <1>14, NoThread DEF Ready
<1> QED BY <1>2, <1>9, <1>11, <1>15 DEF Inv, Left


LEMMA DeleteInv ==
  ASSUME Inv, NEW q \in Orders(Blocked), NEW d \in Orders(Threads), NEW u \in Threads, Delete(q, d, u)
  PROVE  Inv'
<1> DEFINE c == k.cur
           invoked == [k EXCEPT !.ts[c] = "Restart"]
           freed   == IF q = << >> THEN invoked ELSE cancelAll(invoked, q)
           deleted == suspendAll(freed, d)
           ended   == IF deleted.ts[c] = "Restart" THEN setThreadState(deleted, c, "Running")
                      ELSE deleted
           tick    == timerTick(deleted)
           woken   == Wake(deleted, u, "Running")
<1>0. /\ c \in Threads /\ Ready(k) /\ Sound(k) /\ k.action = ResumeCurrentThread /\ isRunnable(k, c)
      /\ "Restart" \in Runnable /\ "Running" \in Runnable
  BY LeftFacts DEF Inv, Delete, User, Runnable
<1>1. k' = Leave(ended) \/ k' = Leave(tick) \/ (deleted.ts[u] = "Blocked" /\ k' = Leave(woken))
  BY DEF Delete
<1>2. Ready(invoked) /\ invoked.cur = k.cur /\ invoked.action = k.action /\ StateOf(k, c, "Restart", invoked)
  BY <1>0, RunsOn
<1> HIDE DEF invoked
<1>3. invoked.ts[c] = "Restart"
  BY <1>0, <1>2 DEF StateOf, Sound, States
<1>4. Deleting(freed, c)
  <2>1. CASE q = << >>
    BY <1>0, <1>2, <1>3, <2>1, NoThread DEF Deleting
  <2>2. CASE q # << >>
    <3>1. q \in Seq(Threads)
      BY OrderMembers DEF Blocked
    <3>2. Cancelling(invoked, c)
      BY <1>0, <1>2, <1>3 DEF Cancelling, Ready
    <3> QED BY <1>0, <2>2, <3>1, <3>2, CancelEach
  <2> QED BY <2>1, <2>2
<1> HIDE DEF freed
<1>5. Deleting(deleted, c)
  BY <1>0, <1>4, OrderMembers, SuspendEach
<1> HIDE DEF deleted
<1>6. Ready(deleted) /\ deleted.cur = c /\ deleted.ts[c] \in {"Restart", "Inactive"}
  BY <1>5 DEF Deleting
<1>7. Ready(ended)
  <2>1. CASE deleted.ts[c] = "Restart"
    <3> DEFINE y == setThreadState(deleted, c, "Running")
    <3>1. isRunnable(deleted, c)
      BY <1>0, <2>1 DEF isRunnable
    <3>2. Ready(y)
      BY <1>0, <1>6, <3>1, RunsOn
    <3>3. ended = y
      BY <2>1
    <3> QED BY <3>2, <3>3
  <2>2. CASE deleted.ts[c] # "Restart"
    BY <1>6, <2>2
  <2> QED BY <2>1, <2>2
<1>8. Ready(tick)
  BY <1>6, TickReady
<1>9. deleted.ts[u] = "Blocked" => Ready(woken)
  <2> HAVE deleted.ts[u] = "Blocked"
  <2>1. ~isRunnable(deleted, u) /\ u # deleted.cur
    BY <1>6 DEF isRunnable
  <2>2. Woken(deleted, u, "Running", woken)
    BY <1>0, <1>6, <2>1, WakeReady
  <2> QED BY <2>2 DEF Woken
<1> HIDE DEF ended, tick, woken
<1>10. Left(k')
  BY <1>1, <1>7, <1>8, <1>9, Leaves
<1> QED BY <1>10 DEF Inv

LEMMA InitInv == Init => Inv
<1> HAVE Init
<1>1. Booted \in States /\ ~Booted.failed
  BY SMTT(30), SchedulerAssumption, NoThread
     DEF Booted, States, Priorities, seL4_MaxPrio, L1Indices, Bits
<1>2. \A t \in Threads : Booted.queued[t] = FALSE
  BY DEF Booted
<1>3. \A p \in Priorities : Booted.ready[p] = << >>
  BY DEF Booted
<1>4. Queues(Booted)
  BY SMTT(30), <1>2, <1>3 DEF Queues, Once, Elems
<1>5. Bitmaps(Booted)
  <2>1. \A w \in L1Indices : Booted.L2[w] = {}
    BY DEF Booted, L1Indices
  <2>2. Booted.L1 = {}
    BY DEF Booted
  <2> QED BY <1>3, <2>1, <2>2, WordType DEF Bitmaps
<1>6. Sound(Booted)
  BY <1>1, <1>4, <1>5 DEF Sound
<1>7. /\ Booted.action = Root /\ Booted.cur = Idle /\ Root \in Threads
      /\ \A t \in Threads : isRunnable(Booted, t) <=> t = Root
  BY SchedulerAssumption DEF Booted, isRunnable
<1>8. Ready(Booted)
  BY <1>2, <1>6, <1>7, NoThread DEF Ready, Kept
<1> QED BY <1>8, Leaves DEF Init, Inv

LEMMA NextInv == Inv /\ [Next]_k => Inv'
<1> SUFFICES ASSUME Inv, [Next]_k PROVE Inv'
  OBVIOUS
<1>1. ASSUME NEW t \in Blocked,
             \/ \E state \in {"Running", "Restart", "Inactive"} :
                   Deliver(t, state) \/ \E u \in Blocked : ReplyRecv(t, state, u)
             \/ Call(t, "Blocked") \/ Call(t, "Inactive")
             \/ Signal(t) \/ FastCall(t) \/ FastReplyRecv(t)
      PROVE  Inv'
  BY <1>1, DeliverInv, ReplyRecvInv, CallInv, SignalInv, FastInv
<1>2. CASE UNCHANGED k
  BY <1>2 DEF Inv
<1> QED BY <1>1, <1>2, SelfInv, StopInv, ThreadInv, DeleteInv DEF Next

-----------------------------------------------------------------------------
(***************************************************************************)
(* The theorems.                                                           *)
(***************************************************************************)
\* Left(k) holds whenever the kernel is left: the queues and bitmaps are sound,
\* every runnable thread is current or queued, nothing is pending, and the
\* current thread is the one schedule had to choose.
THEOREM SchedulerInvariant == Spec => []Inv
BY InitInv, NextInv, PTL DEF Spec

\* The theorems on cardinality, which only ReadyExact needs.
INSTANCE FiniteSetTheorems

LEMMA Occurs ==
  ASSUME NEW q \in Seq(Threads), Once(q), NEW t
  PROVE  Cardinality({i \in DOMAIN q : q[i] = t}) = IF t \in Elems(q) THEN 1 ELSE 0
<1> DEFINE S == {i \in DOMAIN q : q[i] = t}
<1>1. CASE t \in Elems(q)
  <2>1. PICK i \in DOMAIN q : q[i] = t
    BY <1>1 DEF Elems
  <2>2. S = {i}
    BY <2>1 DEF Once
  <2>3. Cardinality(S) = 1
    BY <2>2, FS_Singleton
  <2> QED BY <1>1, <2>3
<1>2. CASE t \notin Elems(q)
  <2>1. S = {}
    BY <1>2 DEF Elems
  <2>2. Cardinality(S) = 0
    BY <2>1, FS_EmptySet
  <2> QED BY <1>2, <2>2
<1> QED BY <1>1, <1>2

LEMMA InvReady == Inv => ReadyExact
<1> SUFFICES ASSUME Inv PROVE ReadyExact
  OBVIOUS
<1>0. Kept(k) /\ Sound(k) /\ k.action = ResumeCurrentThread /\ k \in States /\ Queues(k) /\ Bitmaps(k)
  BY LeftFacts DEF Inv, Sound
<1>1. \A t \in Threads : k.queued[t] <=> isRunnable(k, t) /\ t # k.cur
  <2> TAKE t \in Threads
  <2>1. k.cur = t => ~k.queued[t]
    BY LeftFacts, NoThread DEF Inv
  <2> QED BY <1>0, <2>1, NoThread DEF Kept
<1>2. \A t \in Threads, p \in Priorities :
          Cardinality({i \in DOMAIN k.ready[p] : k.ready[p][i] = t})
            = IF isRunnable(k, t) /\ t # k.cur /\ p = k.prio[t] THEN 1 ELSE 0
  <2> TAKE t \in Threads, p \in Priorities
  <2>1. k.ready[p] \in Seq(Threads) /\ Once(k.ready[p])
    BY <1>0 DEF States, Queues
  <2>2. t \in Elems(k.ready[p]) <=> k.queued[t] /\ k.prio[t] = p
    BY <1>0 DEF Queues
  <2>3. t \in Elems(k.ready[p]) <=> isRunnable(k, t) /\ t # k.cur /\ p = k.prio[t]
    BY <1>1, <2>2
  <2>4. Cardinality({i \in DOMAIN k.ready[p] : k.ready[p][i] = t})
          = IF t \in Elems(k.ready[p]) THEN 1 ELSE 0
    BY <2>1, Occurs
  <2> QED BY <2>3, <2>4
<1>3. k.L1 = {prio_to_l1index(p) : p \in {p \in Priorities : k.ready[p] # << >>}}
  BY <1>0 DEF Bitmaps
<1>4. \A p \in Priorities :
          p % wordBits \in k.L2[invert_l1index(prio_to_l1index(p))] <=> k.ready[p] # << >>
  BY <1>0 DEF Bitmaps, Bit, Word
<1> QED BY <1>1, <1>2, <1>3, <1>4 DEF ReadyExact

\* Whenever the kernel is left, the ready queues hold each runnable thread but
\* the current one exactly once, in the queue of its priority, and tcbQueued and
\* the two bitmap levels agree with them: no chain of enqueues, dequeues,
\* priority changes, cancelled and deleted objects loses or repeats a thread.
THEOREM QueuesAreExact == Spec => []ReadyExact
BY SchedulerInvariant, InvReady, PTL

LEMMA InvHighest == Inv => HighestRuns
<1> SUFFICES ASSUME Inv PROVE HighestRuns
  OBVIOUS
<1>1. CASE k.cur = Idle
  <2>1. \A t \in Threads : isRunnable(k, t) => k.cur # Idle
    BY DEF Inv, Left, Ready
  <2> QED BY <1>1, <2>1 DEF HighestRuns
<1>2. CASE k.cur # Idle
  <2>1. k.ts[k.cur] = "Running" /\ Highest(k, Idle)
    BY <1>2, LeftFacts DEF Inv
  <2> QED BY <1>2, <2>1, NoThread DEF HighestRuns, Highest
<1> QED BY <1>1, <1>2

\* schedule and the fast paths leave to a running thread of the highest
\* priority among the runnable ones, and to the idle thread only if there is
\* none, for every number of threads and every size of the bitmaps.
THEOREM TheHighestRuns == Spec => []HighestRuns
BY SchedulerInvariant, InvHighest, PTL

\* No assertion of schedule, chooseThread or activateThread ever fails.
THEOREM AssertionsAreKept == Spec => []AssertionsHold
<1>1. Inv => AssertionsHold
  BY LeftFacts DEF Inv, Sound, AssertionsHold
<1> QED BY <1>1, SchedulerInvariant, PTL

=============================================================================
