--------------------------- MODULE ConsoleProofs ---------------------------
(***************************************************************************)
(* Proofs about Console, for a ring buffer of any size, any set of keys    *)
(* and any number of readers.                                              *)
(***************************************************************************)
EXTENDS Console, TLAPS, SequenceTheorems

\* The seconds each prover has for a leaf.
USE ZenonT(20), SMTT(20)

\* The steps of readstdin_handler between which no other reader may come.
Busy == {"advance", "copy", "wrap"}
Quiet == {"idle", "enter", "wait", "test", "reply"}

TypeOK ==
    /\ key_buffer \in [0 .. SIZE - 1 -> Chars]
    /\ buffer_head \in 0 .. SIZE /\ buffer_tail \in 0 .. SIZE - 1
    /\ pc \in [Readers -> Quiet \cup Busy]
    /\ waiters \in Seq(Readers)
    /\ place \in [Readers -> 0 .. SIZE - 1] /\ due \in [Readers -> Chars]
    /\ queue \in Seq(Chars)

\* The queue lies between buffer_head and buffer_tail.
Held ==
    /\ Len(queue) = (buffer_tail - buffer_head) % SIZE
    /\ \A k \in 1 .. Len(queue) : queue[k] = key_buffer[(buffer_head + k - 1) % SIZE]

\* At most one reader is busy; it has found a character, or it has passed the
\* place it copies, and only then buffer_head may be unreduced.
Reader ==
    /\ \A r, x \in Readers : pc[r] \in Busy /\ pc[x] \in Busy => r = x
    /\ buffer_head = SIZE => \E r \in Readers : pc[r] \in {"copy", "wrap"}
    /\ \A r \in Readers :
          /\ pc[r] = "advance" => queue # <<>>
          /\ pc[r] = "copy" => key_buffer[place[r]] = due[r] /\ buffer_head = place[r] + 1

\* The only reader of a console waits, or is about to wait, for a line that has
\* not come, or whose signal is pending.
AloneAt(r) ==
    /\ \A x \in Readers \ {r} : pc[x] = "idle"
    /\ pc[r] # "wait" => waiters = <<>>
    /\ pc[r] = "wait" => waiters = <<r>> /\ ~pending
    /\ pc[r] \in {"enter", "wait"} =>
          ~torn /\ (~pending => \A k \in 1 .. Len(queue) : queue[k].key # Enter)

Alone == \A r \in Readers : use.readers = {r} => AloneAt(r)

\* The inductive invariant.
Inv == Alone /\ use \in Uses /\ (~torn => TypeOK /\ Held /\ Reader)

-----------------------------------------------------------------------------
(***************************************************************************)
(* The ring.                                                               *)
(***************************************************************************)
LEMMA ModCases ==
  ASSUME NEW n \in Nat \ {0}, NEW x \in Int
  PROVE  /\ 0 <= x /\ x < n => x % n = x
         /\ n <= x /\ x < n + n => x % n = x - n
         /\ -n <= x /\ x < 0 => x % n = x + n
BY SMTT(30)

Fill(h, t) == IF h <= t THEN t - h ELSE t - h + SIZE
Slot(h, k) == IF h + k - 1 < SIZE THEN h + k - 1 ELSE h + k - 1 - SIZE
After(t) == IF t + 1 < SIZE THEN t + 1 ELSE 0
Before(t) == IF t > 0 THEN t - 1 ELSE SIZE - 1

LEMMA SizeType == SIZE \in Nat \ {0, 1}
BY ConsoleAssumption DEF SIZE

LEMMA Ring ==
  ASSUME NEW h \in 0 .. SIZE, NEW t \in 0 .. SIZE - 1
  PROVE  /\ (t - h) % SIZE = Fill(h, t) /\ Fill(h, t) \in 0 .. SIZE - 1
         /\ \A k \in 1 .. SIZE - 1 : (h + k - 1) % SIZE = Slot(h, k) /\ Slot(h, k) \in 0 .. SIZE - 1
         /\ (t + 1) % SIZE = After(t) /\ After(t) \in 0 .. SIZE - 1
         /\ (t + SIZE - 1) % SIZE = Before(t) /\ Before(t) \in 0 .. SIZE - 1
         /\ h % SIZE = (IF h = SIZE THEN 0 ELSE h)
<1> USE SizeType
<1>0. SIZE \in Nat \ {0} /\ h \in Int /\ t \in Int
  BY SMTT(30)
<1> HIDE DEF SIZE
<1>m. ASSUME NEW x \in Int
      PROVE  /\ 0 <= x /\ x < SIZE => x % SIZE = x
             /\ SIZE <= x /\ x < SIZE + SIZE => x % SIZE = x - SIZE
             /\ -SIZE <= x /\ x < 0 => x % SIZE = x + SIZE
  BY <1>0, ModCases
<1>1. (t - h) % SIZE = Fill(h, t) /\ Fill(h, t) \in 0 .. SIZE - 1
  <2> DEFINE x == t - h
  <2>1. x \in Int /\ x < SIZE /\ -SIZE <= x /\ (h <= t <=> 0 <= x)
    BY SMTT(30)
  <2>2. Fill(h, t) = IF 0 <= x THEN x ELSE x + SIZE
    BY SMTT(30) DEF Fill
  <2> HIDE DEF x
  <2>3. x % SIZE = (IF 0 <= x THEN x ELSE x + SIZE)
    BY SMTT(30), <1>m, <2>1
  <2> QED BY SMTT(30), <2>1, <2>2, <2>3 DEF x
<1>2. ASSUME NEW k \in 1 .. SIZE - 1
      PROVE  (h + k - 1) % SIZE = Slot(h, k) /\ Slot(h, k) \in 0 .. SIZE - 1
  <2> DEFINE x == h + k - 1
  <2>1. x \in Int /\ 0 <= x /\ x < SIZE + SIZE
    BY SMTT(30)
  <2>2. Slot(h, k) = IF x < SIZE THEN x ELSE x - SIZE
    BY SMTT(30) DEF Slot
  <2> HIDE DEF x
  <2>3. x % SIZE = (IF x < SIZE THEN x ELSE x - SIZE)
    BY SMTT(30), <1>m, <2>1
  <2> QED BY SMTT(30), <2>1, <2>2, <2>3 DEF x
<1>3. (t + 1) % SIZE = After(t) /\ After(t) \in 0 .. SIZE - 1
  <2> DEFINE x == t + 1
  <2>1. x \in Int /\ 0 <= x /\ x <= SIZE
    BY SMTT(30)
  <2>2. After(t) = IF x < SIZE THEN x ELSE x - SIZE
    BY SMTT(30), <2>1 DEF After
  <2> HIDE DEF x
  <2>3. x % SIZE = (IF x < SIZE THEN x ELSE x - SIZE)
    BY SMTT(30), <1>m, <2>1
  <2> QED BY SMTT(30), <2>1, <2>2, <2>3 DEF x
<1>4. (t + SIZE - 1) % SIZE = Before(t) /\ Before(t) \in 0 .. SIZE - 1
  <2> DEFINE x == t + SIZE - 1
  <2>1. x \in Int /\ 0 <= x /\ x < SIZE + SIZE
    BY SMTT(30)
  <2>2. Before(t) = IF x < SIZE THEN x ELSE x - SIZE
    BY SMTT(30), <2>1 DEF Before
  <2> HIDE DEF x
  <2>3. x % SIZE = (IF x < SIZE THEN x ELSE x - SIZE)
    BY SMTT(30), <1>m, <2>1
  <2> QED BY SMTT(30), <2>1, <2>2, <2>3 DEF x
<1>5. h % SIZE = (IF h = SIZE THEN 0 ELSE h)
  <2>1. /\ 0 <= h /\ h < SIZE => h % SIZE = h
        /\ SIZE <= h /\ h < SIZE + SIZE => h % SIZE = h - SIZE
    BY <1>0, <1>m
  <2> QED BY SMTT(30), <2>1
<1> QED BY <1>1, <1>2, <1>3, <1>4, <1>5

\* Held, without division.
HeldAt(b, h, t, q) ==
    Len(q) = Fill(h, t) /\ \A k \in 1 .. Len(q) : q[k] = b[Slot(h, k)]

LEMMA HeldLinear ==
  ASSUME buffer_head \in 0 .. SIZE, buffer_tail \in 0 .. SIZE - 1
  PROVE  Held <=> HeldAt(key_buffer, buffer_head, buffer_tail, queue)
<1>1. /\ (buffer_tail - buffer_head) % SIZE = Fill(buffer_head, buffer_tail)
      /\ Fill(buffer_head, buffer_tail) \in 0 .. SIZE - 1
      /\ \A k \in 1 .. SIZE - 1 : (buffer_head + k - 1) % SIZE = Slot(buffer_head, k)
  BY Ring
<1>2. \A k \in 1 .. Fill(buffer_head, buffer_tail) : k \in 1 .. SIZE - 1
  BY SMTT(30), <1>1, SizeType
<1> QED BY <1>1, <1>2 DEF Held, HeldAt

LEMMA HeldLinearNext ==
  ASSUME buffer_head' \in 0 .. SIZE, buffer_tail' \in 0 .. SIZE - 1,
         HeldAt(key_buffer', buffer_head', buffer_tail', queue')
  PROVE  Held'
<1>1. /\ (buffer_tail' - buffer_head') % SIZE = Fill(buffer_head', buffer_tail')
      /\ Fill(buffer_head', buffer_tail') \in 0 .. SIZE - 1
      /\ \A k \in 1 .. SIZE - 1 : (buffer_head' + k - 1) % SIZE = Slot(buffer_head', k)
  BY Ring
<1>2. \A k \in 1 .. Fill(buffer_head', buffer_tail') : k \in 1 .. SIZE - 1
  BY SMTT(30), <1>1, SizeType
<1> QED BY <1>1, <1>2 DEF Held, HeldAt

\* A character behind the last, in a ring that is not full.
LEMMA Stored ==
  ASSUME NEW S, NEW b \in [0 .. SIZE - 1 -> S], NEW h \in 0 .. SIZE - 1, NEW t \in 0 .. SIZE - 1,
         NEW q \in Seq(S), HeldAt(b, h, t, q), After(t) # h, NEW c \in S
  PROVE  HeldAt([b EXCEPT ![t] = c], h, After(t), Append(q, c))
<1> USE SizeType
<1>1. Len(q) = Fill(h, t) /\ Len(q) \in Nat
  BY SMTT(30) DEF HeldAt
<1>2. Fill(h, After(t)) = Fill(h, t) + 1 /\ Slot(h, Fill(h, t) + 1) = t
  BY SMTT(30) DEF Fill, After, Slot
<1>3. \A k \in 1 .. Fill(h, t) : Slot(h, k) # t /\ Slot(h, k) \in 0 .. SIZE - 1
  BY SMTT(30) DEF Fill, Slot
<1>4. /\ Len(Append(q, c)) = Len(q) + 1 /\ Append(q, c)[Len(q) + 1] = c
      /\ \A k \in 1 .. Len(q) : Append(q, c)[k] = q[k]
  BY SMTT(30)
<1>5. ASSUME NEW k \in 1 .. Len(q) + 1 PROVE Append(q, c)[k] = [b EXCEPT ![t] = c][Slot(h, k)]
  <2>1. CASE k = Len(q) + 1
    BY <1>1, <1>2, <1>4, <2>1
  <2>2. CASE k \in 1 .. Len(q)
    <3>1. Append(q, c)[k] = b[Slot(h, k)]
      BY <1>4, <2>2 DEF HeldAt
    <3>2. Slot(h, k) # t /\ Slot(h, k) \in 0 .. SIZE - 1
      BY <1>1, <1>3, <2>2
    <3> QED BY <3>1, <3>2
  <2> QED BY SMTT(30), <1>1, <2>1, <2>2
<1> QED BY <1>1, <1>2, <1>4, <1>5 DEF HeldAt

LEMMA Shorter ==
  ASSUME NEW S, NEW q \in Seq(S), q # <<>>
  PROVE  /\ SubSeq(q, 1, Len(q) - 1) \in Seq(S)
         /\ Len(SubSeq(q, 1, Len(q) - 1)) = Len(q) - 1
<1> DEFINE m == Len(q) - 1
<1>1. m \in Nat /\ m = Len(q) - 1 /\ 1 \in Int /\ m \in Int
  BY SMTT(30)
<1>2. \A k \in 1 .. m : q[k] \in S
  BY SMTT(30)
<1> HIDE DEF m
<1>3. SubSeq(q, 1, m) \in Seq(S)
  BY <1>1, <1>2, SubSeqProperties
<1>4. Len(SubSeq(q, 1, m)) = m
  BY SMTT(30), <1>1
<1> QED BY <1>3, <1>4 DEF m

\* The last character taken back.
LEMMA TakenBack ==
  ASSUME NEW S, NEW b, NEW h \in 0 .. SIZE - 1, NEW t \in 0 .. SIZE - 1,
         NEW q \in Seq(S), HeldAt(b, h, t, q), q # <<>>
  PROVE  h # t /\ HeldAt(b, h, Before(t), SubSeq(q, 1, Len(q) - 1))
<1> USE SizeType
<1>1. Len(q) = Fill(h, t) /\ Len(q) \in Nat \ {0}
  BY SMTT(30) DEF HeldAt
<1>2. h # t /\ Fill(h, Before(t)) = Fill(h, t) - 1
  BY SMTT(30), <1>1 DEF Fill, Before
<1>3. /\ Len(SubSeq(q, 1, Len(q) - 1)) = Len(q) - 1
      /\ \A k \in 1 .. Len(q) - 1 : SubSeq(q, 1, Len(q) - 1)[k] = q[k]
  BY SMTT(30), <1>1
<1> QED BY SMTT(30), <1>1, <1>2, <1>3 DEF HeldAt

\* The first character taken.
LEMMA Taken ==
  ASSUME NEW S, NEW b, NEW h \in 0 .. SIZE - 1, NEW t \in 0 .. SIZE - 1,
         NEW q \in Seq(S), HeldAt(b, h, t, q), q # <<>>
  PROVE  Head(q) = b[h] /\ HeldAt(b, h + 1, t, Tail(q))
<1> USE SizeType
<1>1. Len(q) = Fill(h, t) /\ Len(q) \in Nat \ {0} /\ Len(q) <= SIZE - 1
  BY SMTT(30) DEF HeldAt, Fill
<1>2. Fill(h + 1, t) = Fill(h, t) - 1 /\ Slot(h, 1) = h
  BY SMTT(30), <1>1 DEF Fill, Slot
<1>3. /\ Len(Tail(q)) = Len(q) - 1 /\ Head(q) = q[1]
      /\ \A k \in 1 .. Len(q) - 1 : Tail(q)[k] = q[k + 1]
  BY SMTT(30), <1>1
<1>4. \A k \in 1 .. Len(q) - 1 : k + 1 \in 1 .. Len(q) /\ Slot(h + 1, k) = Slot(h, k + 1)
  BY SMTT(30), <1>1 DEF Slot
<1> QED BY SMTT(30), <1>1, <1>2, <1>3, <1>4 DEF HeldAt


-----------------------------------------------------------------------------
(***************************************************************************)
(* The steps.                                                              *)
(***************************************************************************)
Safe == TypeOK /\ Held /\ Reader

\* A signal lets one reader go on, to its test.
LEMMA Signals ==
  ASSUME TypeOK, Signal
  PROVE  /\ pc' \in [Readers -> Quiet \cup Busy]
         /\ waiters' \in Seq(Readers)
         /\ \A r \in Readers : pc'[r] = pc[r] \/ pc'[r] = "test"
<1>1. CASE waiters = <<>>
  BY <1>1 DEF Signal, TypeOK
<1>2. CASE waiters # <<>>
  <2>1. waiters \in Seq(Readers) /\ Head(waiters) \in Readers /\ Tail(waiters) \in Seq(Readers)
    BY SMTT(30), <1>2 DEF TypeOK
  <2>2. pc' = [pc EXCEPT ![Head(waiters)] = "test"] /\ waiters' = Tail(waiters)
    BY <1>2 DEF Signal
  <2> QED BY <2>1, <2>2 DEF TypeOK, Quiet
<1> QED BY <1>1, <1>2

LEMMA CharType == ASSUME NEW code \in Keys PROVE code_to_char(code) \in Chars /\ code_to_char(code).key = code
BY DEF code_to_char, Chars

LEMMA StoreSafe ==
  ASSUME Safe, NEW code \in Keys, StoreKey(code), ~torn'
  PROVE  Safe'
<1> USE SizeType
<1> DEFINE c == code_to_char(code)
<1>h. buffer_head # SIZE
  BY DEF StoreKey, Unreduced
<1>0. /\ TypeOK /\ buffer_head \in 0 .. SIZE - 1 /\ buffer_tail \in 0 .. SIZE - 1
      /\ buffer_head' = buffer_head /\ place' = place /\ due' = due
      /\ key_buffer' = [key_buffer EXCEPT ![buffer_tail] = c]
      /\ queue' = Append(queue, c)
  BY SMTT(30), <1>h DEF Safe, TypeOK, StoreKey
<1>1. buffer_tail' = After(buffer_tail) /\ After(buffer_tail) # buffer_head
      /\ After(buffer_tail) \in 0 .. SIZE - 1
  <2>1. (buffer_tail + 1) % SIZE = After(buffer_tail) /\ After(buffer_tail) \in 0 .. SIZE - 1
    <3>1. buffer_head \in 0 .. SIZE
      BY SMTT(30), <1>0
    <3> QED BY <1>0, <3>1, Ring
  <2> QED BY <2>1 DEF StoreKey, BUFFER_FULL
<1>2. /\ pc' \in [Readers -> Quiet \cup Busy]
      /\ waiters' \in Seq(Readers)
      /\ \A r \in Readers : pc'[r] = pc[r] \/ pc'[r] = "test"
  <2>1. CASE UNCHANGED <<pc, waiters>>
    BY <1>0, <2>1 DEF TypeOK
  <2> QED BY <1>0, <2>1, Signals DEF StoreKey
<1>c. c \in Chars
  BY CharType
<1> HIDE DEF c
<1>3. TypeOK'
  BY SMTT(30), <1>0, <1>1, <1>2, <1>c DEF TypeOK
<1>4. Held'
  <2>1. HeldAt(key_buffer, buffer_head, buffer_tail, queue)
    BY SMTT(30), <1>0, HeldLinear DEF Safe
  <2>2. HeldAt(key_buffer', buffer_head', buffer_tail', queue')
    BY <1>0, <1>1, <1>c, <2>1, Stored DEF TypeOK
  <2> QED BY SMTT(30), <1>0, <1>1, <2>2, HeldLinearNext
<1>5. Reader'
  <2>0. Reader
    BY DEF Safe
  <2>1. queue' # <<>>
    <3>1. queue \in Seq(Chars) /\ Len(queue') = Len(queue) + 1
      BY SMTT(30), <1>0, <1>c DEF TypeOK
    <3> QED BY SMTT(30), <3>1
  <2>2. ASSUME NEW r \in Readers, pc'[r] = "copy"
        PROVE  key_buffer'[place'[r]] = due'[r] /\ buffer_head' = place'[r] + 1
    <3>1. pc[r] = "copy" /\ key_buffer[place[r]] = due[r] /\ buffer_head = place[r] + 1
      BY <1>2, <2>0, <2>2 DEF Reader
    <3>2. place[r] \in 0 .. SIZE - 1 /\ place[r] # buffer_tail
      BY SMTT(30), <1>0, <1>1, <3>1 DEF After, TypeOK
    <3> QED BY <1>0, <3>1, <3>2 DEF TypeOK
  <2>3. \A r, x \in Readers : pc'[r] \in Busy /\ pc'[x] \in Busy => r = x
    BY <1>2, <2>0 DEF Reader, Busy
  <2>4. buffer_head' # SIZE
    BY SMTT(30), <1>0
  <2> QED BY <2>1, <2>2, <2>3, <2>4 DEF Reader
<1> QED BY <1>3, <1>4, <1>5 DEF Safe

LEMMA DropSafe ==
  ASSUME Safe, NEW code \in Keys, DropKey(code)
  PROVE  Safe'
<1>1. /\ TypeOK /\ Held /\ Reader
      /\ UNCHANGED <<key_buffer, buffer_head, buffer_tail, place, due, queue>>
  BY DEF Safe, DropKey, buffer
<1>2. /\ pc' \in [Readers -> Quiet \cup Busy]
      /\ waiters' \in Seq(Readers)
      /\ \A r \in Readers : pc'[r] = pc[r] \/ pc'[r] = "test"
  BY <1>1, Signals DEF DropKey
<1>3. buffer_head # SIZE
  BY SMTT(30), <1>1, SizeType, Ring DEF DropKey, BUFFER_FULL, TypeOK
<1>4. Reader'
  BY <1>1, <1>2, <1>3 DEF Reader, Busy
<1> QED BY <1>1, <1>2, <1>4 DEF Safe, TypeOK, Held

LEMMA BackspaceSafe ==
  ASSUME Safe, Backspace, ~torn'
  PROVE  Safe'
<1> USE SizeType
<1>h. buffer_head # SIZE /\ ~TakesFound
  BY DEF Backspace, Unreduced
<1>0. /\ TypeOK /\ buffer_head \in 0 .. SIZE - 1 /\ buffer_tail \in 0 .. SIZE - 1
      /\ queue \in Seq(Chars) /\ Reader /\ Held
      /\ UNCHANGED <<key_buffer, buffer_head, pc, waiters, place, due>>
  BY SMTT(30), <1>h DEF Safe, TypeOK, Backspace, reader
<1>1. HeldAt(key_buffer, buffer_head, buffer_tail, queue)
  BY SMTT(30), <1>0, HeldLinear
<1>2. CASE queue = <<>>
  <2>1. buffer_head = buffer_tail
    BY SMTT(30), <1>0, <1>1, <1>2 DEF HeldAt, Fill
  <2>2. UNCHANGED <<buffer_tail, queue>>
    BY <1>2, <2>1 DEF Backspace, BUFFER_EMPTY
  <2> QED BY <1>0, <2>2 DEF Safe, TypeOK, Held, Reader
<1>3. CASE queue # <<>>
  <2>1. /\ buffer_head # buffer_tail
        /\ HeldAt(key_buffer, buffer_head, Before(buffer_tail), SubSeq(queue, 1, Len(queue) - 1))
    BY <1>0, <1>1, <1>3, TakenBack
  <2>2. buffer_tail' = Before(buffer_tail) /\ Before(buffer_tail) \in 0 .. SIZE - 1
    BY SMTT(30), <1>0, <2>1, Ring DEF Backspace, BUFFER_EMPTY
  <2>3. queue' = SubSeq(queue, 1, Len(queue) - 1) /\ queue' \in Seq(Chars)
        /\ Len(queue') = Len(queue) - 1
    <3>1. queue' = SubSeq(queue, 1, Len(queue) - 1)
      BY <1>3 DEF Backspace
    <3>2. Len(queue) \in Nat \ {0}
      BY SMTT(30), <1>0, <1>3
    <3>3. /\ SubSeq(queue, 1, Len(queue) - 1) \in Seq(Chars)
          /\ Len(SubSeq(queue, 1, Len(queue) - 1)) = Len(queue) - 1
      BY <1>0, <1>3, Shorter
    <3> QED BY <3>1, <3>3
  <2>4. Held'
    BY SMTT(30), <1>0, <2>1, <2>2, <2>3, HeldLinearNext
  <2>5. \A r \in Readers : pc[r] = "advance" => queue' # <<>>
    <3> SUFFICES ASSUME NEW r \in Readers, pc[r] = "advance" PROVE queue' # <<>>
      OBVIOUS
    <3>1. Len(queue) # 1
      BY <1>h DEF TakesFound
    <3>2. Len(queue) \in Nat \ {0}
      BY SMTT(30), <1>0, <1>3
    <3>3. Len(queue') # 0
      BY SMTT(30), <2>3, <3>1, <3>2
    <3> QED BY SMTT(30), <3>3
  <2> QED BY <1>0, <2>2, <2>3, <2>4, <2>5 DEF Safe, TypeOK, Reader
<1> QED BY <1>2, <1>3

\* Nobody but r is busy when r comes in.
LEMMA NotBusy ==
  ASSUME NEW r \in Readers, ~Overlap(r), NEW x \in Readers, x # r
  PROVE  pc[x] \notin Busy
BY DEF Overlap, Busy

\* Then buffer_head is reduced, unless r itself has left it.
LEMMA Reduced ==
  ASSUME Safe, NEW r \in Readers, ~Overlap(r), pc[r] \notin {"copy", "wrap"}
  PROVE  buffer_head \in 0 .. SIZE - 1
<1>1. \A x \in Readers : pc[x] \notin {"copy", "wrap"}
  BY NotBusy DEF Busy
<1> QED BY SMTT(30), <1>1, SizeType DEF Safe, Reader, TypeOK

LEMMA StartSafe ==
  ASSUME Safe, NEW r \in Readers, ReadStart(r), ~torn'
  PROVE  Safe'
<1>0. ~Overlap(r) /\ pc[r] = "idle" /\ TypeOK
      /\ buffer_tail' = buffer_head /\ queue' = <<>>
      /\ UNCHANGED <<key_buffer, buffer_head, place, due, waiters>>
      /\ pc' = [pc EXCEPT ![r] = "enter"]
  BY DEF ReadStart, Safe
<1>1. buffer_head \in 0 .. SIZE - 1
  BY <1>0, Reduced
<1>4. TypeOK'
  BY SMTT(30), <1>0, <1>1 DEF TypeOK, Quiet
<1>5. Held'
  <2>1. HeldAt(key_buffer', buffer_head', buffer_tail', queue')
    BY SMTT(30), <1>0, <1>1, SizeType DEF HeldAt, Fill
  <2> QED BY <1>4, <2>1, HeldLinearNext DEF TypeOK
<1>6. Reader'
  <2>1. \A x \in Readers : pc'[x] \notin Busy
    BY <1>0, NotBusy DEF TypeOK, Busy
  <2> QED BY SMTT(30), <1>0, <1>1, <2>1, SizeType DEF Reader, Busy
<1> QED BY <1>4, <1>5, <1>6 DEF Safe

LEMMA WaitSafe ==
  ASSUME Safe, NEW r \in Readers, ReadWait(r)
  PROVE  Safe'
<1>0. /\ TypeOK /\ Held /\ Reader /\ pc[r] = "enter"
      /\ UNCHANGED <<key_buffer, buffer_head, buffer_tail, place, due, queue>>
  BY DEF ReadWait, Safe, buffer
<1>1. PICK y \in {"test", "wait"} : pc' = [pc EXCEPT ![r] = y]
  BY DEF ReadWait
<1>2. waiters' \in Seq(Readers)
  <2>1. waiters' = waiters \/ waiters' = Append(waiters, r)
    BY DEF ReadWait
  <2>2. waiters \in Seq(Readers)
    BY <1>0 DEF TypeOK
  <2>3. Append(waiters, r) \in Seq(Readers)
    BY <2>2, AppendProperties
  <2> QED BY <2>1, <2>2, <2>3
<1>3. /\ pc'[r] = y /\ \A x \in Readers : x # r => pc'[x] = pc[x]
      /\ pc' \in [Readers -> Quiet \cup Busy]
  BY <1>0, <1>1 DEF TypeOK, Quiet
<1>4. Reader'
  BY <1>0, <1>1, <1>3 DEF Reader, Busy
<1> QED BY <1>0, <1>2, <1>3, <1>4 DEF Safe, TypeOK, Held

LEMMA TestSafe ==
  ASSUME Safe, NEW r \in Readers, ReadTest(r), ~torn'
  PROVE  Safe'
<1>0. ~Overlap(r) /\ pc[r] = "test" /\ TypeOK /\ Held /\ Reader
      /\ UNCHANGED <<key_buffer, buffer_head, buffer_tail, waiters, place, due, queue>>
  BY DEF ReadTest, Safe, buffer
<1>1. buffer_head \in 0 .. SIZE - 1 /\ \A x \in Readers : x # r => pc[x] \notin Busy
  BY <1>0, Reduced, NotBusy
<1>2. PICK y \in {"advance", "reply"} : pc' = [pc EXCEPT ![r] = y] /\ (y = "advance" => ~BUFFER_EMPTY)
  BY DEF ReadTest
<1>3. ~BUFFER_EMPTY => queue # <<>>
  <2>1. HeldAt(key_buffer, buffer_head, buffer_tail, queue)
    BY <1>0, HeldLinear DEF TypeOK
  <2> QED BY SMTT(30), <1>0, <1>1, <2>1, SizeType DEF HeldAt, Fill, BUFFER_EMPTY, TypeOK
<1>4. /\ pc'[r] = y /\ \A x \in Readers : x # r => pc'[x] = pc[x]
      /\ pc' \in [Readers -> Quiet \cup Busy]
  BY <1>0, <1>2 DEF TypeOK, Busy, Quiet
<1>5. Reader'
  BY <1>0, <1>1, <1>2, <1>3, <1>4, SizeType DEF Reader, Busy
<1> QED BY <1>0, <1>4, <1>5 DEF Safe, TypeOK, Held

LEMMA AdvanceSafe ==
  ASSUME Safe, NEW r \in Readers, ReadAdvance(r), ~torn'
  PROVE  Safe'
<1> USE SizeType
<1>0. ~Overlap(r) /\ pc[r] = "advance" /\ TypeOK /\ Held /\ Reader
      /\ UNCHANGED <<key_buffer, buffer_tail, waiters>>
      /\ place' = [place EXCEPT ![r] = buffer_head] /\ buffer_head' = buffer_head + 1
      /\ pc' = [pc EXCEPT ![r] = "copy"]
  BY DEF ReadAdvance, Safe
<1>1. queue # <<>> /\ queue \in Seq(Chars) /\ buffer_head \in 0 .. SIZE - 1
  BY <1>0, Reduced DEF Reader, TypeOK
<1>2. queue' = Tail(queue) /\ due' = [due EXCEPT ![r] = Head(queue)]
  BY <1>1 DEF ReadAdvance
<1>3. Head(queue) = key_buffer[buffer_head] /\ HeldAt(key_buffer, buffer_head + 1, buffer_tail, Tail(queue))
  <2>1. HeldAt(key_buffer, buffer_head, buffer_tail, queue)
    BY <1>0, HeldLinear DEF TypeOK
  <2> QED BY <1>0, <1>1, <2>1, Taken DEF TypeOK
<1>4. TypeOK'
  <2>1. Tail(queue) \in Seq(Chars) /\ Head(queue) \in Chars
    BY <1>1, HeadTailProperties
  <2> QED BY SMTT(30), <1>0, <1>1, <1>2, <2>1 DEF TypeOK, Busy
<1>5. Held'
  BY <1>0, <1>2, <1>3, <1>4, HeldLinearNext DEF TypeOK
<1>6. Reader'
  <2>1. /\ pc'[r] = "copy" /\ place'[r] = buffer_head /\ due'[r] = key_buffer[buffer_head]
        /\ \A x \in Readers : x # r => pc'[x] = pc[x] /\ pc'[x] \notin Busy
    BY <1>0, <1>2, <1>3, NotBusy DEF TypeOK
  <2> QED BY <1>0, <2>1 DEF Reader, Busy
<1> QED BY <1>4, <1>5, <1>6 DEF Safe

LEMMA WrapSafe ==
  ASSUME Safe, NEW r \in Readers, ReadWrap(r), ~torn'
  PROVE  Safe'
<1> USE SizeType
<1>0. ~Overlap(r) /\ pc[r] = "wrap" /\ TypeOK /\ Held /\ Reader
      /\ UNCHANGED <<key_buffer, buffer_tail, waiters, place, queue, due>>
      /\ buffer_head' = buffer_head % SIZE /\ pc' = [pc EXCEPT ![r] = "test"]
  BY DEF ReadWrap, Safe
<1>1. buffer_head' = (IF buffer_head = SIZE THEN 0 ELSE buffer_head)
  BY <1>0, Ring DEF TypeOK
<1>2. buffer_head' \in 0 .. SIZE - 1
  BY SMTT(30), <1>0, <1>1 DEF TypeOK
<1>3. TypeOK'
  BY SMTT(30), <1>0, <1>2 DEF TypeOK, Quiet
<1>4. Held'
  <2>1. HeldAt(key_buffer, buffer_head, buffer_tail, queue)
    BY <1>0, HeldLinear DEF TypeOK
  <2>2. CASE buffer_head = SIZE
    <3>1. Fill(0, buffer_tail) = Fill(SIZE, buffer_tail)
      BY SMTT(30), <1>0 DEF Fill, TypeOK
    <3>2. \A k \in 1 .. Fill(SIZE, buffer_tail) : Slot(0, k) = Slot(SIZE, k)
      BY SMTT(30), <1>0 DEF Fill, Slot, TypeOK
    <3>3. HeldAt(key_buffer, 0, buffer_tail, queue)
      BY <2>1, <2>2, <3>1, <3>2 DEF HeldAt
    <3> QED BY <1>0, <1>1, <1>3, <2>2, <3>3, HeldLinearNext DEF TypeOK
  <2>3. CASE buffer_head # SIZE
    BY <1>0, <1>1, <2>3 DEF Held
  <2> QED BY <2>2, <2>3
<1>5. Reader'
  <2>1. \A x \in Readers : pc'[x] \notin Busy
    BY <1>0, NotBusy DEF TypeOK, Busy
  <2> QED BY SMTT(30), <1>2, <2>1 DEF Reader, Busy
<1> QED BY <1>3, <1>4, <1>5 DEF Safe

\* The copy, the answer and the keys that change the case leave the buffer alone.
LEMMA QuietSafe ==
  ASSUME Safe, NEW r \in Readers, ReadCopy(r) \/ ReadReply(r)
  PROVE  Safe'
<1>0. /\ TypeOK /\ Held /\ Reader
      /\ UNCHANGED <<key_buffer, buffer_head, buffer_tail, waiters, place, due, queue>>
  BY DEF ReadCopy, ReadReply, Safe, buffer
<1>1. CASE ReadCopy(r)
  <2>1. /\ pc[r] = "copy" /\ pc'[r] = "wrap" /\ \A x \in Readers : x # r => pc'[x] = pc[x]
        /\ pc' \in [Readers -> Quiet \cup Busy]
    BY <1>0, <1>1 DEF ReadCopy, TypeOK, Busy
  <2>2. Reader'
    BY <1>0, <2>1 DEF Reader, Busy
  <2> QED BY <1>0, <2>1, <2>2 DEF Safe, TypeOK, Held
<1>2. CASE ReadReply(r)
  <2>1. /\ pc[r] = "reply" /\ pc'[r] = "idle" /\ \A x \in Readers : x # r => pc'[x] = pc[x]
        /\ pc' \in [Readers -> Quiet \cup Busy]
    BY <1>0, <1>2 DEF ReadReply, TypeOK, Quiet
  <2>2. Reader'
    BY <1>0, <2>1 DEF Reader, Busy
  <2> QED BY <1>0, <2>1, <2>2 DEF Safe, TypeOK, Held
<1> QED BY <1>1, <1>2


-----------------------------------------------------------------------------
\* A signal wakes the only reader, if it waits.
LEMMA SignalAlone ==
  ASSUME TypeOK, NEW r \in Readers, AloneAt(r), Signal
  PROVE  /\ \A x \in Readers \ {r} : pc'[x] = "idle"
         /\ pc'[r] # "wait" /\ waiters' = <<>>
         /\ pc'[r] = "enter" => pc[r] = "enter" /\ pending'
<1>1. CASE pc[r] = "wait"
  <2>1. waiters = <<r>>
    BY <1>1 DEF AloneAt
  <2>2. Head(waiters) = r /\ Tail(waiters) = <<>> /\ waiters # <<>>
    BY SMTT(30), <2>1
  <2>3. pc' = [pc EXCEPT ![r] = "test"] /\ waiters' = <<>>
    BY <2>2 DEF Signal
  <2> QED BY <2>3 DEF AloneAt, TypeOK
<1>2. CASE pc[r] # "wait"
  <2>1. waiters = <<>>
    BY <1>2 DEF AloneAt
  <2> QED BY <1>2, <2>1 DEF AloneAt, Signal
<1> QED BY <1>1, <1>2

\* While it waits or is about to, buffer_head is reduced and no character is about to be taken.
LEMMA WaitsReduced ==
  ASSUME Safe, NEW r \in Readers, AloneAt(r), pc[r] \in {"enter", "wait"}
  PROVE  ~Unreduced /\ ~TakesFound
<1>1. \A x \in Readers : pc[x] \notin Busy
  BY DEF AloneAt, Busy
<1>2. buffer_head # SIZE
  BY <1>1 DEF Safe, Reader, Busy
<1> QED BY <1>1, <1>2 DEF Unreduced, TakesFound, Busy

LEMMA KeyAlone ==
  ASSUME Safe, NEW r \in Readers, AloneAt(r), ~torn,
         \/ \E code \in Keys : StoreKey(code) \/ DropKey(code)
         \/ Backspace
  PROVE  AloneAt(r)'
<1>0. TypeOK /\ queue \in Seq(Chars)
  BY DEF Safe, TypeOK
<1>1. ASSUME Signal, torn' => Unreduced PROVE AloneAt(r)'
  BY <1>0, <1>1, SignalAlone, WaitsReduced DEF AloneAt
<1>2. ASSUME NEW code \in Keys, StoreKey(code), code # Enter PROVE AloneAt(r)'
  <2>1. UNCHANGED <<pending, waiters, pc>> /\ queue' = Append(queue, code_to_char(code))
    BY <1>2 DEF StoreKey
  <2>2. CASE pc[r] \notin {"enter", "wait"}
    BY <2>1, <2>2 DEF AloneAt
  <2>3. CASE pc[r] \in {"enter", "wait"}
    <3>1. ~torn'
      BY <1>2, <2>3, WaitsReduced DEF StoreKey
    <3>2. ~pending => \A k \in 1 .. Len(queue) : queue[k].key # Enter
      BY <2>3 DEF AloneAt
    <3>3. ASSUME ~pending PROVE \A k \in 1 .. Len(queue') : queue'[k].key # Enter
      <4> DEFINE c == code_to_char(code)
      <4>1. c \in Chars /\ c.key # Enter
        BY <1>2, CharType
      <4> HIDE DEF c
      <4>2. Len(Append(queue, c)) = Len(queue) + 1 /\ Append(queue, c)[Len(queue) + 1] = c
            /\ \A k \in 1 .. Len(queue) : Append(queue, c)[k] = queue[k]
        BY SMTT(30), <1>0, <4>1
      <4>3. \A k \in 1 .. Len(queue) + 1 : k \in 1 .. Len(queue) \/ k = Len(queue) + 1
        BY SMTT(30), <1>0
      <4> QED BY <2>1, <3>2, <3>3, <4>1, <4>2, <4>3 DEF c
    <3> QED BY <2>1, <2>3, <3>1, <3>3 DEF AloneAt
  <2> QED BY <2>2, <2>3
<1>3. CASE Backspace
  <2>1. UNCHANGED <<pending, waiters, pc>>
    BY <1>3 DEF Backspace, reader
  <2>2. CASE pc[r] \notin {"enter", "wait"}
    BY <2>1, <2>2 DEF AloneAt
  <2>3. CASE pc[r] \in {"enter", "wait"}
    <3>1. ~torn'
      BY <1>3, <2>3, WaitsReduced DEF Backspace
    <3>2. ~pending => \A k \in 1 .. Len(queue) : queue[k].key # Enter
      BY <2>3 DEF AloneAt
    <3>3. ASSUME ~pending PROVE \A k \in 1 .. Len(queue') : queue'[k].key # Enter
      <4>1. CASE queue = <<>>
        BY SMTT(30), <1>3, <4>1 DEF Backspace
      <4>2. CASE queue # <<>>
        <5>1. queue' = SubSeq(queue, 1, Len(queue) - 1) /\ Len(queue) \in Nat \ {0}
          BY SMTT(30), <1>0, <1>3, <4>2 DEF Backspace
        <5>2. /\ Len(SubSeq(queue, 1, Len(queue) - 1)) = Len(queue) - 1
              /\ \A k \in 1 .. Len(queue) - 1 : SubSeq(queue, 1, Len(queue) - 1)[k] = queue[k]
          BY SMTT(30), <1>0, <4>2, Shorter
        <5> QED BY SMTT(30), <3>2, <3>3, <5>1, <5>2
      <4> QED BY <4>1, <4>2
    <3> QED BY <2>1, <2>3, <3>1, <3>3 DEF AloneAt
  <2> QED BY <2>2, <2>3
<1>4. ASSUME NEW code \in Keys, StoreKey(code) \/ DropKey(code), Signal PROVE AloneAt(r)'
  <2>1. torn' => Unreduced
    BY <1>4 DEF StoreKey, DropKey
  <2> QED BY <1>1, <1>4, <2>1
<1> QED BY <1>2, <1>3, <1>4 DEF StoreKey, DropKey

LEMMA ReadAlone ==
  ASSUME Safe, NEW r \in Readers, AloneAt(r), ReadStart(r) \/ ReadStep(r)
  PROVE  AloneAt(r)'
<1>0. TypeOK
  BY DEF Safe
<1>1. CASE ReadStart(r)
  <2>1. /\ pc[r] = "idle" /\ waiters' = <<>> /\ queue' = <<>>
        /\ pc'[r] = "enter" /\ \A x \in Readers \ {r} : pc'[x] = "idle"
    BY <1>0, <1>1 DEF ReadStart, AloneAt, TypeOK
  <2>2. ~torn'
    <3>1. ~Overlap(r)
      BY DEF Overlap, AloneAt
    <3> QED BY <1>1, <3>1 DEF ReadStart
  <2>3. \A k \in 1 .. Len(queue') : queue'[k].key # Enter
    BY SMTT(30), <2>1
  <2> QED BY <2>1, <2>2, <2>3 DEF AloneAt
<1>3. CASE ReadWait(r)
  <2>1. pc[r] = "enter" /\ waiters = <<>> /\ UNCHANGED <<queue, torn>>
    BY <1>3 DEF ReadWait, AloneAt
  <2>2. CASE pc' = [pc EXCEPT ![r] = "test"] /\ UNCHANGED waiters
    BY <1>0, <2>1, <2>2 DEF AloneAt, TypeOK
  <2>3. CASE ~pending /\ pc' = [pc EXCEPT ![r] = "wait"] /\ waiters' = Append(waiters, r) /\ UNCHANGED pending
    <3>1. waiters' = <<r>>
      BY SMTT(30), <2>1, <2>3
    <3>2. pc'[r] = "wait" /\ \A x \in Readers \ {r} : pc'[x] = "idle"
      BY <1>0, <2>3 DEF AloneAt, TypeOK
    <3> QED BY <2>1, <2>3, <3>1, <3>2 DEF AloneAt
  <2> QED BY <1>3, <2>2, <2>3 DEF ReadWait
<1>2. CASE ReadStep(r) /\ ~ReadWait(r)
  <2>1. PICK y \in {"test", "advance", "reply", "copy", "wrap", "idle"} :
           pc[r] # "wait" /\ pc' = [pc EXCEPT ![r] = y] /\ UNCHANGED waiters
    BY <1>2 DEF ReadStep, ReadTest, ReadAdvance, ReadCopy, ReadWrap, ReadReply
  <2> QED BY <1>0, <2>1 DEF AloneAt, TypeOK
<1> QED BY <1>1, <1>2, <1>3


-----------------------------------------------------------------------------
(***************************************************************************)
(* The invariant.                                                          *)
(***************************************************************************)
LEMMA InitInv == Init => Inv
<1> SUFFICES ASSUME Init PROVE Inv
  OBVIOUS
<1> DEFINE nl == [key |-> Enter, capital |-> FALSE]
<1>0. nl \in Chars
  BY ConsoleAssumption DEF Chars
<1> HIDE DEF nl
<1>1. key_buffer = [k \in 0 .. SIZE - 1 |-> nl] /\ 0 \in 0 .. SIZE - 1
  BY SMTT(30), SizeType DEF Init, nl
<1>2. key_buffer[0] = nl /\ due = [r \in Readers |-> nl]
  BY <1>1 DEF Init
<1>3. \A r \in Readers : pc[r] = "idle"
  BY DEF Init
<1>4. TypeOK
  <2>1. key_buffer \in [0 .. SIZE - 1 -> Chars] /\ due \in [Readers -> Chars]
    BY <1>0, <1>1, <1>2
  <2>2. waiters \in Seq(Readers) /\ queue \in Seq(Chars)
    BY SMTT(30) DEF Init
  <2>3. pc \in [Readers -> Quiet \cup Busy]
    BY DEF Init, Quiet
  <2>4. place \in [Readers -> 0 .. SIZE - 1]
    BY <1>1 DEF Init
  <2>5. buffer_head \in 0 .. SIZE /\ buffer_tail \in 0 .. SIZE - 1
    BY SMTT(30), <1>1, SizeType DEF Init
  <2> QED BY <2>1, <2>2, <2>3, <2>4, <2>5 DEF TypeOK
<1>5. Held
  <2>1. HeldAt(key_buffer, buffer_head, buffer_tail, queue)
    BY SMTT(30), SizeType DEF HeldAt, Fill, Init
  <2> QED BY <1>4, <2>1, SizeType, HeldLinear DEF TypeOK, Init
<1>6. Reader
  BY <1>3, SizeType DEF Reader, Busy, Init
<1>7. Alone /\ use \in Uses
  BY <1>3 DEF Alone, AloneAt, Init
<1> QED BY <1>4, <1>5, <1>6, <1>7 DEF Inv

LEMMA CaseSafe ==
  ASSUME Safe, CaseKey
  PROVE  Safe'
<1>1. UNCHANGED <<key_buffer, buffer_head, buffer_tail, pc, waiters, place, due, queue>>
  BY DEF CaseKey, buffer, reader
<1>2. TypeOK' /\ Held' /\ Reader'
  <2>1. TypeOK'
    BY <1>1 DEF Safe, TypeOK
  <2>2. Held'
    BY <1>1 DEF Safe, Held
  <2>3. Reader'
    BY <1>1 DEF Safe, Reader
  <2> QED BY <2>1, <2>2, <2>3
<1> QED BY <1>2 DEF Safe

LEMMA NextInv == Inv /\ [Next]_vars => Inv'
<1> SUFFICES ASSUME Inv, [Next]_vars PROVE Inv'
  OBVIOUS
<1>1. CASE UNCHANGED vars
  <2>1. UNCHANGED <<key_buffer, buffer_head, buffer_tail, pc, waiters, place, due, queue, pending, torn, use>>
    BY <1>1 DEF vars, buffer, reader
  <2>2. Alone' /\ use' \in Uses
    BY <2>1 DEF Inv, Alone, AloneAt
  <2>3. ~torn' => TypeOK'
    BY <2>1 DEF Inv, TypeOK
  <2>4. ~torn' => Held'
    BY <2>1 DEF Inv, Held
  <2>5. ~torn' => Reader'
    BY <2>1 DEF Inv, Reader
  <2> QED BY <2>2, <2>3, <2>4, <2>5 DEF Inv
<1>2. CASE Next
  <2>0. ~torn /\ UNCHANGED use /\ Safe /\ use \in Uses /\ use.readers \subseteq Readers
    BY <1>2, ConsoleAssumption DEF Next, Inv, Safe
  <2>1. ~torn' => Safe'
    <3>1. ASSUME NEW code \in Keys, StoreKey(code), ~torn' PROVE Safe'
      BY <2>0, <3>1, StoreSafe
    <3>2. ASSUME NEW code \in Keys, DropKey(code) PROVE Safe'
      BY <2>0, <3>2, DropSafe
    <3>3. ASSUME Backspace, ~torn' PROVE Safe'
      BY <2>0, <3>3, BackspaceSafe
    <3>4. ASSUME CaseKey PROVE Safe'
      BY <2>0, <3>4, CaseSafe
    <3>5. ASSUME NEW r \in use.readers, ReadStart(r) \/ ReadStep(r), ~torn' PROVE Safe'
      <4>1. r \in Readers
        BY <2>0
      <4> QED BY <2>0, <3>5, <4>1, StartSafe, WaitSafe, TestSafe, AdvanceSafe, WrapSafe, QuietSafe DEF ReadStep
    <3> QED BY <1>2, <3>1, <3>2, <3>3, <3>4, <3>5 DEF Next
  <2>2. Alone'
    <3> SUFFICES ASSUME NEW r \in Readers, use.readers = {r} PROVE AloneAt(r)'
      BY <2>0 DEF Alone
    <3>1. AloneAt(r)
      BY DEF Inv, Alone
    <3>2. CASE (\E code \in Keys : StoreKey(code) \/ DropKey(code)) \/ Backspace
      BY <2>0, <3>1, <3>2, KeyAlone
    <3>3. CASE CaseKey
      <4>1. UNCHANGED <<pc, waiters, pending, queue, torn>>
        BY <3>3 DEF CaseKey, reader
      <4> QED BY <3>1, <4>1 DEF AloneAt
    <3>4. CASE \E x \in use.readers : ReadStart(x) \/ ReadStep(x)
      <4>1. ReadStart(r) \/ ReadStep(r)
        BY <3>4
      <4> QED BY <2>0, <3>1, <4>1, ReadAlone
    <3> QED BY <1>2, <3>2, <3>3, <3>4 DEF Next
  <2> QED BY <2>0, <2>1, <2>2 DEF Inv, Safe
<1> QED BY <1>1, <1>2

\* The invariant holds in every reachable state of the console.
THEOREM ConsoleInvariant == Spec => []Inv
BY InitInv, NextInv, PTL DEF Spec

-----------------------------------------------------------------------------
\* What lies in the ring buffer is the queue, place by place.
LEMMA ContentIsQueue ==
  ASSUME TypeOK, Held
  PROVE  Content = queue
<1>0. queue \in Seq(Chars) /\ queue = [k \in 1 .. Len(queue) |-> queue[k]]
  BY SMTT(30) DEF TypeOK
<1>1. Content = [k \in 1 .. Len(queue) |-> key_buffer[(buffer_head + k - 1) % SIZE]]
  BY DEF Content, Held
<1>2. \A k \in 1 .. Len(queue) : queue[k] = key_buffer[(buffer_head + k - 1) % SIZE]
  BY DEF Held
<1> QED BY <1>0, <1>1, <1>2

\* For a buffer of any size and any number of readers, the buffer that
\* kbd_irq_handle_mainloop fills and readstdin_handler empties is the queue of
\* the characters typed, and a reader copies the one that is due, until one of
\* the races named in the model happens.
THEOREM QueueIsExact == Spec => []QueueExact
<1>1. Inv => QueueExact
  BY ContentIsQueue DEF Inv, QueueExact, Reader
<1> QED BY <1>1, ConsoleInvariant, PTL

\* While the only reader waits in readstdin_handler, buf_full_ntfn is not
\* signalled and no new line is in the buffer: a line that comes wakes it, also
\* one that came after the reader dropped the buffer and before it waits.
THEOREM LinesWake == Spec => []LineWakes
<1>1. Inv => LineWakes
  <2> SUFFICES ASSUME Inv, NEW r \in Readers, use.readers = {r}, pc[r] = "wait"
               PROVE  ~pending /\ \A k \in DOMAIN Content : Content[k].key # Enter
    BY DEF LineWakes
  <2>1. ~pending /\ ~torn /\ \A k \in 1 .. Len(queue) : queue[k].key # Enter
    BY DEF Inv, Alone, AloneAt
  <2>2. Content = queue /\ queue \in Seq(Chars)
    BY <2>1, ContentIsQueue DEF Inv, TypeOK
  <2> QED BY SMTT(30), <2>1, <2>2
<1> QED BY <1>1, ConsoleInvariant, PTL

=============================================================================
