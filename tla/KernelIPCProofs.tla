--------------------------- MODULE KernelIPCProofs ---------------------------
(***************************************************************************)
(* Proofs about KernelIPC, for any threads and objects.  A kernel entry is *)
(* composed of few changes of the state; each is shown to keep a state     *)
(* Good, and then every entry to be made of such changes.                  *)
(***************************************************************************)
EXTENDS KernelIPC, TLAPS

\* The seconds each prover has for a leaf.
USE ZenonT(20), SMTT(20)

\* The inductive invariant, of one kernel state.
Good(s) == s \in States /\ Queued(s) /\ Replies(s) /\ Bindings(s)

\* States of a thread that is in no queue and waits for no reply.
Free == {"Inactive", "Running", "Restart"}
BlockedStates == {"BlockedOnSend", "BlockedOnReceive", "BlockedOnNotification"}

\* tcbEPDequeue takes one thread out of a queue.
LEMMA Dequeued ==
  ASSUME NEW q \in Seq(Threads), NEW t \in Elems(q),
         \A i, j \in DOMAIN q : q[i] = q[j] => i = j
  PROVE  /\ tcbEPDequeue(q, t) \in Seq(Threads)
         /\ Elems(tcbEPDequeue(q, t)) = Elems(q) \ {t}
         /\ \A i, j \in DOMAIN tcbEPDequeue(q, t) :
               tcbEPDequeue(q, t)[i] = tcbEPDequeue(q, t)[j] => i = j
<1> DEFINE at == CHOOSE i \in DOMAIN q : q[i] = t
           d  == [i \in 1 .. Len(q) - 1 |-> IF i < at THEN q[i] ELSE q[i + 1]]
<1>1. at \in DOMAIN q /\ q[at] = t
  BY DEF Elems
<1>2. Len(q) \in Nat /\ DOMAIN q = 1 .. Len(q) /\ \A i \in 1 .. Len(q) : q[i] \in Threads
  BY SMTT(30)
<1> HIDE DEF at
<1>3. Len(q) - 1 \in Nat /\ \A i \in 1 .. Len(q) - 1 : d[i] \in Threads
  BY SMTT(30), <1>1, <1>2
<1>4. d \in Seq(Threads)
  BY SMTT(30), <1>3
<1>5. Elems(d) = Elems(q) \ {t}
  <2>1. ASSUME NEW x \in Elems(d) PROVE x \in Elems(q) \ {t}
    <3>1. PICK i \in 1 .. Len(q) - 1 : x = IF i < at THEN q[i] ELSE q[i + 1]
      BY <2>1 DEF Elems
    <3> QED BY SMTT(30), <1>1, <1>2, <3>1 DEF Elems
  <2>2. ASSUME NEW x \in Elems(q) \ {t} PROVE x \in Elems(d)
    <3>1. PICK i \in DOMAIN q : x = q[i]
      BY <2>2 DEF Elems
    <3>2. i # at
      BY <3>1, <1>1
    <3>3. CASE i < at
      BY SMTT(30), <3>1, <3>3, <1>1, <1>2 DEF Elems
    <3>4. CASE i > at
      <4>1. i - 1 \in 1 .. Len(q) - 1 /\ d[i - 1] = x
        BY SMTT(30), <3>1, <3>4, <1>1, <1>2
      <4> QED BY <4>1 DEF Elems
    <3> QED BY SMTT(30), <3>2, <3>3, <3>4, <1>1, <1>2
  <2> QED BY <2>1, <2>2
<1>6. ASSUME NEW i \in DOMAIN d, NEW j \in DOMAIN d, d[i] = d[j] PROVE i = j
  BY SMTT(30), <1>6, <1>1, <1>2
<1>7. d = tcbEPDequeue(q, t)
  BY DEF tcbEPDequeue, at
<1> QED BY SMTT(30), <1>4, <1>5, <1>6, <1>7

\* tcbEPAppend puts a thread that is not in a queue at its end.
LEMMA Appended ==
  ASSUME NEW q \in Seq(Threads), NEW t \in Threads, t \notin Elems(q),
         \A i, j \in DOMAIN q : q[i] = q[j] => i = j
  PROVE  /\ tcbEPAppend(q, t) \in Seq(Threads)
         /\ Elems(tcbEPAppend(q, t)) = Elems(q) \cup {t}
         /\ tcbEPAppend(q, t) # << >>
         /\ \A i, j \in DOMAIN tcbEPAppend(q, t) :
               tcbEPAppend(q, t)[i] = tcbEPAppend(q, t)[j] => i = j
<1> DEFINE a == Append(q, t)
<1>1. /\ a \in Seq(Threads) /\ Len(a) = Len(q) + 1 /\ DOMAIN a = 1 .. Len(q) + 1
      /\ a[Len(q) + 1] = t /\ \A i \in 1 .. Len(q) : a[i] = q[i]
  BY SMTT(30)
<1>2. Len(q) \in Nat /\ DOMAIN q = 1 .. Len(q)
  BY SMTT(30)
<1> HIDE DEF a
<1>3. Elems(a) = Elems(q) \cup {t}
  BY SMTT(30), <1>1, <1>2 DEF Elems
<1>4. ASSUME NEW i \in DOMAIN a, NEW j \in DOMAIN a, a[i] = a[j] PROVE i = j
  BY SMTT(30), <1>4, <1>1, <1>2 DEF Elems
<1>5. a # << >>
  BY SMTT(30), <1>1, <1>2
<1> QED BY <1>1, <1>3, <1>4, <1>5 DEF tcbEPAppend, a

\* A queue is empty just when no thread is in it, and its head is one of them.
LEMMA HeadOf ==
  ASSUME NEW q \in Seq(Threads)
  PROVE  /\ q = << >> <=> Elems(q) = {}
         /\ q # << >> => Head(q) \in Elems(q)
         /\ Elems(q) \subseteq Threads
<1>1. Len(q) \in Nat /\ DOMAIN q = 1 .. Len(q)
  BY SMTT(30)
<1>2. q # << >> => Len(q) > 0 /\ Head(q) = q[1]
  BY SMTT(30)
<1>3. q # << >> => Head(q) \in Elems(q)
  BY SMTT(30), <1>1, <1>2 DEF Elems
<1>4. q = << >> => Elems(q) = {}
  BY SMTT(30) DEF Elems
<1>5. Elems(q) \subseteq Threads
  BY SMTT(30), <1>1 DEF Elems
<1> QED BY <1>3, <1>4, <1>5

-----------------------------------------------------------------------------
(***************************************************************************)
(* Changes that keep a state Good.                                         *)
(***************************************************************************)

\* A default message exists when there is a badge; its type is all that matters.
LEMMA NoMessageType == ASSUME NEW m \in Messages PROVE NoMessage \in Messages
<1>1. [badge |-> m.badge, isCall |-> FALSE, canReply |-> FALSE] \in Messages
  BY DEF Messages
<1>2. \E x \in Messages : ~x.isCall /\ ~x.canReply
  BY <1>1
<1> QED BY <1>2 DEF NoMessage

\* What an object's state says of the threads in its queue.
LEMMA Kinds ==
  /\ Kind("Send") = "BlockedOnSend" /\ Kind("Recv") = "BlockedOnReceive"
  /\ Kind("Waiting") = "BlockedOnNotification" /\ Kind("Idle") = "none" /\ Kind("Active") = "none"
BY DEF Kind

\* A thread in a queue is blocked on the object; a blocked thread is in a queue.
LEMMA InQueue ==
  ASSUME NEW s, Good(s), NEW o \in Objects, NEW t \in Elems(s.queue[o])
  PROVE  t \in Threads /\ s.ts[t] = Kind(s.st[o]) /\ s.ts[t] \in BlockedStates /\ s.obj[t] = o
<1>1. s.queue[o] \in Seq(Threads)
  BY DEF Good, States
<1>2. t \in Threads
  BY <1>1, HeadOf
<1>3. s.queue[o] # << >>
  BY <1>1, HeadOf
<1>4. s.st[o] \in {"Idle", "Send", "Recv", "Waiting", "Active"}
  BY DEF Good, States
<1>5. s.st[o] \in {"Send", "Recv", "Waiting"}
  BY <1>3, <1>4 DEF Good, Queued
<1>6. s.ts[t] = Kind(s.st[o]) /\ s.obj[t] = o
  BY DEF Good, Queued
<1> QED BY <1>2, <1>5, <1>6, Kinds DEF BlockedStates

\* A thread that is not blocked changes its state.
LEMMA SetState ==
  ASSUME NEW s, Good(s), NEW t \in Threads, s.ts[t] \in Free, NEW x \in Free
  PROVE  Good(setThreadState(s, t, x))
<1> DEFINE z == setThreadState(s, t, x)
<1>1. /\ z.ts = [s.ts EXCEPT ![t] = x] /\ z.obj = s.obj /\ z.info = s.info
      /\ z.fault = s.fault /\ z.bound = s.bound /\ z.queue = s.queue /\ z.st = s.st
      /\ z.bits = s.bits /\ z.tcb = s.tcb /\ z.cap = s.cap
  BY DEF setThreadState, Good, States
<1>2. z \in States
  BY DEF setThreadState, Good, States, Free, ThreadStates
<1> HIDE DEF z
<1>3. s.ts \in [Threads -> ThreadStates]
  BY DEF Good, States
<1>4. \A u \in Threads : z.ts[u] = IF u = t THEN x ELSE s.ts[u]
  BY <1>1, <1>3
<1>5. \A o \in Objects : t \notin Elems(s.queue[o])
  BY InQueue DEF Free, BlockedStates
<1>6. Queued(z)
  <2>1. \A o \in Objects : \A u \in Elems(z.queue[o]) : z.ts[u] = Kind(z.st[o]) /\ z.obj[u] = o
    BY SMTT(30), <1>1, <1>4, <1>5, InQueue
  <2>2. \A u \in Threads : z.ts[u] \in BlockedStates => z.ts[u] = s.ts[u]
    BY <1>4 DEF Free, BlockedStates
  <2> QED BY SMTT(30), <1>1, <2>1, <2>2 DEF Queued, Good, BlockedStates
<1>7. Replies(z)
  <2>1. \A c \in Slots : s.cap[c] # t
    BY KernelAssumption DEF Good, Replies, Free
  <2>2. \A c \in Slots : z.cap[c] # NULL => z.cap[c] \in Threads
    BY <1>2 DEF States
  <2> QED BY SMTT(30), <1>1, <1>4, <2>1, <2>2 DEF Good, Replies, Free
<1>8. Bindings(z)
  <2>1. Bindings(s)
    BY DEF Good
  <2> QED BY SMTT(30), <1>1, <2>1 DEF Bindings
<1> QED BY <1>2, <1>6, <1>7, <1>8 DEF Good, z

\* A free thread becomes a caller, and a free thread's empty slot names it.
LEMMA CallerCap ==
  ASSUME NEW s, Good(s), NEW t \in Threads, s.ts[t] \in Free,
         NEW r \in Threads, s.ts[r] \in Free, s.cap[r] = NULL
  PROVE  Good(setupCallerCap(s, t, r))
<1> DEFINE z == setupCallerCap(s, t, r)
<1>1. /\ z.ts = [s.ts EXCEPT ![t] = "BlockedOnReply"] /\ z.obj = s.obj /\ z.info = s.info
      /\ z.fault = s.fault /\ z.bound = s.bound /\ z.queue = s.queue /\ z.st = s.st
      /\ z.bits = s.bits /\ z.tcb = s.tcb /\ z.cap = [s.cap EXCEPT ![r] = t]
  BY DEF setupCallerCap, Good, States
<1>2. z \in States
  BY DEF setupCallerCap, Good, States, ThreadStates, Slots
<1> HIDE DEF z
<1>3. s.ts \in [Threads -> ThreadStates] /\ s.cap \in [Slots -> Threads \cup {NULL}]
  BY DEF Good, States
<1>4. /\ \A u \in Threads : z.ts[u] = IF u = t THEN "BlockedOnReply" ELSE s.ts[u]
      /\ \A c \in Slots : z.cap[c] = IF c = r THEN t ELSE s.cap[c]
  BY <1>1, <1>3
<1>5. \A o \in Objects : t \notin Elems(s.queue[o])
  BY InQueue DEF Free, BlockedStates
<1>6. Queued(z)
  <2>1. \A o \in Objects : \A u \in Elems(z.queue[o]) : z.ts[u] = Kind(z.st[o]) /\ z.obj[u] = o
    BY SMTT(30), <1>1, <1>4, <1>5, InQueue
  <2>2. \A u \in Threads : z.ts[u] \in BlockedStates => z.ts[u] = s.ts[u]
    BY <1>4 DEF BlockedStates
  <2> QED BY SMTT(30), <1>1, <2>1, <2>2 DEF Queued, Good, BlockedStates
<1>7. Replies(z)
  <2>1. \A c \in Slots : s.cap[c] # t
    BY KernelAssumption DEF Good, Replies, Free
  <2>2. \A c \in Slots : s.cap[c] # NULL => s.cap[c] \in Threads /\ s.ts[s.cap[c]] = "BlockedOnReply"
    BY <1>3 DEF Good, Replies
  <2>3. \A c \in Slots : z.cap[c] # NULL => z.ts[z.cap[c]] = "BlockedOnReply"
    BY <1>4, <2>2
  <2>4. \A c, d \in Slots : z.cap[c] # NULL /\ z.cap[c] = z.cap[d] => c = d
    BY SMTT(30), <1>4, <2>1 DEF Good, Replies
  <2>5. \A u \in Threads : z.ts[u] = "BlockedOnReceive" => z.cap[u] = NULL
    BY <1>4 DEF Good, Replies, Free, Slots
  <2> QED BY <2>3, <2>4, <2>5 DEF Replies
<1>8. Bindings(z)
  BY SMTT(30), <1>1 DEF Good, Bindings
<1> QED BY <1>2, <1>6, <1>7, <1>8 DEF Good, z

\* A thread leaves a queue and is free.
LEMMA Freed ==
  ASSUME NEW s, Good(s), NEW o \in Objects, NEW t \in Elems(s.queue[o]), NEW x \in Free
  PROVE  Good(setThreadState(Leave(s, t, o), t, x))
<1> DEFINE z == setThreadState(Leave(s, t, o), t, x)
           d == tcbEPDequeue(s.queue[o], t)
<1>1. t \in Threads /\ s.ts[t] = Kind(s.st[o]) /\ s.ts[t] \in BlockedStates /\ s.obj[t] = o
  BY InQueue
<1>2. s.queue[o] \in Seq(Threads) /\ s.info[t] \in Messages
  BY <1>1 DEF Good, States
<1>3. \A i, j \in DOMAIN s.queue[o] : s.queue[o][i] = s.queue[o][j] => i = j
  BY DEF Good, Queued
<1>4. /\ d \in Seq(Threads) /\ Elems(d) = Elems(s.queue[o]) \ {t}
      /\ \A i, j \in DOMAIN d : d[i] = d[j] => i = j
  BY <1>2, <1>3, Dequeued
<1> HIDE DEF d
<1>5. NoMessage \in Messages
  BY <1>2, NoMessageType
<1>6. /\ z.ts = [s.ts EXCEPT ![t] = x] /\ z.obj = [s.obj EXCEPT ![t] = NULL]
      /\ z.info = [s.info EXCEPT ![t] = NoMessage]
      /\ z.fault = s.fault /\ z.bound = s.bound /\ z.queue = [s.queue EXCEPT ![o] = d]
      /\ z.st = [s.st EXCEPT ![o] = IF d = << >> THEN "Idle" ELSE s.st[o]]
      /\ z.bits = s.bits /\ z.tcb = s.tcb /\ z.cap = s.cap
  BY DEF setThreadState, Leave, Good, States, d
<1>7. z \in States
  <2>1. Leave(s, t, o) \in States
    <3> USE <1>1, <1>4, <1>5
    <3>1. Leave(s, t, o) = [s EXCEPT !.queue = [s.queue EXCEPT ![o] = d],
                                     !.st = [s.st EXCEPT ![o] = IF d = << >> THEN "Idle" ELSE s.st[o]],
                                     !.obj = [s.obj EXCEPT ![t] = NULL],
                                     !.info = [s.info EXCEPT ![t] = NoMessage]]
      BY DEF Leave, d
    <3>2. /\ [s.queue EXCEPT ![o] = d] \in [Objects -> Seq(Threads)]
          /\ [s.st EXCEPT ![o] = IF d = << >> THEN "Idle" ELSE s.st[o]]
                \in [Objects -> {"Idle", "Send", "Recv", "Waiting", "Active"}]
          /\ [s.obj EXCEPT ![t] = NULL] \in [Threads -> Objects \cup {NULL}]
          /\ [s.info EXCEPT ![t] = NoMessage] \in [Threads -> Messages]
      BY DEF Good, States
    <3>3. s \in States
      BY DEF Good
    <3> QED BY ONLY <3>1, <3>2, <3>3, ZenonT(60) DEF States
  <2> QED BY <2>1, <1>1 DEF setThreadState, States, ThreadStates, Free
<1> HIDE DEF z
<1>8. /\ s.ts \in [Threads -> ThreadStates] /\ s.obj \in [Threads -> Objects \cup {NULL}]
      /\ s.queue \in [Objects -> Seq(Threads)]
      /\ s.st \in [Objects -> {"Idle", "Send", "Recv", "Waiting", "Active"}]
  BY DEF Good, States
<1>9. /\ \A u \in Threads : z.ts[u] = IF u = t THEN x ELSE s.ts[u]
      /\ \A u \in Threads : u # t => z.obj[u] = s.obj[u]
      /\ \A p \in Objects : p # o => z.queue[p] = s.queue[p] /\ z.st[p] = s.st[p]
      /\ z.queue[o] = d /\ z.st[o] = IF d = << >> THEN "Idle" ELSE s.st[o]
  BY <1>1, <1>6, <1>8
<1>10. \A p \in Objects : Elems(z.queue[p]) = Elems(s.queue[p]) \ {t}
  <2>1. \A p \in Objects : p # o => t \notin Elems(s.queue[p])
    BY <1>1, InQueue
  <2> QED BY <2>1, <1>4, <1>9
<1>11. Queued(z)
  <2>1. \A p \in Objects : \A i, j \in DOMAIN z.queue[p] : z.queue[p][i] = z.queue[p][j] => i = j
    BY SMTT(30), <1>4, <1>9 DEF Good, Queued
  <2>2. ASSUME NEW p \in Objects, NEW u \in Elems(z.queue[p])
        PROVE  z.ts[u] = Kind(z.st[p]) /\ z.obj[u] = p
    <3>1. u \in Elems(s.queue[p]) /\ u # t
      BY <1>10
    <3>2. u \in Threads /\ s.ts[u] = Kind(s.st[p]) /\ s.obj[u] = p
      BY SMTT(30), <3>1, InQueue
    <3>3. z.st[p] = s.st[p]
      BY <1>4, <1>9, HeadOf
    <3> QED BY <3>1, <3>2, <3>3, <1>9
  <2>3. \A p \in Objects : z.queue[p] = << >> <=> z.st[p] \in {"Idle", "Active"}
    <3>1. s.queue[o] # << >>
      BY <1>2, HeadOf
    <3>2. s.st[o] \notin {"Idle", "Active"}
      BY <3>1 DEF Good, Queued
    <3> QED BY <1>9, <3>2 DEF Good, Queued
  <2>4. /\ \A e \in Endpoints : z.st[e] \in {"Idle", "Send", "Recv"}
        /\ \A n \in Notifications : z.st[n] \in {"Idle", "Waiting", "Active"}
    BY <1>9 DEF Good, Queued, Objects
  <2>5. ASSUME NEW u \in Threads, z.ts[u] \in BlockedStates
        PROVE  z.obj[u] \in Objects /\ u \in Elems(z.queue[z.obj[u]])
    <3>1. u # t /\ s.ts[u] = z.ts[u]
      BY <2>5, <1>9 DEF Free, BlockedStates
    <3>2. s.obj[u] \in Objects /\ u \in Elems(s.queue[s.obj[u]])
      BY <3>1, <2>5 DEF Good, Queued, BlockedStates
    <3> QED BY <3>1, <3>2, <1>9, <1>10
  <2> QED BY <2>1, <2>2, <2>3, <2>4, <2>5 DEF Queued, BlockedStates
<1>12. Replies(z)
  <2>1. \A c \in Slots : s.cap[c] # t
    BY <1>1, KernelAssumption DEF Good, Replies, BlockedStates
  <2>2. \A c \in Slots : z.cap[c] # NULL => z.cap[c] \in Threads
    BY <1>7 DEF States
  <2> QED BY SMTT(30), <1>6, <1>9, <2>1, <2>2 DEF Good, Replies, Free
<1>13. Bindings(z)
  <2>1. Bindings(s)
    BY DEF Good
  <2>2. \A n \in Notifications : Elems(z.queue[n]) \subseteq Elems(s.queue[n])
    BY <1>10 DEF Objects
  <2> QED BY SMTT(30), <1>6, <2>1, <2>2 DEF Bindings
<1> QED BY <1>7, <1>11, <1>12, <1>13 DEF Good, z

\* A free thread blocks on an object that is idle or has a queue of its kind.
LEMMA Blocked ==
  ASSUME NEW s, Good(s), NEW o \in Objects, NEW t \in Threads, s.ts[t] \in Free,
         NEW state \in {"Send", "Recv", "Waiting"}, NEW m \in Messages,
         s.st[o] \in {"Idle", state},
         o \in Endpoints => state # "Waiting", o \in Notifications => state = "Waiting",
         state = "Recv" => s.cap[t] = NULL,
         o \in Notifications => s.tcb[o] \in {NULL, t}
  PROVE  Good(Block(s, t, o, state, m))
<1> DEFINE z == Block(s, t, o, state, m)
           a == tcbEPAppend(s.queue[o], t)
<1>1. \A p \in Objects : t \notin Elems(s.queue[p])
  BY InQueue DEF Free, BlockedStates
<1>2. s.queue[o] \in Seq(Threads) /\ s.info[t] \in Messages
  BY DEF Good, States
<1>3. \A i, j \in DOMAIN s.queue[o] : s.queue[o][i] = s.queue[o][j] => i = j
  BY DEF Good, Queued
<1>4. /\ a \in Seq(Threads) /\ Elems(a) = Elems(s.queue[o]) \cup {t} /\ a # << >>
      /\ \A i, j \in DOMAIN a : a[i] = a[j] => i = j
  BY <1>1, <1>2, <1>3, Appended
<1> HIDE DEF a
<1>5. Kind(state) \in BlockedStates /\ Kind(state) \in ThreadStates
  BY Kinds DEF BlockedStates, ThreadStates
<1>6. z = [s EXCEPT !.ts = [s.ts EXCEPT ![t] = Kind(state)], !.obj = [s.obj EXCEPT ![t] = o],
                    !.info = [s.info EXCEPT ![t] = m], !.queue = [s.queue EXCEPT ![o] = a],
                    !.st = [s.st EXCEPT ![o] = state]]
  BY Zenon DEF Block, a
<1> HIDE DEF z
<1>7. /\ z.ts = [s.ts EXCEPT ![t] = Kind(state)] /\ z.obj = [s.obj EXCEPT ![t] = o]
      /\ z.info = [s.info EXCEPT ![t] = m] /\ z.queue = [s.queue EXCEPT ![o] = a]
      /\ z.st = [s.st EXCEPT ![o] = state]
      /\ z.fault = s.fault /\ z.bound = s.bound /\ z.bits = s.bits /\ z.tcb = s.tcb /\ z.cap = s.cap
  BY <1>6 DEF Good, States
<1>8. z \in States
  <2>1. /\ [s.ts EXCEPT ![t] = Kind(state)] \in [Threads -> ThreadStates]
        /\ [s.obj EXCEPT ![t] = o] \in [Threads -> Objects \cup {NULL}]
        /\ [s.info EXCEPT ![t] = m] \in [Threads -> Messages]
        /\ [s.queue EXCEPT ![o] = a] \in [Objects -> Seq(Threads)]
        /\ [s.st EXCEPT ![o] = state] \in [Objects -> {"Idle", "Send", "Recv", "Waiting", "Active"}]
    BY <1>4, <1>5 DEF Good, States
  <2> QED BY <2>1, <1>6 DEF Good, States
<1>9. /\ s.ts \in [Threads -> ThreadStates] /\ s.obj \in [Threads -> Objects \cup {NULL}]
      /\ s.queue \in [Objects -> Seq(Threads)]
      /\ s.st \in [Objects -> {"Idle", "Send", "Recv", "Waiting", "Active"}]
  BY DEF Good, States
<1>10. /\ \A u \in Threads : z.ts[u] = IF u = t THEN Kind(state) ELSE s.ts[u]
       /\ \A u \in Threads : z.obj[u] = IF u = t THEN o ELSE s.obj[u]
       /\ \A p \in Objects : p # o => z.queue[p] = s.queue[p] /\ z.st[p] = s.st[p]
       /\ z.queue[o] = a /\ z.st[o] = state
  BY <1>7, <1>9
<1>11. Queued(z)
  <2>1. \A p \in Objects : \A i, j \in DOMAIN z.queue[p] : z.queue[p][i] = z.queue[p][j] => i = j
    BY SMTT(30), <1>4, <1>10 DEF Good, Queued
  <2>2. ASSUME NEW p \in Objects, NEW u \in Elems(z.queue[p])
        PROVE  z.ts[u] = Kind(z.st[p]) /\ z.obj[u] = p
    <3>1. CASE p = o /\ u = t
      BY <3>1, <1>10
    <3>2. CASE ~(p = o /\ u = t)
      <4>1. u \in Elems(s.queue[p]) /\ u # t
        BY <3>2, <1>1, <1>4, <1>10
      <4>2. u \in Threads /\ s.ts[u] = Kind(s.st[p]) /\ s.ts[u] \in BlockedStates /\ s.obj[u] = p
        BY SMTT(30), <4>1, InQueue
      <4>3. z.st[p] = s.st[p]
        BY <1>10, <4>2, Kinds DEF BlockedStates
      <4> QED BY <4>1, <4>2, <4>3, <1>10
    <3> QED BY <3>1, <3>2
  <2>3. \A p \in Objects : z.queue[p] = << >> <=> z.st[p] \in {"Idle", "Active"}
    BY SMTT(30), <1>4, <1>10 DEF Good, Queued
  <2>4. /\ \A e \in Endpoints : z.st[e] \in {"Idle", "Send", "Recv"}
        /\ \A n \in Notifications : z.st[n] \in {"Idle", "Waiting", "Active"}
    BY SMTT(30), <1>10, KernelAssumption DEF Good, Queued, Objects
  <2>5. ASSUME NEW u \in Threads, z.ts[u] \in BlockedStates
        PROVE  z.obj[u] \in Objects /\ u \in Elems(z.queue[z.obj[u]])
    <3>1. CASE u = t
      BY <3>1, <1>4, <1>10
    <3>2. CASE u # t
      <4>1. s.obj[u] \in Objects /\ u \in Elems(s.queue[s.obj[u]])
        BY <3>2, <2>5, <1>10 DEF Good, Queued, BlockedStates
      <4> QED BY SMTT(30), <3>2, <4>1, <1>4, <1>10
    <3> QED BY <3>1, <3>2
  <2> QED BY <2>1, <2>2, <2>3, <2>4, <2>5 DEF Queued, BlockedStates
<1>12. Replies(z)
  <2>1. \A c \in Slots : s.cap[c] # t
    BY KernelAssumption DEF Good, Replies, Free
  <2>2. \A c \in Slots : z.cap[c] # NULL => z.cap[c] \in Threads
    BY <1>8 DEF States
  <2>3. Kind(state) = "BlockedOnReceive" => state = "Recv"
    BY Kinds
  <2> QED BY SMTT(30), <1>7, <1>10, <2>1, <2>2, <2>3 DEF Good, Replies
<1>13. Bindings(z)
  <2>1. ASSUME NEW n \in Notifications, z.tcb[n] # NULL
        PROVE  z.bound[z.tcb[n]] = n /\ Elems(z.queue[n]) \subseteq {z.tcb[n]}
    <3>1. n \in Objects /\ s.bound[s.tcb[n]] = n /\ Elems(s.queue[n]) \subseteq {s.tcb[n]}
      BY <2>1, <1>7 DEF Good, Bindings, Objects
    <3>2. z.tcb[n] = s.tcb[n] /\ z.bound = s.bound
      BY <1>7
    <3>3. CASE n = o
      <4>1. s.tcb[n] = t
        BY <3>2, <3>3, <2>1
      <4> QED BY <3>1, <3>2, <3>3, <4>1, <1>4, <1>10
    <3>4. CASE n # o
      BY <3>1, <3>2, <3>4, <1>10
    <3> QED BY <3>3, <3>4
  <2>2. Bindings(s)
    BY DEF Good
  <2> QED BY SMTT(30), <1>7, <2>1, <2>2 DEF Bindings
<1> QED BY <1>8, <1>11, <1>12, <1>13 DEF Good, z

\* A reply capability is deleted.
LEMMA Dropped ==
  ASSUME NEW s, Good(s), NEW c \in Slots
  PROVE  Good([s EXCEPT !.cap[c] = NULL])
<1> DEFINE z == [s EXCEPT !.cap[c] = NULL]
<1>1. /\ z.cap = [s.cap EXCEPT ![c] = NULL] /\ z.ts = s.ts /\ z.obj = s.obj /\ z.queue = s.queue
      /\ z.st = s.st /\ z.bound = s.bound /\ z.tcb = s.tcb
  BY DEF Good, States
<1>2. z \in States
  BY DEF Good, States
<1> HIDE DEF z
<1>3. \A d \in Slots : z.cap[d] = IF d = c THEN NULL ELSE s.cap[d]
  BY <1>1 DEF Good, States
<1>4. Queued(z) /\ Bindings(z)
  BY SMTT(30), <1>1 DEF Good, Queued, Bindings
<1>5. Replies(z)
  BY SMTT(30), <1>1, <1>3 DEF Good, Replies, Slots
<1> QED BY <1>2, <1>4, <1>5 DEF Good, z

\* A fault is noted or cleared.
LEMMA FaultSet ==
  ASSUME NEW s, Good(s), NEW t \in Threads, NEW b \in BOOLEAN
  PROVE  Good([s EXCEPT !.fault[t] = b])
<1> DEFINE z == [s EXCEPT !.fault[t] = b]
<1>1. /\ z.cap = s.cap /\ z.ts = s.ts /\ z.obj = s.obj /\ z.queue = s.queue
      /\ z.st = s.st /\ z.bound = s.bound /\ z.tcb = s.tcb
  BY DEF Good, States
<1>2. z \in States
  BY DEF Good, States
<1> HIDE DEF z
<1>3. Queued(z) /\ Bindings(z) /\ Replies(z)
  BY SMTT(30), <1>1 DEF Good, Queued, Bindings, Replies
<1> QED BY <1>2, <1>3 DEF Good, z

\* The capabilities of a state without those that name one thread.
Without(s, r) == [c \in Slots |-> IF s.cap[c] = r THEN NULL ELSE s.cap[c]]

\* A caller is freed, and no reply capability names it any more.
LEMMA Uncalled ==
  ASSUME NEW s, Good(s), NEW r \in Threads, s.ts[r] = "BlockedOnReply", NEW x \in Free
  PROVE  Good(setThreadState([s EXCEPT !.fault[r] = FALSE, !.cap = Without(s, r)], r, x))
<1> DEFINE z == setThreadState([s EXCEPT !.fault[r] = FALSE, !.cap = Without(s, r)], r, x)
<1>1. s.cap \in [Slots -> Threads \cup {NULL}] /\ s.ts \in [Threads -> ThreadStates]
  BY DEF Good, States
<1>2. Without(s, r) \in [Slots -> Threads \cup {NULL}]
  BY <1>1 DEF Without
<1>3. z = [s EXCEPT !.fault = [s.fault EXCEPT ![r] = FALSE], !.cap = Without(s, r),
                    !.ts = [s.ts EXCEPT ![r] = x]]
  BY DEF setThreadState, Good, States
<1> HIDE DEF z
<1>4. /\ z.cap = Without(s, r) /\ z.ts = [s.ts EXCEPT ![r] = x]
      /\ z.obj = s.obj /\ z.queue = s.queue /\ z.st = s.st /\ z.bound = s.bound /\ z.tcb = s.tcb
  BY <1>3 DEF Good, States
<1>5. z \in States
  BY <1>2, <1>3 DEF Good, States, Free, ThreadStates
<1>6. /\ \A u \in Threads : z.ts[u] = IF u = r THEN x ELSE s.ts[u]
      /\ \A c \in Slots : z.cap[c] = IF s.cap[c] = r THEN NULL ELSE s.cap[c]
  BY <1>1, <1>4 DEF Without
<1>7. \A o \in Objects : r \notin Elems(s.queue[o])
  BY InQueue DEF BlockedStates
<1>8. Queued(z)
  <2>1. \A o \in Objects : \A u \in Elems(z.queue[o]) : z.ts[u] = Kind(z.st[o]) /\ z.obj[u] = o
    BY SMTT(30), <1>4, <1>6, <1>7, InQueue
  <2>2. \A u \in Threads : z.ts[u] \in BlockedStates => z.ts[u] = s.ts[u]
    BY <1>6 DEF Free, BlockedStates
  <2> QED BY SMTT(30), <1>4, <2>1, <2>2 DEF Queued, Good, BlockedStates
<1>9. Replies(z)
  <2>1. \A c \in Slots : z.cap[c] # NULL => z.cap[c] = s.cap[c] /\ z.cap[c] # r /\ z.cap[c] \in Threads
    BY <1>1, <1>6
  <2>2. \A t \in Threads : t \in Slots
    BY DEF Slots
  <2> QED BY SMTT(30), <1>6, <2>1, <2>2 DEF Good, Replies, Free
<1>10. Bindings(z)
  BY SMTT(30), <1>4 DEF Good, Bindings
<1> QED BY <1>5, <1>8, <1>9, <1>10 DEF Good, z

\* doReplyTransfer frees the caller that the slot names.
LEMMA Answered ==
  ASSUME NEW s, Good(s), NEW c \in Slots, s.cap[c] # NULL, NEW goOn \in BOOLEAN
  PROVE  Good(doReplyTransfer(s, s.cap[c], c, goOn))
<1> DEFINE r == s.cap[c]
           x == IF ~s.fault[r] THEN "Running" ELSE IF goOn THEN "Restart" ELSE "Inactive"
<1>1. r \in Threads /\ s.ts[r] = "BlockedOnReply"
  BY DEF Good, States, Replies
<1>2. [s.cap EXCEPT ![c] = NULL] = Without(s, r)
  BY DEF Good, States, Replies, Without
<1>3. x \in Free
  BY DEF Free
<1>4. doReplyTransfer(s, r, c, goOn)
        = setThreadState([s EXCEPT !.cap = [s.cap EXCEPT ![c] = NULL], !.fault[r] = FALSE], r, x)
  BY Zenon DEF doReplyTransfer
<1>5. [s EXCEPT !.cap = Without(s, r), !.fault[r] = FALSE]
        = [s EXCEPT !.fault[r] = FALSE, !.cap = Without(s, r)]
  BY DEF Good, States
<1> HIDE DEF x
<1>6. doReplyTransfer(s, r, c, goOn)
        = setThreadState([s EXCEPT !.fault[r] = FALSE, !.cap = Without(s, r)], r, x)
  BY ONLY <1>2, <1>4, <1>5, Zenon
<1>7. Good(setThreadState([s EXCEPT !.fault[r] = FALSE, !.cap = Without(s, r)], r, x))
  BY <1>1, <1>3, Uncalled
<1> QED BY ONLY <1>6, <1>7, Zenon

\* A notification nobody waits for becomes idle or active.
LEMMA Signalled ==
  ASSUME NEW s, Good(s), NEW n \in Notifications, s.queue[n] = << >>,
         NEW x \in {"Idle", "Active"}, NEW b \in SUBSET Badges
  PROVE  Good([s EXCEPT !.st[n] = x, !.bits[n] = b])
<1> DEFINE z == [s EXCEPT !.st[n] = x, !.bits[n] = b]
<1>1. /\ z.st = [s.st EXCEPT ![n] = x] /\ z.ts = s.ts /\ z.cap = s.cap
      /\ z.obj = s.obj /\ z.queue = s.queue /\ z.bound = s.bound /\ z.tcb = s.tcb
  BY DEF Good, States
<1>2. z \in States
  BY DEF Good, States, Objects
<1> HIDE DEF z
<1>3. \A o \in Objects : z.st[o] = IF o = n THEN x ELSE s.st[o]
  BY <1>1 DEF Good, States, Objects
<1>4. Elems(s.queue[n]) = {}
  BY SMTT(30) DEF Elems
<1>5. Queued(z)
  <2>1. \A o \in Objects : \A u \in Elems(z.queue[o]) : z.ts[u] = Kind(z.st[o]) /\ z.obj[u] = o
    BY SMTT(30), <1>1, <1>3, <1>4, InQueue
  <2>2. \A o \in Objects : z.queue[o] = << >> <=> z.st[o] \in {"Idle", "Active"}
    BY SMTT(30), <1>1, <1>3 DEF Good, Queued
  <2>3. /\ \A e \in Endpoints : z.st[e] \in {"Idle", "Send", "Recv"}
        /\ \A m \in Notifications : z.st[m] \in {"Idle", "Waiting", "Active"}
    BY SMTT(30), <1>3, KernelAssumption DEF Good, Queued, Objects
  <2>4. \A o \in Objects : \A i, j \in DOMAIN z.queue[o] : z.queue[o][i] = z.queue[o][j] => i = j
    BY SMTT(30), <1>1 DEF Good, Queued
  <2> QED BY <1>1, <2>1, <2>2, <2>3, <2>4 DEF Good, Queued
<1>6. Replies(z) /\ Bindings(z)
  BY SMTT(30), <1>1 DEF Good, Replies, Bindings
<1> QED BY <1>2, <1>5, <1>6 DEF Good, z

\* A binding is undone.
LEMMA Unbound ==
  ASSUME NEW s, Good(s), NEW t \in Threads
  PROVE  Good(unbindNotification(s, t))
<1> DEFINE z == unbindNotification(s, t)
<1>1. CASE s.bound[t] = NULL
  BY <1>1 DEF unbindNotification
<1>2. CASE s.bound[t] # NULL
  <2> DEFINE n == s.bound[t]
  <2>1. n \in Notifications /\ s.tcb[n] = t
    BY SMTT(30), <1>2 DEF Good, States, Bindings
  <2>2. z = [s EXCEPT !.tcb = [s.tcb EXCEPT ![n] = NULL], !.bound = [s.bound EXCEPT ![t] = NULL]]
    BY <1>2 DEF unbindNotification, Good, States
  <2> HIDE DEF z
  <2>3. /\ z.tcb = [s.tcb EXCEPT ![n] = NULL] /\ z.bound = [s.bound EXCEPT ![t] = NULL]
        /\ z.st = s.st /\ z.ts = s.ts /\ z.cap = s.cap /\ z.obj = s.obj /\ z.queue = s.queue
    BY <2>2 DEF Good, States
  <2>4. z \in States
    BY <2>1, <2>2 DEF Good, States
  <2>5. Queued(z) /\ Replies(z)
    BY SMTT(30), <2>3 DEF Good, Queued, Replies
  <2>6. /\ \A m \in Notifications : z.tcb[m] = IF m = n THEN NULL ELSE s.tcb[m]
        /\ \A u \in Threads : z.bound[u] = IF u = t THEN NULL ELSE s.bound[u]
    BY <2>1, <2>3 DEF Good, States
  <2>7. Bindings(z)
    <3>1. \A u \in Threads : z.bound[u] # NULL => z.tcb[z.bound[u]] = u
      BY SMTT(30), <2>1, <2>6 DEF Good, States, Bindings
    <3>2. \A m \in Notifications : z.tcb[m] # NULL => z.bound[z.tcb[m]] = m
      BY SMTT(30), <2>1, <2>6 DEF Good, States, Bindings
    <3>3. \A m \in Notifications : z.tcb[m] # NULL => Elems(z.queue[m]) \subseteq {z.tcb[m]}
      BY <2>3, <2>6 DEF Good, Bindings
    <3> QED BY <3>1, <3>2, <3>3 DEF Bindings
  <2> QED BY <2>4, <2>5, <2>7 DEF Good, z
<1> QED BY <1>1, <1>2

\* Some threads of a queue are restarted and the others stay in it.
LEMMA Thinned ==
  ASSUME NEW s, Good(s), NEW o \in Objects, NEW S \in SUBSET Elems(s.queue[o]),
         NEW q \in Seq(Threads), Elems(q) = Elems(s.queue[o]) \ S, s.queue[o] # << >>,
         \A i, j \in DOMAIN q : q[i] = q[j] => i = j,
         NEW x, x = IF q = << >> THEN "Idle" ELSE s.st[o]
  PROVE  Good([Restarted(s, S) EXCEPT !.queue[o] = q, !.st[o] = x])
<1> DEFINE ts2   == [t \in Threads |-> IF t \in S THEN "Restart" ELSE s.ts[t]]
           obj2  == [t \in Threads |-> IF t \in S THEN NULL ELSE s.obj[t]]
           info2 == [t \in Threads |-> IF t \in S THEN NoMessage ELSE s.info[t]]
           z     == [Restarted(s, S) EXCEPT !.queue[o] = q, !.st[o] = x]
<1>1. /\ s.ts \in [Threads -> ThreadStates] /\ s.obj \in [Threads -> Objects \cup {NULL}]
      /\ s.info \in [Threads -> Messages] /\ s.queue \in [Objects -> Seq(Threads)]
      /\ s.st \in [Objects -> {"Idle", "Send", "Recv", "Waiting", "Active"}]
  BY DEF Good, States
<1>2. S \subseteq Threads
  BY <1>1, HeadOf
<1>3. \A t \in Threads : NoMessage \in Messages
  BY <1>1, NoMessageType
<1>4. /\ ts2 \in [Threads -> ThreadStates] /\ obj2 \in [Threads -> Objects \cup {NULL}]
      /\ info2 \in [Threads -> Messages]
  BY <1>1, <1>3 DEF ThreadStates
<1>5. Restarted(s, S) = [s EXCEPT !.ts = ts2, !.obj = obj2, !.info = info2]
  BY Zenon DEF Restarted
<1>6. /\ \A t \in Threads : ts2[t] = IF t \in S THEN "Restart" ELSE s.ts[t]
      /\ \A t \in Threads : obj2[t] = IF t \in S THEN NULL ELSE s.obj[t]
  OBVIOUS
<1> HIDE DEF ts2, obj2, info2
<1>7. z = [s EXCEPT !.ts = ts2, !.obj = obj2, !.info = info2,
                    !.queue = [s.queue EXCEPT ![o] = q], !.st = [s.st EXCEPT ![o] = x]]
  BY <1>5 DEF Good, States
<1> HIDE DEF z
<1>8. /\ z.ts = ts2 /\ z.obj = obj2 /\ z.queue = [s.queue EXCEPT ![o] = q]
      /\ z.st = [s.st EXCEPT ![o] = x] /\ z.bound = s.bound /\ z.tcb = s.tcb /\ z.cap = s.cap
  BY <1>7 DEF Good, States
<1>9. z \in States
  <2>1. /\ [s.queue EXCEPT ![o] = q] \in [Objects -> Seq(Threads)]
        /\ [s.st EXCEPT ![o] = x] \in [Objects -> {"Idle", "Send", "Recv", "Waiting", "Active"}]
    BY <1>1
  <2> QED BY <2>1, <1>4, <1>7 DEF Good, States
<1>10. /\ \A p \in Objects : p # o => z.queue[p] = s.queue[p] /\ z.st[p] = s.st[p]
       /\ z.queue[o] = q /\ z.st[o] = x
  BY <1>1, <1>8
<1>11. \A p \in Objects : Elems(z.queue[p]) = Elems(s.queue[p]) \ S
  <2>1. \A p \in Objects : p # o => \A t \in S : t \notin Elems(s.queue[p])
    <3> SUFFICES ASSUME NEW p \in Objects, p # o, NEW t \in S, t \in Elems(s.queue[p]) PROVE FALSE
      OBVIOUS
    <3>1. s.obj[t] = o /\ s.obj[t] = p
      BY SMTT(30), InQueue
    <3> QED BY <3>1
  <2> QED BY <2>1, <1>10
<1>12. Queued(z)
  <2>1. \A p \in Objects : \A i, j \in DOMAIN z.queue[p] : z.queue[p][i] = z.queue[p][j] => i = j
    BY SMTT(30), <1>10 DEF Good, Queued
  <2>2. ASSUME NEW p \in Objects, NEW u \in Elems(z.queue[p])
        PROVE  z.ts[u] = Kind(z.st[p]) /\ z.obj[u] = p
    <3>1. u \in Elems(s.queue[p]) /\ u \notin S
      BY <1>11
    <3>2. u \in Threads /\ s.ts[u] = Kind(s.st[p]) /\ s.obj[u] = p
      BY SMTT(30), <3>1, InQueue
    <3>3. z.st[p] = s.st[p]
      BY <1>10, HeadOf
    <3> QED BY <3>1, <3>2, <3>3, <1>6, <1>8
  <2>3. \A p \in Objects : z.queue[p] = << >> <=> z.st[p] \in {"Idle", "Active"}
    <3>1. s.st[o] \notin {"Idle", "Active"}
      BY DEF Good, Queued
    <3> QED BY SMTT(30), <1>10, <3>1 DEF Good, Queued
  <2>4. /\ \A e \in Endpoints : z.st[e] \in {"Idle", "Send", "Recv"}
        /\ \A n \in Notifications : z.st[n] \in {"Idle", "Waiting", "Active"}
    BY <1>10 DEF Good, Queued, Objects
  <2>5. ASSUME NEW u \in Threads, z.ts[u] \in BlockedStates
        PROVE  z.obj[u] \in Objects /\ u \in Elems(z.queue[z.obj[u]])
    <3>1. u \notin S /\ s.ts[u] = z.ts[u] /\ s.obj[u] = z.obj[u]
      BY <2>5, <1>6, <1>8 DEF BlockedStates
    <3>2. s.obj[u] \in Objects /\ u \in Elems(s.queue[s.obj[u]])
      BY <3>1, <2>5 DEF Good, Queued, BlockedStates
    <3> QED BY <3>1, <3>2, <1>11
  <2> QED BY <2>1, <2>2, <2>3, <2>4, <2>5 DEF Queued, BlockedStates
<1>13. Replies(z)
  <2>1. \A t \in S : s.ts[t] # "BlockedOnReply"
    BY InQueue DEF BlockedStates
  <2>2. \A c \in Slots : z.cap[c] # NULL => z.cap[c] \in Threads
    BY <1>9 DEF States
  <2> QED BY SMTT(30), <1>6, <1>8, <2>1, <2>2 DEF Good, Replies
<1>14. Bindings(z)
  BY SMTT(30), <1>8, <1>11 DEF Good, Bindings, Objects
<1> QED BY <1>9, <1>12, <1>13, <1>14 DEF Good, z

\* cancelAllIPC and cancelAllSignals.
LEMMA AllRestarted ==
  ASSUME NEW s, Good(s), NEW o \in Objects
  PROVE  Good(cancelAll(s, o)) /\ cancelAll(s, o).queue[o] = << >>
<1>1. CASE s.queue[o] = << >>
  BY <1>1 DEF cancelAll
<1>2. CASE s.queue[o] # << >>
  <2>1. s.queue[o] \in Seq(Threads) /\ s.queue \in [Objects -> Seq(Threads)]
    BY DEF Good, States
  <2>2. << >> \in Seq(Threads) /\ Elems(<< >>) = {}
    <3>1. << >> \in Seq(Threads)
      BY SMTT(30)
    <3> QED BY <3>1, HeadOf, ZenonT(30)
  <2>3. Good([Restarted(s, Elems(s.queue[o])) EXCEPT !.queue[o] = << >>, !.st[o] = "Idle"])
    <3>1. Elems(<< >>) = Elems(s.queue[o]) \ Elems(s.queue[o])
      BY <2>2
    <3>2. \A i, j \in DOMAIN << >> : << >>[i] = << >>[j] => i = j
      BY SMTT(30)
    <3>3. "Idle" = IF << >> = << >> THEN "Idle" ELSE s.st[o]
      OBVIOUS
    <3> DEFINE S == Elems(s.queue[o])  q == << >>  x == "Idle"
    <3>4. S \in SUBSET Elems(s.queue[o]) /\ q \in Seq(Threads)
      BY <2>2
    <3>5. Elems(q) = Elems(s.queue[o]) \ S /\ x = IF q = << >> THEN "Idle" ELSE s.st[o]
      BY <3>1, <3>3
    <3>6. \A i, j \in DOMAIN q : q[i] = q[j] => i = j
      BY <3>2
    <3> HIDE DEF S, q, x
    <3>7. Good([Restarted(s, S) EXCEPT !.queue[o] = q, !.st[o] = x])
      BY ONLY Good(s), o \in Objects, <1>2, <3>4, <3>5, <3>6, Thinned, ZenonT(30)
    <3> QED BY <3>7 DEF S, q, x
  <2>4. Restarted(s, Elems(s.queue[o])).queue = s.queue
    BY DEF Restarted, Good, States
  <2>5. Restarted(s, Elems(s.queue[o])) \in [ts : {Restarted(s, Elems(s.queue[o])).ts},
             obj : {Restarted(s, Elems(s.queue[o])).obj}, info : {Restarted(s, Elems(s.queue[o])).info},
             fault : {s.fault}, bound : {s.bound}, queue : {s.queue}, st : {s.st},
             bits : {s.bits}, tcb : {s.tcb}, cap : {s.cap}]
    BY DEF Restarted, Good, States
  <2>6. [Restarted(s, Elems(s.queue[o])) EXCEPT !.queue[o] = << >>, !.st[o] = "Idle"].queue[o] = << >>
    BY <2>1, <2>4, <2>5
  <2> QED BY <1>2, <2>3, <2>6 DEF cancelAll
<1> QED BY <1>1, <1>2

\* What else there is to know of a thread that has left a queue.
LEMMA LeaveFields ==
  ASSUME NEW s, Good(s), NEW o \in Objects, NEW t \in Threads
  PROVE  /\ Leave(s, t, o).ts = s.ts /\ Leave(s, t, o).cap = s.cap
         /\ DOMAIN Leave(s, t, o) = DOMAIN s
         /\ Leave(s, t, o) = [f \in DOMAIN s |-> Leave(s, t, o)[f]]
<1> DEFINE d == tcbEPDequeue(s.queue[o], t)
           l == Leave(s, t, o)
<1>1. l = [s EXCEPT !.queue = [s.queue EXCEPT ![o] = d],
                    !.st = [s.st EXCEPT ![o] = IF d = << >> THEN "Idle" ELSE s.st[o]],
                    !.obj = [s.obj EXCEPT ![t] = NULL], !.info = [s.info EXCEPT ![t] = NoMessage]]
  BY Zenon DEF Leave
<1> HIDE DEF d, l
<1>2. /\ l.ts = s.ts /\ l.cap = s.cap /\ DOMAIN l = DOMAIN s
      /\ l = [f \in DOMAIN s |-> l[f]]
  BY <1>1 DEF Good, States
<1> QED BY <1>2 DEF l

LEMMA FreedState ==
  ASSUME NEW s, Good(s), NEW o \in Objects, NEW t \in Threads, NEW x \in Free
  PROVE  setThreadState(Leave(s, t, o), t, x).ts = [s.ts EXCEPT ![t] = x]
<1> DEFINE l == Leave(s, t, o)
<1>1. l.ts = s.ts /\ DOMAIN l = DOMAIN s /\ l = [f \in DOMAIN s |-> l[f]]
  BY LeaveFields
<1>2. "ts" \in DOMAIN s
  BY DEF Good, States
<1> HIDE DEF l
<1>3. setThreadState(l, t, x).ts = [l.ts EXCEPT ![t] = x]
  BY <1>1, <1>2 DEF setThreadState
<1> QED BY <1>1, <1>3 DEF l

LEMMA FreedCaps ==
  ASSUME NEW s, Good(s), NEW o \in Objects, NEW t \in Threads, NEW x \in Free
  PROVE  setThreadState(Leave(s, t, o), t, x).cap = s.cap
<1> DEFINE l == Leave(s, t, o)
<1>1. l.cap = s.cap /\ DOMAIN l = DOMAIN s /\ l = [f \in DOMAIN s |-> l[f]]
  BY LeaveFields
<1>2. "cap" \in DOMAIN s
  BY DEF Good, States
<1> HIDE DEF l
<1>3. setThreadState(l, t, x).cap = l.cap
  BY <1>1, <1>2 DEF setThreadState
<1> QED BY <1>1, <1>3 DEF l

\* A caller is blocked on its reply at once: no state comes between.
LEMMA CalledFields ==
  ASSUME NEW s, NEW t, NEW r, NEW x
  PROVE  setupCallerCap(setThreadState(s, t, x), t, r) = setupCallerCap(s, t, r)
BY DEF setupCallerCap, setThreadState

\* sendIPC
LEMMA SentIPC ==
  ASSUME NEW s, Good(s), NEW t \in Threads, s.ts[t] \in Free, NEW o \in Endpoints,
         NEW blocking \in BOOLEAN, NEW m \in Messages
  PROVE  Good(sendIPC(s, t, o, blocking, m))
<1>0. /\ o \in Objects /\ s.st[o] \in {"Idle", "Send", "Recv"} /\ s.ts \in [Threads -> ThreadStates]
      /\ s.queue[o] \in Seq(Threads) /\ m.isCall \in BOOLEAN /\ m.canReply \in BOOLEAN
  BY DEF Good, Queued, States, Objects, Messages
<1>1. CASE s.st[o] = "Recv"
  <2> DEFINE dest == Head(s.queue[o])
             z    == setThreadState(Leave(s, dest, o), dest, "Running")
  <2>1. dest \in Elems(s.queue[o])
    BY <1>0, <1>1, HeadOf DEF Good, Queued
  <2>2. dest \in Threads /\ s.ts[dest] = "BlockedOnReceive"
    BY SMTT(30), <1>0, <1>1, <2>1, InQueue, Kinds
  <2>3. sendIPC(s, t, o, blocking, m) = Sent(z, t, dest, m)
    BY <1>1 DEF sendIPC
  <2> HIDE DEF dest
  <2>4. "Running" \in Free
    BY DEF Free
  <2>5. Good(z) /\ z.ts = [s.ts EXCEPT ![dest] = "Running"] /\ z.cap = s.cap
    <3>1. Good(z)
      BY <1>0, <2>1, <2>4, Freed
    <3>2. z.ts = [s.ts EXCEPT ![dest] = "Running"]
      BY ONLY Good(s), <1>0, <2>2, <2>4, FreedState
    <3>3. z.cap = s.cap
      BY ONLY Good(s), <1>0, <2>2, <2>4, FreedCaps, SMTT(30)
    <3> QED BY <3>1, <3>2, <3>3
  <2> HIDE DEF z
  <2>6. z.ts[t] \in Free /\ z.ts[dest] \in Free /\ z.cap[dest] = NULL
    BY <1>0, <2>2, <2>5 DEF Free, Good, Replies
  <2>7. CASE ~m.isCall
    <3>1. Sent(z, t, dest, m) = setThreadState(z, t, "Running")
      BY <2>7 DEF Sent
    <3>2. Good(setThreadState(z, t, "Running"))
      BY <2>4, <2>5, <2>6, SetState
    <3> QED BY <2>3, <3>1, <3>2, Zenon
  <2>8. CASE m.isCall /\ m.canReply
    <3>1. Sent(z, t, dest, m) = setupCallerCap(z, t, dest)
      BY <2>8 DEF Sent
    <3>2. Good(setupCallerCap(z, t, dest))
      BY <2>2, <2>5, <2>6, CallerCap
    <3> QED BY <2>3, <3>1, <3>2, Zenon
  <2>9. CASE m.isCall /\ ~m.canReply
    <3>1. Sent(z, t, dest, m) = setThreadState(z, t, "Inactive")
      BY <2>9 DEF Sent
    <3>2. "Inactive" \in Free
      BY DEF Free
    <3>3. Good(setThreadState(z, t, "Inactive"))
      BY <2>4, <2>5, <2>6, <3>2, SetState
    <3> QED BY <2>3, <3>1, <3>3
  <2> QED BY <1>0, <2>7, <2>8, <2>9, SMTT(30)
<1>2. CASE s.st[o] # "Recv" /\ blocking
  <2>1. o \notin Notifications
    BY KernelAssumption
  <2>2. Good(Block(s, t, o, "Send", m))
    BY <1>0, <1>2, <2>1, Blocked
  <2> QED BY <1>2, <2>2 DEF sendIPC
<1>3. CASE s.st[o] # "Recv" /\ ~blocking
  BY <1>3 DEF sendIPC
<1> QED BY <1>1, <1>2, <1>3

\* completeSignal
LEMMA SignalTaken ==
  ASSUME NEW s, Good(s), NEW n \in Notifications, s.st[n] = "Active"
  PROVE  Good(completeSignal(s, n))
<1>1. s.queue[n] = << >>
  BY DEF Good, Queued, Objects
<1> QED BY <1>1, Signalled DEF completeSignal

\* receiveIPC, by a thread that holds no reply capability
LEMMA ReceivedIPC ==
  ASSUME NEW s, Good(s), NEW t \in Threads, s.ts[t] \in Free, s.cap[t] = NULL,
         NEW o \in Endpoints, NEW blocking \in BOOLEAN
  PROVE  Good(receiveIPC(s, t, o, blocking))
<1>0. /\ o \in Objects /\ s.st[o] \in {"Idle", "Send", "Recv"} /\ s.ts \in [Threads -> ThreadStates]
      /\ s.queue[o] \in Seq(Threads) /\ s.bound[t] \in Notifications \cup {NULL}
  BY DEF Good, Queued, States, Objects
<1> DEFINE b == s.bound[t] # NULL /\ s.st[s.bound[t]] = "Active"
<1>1. CASE b
  BY <1>0, <1>1, SignalTaken DEF receiveIPC
<1>2. CASE ~b /\ s.st[o] = "Send"
  <2> DEFINE sender == Head(s.queue[o])
             m      == s.info[sender]
  <2>1. sender \in Elems(s.queue[o])
    BY <1>0, <1>2, HeadOf DEF Good, Queued
  <2>2. sender \in Threads /\ s.ts[sender] = "BlockedOnSend"
    BY SMTT(30), <1>0, <1>2, <2>1, InQueue, Kinds
  <2>3. m.isCall \in BOOLEAN /\ m.canReply \in BOOLEAN
    BY <2>2 DEF Good, States, Messages
  <2>4. receiveIPC(s, t, o, blocking) = Sent(Leave(s, sender, o), sender, t, m)
    BY <1>2 DEF receiveIPC
  <2> HIDE DEF sender, m
  <2>5. \A x \in Free : Good(setThreadState(Leave(s, sender, o), sender, x))
    BY <1>0, <2>1, Freed
  <2>6. CASE ~m.isCall
    BY <2>4, <2>5, <2>6 DEF Sent, Free
  <2>7. CASE m.isCall /\ m.canReply
    <3> DEFINE z == setThreadState(Leave(s, sender, o), sender, "Inactive")
    <3>0. "Inactive" \in Free
      BY DEF Free
    <3>1. Good(z) /\ z.ts = [s.ts EXCEPT ![sender] = "Inactive"] /\ z.cap = s.cap
      <4>1. Good(z)
        BY <2>5, <3>0
      <4>2. z.ts = [s.ts EXCEPT ![sender] = "Inactive"]
        BY ONLY Good(s), <1>0, <2>2, <3>0, FreedState
      <4>3. z.cap = s.cap
        BY ONLY Good(s), <1>0, <2>2, <3>0, FreedCaps
      <4> QED BY <4>1, <4>2, <4>3
    <3>2. Sent(Leave(s, sender, o), sender, t, m) = setupCallerCap(z, sender, t)
      BY <2>7, CalledFields DEF Sent
    <3> HIDE DEF z
    <3>3. z.ts[sender] \in Free /\ z.ts[t] \in Free /\ z.cap[t] = NULL
      BY <1>0, <2>2, <3>1 DEF Free
    <3>4. Good(setupCallerCap(z, sender, t))
      BY <2>2, <3>1, <3>3, CallerCap
    <3> QED BY <2>4, <3>2, <3>4, Zenon
  <2>8. CASE m.isCall /\ ~m.canReply
    BY <2>4, <2>5, <2>8 DEF Sent, Free
  <2> QED BY <2>3, <2>6, <2>7, <2>8
<1>3. CASE ~b /\ s.st[o] # "Send" /\ blocking
  <2>1. o \notin Notifications
    BY KernelAssumption
  <2>2. NoMessage \in Messages
    BY NoMessageType DEF Good, States
  <2>3. Good(Block(s, t, o, "Recv", NoMessage))
    BY <1>0, <1>3, <2>1, <2>2, Blocked
  <2> QED BY <1>3, <2>3 DEF receiveIPC
<1>4. CASE ~b /\ s.st[o] # "Send" /\ ~blocking
  BY <1>4 DEF receiveIPC
<1> QED BY <1>1, <1>2, <1>3, <1>4

\* cancelIPC, and the state its caller then gives the thread
LEMMA Cancelled ==
  ASSUME NEW s, Good(s), NEW t \in Threads, NEW x \in Free
  PROVE  Good(setThreadState(cancelIPC(s, t), t, x))
<1>0. s.ts[t] \in ThreadStates
  BY DEF Good, States
<1>1. CASE s.ts[t] \in BlockedStates
  <2> DEFINE o == s.obj[t]
             l == Leave(s, t, o)
  <2>1. o \in Objects /\ t \in Elems(s.queue[o])
    BY <1>1 DEF Good, Queued, BlockedStates
  <2>2. cancelIPC(s, t) = setThreadState(l, t, "Inactive")
    BY <1>1 DEF cancelIPC, BlockedStates
  <2> HIDE DEF o
  <2>3. Good(setThreadState(l, t, x))
    BY <2>1, Freed
  <2> HIDE DEF l
  <2>4. setThreadState(setThreadState(l, t, "Inactive"), t, x) = setThreadState(l, t, x)
    BY DEF setThreadState
  <2> QED BY <2>2, <2>3, <2>4, Zenon
<1>2. CASE s.ts[t] = "BlockedOnReply"
  <2>1. cancelIPC(s, t) = [s EXCEPT !.fault[t] = FALSE, !.cap = Without(s, t)]
    BY <1>2, Zenon DEF cancelIPC, Without
  <2>2. Good(setThreadState([s EXCEPT !.fault[t] = FALSE, !.cap = Without(s, t)], t, x))
    BY <1>2, Uncalled
  <2> QED BY <2>1, <2>2, Zenon
<1>3. CASE s.ts[t] \in Free
  <2>1. cancelIPC(s, t) = s
    BY <1>3 DEF cancelIPC, Free
  <2> QED BY <1>3, <2>1, SetState
<1> QED BY <1>0, <1>1, <1>2, <1>3 DEF ThreadStates, Free, BlockedStates

\* suspend and restart
LEMMA SuspendGood == ASSUME NEW s, Good(s), NEW t \in Threads PROVE Good(suspend(s, t))
BY Cancelled DEF suspend, Free

LEMMA RestartGood == ASSUME NEW s, Good(s), NEW t \in Threads PROVE Good(restart(s, t))
<1>1. "Restart" \in Free
  BY DEF Free
<1> QED BY <1>1, Cancelled DEF restart

\* sendSignal
LEMMA SignalGood ==
  ASSUME NEW s, Good(s), NEW n \in Notifications, NEW b \in Badges
  PROVE  Good(sendSignal(s, n, b))
<1>0. /\ n \in Objects /\ s.st[n] \in {"Idle", "Waiting", "Active"} /\ s.queue[n] \in Seq(Threads)
      /\ s.tcb[n] \in Threads \cup {NULL} /\ s.bits[n] \in SUBSET Badges /\ "Running" \in Free
  BY DEF Good, Queued, States, Objects, Free
<1>1. CASE s.st[n] = "Idle"
  <2> DEFINE t == s.tcb[n]
  <2>0. s.queue[n] = << >>
    BY <1>0, <1>1 DEF Good, Queued
  <2>1. CASE t # NULL /\ s.ts[t] = "BlockedOnReceive"
    <3>1. sendSignal(s, n, b) = setThreadState(cancelIPC(s, t), t, "Running")
      BY <1>1, <2>1 DEF sendSignal
    <3>2. Good(setThreadState(cancelIPC(s, t), t, "Running"))
      BY <1>0, <2>1, Cancelled
    <3> QED BY <3>1, <3>2, Zenon
  <2>2. CASE ~(t # NULL /\ s.ts[t] = "BlockedOnReceive")
    <3>1. sendSignal(s, n, b) = [s EXCEPT !.st[n] = "Active", !.bits[n] = {b}]
      BY <1>1, <2>2 DEF sendSignal
    <3>2. Good([s EXCEPT !.st[n] = "Active", !.bits[n] = {b}])
      BY <2>0, Signalled
    <3> QED BY <3>1, <3>2, Zenon
  <2> QED BY <2>1, <2>2
<1>2. CASE s.st[n] = "Waiting"
  <2> DEFINE dest == Head(s.queue[n])
  <2>1. dest \in Elems(s.queue[n])
    BY <1>0, <1>2, HeadOf DEF Good, Queued
  <2>2. sendSignal(s, n, b) = setThreadState(Leave(s, dest, n), dest, "Running")
    BY <1>2 DEF sendSignal
  <2> HIDE DEF dest
  <2>3. Good(setThreadState(Leave(s, dest, n), dest, "Running"))
    BY <1>0, <2>1, Freed
  <2> QED BY <2>2, <2>3, Zenon
<1>3. CASE s.st[n] = "Active"
  <2>0. s.queue[n] = << >>
    BY <1>0, <1>3 DEF Good, Queued
  <2>1. sendSignal(s, n, b) = [s EXCEPT !.bits[n] = s.bits[n] \cup {b}]
    BY <1>3 DEF sendSignal
  <2>2. [s EXCEPT !.bits[n] = s.bits[n] \cup {b}]
        = [s EXCEPT !.st[n] = "Active", !.bits[n] = s.bits[n] \cup {b}]
    BY <1>0, <1>3 DEF Good, States
  <2>3. Good([s EXCEPT !.st[n] = "Active", !.bits[n] = s.bits[n] \cup {b}])
    BY <1>0, <2>0, Signalled
  <2> QED BY <2>1, <2>2, <2>3, Zenon
<1> QED BY <1>0, <1>1, <1>2, <1>3

\* receiveSignal, on a notification that is bound to no other thread
LEMMA WaitGood ==
  ASSUME NEW s, Good(s), NEW t \in Threads, s.ts[t] \in Free, NEW n \in Notifications,
         s.tcb[n] \in {NULL, t}, NEW blocking \in BOOLEAN
  PROVE  Good(receiveSignal(s, t, n, blocking))
<1>1. CASE s.st[n] = "Active"
  BY <1>1, SignalTaken DEF receiveSignal
<1>2. CASE s.st[n] # "Active" /\ blocking
  <2>1. n \in Objects /\ n \notin Endpoints /\ s.st[n] \in {"Idle", "Waiting"}
    BY <1>2, KernelAssumption DEF Good, Queued, Objects
  <2>2. NoMessage \in Messages
    BY NoMessageType DEF Good, States
  <2>3. Good(Block(s, t, n, "Waiting", NoMessage))
    BY <2>1, <2>2, Blocked
  <2> QED BY <1>2, <2>3 DEF receiveSignal
<1>3. CASE s.st[n] # "Active" /\ ~blocking
  BY <1>3 DEF receiveSignal
<1> QED BY <1>1, <1>2, <1>3

\* handleReply; the thread that replies goes on running
LEMMA ReplyGood ==
  ASSUME NEW s, Good(s), NEW t \in Threads, s.ts[t] = "Running", NEW goOn \in BOOLEAN
  PROVE  Good(handleReply(s, t, goOn)) /\ handleReply(s, t, goOn).ts[t] = "Running"
<1>0. t \in Slots /\ s.cap[t] \in Threads \cup {NULL} /\ s.ts \in [Threads -> ThreadStates]
  BY DEF Good, States, Slots
<1>1. CASE s.cap[t] = NULL
  BY <1>1 DEF handleReply
<1>2. CASE s.cap[t] # NULL
  <2> DEFINE r == s.cap[t]
             x == IF ~s.fault[r] THEN "Running" ELSE IF goOn THEN "Restart" ELSE "Inactive"
             c == [s EXCEPT !.cap[t] = NULL, !.fault[r] = FALSE]
  <2>1. handleReply(s, t, goOn) = doReplyTransfer(s, r, t, goOn)
    BY <1>2 DEF handleReply
  <2>2. Good(doReplyTransfer(s, r, t, goOn))
    BY <1>0, <1>2, Answered
  <2>3. r \in Threads /\ r # t
    BY <1>0, <1>2 DEF Good, Replies
  <2>4. doReplyTransfer(s, r, t, goOn) = setThreadState(c, r, x)
    BY DEF doReplyTransfer
  <2> HIDE DEF r, x
  <2>5. c.ts = s.ts /\ "ts" \in DOMAIN c /\ c = [f \in DOMAIN s |-> c[f]]
    BY DEF Good, States
  <2> HIDE DEF c
  <2>6. setThreadState(c, r, x).ts = [s.ts EXCEPT ![r] = x]
    BY <2>5 DEF setThreadState
  <2>7. setThreadState(c, r, x).ts[t] = "Running"
    BY <1>0, <2>3, <2>6
  <2>8. Good(handleReply(s, t, goOn))
    BY <2>1, <2>2, Zenon
  <2>9. handleReply(s, t, goOn) = setThreadState(c, r, x)
    BY <2>1, <2>4, Zenon
  <2> QED BY <2>7, <2>8, <2>9
<1> QED BY <1>1, <1>2

\* handleRecv: the capability of an unanswered caller is deleted first
LEMMA RecvGood ==
  ASSUME NEW s, Good(s), NEW t \in Threads, s.ts[t] = "Running",
         NEW o \in Endpoints, NEW blocking \in BOOLEAN
  PROVE  Good(handleRecv(s, t, o, blocking))
<1> DEFINE z == deleteCallerCap(s, t)
<1>1. t \in Slots
  BY DEF Slots
<1>2. Good(z)
  BY <1>1, Dropped DEF deleteCallerCap
<1>3. z.cap = [s.cap EXCEPT ![t] = NULL] /\ z.ts = s.ts
  BY DEF deleteCallerCap, Good, States
<1>4. z.cap[t] = NULL /\ z.ts[t] \in Free
  BY <1>1, <1>3 DEF Good, States, Free
<1> HIDE DEF z
<1>5. Good(receiveIPC(z, t, o, blocking))
  BY <1>2, <1>4, ReceivedIPC
<1> QED BY <1>5 DEF handleRecv, z

\* invokeCNodeSaveCaller
LEMMA SaveGood ==
  ASSUME NEW s, Good(s), NEW t \in Threads, NEW c \in Saved, s.cap[t] # NULL, s.cap[c] = NULL
  PROVE  Good([s EXCEPT !.cap[c] = s.cap[t], !.cap[t] = NULL])
<1> DEFINE z == [s EXCEPT !.cap[c] = s.cap[t], !.cap[t] = NULL]
<1>1. t \in Slots /\ c \in Slots /\ c # t /\ s.cap \in [Slots -> Threads \cup {NULL}]
      /\ s.cap[t] \in Threads
  BY KernelAssumption DEF Slots, Good, States
<1>2. /\ z.cap = [s.cap EXCEPT ![c] = s.cap[t], ![t] = NULL]
      /\ z.ts = s.ts /\ z.obj = s.obj /\ z.queue = s.queue /\ z.st = s.st
      /\ z.bound = s.bound /\ z.tcb = s.tcb
  BY DEF Good, States
<1>3. [s.cap EXCEPT ![c] = s.cap[t], ![t] = NULL] \in [Slots -> Threads \cup {NULL}]
  BY <1>1
<1>4. z = [s EXCEPT !.cap = [s.cap EXCEPT ![c] = s.cap[t], ![t] = NULL]]
  BY DEF Good, States
<1> HIDE DEF z
<1>5. z \in States
  BY <1>3, <1>4 DEF Good, States
<1>6. \A d \in Slots : z.cap[d] = IF d = c THEN s.cap[t] ELSE IF d = t THEN NULL ELSE s.cap[d]
  BY <1>1, <1>2
<1>7. Replies(z)
  <2>1. \A d \in Slots : z.cap[d] # NULL => z.ts[z.cap[d]] = "BlockedOnReply"
    BY SMTT(30), <1>1, <1>2, <1>6 DEF Good, Replies
  <2>2. \A d, e \in Slots : z.cap[d] # NULL /\ z.cap[d] = z.cap[e] => d = e
    BY SMTT(30), <1>1, <1>6 DEF Good, Replies
  <2>3. \A u \in Threads : z.ts[u] = "BlockedOnReceive" => z.cap[u] = NULL
    BY SMTT(30), <1>1, <1>2, <1>6, KernelAssumption DEF Good, Replies, Slots
  <2> QED BY <2>1, <2>2, <2>3 DEF Replies
<1>8. Queued(s) /\ Bindings(s)
  BY DEF Good
<1>9. Queued(z)
  BY SMTT(30), <1>2, <1>8 DEF Queued
<1>10. Bindings(z)
  BY <1>2, <1>8 DEF Bindings
<1> QED BY <1>5, <1>7, <1>9, <1>10 DEF Good, z

\* bindNotification, of a notification nobody waits for
LEMMA BindGood ==
  ASSUME NEW s, Good(s), NEW t \in Threads, NEW n \in Notifications,
         s.bound[t] = NULL, s.tcb[n] = NULL, s.queue[n] = << >>
  PROVE  Good([s EXCEPT !.bound[t] = n, !.tcb[n] = t])
<1> DEFINE z == [s EXCEPT !.bound[t] = n, !.tcb[n] = t]
<1>1. /\ z.bound = [s.bound EXCEPT ![t] = n] /\ z.tcb = [s.tcb EXCEPT ![n] = t]
      /\ z.ts = s.ts /\ z.obj = s.obj /\ z.queue = s.queue /\ z.st = s.st /\ z.cap = s.cap
  BY DEF Good, States
<1>2. z \in States
  BY DEF Good, States
<1> HIDE DEF z
<1>3. /\ s.bound \in [Threads -> Notifications \cup {NULL}]
      /\ s.tcb \in [Notifications -> Threads \cup {NULL}]
      /\ n \in Objects /\ Elems(s.queue[n]) = {}
  BY HeadOf DEF Good, States, Objects
<1>4. Bindings(z)
  <2>1. ASSUME NEW u \in Threads, z.bound[u] # NULL PROVE z.tcb[z.bound[u]] = u
    BY SMTT(30), <1>1, <1>3, <2>1, KernelAssumption DEF Good, Bindings
  <2>2. ASSUME NEW m \in Notifications, z.tcb[m] # NULL
        PROVE  z.bound[z.tcb[m]] = m /\ Elems(z.queue[m]) \subseteq {z.tcb[m]}
    BY SMTT(30), <1>1, <1>3, <2>2, KernelAssumption DEF Good, Bindings
  <2> QED BY <2>1, <2>2 DEF Bindings
<1>5. Queued(z) /\ Replies(z)
  BY SMTT(30), <1>1 DEF Good, Queued, Replies
<1> QED BY <1>2, <1>4, <1>5 DEF Good, z

\* The theorems on cardinality, which only what follows needs.
INSTANCE FiniteSetTheorems

\* The order in which cancelBadgedSends keeps the senders that stay visits each once.
LEMMA Kept ==
  ASSUME NEW q \in Seq(Threads), NEW stay \in SUBSET DOMAIN q,
         NEW f \in [1 .. Cardinality(stay) -> stay],
         \A i, j \in DOMAIN f : i < j => f[i] < f[j],
         \A i, j \in DOMAIN q : q[i] = q[j] => i = j
  PROVE  /\ [i \in DOMAIN f |-> q[f[i]]] \in Seq(Threads)
         /\ Elems([i \in DOMAIN f |-> q[f[i]]]) = {q[i] : i \in stay}
         /\ \A i, j \in DOMAIN f : q[f[i]] = q[f[j]] => i = j
         /\ DOMAIN f = {} <=> stay = {}
<1>1. Len(q) \in Nat /\ DOMAIN q = 1 .. Len(q)
  BY SMTT(30)
<1>2. IsFiniteSet(stay) /\ Cardinality(stay) \in Nat
  <2>1. IsFiniteSet(1 .. Len(q))
    BY SMTT(30), <1>1, FS_Interval
  <2>2. IsFiniteSet(stay)
    BY <1>1, <2>1, FS_Subset
  <2> QED BY <2>2, FS_CardinalityType
<1>3. IsFiniteSet(1 .. Cardinality(stay)) /\ Cardinality(1 .. Cardinality(stay)) = Cardinality(stay)
  BY SMTT(30), <1>2, FS_Interval
<1>4. \A i, j \in DOMAIN f : f[i] = f[j] => i = j
  <2>1. \A i \in DOMAIN f : f[i] \in Int /\ i \in Int
    BY SMTT(30), <1>1, <1>2
  <2> QED BY SMTT(30), <2>1
<1>5. f \in Injection(1 .. Cardinality(stay), stay)
  BY <1>4 DEF Injection, IsInjective
<1>6. f \in Surjection(1 .. Cardinality(stay), stay)
  BY <1>2, <1>3, <1>5, FS_Injection
<1>7. \A e \in stay : \E i \in DOMAIN f : f[i] = e
  BY <1>6 DEF Surjection
<1> DEFINE g == [i \in DOMAIN f |-> q[f[i]]]
<1>8. g \in Seq(Threads)
  <2>1. \A i \in 1 .. Cardinality(stay) : q[f[i]] \in Threads
    BY SMTT(30), <1>1
  <2> QED BY SMTT(30), <1>2, <2>1
<1>9. Elems(g) = {q[i] : i \in stay}
  BY SMTT(30), <1>7 DEF Elems
<1>10. \A i, j \in DOMAIN f : q[f[i]] = q[f[j]] => i = j
  BY <1>4
<1>11. DOMAIN f = {} <=> stay = {}
  BY <1>7
<1> QED BY <1>8, <1>9, <1>10, <1>11

\* cancelBadgedSends
LEMMA BadgedGood ==
  ASSUME Good(k), NEW t \in Threads, NEW o \in Endpoints, NEW b \in Badges,
         cancelBadgedSends(t, o, b)
  PROVE  Good(k')
<1> DEFINE q    == k.queue[o]
           stay == {i \in DOMAIN q : k.info[q[i]].badge # b}
           S    == {q[i] : i \in DOMAIN q \ stay}
<1>1. PICK f \in [1 .. Cardinality(stay) -> stay] :
         /\ \A i, j \in DOMAIN f : i < j => f[i] < f[j]
         /\ k' = [Restarted(k, S) EXCEPT !.queue[o] = [i \in DOMAIN f |-> q[f[i]]],
                                         !.st[o] = IF stay = {} THEN "Idle" ELSE "Send"]
  BY DEF cancelBadgedSends
<1>2. k.st[o] = "Send"
  BY DEF cancelBadgedSends
<1>3. o \in Objects /\ q \in Seq(Threads) /\ stay \in SUBSET DOMAIN q
  BY DEF Objects, Good, States
<1>4. \A i, j \in DOMAIN q : q[i] = q[j] => i = j
  BY <1>3 DEF Good, Queued
<1>5. q # << >>
  BY <1>2, <1>3 DEF Good, Queued
<1>6. S \in SUBSET Elems(q)
  BY DEF Elems
<1>7. {q[i] : i \in stay} = Elems(q) \ S
  BY <1>4 DEF Elems
<1> DEFINE p == [i \in DOMAIN f |-> q[f[i]]]
           x == IF stay = {} THEN "Idle" ELSE "Send"
<1> HIDE DEF stay, S
<1>8. /\ p \in Seq(Threads) /\ Elems(p) = {q[i] : i \in stay}
      /\ \A i, j \in DOMAIN f : q[f[i]] = q[f[j]] => i = j
      /\ DOMAIN f = {} <=> stay = {}
  BY <1>1, <1>3, <1>4, Kept
<1>9. /\ \A i, j \in DOMAIN p : p[i] = p[j] => i = j
      /\ p = << >> <=> stay = {}
  BY SMTT(30), <1>8
<1>10. p \in Seq(Threads) /\ Elems(p) = Elems(q) \ S
  BY <1>7, <1>8
<1>11. x = IF p = << >> THEN "Idle" ELSE k.st[o]
  BY <1>2, <1>9
<1>12. k' = [Restarted(k, S) EXCEPT !.queue[o] = p, !.st[o] = x]
  BY <1>1
<1> HIDE DEF p, x
<1>13. Good([Restarted(k, S) EXCEPT !.queue[o] = p, !.st[o] = x])
  BY <1>3, <1>5, <1>6, <1>9, <1>10, <1>11, Thinned
<1> QED BY <1>12, <1>13, Zenon

LEMMA InitGood == Init => Good(k)
<1> SUFFICES ASSUME Init PROVE Good(k)
  OBVIOUS
<1>1. NoMessage \in Messages
  <2>1. PICK b : b \in Badges
    BY KernelAssumption
  <2>2. [badge |-> b, isCall |-> FALSE, canReply |-> FALSE] \in Messages
    BY <2>1 DEF Messages
  <2> QED BY <2>2, NoMessageType
<1>2. << >> \in Seq(Threads) /\ Elems(<< >>) = {}
  <2>1. << >> \in Seq(Threads)
    BY SMTT(30)
  <2> QED BY <2>1, HeadOf
<1>3. PICK ts \in [Threads -> {"Inactive", "Running"}] :
         k = [ts    |-> ts,
              obj   |-> [t \in Threads |-> NULL],
              info  |-> [t \in Threads |-> NoMessage],
              fault |-> [t \in Threads |-> FALSE],
              bound |-> [t \in Threads |-> NULL],
              queue |-> [o \in Objects |-> << >>],
              st    |-> [o \in Objects |-> "Idle"],
              bits  |-> [n \in Notifications |-> {}],
              tcb   |-> [n \in Notifications |-> NULL],
              cap   |-> [c \in Slots |-> NULL]]
  BY DEF Init
<1>4. k \in States
  BY <1>1, <1>2, <1>3 DEF States, ThreadStates
<1>5. /\ \A t \in Threads : k.ts[t] \in {"Inactive", "Running"} /\ k.bound[t] = NULL
      /\ \A o \in Objects : k.queue[o] = << >> /\ k.st[o] = "Idle"
      /\ \A n \in Notifications : k.tcb[n] = NULL
      /\ \A c \in Slots : k.cap[c] = NULL
  BY <1>3
<1>6. Queued(k)
  BY SMTT(30), <1>2, <1>5 DEF Queued, Objects
<1>7. Replies(k)
  BY <1>5 DEF Replies, Slots
<1>8. Bindings(k)
  BY <1>5 DEF Bindings
<1> QED BY <1>4, <1>6, <1>7, <1>8 DEF Good

\* Every kernel entry takes a Good state to a Good state.
LEMMA NextGood == Good(k) /\ [Next]_k => Good(k')
<1> SUFFICES ASSUME Good(k), [Next]_k PROVE Good(k')
  OBVIOUS
<1>1. CASE UNCHANGED k
  BY <1>1
<1>2. ASSUME NEW n \in Notifications, NEW b \in Badges, Signal(n, b) PROVE Good(k')
  BY <1>2, SignalGood DEF Signal
<1>3. ASSUME NEW t \in Threads, activateThread(t) PROVE Good(k')
  BY <1>3, SetState DEF activateThread, Free
<1>4. ASSUME NEW t \in Threads, handleDoubleFault(t) PROVE Good(k')
  BY <1>4, SetState DEF handleDoubleFault, Current, Free
<1>5. ASSUME NEW t \in Threads, NEW goOn \in BOOLEAN, Reply(t, goOn) PROVE Good(k')
  BY <1>5, ReplyGood DEF Reply, Current
<1>6. ASSUME NEW t \in Threads, NEW o \in Endpoints, NEW blocking \in BOOLEAN, NEW m \in Messages,
             Send(t, o, blocking, m)
      PROVE  Good(k')
  <2>1. k.ts[t] \in Free /\ k' = sendIPC(k, t, o, blocking, m)
    BY <1>6 DEF Send, Current, Free
  <2> QED BY <2>1, SentIPC
<1>7. ASSUME NEW t \in Threads, NEW o \in Endpoints, NEW blocking \in BOOLEAN, Recv(t, o, blocking)
      PROVE  Good(k')
  BY <1>7, RecvGood DEF Recv, Current
<1>8. ASSUME NEW t \in Threads, NEW o \in Endpoints, NEW goOn \in BOOLEAN, ReplyRecv(t, o, goOn)
      PROVE  Good(k')
  <2> DEFINE z == handleReply(k, t, goOn)
  <2>1. k.ts[t] = "Running" /\ k' = handleRecv(z, t, o, TRUE)
    BY <1>8 DEF ReplyRecv, Current
  <2>2. Good(z) /\ z.ts[t] = "Running"
    BY <2>1, ReplyGood
  <2> HIDE DEF z
  <2> QED BY <2>1, <2>2, RecvGood
<1>9. ASSUME NEW t \in Threads, NEW o \in Endpoints, NEW b \in Badges, handleFault(t, o, b)
      PROVE  Good(k')
  <2> DEFINE z == [k EXCEPT !.fault[t] = TRUE]
             m == [badge |-> b, isCall |-> TRUE, canReply |-> TRUE]
  <2>1. k.ts[t] = "Running" /\ k' = sendIPC(z, t, o, TRUE, m)
    BY <1>9 DEF handleFault, Current
  <2>2. Good(z)
    BY FaultSet
  <2>3. z.ts[t] \in Free
    BY <2>1 DEF Good, States, Free
  <2>4. m \in Messages
    BY DEF Messages
  <2> HIDE DEF z, m
  <2> QED BY <2>1, <2>2, <2>3, <2>4, SentIPC
<1>10. ASSUME NEW t \in Threads, NEW o \in Endpoints, NEW b \in Badges, cancelBadgedSends(t, o, b)
       PROVE  Good(k')
  BY <1>10, BadgedGood
<1>11. ASSUME NEW t \in Threads, NEW o \in Endpoints, DeleteEndpoint(t, o) PROVE Good(k')
  BY <1>11, AllRestarted DEF DeleteEndpoint, Objects
<1>12. ASSUME NEW t \in Threads, NEW n \in Notifications, NEW blocking \in BOOLEAN,
              Wait(t, n, blocking)
       PROVE  Good(k')
  <2>1. k.ts[t] \in Free /\ k.tcb[n] \in {NULL, t} /\ k' = receiveSignal(k, t, n, blocking)
    BY <1>12 DEF Wait, Current, Free
  <2> QED BY <2>1, WaitGood
<1>13. ASSUME NEW t \in Threads, NEW n \in Notifications, DeleteNotification(t, n) PROVE Good(k')
  <2> DEFINE u == IF k.tcb[n] = NULL THEN k ELSE unbindNotification(k, k.tcb[n])
             z == cancelAll(u, n)
  <2>1. k' = [z EXCEPT !.st[n] = "Idle", !.bits[n] = {}]
    BY <1>13 DEF DeleteNotification
  <2>2. k.tcb[n] \in Threads \cup {NULL} /\ n \in Objects
    BY DEF Good, States, Objects
  <2>3. Good(u)
    BY <2>2, Unbound
  <2> HIDE DEF u
  <2>4. Good(z) /\ z.queue[n] = << >>
    BY <2>2, <2>3, AllRestarted
  <2> HIDE DEF z
  <2>5. Good([z EXCEPT !.st[n] = "Idle", !.bits[n] = {}])
    BY <2>4, Signalled
  <2> QED BY <2>1, <2>5, Zenon
<1>14. ASSUME NEW t \in Threads, NEW u \in Threads, NEW n \in Notifications, Bind(t, u, n)
       PROVE  Good(k')
  <2>1. /\ k.bound[u] = NULL /\ k.tcb[n] = NULL /\ k.queue[n] = << >>
        /\ k' = [k EXCEPT !.bound[u] = n, !.tcb[n] = u]
    BY <1>14 DEF Bind
  <2>2. Good([k EXCEPT !.bound[u] = n, !.tcb[n] = u])
    BY <2>1, BindGood
  <2> QED BY <2>1, <2>2, Zenon
<1>15. ASSUME NEW t \in Threads, NEW c \in Saved, SaveCaller(t, c) PROVE Good(k')
  <2>1. /\ k.cap[t] # NULL /\ k.cap[c] = NULL
        /\ k' = [k EXCEPT !.cap[c] = k.cap[t], !.cap[t] = NULL]
    BY <1>15 DEF SaveCaller
  <2>2. Good([k EXCEPT !.cap[c] = k.cap[t], !.cap[t] = NULL])
    BY <2>1, SaveGood
  <2> QED BY <2>1, <2>2, Zenon
<1>16. ASSUME NEW t \in Threads, NEW c \in Saved, DeleteReply(t, c) PROVE Good(k')
  BY <1>16, Dropped DEF DeleteReply, Slots
<1>17. ASSUME NEW t \in Threads, NEW c \in Saved, NEW goOn \in BOOLEAN, ReplyTo(t, c, goOn)
       PROVE  Good(k')
  BY <1>17, Answered DEF ReplyTo, Slots
<1>18. ASSUME NEW t \in Threads, NEW u \in Threads, Suspend(t, u) PROVE Good(k')
  BY <1>18, SuspendGood DEF Suspend
<1>19. ASSUME NEW t \in Threads, NEW u \in Threads, Resume(t, u) PROVE Good(k')
  BY <1>19, RestartGood DEF Resume
<1>20. ASSUME NEW t \in Threads, NEW u \in Threads, Unbind(t, u) PROVE Good(k')
  BY <1>20, Unbound DEF Unbind
<1>21. ASSUME NEW t \in Threads, NEW u \in Threads, DeleteThread(t, u) PROVE Good(k')
  <2> DEFINE z == suspend(unbindNotification(k, u), u)
             y == [z EXCEPT !.cap[u] = NULL]
  <2>1. k' = [deleteCallerCap(z, u) EXCEPT !.fault[u] = FALSE]
    BY <1>21 DEF DeleteThread
  <2>2. Good(unbindNotification(k, u))
    BY Unbound
  <2>3. Good(z)
    BY <2>2, SuspendGood
  <2> HIDE DEF z
  <2>4. Good(y)
    BY <2>3, Dropped DEF Slots
  <2>5. deleteCallerCap(z, u) = y
    BY DEF deleteCallerCap
  <2> HIDE DEF y
  <2>6. Good([y EXCEPT !.fault[u] = FALSE])
    BY <2>4, FaultSet
  <2> QED BY <2>1, <2>5, <2>6, Zenon
<1>22. CASE Next
  BY <1>22, <1>2, <1>3, <1>4, <1>5, <1>6, <1>7, <1>8, <1>9, <1>10, <1>11, <1>12, <1>13, <1>14,
     <1>15, <1>16, <1>17, <1>18, <1>19, <1>20, <1>21, Zenon DEF Next
<1> QED BY <1>1, <1>22

\* Every reachable state of the kernel is Good.
Inv == Good(k)

LEMMA AlwaysGood == Spec => []Inv
<1>1. Init => Inv
  BY InitGood DEF Inv
<1>2. Inv /\ [Next]_k => Inv'
  BY NextGood DEF Inv
<1> QED BY <1>1, <1>2, PTL DEF Spec

\* Threads, objects and capabilities keep their types.
THEOREM KernelTypes == Spec => []TypeOK
<1>1. Inv => TypeOK
  BY DEF Inv, Good, TypeOK
<1> QED BY <1>1, AlwaysGood, PTL

\* For any threads, endpoints and notifications, the queues of sendIPC, receiveIPC,
\* sendSignal and receiveSignal and the states of the threads in them agree.
THEOREM KernelQueues == Spec => []QueuesSound
<1>1. Inv => QueuesSound
  BY DEF Inv, Good, QueuesSound
<1> QED BY <1>1, AlwaysGood, PTL

\* For any threads and slots, a reply capability names one caller that waits for
\* it, so doReplyTransfer and setupCallerCap find what they assert.
THEOREM KernelReplies == Spec => []RepliesSound
<1>1. Inv => RepliesSound
  BY DEF Inv, Good, RepliesSound
<1> QED BY <1>1, AlwaysGood, PTL

\* For any threads and notifications, bound threads and notifications name each
\* other and no other thread is in the queue of a bound notification.
THEOREM KernelBindings == Spec => []BindingsSound
<1>1. Inv => BindingsSound
  BY DEF Inv, Good, BindingsSound
<1> QED BY <1>1, AlwaysGood, PTL

=============================================================================
