------------------------------ MODULE Scheduler ------------------------------
(***************************************************************************)
(* The scheduler of the seL4 kernel the system runs on (one core, one      *)
(* domain, no MCS): ready queues, their two-level bitmap, the pending      *)
(* scheduler action and the switch at the end of a kernel entry, with the  *)
(* two fast paths that switch without it.  A kernel entry is one step.     *)
(*                                                                         *)
(* What makes a thread block or wake is KernelIPC's subject; here any      *)
(* blocked thread may be woken, and a thread is Blocked whatever it waits  *)
(* for.  A ready queue is a sequence; its links are left out.              *)
(***************************************************************************)
EXTENDS Integers, Sequences, FiniteSets, FiniteSetsExt

CONSTANTS Threads, Idle, Root,
    wordBits,           \* priorities in a word of the second bitmap
    L2_BITMAP_SIZE,     \* words of the second bitmap
    CONFIG_TIME_SLICE   \* ticks of a time slice

ASSUME SchedulerAssumption ==
    /\ IsFiniteSet(Threads) /\ Root \in Threads
    /\ {Idle, "ResumeCurrentThread", "ChooseNewThread"} \cap Threads = {}
    /\ wordBits \in Nat \ {0} /\ L2_BITMAP_SIZE \in Nat \ {0} /\ CONFIG_TIME_SLICE \in Nat \ {0}

VARIABLE k

Priorities == 0 .. wordBits * L2_BITMAP_SIZE - 1
seL4_MaxPrio == wordBits * L2_BITMAP_SIZE - 1
ResumeCurrentThread == "ResumeCurrentThread"
ChooseNewThread == "ChooseNewThread"

isRunnable(s, t) == t \in Threads /\ s.ts[t] \in {"Running", "Restart"}

\* clzl finds the highest bit of a word that is not zero.
HighestBit(word) == IF word = {} THEN 0 ELSE Max(word)

-----------------------------------------------------------------------------
(***************************************************************************)
(* Ready queues and their bitmap.                                          *)
(***************************************************************************)
prio_to_l1index(prio) == prio \div wordBits
invert_l1index(l1) == L2_BITMAP_SIZE - 1 - l1

addToBitmap(s, prio) ==
    LET l1 == prio_to_l1index(prio)
    IN  [s EXCEPT !.L1 = @ \cup {l1}, !.L2[invert_l1index(l1)] = @ \cup {prio % wordBits}]

removeFromBitmap(s, prio) ==
    LET l1   == prio_to_l1index(prio)
        word == s.L2[invert_l1index(l1)] \ {prio % wordBits}
    IN  [s EXCEPT !.L2[invert_l1index(l1)] = word, !.L1 = IF word = {} THEN @ \ {l1} ELSE @]

getHighestPrio(s) ==
    LET l1 == HighestBit(s.L1) IN wordBits * l1 + HighestBit(s.L2[invert_l1index(l1)])

isHighestPrio(s, prio) == s.L1 = {} \/ prio >= getHighestPrio(s)

\* tcbSchedEnqueue and tcbSchedAppend do nothing for a thread that is queued.
Enqueued(s, t, q) ==
    IF s.queued[t] THEN s
    ELSE LET b == IF s.ready[s.prio[t]] = << >> THEN addToBitmap(s, s.prio[t]) ELSE s
         IN  [b EXCEPT !.ready[s.prio[t]] = q, !.queued[t] = TRUE]

tcbSchedEnqueue(s, t) == Enqueued(s, t, << t >> \o s.ready[s.prio[t]])

tcbSchedAppend(s, t) == Enqueued(s, t, Append(s.ready[s.prio[t]], t))

Without(q, t) ==
    LET at == CHOOSE i \in DOMAIN q : q[i] = t
    IN  [i \in 1 .. Len(q) - 1 |-> IF i < at THEN q[i] ELSE q[i + 1]]

tcbSchedDequeue(s, t) ==
    IF ~s.queued[t] THEN s
    ELSE LET q == Without(s.ready[s.prio[t]], t)
             b == IF q = << >> THEN removeFromBitmap(s, s.prio[t]) ELSE s
         IN  [b EXCEPT !.ready[s.prio[t]] = q, !.queued[t] = FALSE]

-----------------------------------------------------------------------------
(***************************************************************************)
(* The pending action.                                                     *)
(***************************************************************************)
rescheduleRequired_drop(s) == [s EXCEPT !.action = ChooseNewThread]

rescheduleRequired(s) ==
    LET e == IF s.action \in Threads THEN tcbSchedEnqueue(s, s.action) ELSE s
    IN  [e EXCEPT !.action = ChooseNewThread]

\* setThreadState with scheduleTCB.
setThreadState(s, t, state) ==
    LET z == [s EXCEPT !.ts[t] = state]
    IN  IF t = s.cur /\ s.action = ResumeCurrentThread /\ ~isRunnable(z, t)
        THEN rescheduleRequired(z) ELSE z

possibleSwitchTo(s, t) ==
    IF s.action # ResumeCurrentThread THEN tcbSchedEnqueue(rescheduleRequired(s), t)
    ELSE [s EXCEPT !.action = t]

-----------------------------------------------------------------------------
(***************************************************************************)
(* The end of a kernel entry.  An assertion that fails is kept in failed.  *)
(***************************************************************************)
Assert_(s, holds) == [s EXCEPT !.failed = @ \/ ~holds]

switchToThread(s, t) == [tcbSchedDequeue(s, t) EXCEPT !.cur = t]

chooseThread(s) ==
    IF s.L1 = {} THEN [s EXCEPT !.cur = Idle]
    ELSE LET q == s.ready[getHighestPrio(s)]
         IN  IF q = << >> THEN Assert_(s, FALSE)
             ELSE switchToThread(Assert_(s, isRunnable(s, Head(q))), Head(q))

schedule(s) ==
    LET was_runnable == isRunnable(s, s.cur)
        z            == IF was_runnable THEN tcbSchedEnqueue(s, s.cur) ELSE s
        candidate    == s.action
        a            == Assert_(z, isRunnable(z, candidate))
        fastfail     == s.cur = Idle \/ s.prio[candidate] < s.prio[s.cur]
        next         ==
            CASE candidate = ResumeCurrentThread -> s
              [] candidate = ChooseNewThread     -> chooseThread(z)
              [] OTHER ->
                    IF fastfail /\ ~isHighestPrio(z, s.prio[candidate])
                    THEN chooseThread(tcbSchedEnqueue(a, candidate))
                    ELSE IF was_runnable /\ s.prio[candidate] = s.prio[s.cur]
                    THEN chooseThread(tcbSchedAppend(a, candidate))
                    ELSE switchToThread(Assert_(a, candidate # s.cur), candidate)
    IN  [next EXCEPT !.action = ResumeCurrentThread]

activateThread(s) ==
    IF s.cur = Idle THEN s
    ELSE [Assert_(s, isRunnable(s, s.cur)) EXCEPT !.ts[s.cur] = IF @ = "Restart" THEN "Running" ELSE @]

\* Every kernel entry but a fast path ends with these two.
Leave(s) == activateThread(schedule(s))

-----------------------------------------------------------------------------
(***************************************************************************)
(* What kernel entries do to threads.                                      *)
(***************************************************************************)
User == k.cur # Idle
Blocked == {t \in Threads : k.ts[t] = "Blocked"}

\* A message, a signal or a reply reaches a blocked thread.
Wake(s, t, state) == possibleSwitchTo(setThreadState(s, t, state), t)

\* The thread that entered the kernel blocks.
Block(s) == setThreadState(s, s.cur, "Blocked")

suspend(s, t) == tcbSchedDequeue(setThreadState(s, t, "Inactive"), t)

restart(s, t) ==
    IF isRunnable(s, t) THEN s
    ELSE possibleSwitchTo(tcbSchedEnqueue(setThreadState(s, t, "Restart"), t), t)

\* The threads of the deleted objects, one after the other.
suspendAll(s, d) ==
    LET after[n \in 0 .. Len(d)] == IF n = 0 THEN s ELSE suspend(after[n - 1], d[n])
    IN  after[Len(d)]

\* cancelAllIPC, cancelAllSignals and cancelBadgedSends, for the threads of q.
cancelled(s, t) == tcbSchedEnqueue(setThreadState(s, t, "Restart"), t)

cancelAll(s, q) ==
    LET after[n \in 0 .. Len(q)] == IF n = 0 THEN s ELSE cancelled(after[n - 1], q[n])
    IN  rescheduleRequired(after[Len(q)])

setPriority_queued(s, t, prio) ==
    LET z == [s EXCEPT !.prio[t] = prio]
    IN  CASE ~isRunnable(z, t) -> z
          [] isRunnable(z, t) /\ t = s.cur -> rescheduleRequired(z)
          [] isRunnable(z, t) /\ t # s.cur -> possibleSwitchTo(z, t)

setPriority(s, t, prio) ==
    LET z == [tcbSchedDequeue(s, t) EXCEPT !.prio[t] = prio]
    IN  CASE ~isRunnable(z, t) -> z
          [] isRunnable(z, t) /\ t = s.cur -> rescheduleRequired(z)
          [] isRunnable(z, t) /\ t # s.cur -> possibleSwitchTo(z, t)

timerTick(s) ==
    IF s.cur = Idle \/ s.ts[s.cur] # "Running" THEN s
    ELSE IF s.slice[s.cur] > 1 THEN [s EXCEPT !.slice[s.cur] = @ - 1]
    ELSE rescheduleRequired(tcbSchedAppend([s EXCEPT !.slice[s.cur] = CONFIG_TIME_SLICE], s.cur))

-----------------------------------------------------------------------------
(***************************************************************************)
(* Kernel entries.                                                         *)
(***************************************************************************)

\* Send to a waiting receiver, receive from a waiting sender, reply, signal;
\* the answer to a fault restarts or stops the thread.
Deliver(t, state) ==
    User /\ k' = Leave(IF state = "Inactive" THEN setThreadState(k, t, state) ELSE Wake(k, t, state))

\* Call or fault: the receiver wakes and the sender waits for its reply, or
\* stops if it may not have one.
Call(t, state) == User /\ k' = Leave(setThreadState(Wake(k, t, "Running"), k.cur, state))

\* Send, receive or wait with no partner; a fault without a handler.
Stop(state) == User /\ k' = Leave(setThreadState(k, k.cur, state))

\* The reply wakes a caller; the receive finds the sender u, or blocks (u = t).
ReplyRecv(t, state, u) ==
    LET r == IF state = "Inactive" THEN setThreadState(k, t, state) ELSE Wake(k, t, state)
    IN  User /\ k' = Leave(IF u = t THEN Block(r) ELSE Wake(r, u, "Running"))

\* fastpath_call: the receiver runs at once if the scheduler would choose it.
FastCall_any(t) ==
    User /\ k' = [k EXCEPT !.ts[k.cur] = "Blocked", !.ts[t] = "Running", !.cur = t]

FastCall(t) ==
    /\ User /\ (k.prio[t] >= k.prio[k.cur] \/ isHighestPrio(k, k.prio[t]))
    /\ k' = [k EXCEPT !.ts[k.cur] = "Blocked", !.ts[t] = "Running", !.cur = t]

\* fastpath_reply_recv: the caller runs at once, the server waits.
FastReplyRecv(t) ==
    /\ User /\ isHighestPrio(k, k.prio[t])
    /\ k' = [k EXCEPT !.ts[k.cur] = "Blocked", !.ts[t] = "Running", !.cur = t]

Suspend(t) == User /\ k' = Leave(suspend(k, t))

Resume(t) == User /\ k' = Leave(restart(k, t))

SetPriority(t, prio) == User /\ k' = Leave(setPriority(k, t, prio))

handleYield ==
    User /\ k' = Leave(rescheduleRequired(tcbSchedAppend(tcbSchedDequeue(k, k.cur), k.cur)))

\* Registers of the current thread are changed by itself.
WriteRegisters == User /\ k' = Leave(rescheduleRequired(k))

\* handleInterrupt: a signal, or a tick.
Signal(t) == k' = Leave(Wake(k, t, "Running"))

Tick == k' = Leave(timerTick(k))

\* Objects are deleted: an endpoint with the threads q in its queue, then the
\* threads d.  An interrupt may come before the entry is complete.
Delete(q, d, u) ==
    LET invoked == [k EXCEPT !.ts[k.cur] = "Restart"]
        deleted == suspendAll(IF q = << >> THEN invoked ELSE cancelAll(invoked, q), d)
        ended   == IF deleted.ts[k.cur] = "Restart" THEN setThreadState(deleted, k.cur, "Running")
                   ELSE deleted
    IN  /\ User
        /\ \/ k' = Leave(ended)
           \/ k' = Leave(timerTick(deleted))
           \/ deleted.ts[u] = "Blocked" /\ k' = Leave(Wake(deleted, u, "Running"))

\* create_initial_thread and init_core_state; the kernel then leaves for it.
Booted ==
    [ts     |-> [t \in Threads |-> IF t = Root THEN "Running" ELSE "Inactive"],
     prio   |-> [t \in Threads |-> IF t = Root THEN seL4_MaxPrio ELSE 0],
     slice  |-> [t \in Threads |-> CONFIG_TIME_SLICE],
     queued |-> [t \in Threads |-> FALSE],
     ready  |-> [p \in Priorities |-> << >>],
     L1     |-> {},
     L2     |-> [i \in 0 .. L2_BITMAP_SIZE - 1 |-> {}],
     cur    |-> Idle,
     action |-> Root,
     failed |-> FALSE]

Init == k = Leave(Booted)

\* The threads of a queue: some of a set, each once.
Orders(S) ==
    {q \in UNION {[1 .. n -> S] : n \in 0 .. Cardinality(S)} :
        \A i, j \in DOMAIN q : q[i] = q[j] => i = j}

Next ==
    \/ Tick \/ handleYield \/ WriteRegisters
    \/ Stop("Blocked") \/ Stop("Inactive")
    \/ \E t \in Blocked :
          \/ \E state \in {"Running", "Restart", "Inactive"} :
                Deliver(t, state) \/ \E u \in Blocked : ReplyRecv(t, state, u)
          \/ Call(t, "Blocked") \/ Call(t, "Inactive")
          \/ Signal(t) \/ FastCall(t) \/ FastReplyRecv(t)
    \/ \E t \in Threads :
          Suspend(t) \/ Resume(t) \/ \E prio \in Priorities : SetPriority(t, prio)
    \/ \E q \in Orders(Blocked), d \in Orders(Threads), u \in Threads : Delete(q, d, u)

Spec == Init /\ [][Next]_k

-----------------------------------------------------------------------------
(***************************************************************************)
(* Properties.                                                             *)
(***************************************************************************)

\* Outside the kernel the ready queues hold every runnable thread but the
\* current one, each once, in the queue of its priority; tcbQueued says which
\* they are, and the two bitmaps which queues are not empty.  A thread that is
\* runnable and in no queue would never run again (rescheduleRequired must not
\* drop the pending candidate), and setPriority must not leave one behind in
\* the queue of its old priority.
ReadyExact ==
    /\ \A t \in Threads, p \in Priorities :
          Cardinality({i \in DOMAIN k.ready[p] : k.ready[p][i] = t})
            = IF isRunnable(k, t) /\ t # k.cur /\ p = k.prio[t] THEN 1 ELSE 0
    /\ \A t \in Threads : k.queued[t] <=> isRunnable(k, t) /\ t # k.cur
    /\ k.L1 = {prio_to_l1index(p) : p \in {p \in Priorities : k.ready[p] # << >>}}
    /\ \A p \in Priorities :
          p % wordBits \in k.L2[invert_l1index(prio_to_l1index(p))] <=> k.ready[p] # << >>

\* The kernel leaves to a runnable thread no runnable thread has a higher
\* priority than, and to the idle thread only if none is runnable, on the fast
\* paths too.  The server relies on it: its threads exclude each other by
\* their priorities alone.
HighestRuns ==
    IF k.cur = Idle THEN \A t \in Threads : ~isRunnable(k, t)
    ELSE k.ts[k.cur] = "Running" /\ \A t \in Threads : isRunnable(k, t) => k.prio[t] <= k.prio[k.cur]

\* The assertions of schedule, chooseThread and activateThread hold: the
\* candidate of possibleSwitchTo can still run at the end of the entry, is not
\* the current thread, and the queue the bitmaps name has a runnable head.
AssertionsHold == ~k.failed

=============================================================================
