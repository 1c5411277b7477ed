------------------------------ MODULE KernelIPC ------------------------------
(***************************************************************************)
(* Endpoints, notifications and reply capabilities of the seL4 kernel the  *)
(* system runs on, in the configuration it is built with (one core, no     *)
(* MCS).  The kernel is entered by a running thread or by an interrupt     *)
(* and is not interrupted itself, so a kernel entry is one step: operators *)
(* named for the C functions take the kernel's state to the next one.      *)
(*                                                                         *)
(* Which of the runnable threads runs is left open.  A queue of threads is *)
(* a sequence here; the links that represent it are left out.  Rights      *)
(* of capabilities and contents of messages are left out, except for what  *)
(* decides whether a caller may be answered.                               *)
(***************************************************************************)
EXTENDS Integers, Sequences, FiniteSets

CONSTANTS Threads, Endpoints, Notifications, Badges,
    Saved,      \* slots of CNodes that a reply capability may be saved in
    NULL

ASSUME KernelAssumption ==
    /\ Threads \cap Saved = {} /\ Endpoints \cap Notifications = {}
    /\ NULL \notin Threads \cup Notifications /\ Badges # {}

VARIABLE k

Objects == Endpoints \cup Notifications
Slots == Threads \cup Saved     \* a thread stands for its tcbCaller slot
Messages == [badge : Badges, isCall : BOOLEAN, canReply : BOOLEAN]
NoMessage == CHOOSE m \in Messages : ~m.isCall /\ ~m.canReply

ThreadStates == {"Inactive", "Running", "Restart", "BlockedOnSend", "BlockedOnReceive",
                 "BlockedOnNotification", "BlockedOnReply"}

\* What a thread in the queue of an object in some state is blocked on.
Kind(state) ==
    CASE state = "Send"    -> "BlockedOnSend"
      [] state = "Recv"    -> "BlockedOnReceive"
      [] state = "Waiting" -> "BlockedOnNotification"
      [] OTHER             -> "none"

Elems(q) == {q[i] : i \in DOMAIN q}

-----------------------------------------------------------------------------

setThreadState(s, t, state) == [s EXCEPT !.ts[t] = state]

tcbEPAppend(q, t) == Append(q, t)

tcbEPDequeue(q, t) ==
    LET at == CHOOSE i \in DOMAIN q : q[i] = t
    IN  [i \in 1 .. Len(q) - 1 |-> IF i < at THEN q[i] ELSE q[i + 1]]

\* A thread blocks on an object, at the end of its queue.
Block(s, t, o, state, msg) ==
    [s EXCEPT !.ts[t] = Kind(state), !.obj[t] = o, !.info[t] = msg,
              !.queue[o] = tcbEPAppend(s.queue[o], t), !.st[o] = state]

\* A thread leaves the queue of an object, which is idle if it was the last.
\* What its state says of the message and the object is not read any more.
Leave_busy(s, t, o) ==
    [s EXCEPT !.queue[o] = tcbEPDequeue(s.queue[o], t), !.obj[t] = NULL, !.info[t] = NoMessage]

Leave(s, t, o) ==
    LET q == tcbEPDequeue(s.queue[o], t)
    IN  [s EXCEPT !.queue[o] = q, !.st[o] = IF q = << >> THEN "Idle" ELSE s.st[o],
                  !.obj[t] = NULL, !.info[t] = NoMessage]

setupCallerCap(s, sender, receiver) ==
    [s EXCEPT !.ts[sender] = "BlockedOnReply", !.cap[receiver] = sender]

deleteCallerCap(s, t) == [s EXCEPT !.cap[t] = NULL]

\* The sender's side of a transfer that has a receiver.
Sent(s, sender, receiver, msg) ==
    CASE ~msg.isCall                 -> setThreadState(s, sender, "Running")
      [] msg.isCall /\ msg.canReply  -> setupCallerCap(s, sender, receiver)
      [] msg.isCall /\ ~msg.canReply -> setThreadState(s, sender, "Inactive")

sendIPC(s, t, o, blocking, msg) ==
    IF s.st[o] = "Recv"
    THEN LET dest == Head(s.queue[o])
         IN  Sent(setThreadState(Leave(s, dest, o), dest, "Running"), t, dest, msg)
    ELSE IF blocking THEN Block(s, t, o, "Send", msg) ELSE s

completeSignal(s, n) == [s EXCEPT !.st[n] = "Idle", !.bits[n] = {}]

receiveIPC(s, t, o, blocking) ==
    IF s.bound[t] # NULL /\ s.st[s.bound[t]] = "Active" THEN completeSignal(s, s.bound[t])
    ELSE IF s.st[o] = "Send"
    THEN LET sender == Head(s.queue[o])
         IN  Sent(Leave(s, sender, o), sender, t, s.info[sender])
    ELSE IF blocking THEN Block(s, t, o, "Recv", NoMessage) ELSE s

\* cancelIPC, with cancelSignal.  The reply capability is found as the one
\* derived from the thread's master capability.
cancelIPC_reply(s, t) ==
    CASE s.ts[t] \in {"BlockedOnSend", "BlockedOnReceive", "BlockedOnNotification"} ->
            setThreadState(Leave(s, t, s.obj[t]), t, "Inactive")
      [] s.ts[t] = "BlockedOnReply" -> [s EXCEPT !.fault[t] = FALSE]
      [] OTHER -> s

cancelIPC(s, t) ==
    CASE s.ts[t] \in {"BlockedOnSend", "BlockedOnReceive", "BlockedOnNotification"} ->
            setThreadState(Leave(s, t, s.obj[t]), t, "Inactive")
      [] s.ts[t] = "BlockedOnReply" ->
            [s EXCEPT !.fault[t] = FALSE,
                      !.cap = [c \in Slots |-> IF s.cap[c] = t THEN NULL ELSE s.cap[c]]]
      [] OTHER -> s

suspend(s, t) == setThreadState(cancelIPC(s, t), t, "Inactive")

restart(s, t) ==
    IF s.ts[t] \in {"Running", "Restart"} THEN s ELSE setThreadState(cancelIPC(s, t), t, "Restart")

\* Some of the threads of a queue are restarted.
Restarted(s, set) ==
    [s EXCEPT !.ts   = [t \in Threads |-> IF t \in set THEN "Restart" ELSE s.ts[t]],
              !.obj  = [t \in Threads |-> IF t \in set THEN NULL ELSE s.obj[t]],
              !.info = [t \in Threads |-> IF t \in set THEN NoMessage ELSE s.info[t]]]

\* cancelAllIPC and cancelAllSignals: every thread of the queue is restarted.
cancelAll(s, o) ==
    IF s.queue[o] = << >> THEN s
    ELSE [Restarted(s, Elems(s.queue[o])) EXCEPT !.queue[o] = << >>, !.st[o] = "Idle"]

sendSignal(s, n, badge) ==
    CASE s.st[n] = "Idle" ->
            LET t == s.tcb[n]
            IN  IF t # NULL /\ s.ts[t] = "BlockedOnReceive"
                THEN setThreadState(cancelIPC(s, t), t, "Running")
                ELSE [s EXCEPT !.st[n] = "Active", !.bits[n] = {badge}]
      [] s.st[n] = "Waiting" ->
            LET dest == Head(s.queue[n]) IN setThreadState(Leave(s, dest, n), dest, "Running")
      [] s.st[n] = "Active" -> [s EXCEPT !.bits[n] = s.bits[n] \cup {badge}]

receiveSignal(s, t, n, blocking) ==
    IF s.st[n] = "Active" THEN completeSignal(s, n)
    ELSE IF blocking THEN Block(s, t, n, "Waiting", NoMessage) ELSE s

\* A caller is answered through the capability in a slot; the answer to a
\* fault says whether the thread goes on.
doReplyTransfer(s, receiver, slot, goOn) ==
    LET c == [s EXCEPT !.cap[slot] = NULL, !.fault[receiver] = FALSE]
    IN  setThreadState(c, receiver,
            IF ~s.fault[receiver] THEN "Running" ELSE IF goOn THEN "Restart" ELSE "Inactive")

handleReply(s, t, goOn) == IF s.cap[t] = NULL THEN s ELSE doReplyTransfer(s, s.cap[t], t, goOn)

handleRecv(s, t, o, blocking) == receiveIPC(deleteCallerCap(s, t), t, o, blocking)

unbindNotification(s, t) ==
    IF s.bound[t] = NULL THEN s
    ELSE [s EXCEPT !.tcb[s.bound[t]] = NULL, !.bound[t] = NULL]

-----------------------------------------------------------------------------
(***************************************************************************)
(* Kernel entries.                                                         *)
(***************************************************************************)
Current(t) == k.ts[t] = "Running"

activateThread(t) == k.ts[t] = "Restart" /\ k' = setThreadState(k, t, "Running")

\* Send, NBSend and Call on an endpoint; canReply is of no use to a send.
Send(t, o, blocking, msg) ==
    /\ Current(t) /\ (msg.isCall => blocking) /\ (msg.canReply => msg.isCall)
    /\ k' = sendIPC(k, t, o, blocking, msg)

\* Recv and NBRecv on an endpoint.
Recv(t, o, blocking) == Current(t) /\ k' = handleRecv(k, t, o, blocking)

Reply(t, goOn) == Current(t) /\ k' = handleReply(k, t, goOn)

ReplyRecv(t, o, goOn) == Current(t) /\ k' = handleRecv(handleReply(k, t, goOn), t, o, TRUE)

\* A system call or an interrupt signals a notification.
Signal(n, badge) == k' = sendSignal(k, n, badge)

\* Recv and NBRecv on a notification, refused if it is bound to another thread.
Wait_any(t, n, blocking) == Current(t) /\ k' = receiveSignal(k, t, n, blocking)

Wait(t, n, blocking) ==
    Current(t) /\ k.tcb[n] \in {NULL, t} /\ k' = receiveSignal(k, t, n, blocking)

\* A fault is sent to its handler as a call; without a handler the thread stops.
handleFault(t, o, badge) ==
    /\ Current(t)
    /\ k' = sendIPC([k EXCEPT !.fault[t] = TRUE], t, o, TRUE,
                    [badge |-> badge, isCall |-> TRUE, canReply |-> TRUE])

handleDoubleFault(t) == Current(t) /\ k' = setThreadState(k, t, "Inactive")

\* invokeCNodeSaveCaller
SaveCaller(t, slot) ==
    /\ Current(t) /\ k.cap[t] # NULL /\ k.cap[slot] = NULL
    /\ k' = [k EXCEPT !.cap[slot] = k.cap[t], !.cap[t] = NULL]

\* A saved capability is invoked, or deleted.
ReplyTo(t, slot, goOn) ==
    /\ Current(t) /\ k.cap[slot] # NULL
    /\ k' = doReplyTransfer(k, k.cap[slot], slot, goOn)

DeleteReply(t, slot) ==
    Current(t) /\ k.cap[slot] # NULL /\ k' = [k EXCEPT !.cap[slot] = NULL]

Suspend(t, target) == Current(t) /\ k' = suspend(k, target)

Resume(t, target) == Current(t) /\ k' = restart(k, target)

\* decodeBindNotification and decodeUnbindNotification.
Bind(t, target, n) ==
    /\ Current(t) /\ k.bound[target] = NULL /\ k.tcb[n] = NULL /\ k.queue[n] = << >>
    /\ k' = [k EXCEPT !.bound[target] = n, !.tcb[n] = target]

Unbind(t, target) == Current(t) /\ k.bound[target] # NULL /\ k' = unbindNotification(k, target)

\* finaliseCap of the last capability of an object.  An object made of the
\* same memory later begins as zeroes.
DeleteEndpoint(t, o) == Current(t) /\ k' = cancelAll(k, o)

DeleteNotification(t, n) ==
    /\ Current(t)
    /\ LET u == IF k.tcb[n] = NULL THEN k ELSE unbindNotification(k, k.tcb[n])
       IN  k' = [cancelAll(u, n) EXCEPT !.st[n] = "Idle", !.bits[n] = {}]

DeleteThread(t, target) ==
    /\ Current(t)
    /\ k' = [deleteCallerCap(suspend(unbindNotification(k, target), target), target)
                EXCEPT !.fault[target] = FALSE]

\* cancelBadgedSends: senders with the badge are restarted, the others stay
\* in the queue in their order.
cancelBadgedSends(t, o, badge) ==
    LET q    == k.queue[o]
        stay == {i \in DOMAIN q : k.info[q[i]].badge # badge}
    IN  /\ Current(t) /\ k.st[o] = "Send"
        /\ \E f \in [1 .. Cardinality(stay) -> stay] :
              /\ \A i, j \in DOMAIN f : i < j => f[i] < f[j]
              /\ k' = [Restarted(k, {q[i] : i \in DOMAIN q \ stay}) EXCEPT
                           !.queue[o] = [i \in DOMAIN f |-> q[f[i]]],
                           !.st[o] = IF stay = {} THEN "Idle" ELSE "Send"]

Init ==
    \E ts \in [Threads -> {"Inactive", "Running"}] :
        k = [ts    |-> ts,
             obj   |-> [t \in Threads |-> NULL],
             info  |-> [t \in Threads |-> NoMessage],
             fault |-> [t \in Threads |-> FALSE],
             bound |-> [t \in Threads |-> NULL],
             queue |-> [o \in Objects |-> << >>],
             st    |-> [o \in Objects |-> "Idle"],
             bits  |-> [n \in Notifications |-> {}],
             tcb   |-> [n \in Notifications |-> NULL],
             cap   |-> [c \in Slots |-> NULL]]

Next ==
    \/ \E n \in Notifications, b \in Badges : Signal(n, b)
    \/ \E t \in Threads :
          \/ activateThread(t) \/ handleDoubleFault(t)
          \/ \E goOn \in BOOLEAN : Reply(t, goOn)
          \/ \E o \in Endpoints :
                \/ \E blocking \in BOOLEAN, m \in Messages : Send(t, o, blocking, m)
                \/ \E blocking \in BOOLEAN : Recv(t, o, blocking)
                \/ \E goOn \in BOOLEAN : ReplyRecv(t, o, goOn)
                \/ \E b \in Badges : handleFault(t, o, b) \/ cancelBadgedSends(t, o, b)
                \/ DeleteEndpoint(t, o)
          \/ \E n \in Notifications :
                \/ \E blocking \in BOOLEAN : Wait(t, n, blocking)
                \/ DeleteNotification(t, n)
                \/ \E u \in Threads : Bind(t, u, n)
          \/ \E slot \in Saved :
                \/ SaveCaller(t, slot) \/ DeleteReply(t, slot)
                \/ \E goOn \in BOOLEAN : ReplyTo(t, slot, goOn)
          \/ \E u \in Threads : Suspend(t, u) \/ Resume(t, u) \/ Unbind(t, u) \/ DeleteThread(t, u)

Spec == Init /\ [][Next]_k

-----------------------------------------------------------------------------
(***************************************************************************)
(* Properties.                                                             *)
(***************************************************************************)

\* The states of the kernel.
States ==
    [ts    : [Threads -> ThreadStates],
     obj   : [Threads -> Objects \cup {NULL}],
     info  : [Threads -> Messages],
     fault : [Threads -> BOOLEAN],
     bound : [Threads -> Notifications \cup {NULL}],
     queue : [Objects -> Seq(Threads)],
     st    : [Objects -> {"Idle", "Send", "Recv", "Waiting", "Active"}],
     bits  : [Notifications -> SUBSET Badges],
     tcb   : [Notifications -> Threads \cup {NULL}],
     cap   : [Slots -> Threads \cup {NULL}]]

\* The type invariant: the fields of kernel objects keep their types.
TypeOK == k \in States

\* Queues and thread states of a kernel state agree.
Queued(s) ==
    /\ \A o \in Objects :
          /\ \A i, j \in DOMAIN s.queue[o] : s.queue[o][i] = s.queue[o][j] => i = j
          /\ \A t \in Elems(s.queue[o]) : s.ts[t] = Kind(s.st[o]) /\ s.obj[t] = o
          /\ (s.queue[o] = << >>) <=> s.st[o] \in {"Idle", "Active"}
    /\ \A e \in Endpoints : s.st[e] \in {"Idle", "Send", "Recv"}
    /\ \A n \in Notifications : s.st[n] \in {"Idle", "Waiting", "Active"}
    /\ \A t \in Threads :
          s.ts[t] \in {"BlockedOnSend", "BlockedOnReceive", "BlockedOnNotification"} =>
              s.obj[t] \in Objects /\ t \in Elems(s.queue[s.obj[t]])

\* Reply capabilities and the callers they name agree.
Replies(s) ==
    /\ \A c \in Slots : s.cap[c] # NULL => s.ts[s.cap[c]] = "BlockedOnReply"
    /\ \A c, d \in Slots : s.cap[c] # NULL /\ s.cap[c] = s.cap[d] => c = d
    /\ \A t \in Threads : s.ts[t] = "BlockedOnReceive" => s.cap[t] = NULL

\* Notifications and the threads they are bound to agree.
Bindings(s) ==
    /\ \A t \in Threads : s.bound[t] # NULL => s.tcb[s.bound[t]] = t
    /\ \A n \in Notifications :
          s.tcb[n] # NULL => s.bound[s.tcb[n]] = n /\ Elems(s.queue[n]) \subseteq {s.tcb[n]}

\* The queue of an object holds exactly the threads that are blocked on it, in
\* the way its state says, each once; it is empty just when the object is Idle
\* or Active.  With it the assertions of sendIPC, receiveIPC, cancelIPC,
\* sendSignal and cancelSignal ("queue must not be empty", "must not be idle",
\* "must be in a waiting state") hold, and no thread sleeps on an active
\* notification, whatever cancels, deletions and restarts come between.
QueuesSound == Queued(k)

\* A reply capability names a thread that waits for the reply, and it is the
\* only one to do so; a thread that is blocked in a receive has room for the
\* next one.  These are the assertions of doReplyTransfer ("BlockedOnReply"),
\* handleReply ("caller must not be the current thread") and setupCallerCap
\* ("Caller cap must not already exist"); no caller is answered twice.
RepliesSound == Replies(k)

\* A notification and the thread it is bound to name each other, and no other
\* thread waits for the notification, so a signal reaches the bound thread.
BindingsSound == Bindings(k)

=============================================================================
