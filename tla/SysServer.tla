------------------------------ MODULE SysServer ------------------------------
(***************************************************************************)
(* The root server of seL4sys: the thread that receives system calls, the  *)
(* pool of worker threads it hands long calls to, the thread that serves   *)
(* page faults, and the user processes that call and fault.                *)
(*                                                                         *)
(* The server has no locks.  All of its threads share the file system, the *)
(* process table and the allocators, and the only thing that keeps them    *)
(* apart is the kernel's scheduler: one core, strict priorities, main at   *)
(* 255, the page-fault thread at 254, the workers at 253 and every user    *)
(* process at 1.  An action of a thread is therefore guarded by "no thread *)
(* of higher priority is runnable"; threads of equal priority interleave   *)
(* freely, because the kernel's time slice may end anywhere.               *)
(*                                                                         *)
(* A thread that blocks in the kernel is a thread whose action waits for   *)
(* its partner: seL4_Call and seL4_Recv meet on an endpoint, and so do     *)
(* seL4_Signal and seL4_Wait of a worker, whose "notification" is created  *)
(* as an endpoint (sys_worker.c:49).                                       *)
(*                                                                         *)
(* A thread of the server can end in two ways.  After a failed assertion   *)
(* it spins (abort is while (1), sys_exit.c:25): it stays runnable, and no *)
(* thread below its priority ever runs again.  A thread that reads or      *)
(* writes through a null pointer has no fault handler: the kernel stops    *)
(* it, and the others go on.                                               *)
(***************************************************************************)
EXTENDS Naturals, FiniteSets

CONSTANTS
    MAX_PROCESS_NUM,  \* slots of proc_table (process.c:10)
    MAX_WORKER_NUM,   \* slots of workers (sys_worker.c:7)
    MAX_TICKS,        \* bound: timer interrupts one sleep may wait for
    Calls,            \* the system calls the processes of an instance make
    BadCalls          \* whether some of them are calls a thread of the server does
                      \* not survive: a buffer on a page without a frame or across
                      \* two pages, an unknown number, a brk below the top of the
                      \* heap, a file call or a swap that fills the disk

AllCalls == {"inline", "ls", "execve", "kill", "exit",
             "sleep", "stdin", "stdout", "file"}

ASSUME ServerAssumption ==
    /\ MAX_PROCESS_NUM \in Nat \ {0}
    /\ MAX_WORKER_NUM \in Nat \ {0}
    /\ MAX_TICKS \in Nat
    /\ Calls \subseteq AllCalls
    /\ BadCalls \in BOOLEAN

Pids    == 0 .. MAX_PROCESS_NUM - 1
Workers == 0 .. MAX_WORKER_NUM - 1

\* seL4_CapNull: an empty capability slot.
None == MAX_PROCESS_NUM

\* Calls that handle_syscall gives to a worker; the others it serves itself.
WorkerCalls == {"sleep", "stdin", "stdout", "file"}

\* fn, data and, for a handler that waits, how many more interrupts it waits
\* for.  The call "null" stands for fn = NULL.
Jobs == [pid : Pids, call : WorkerCalls \cup {"null"}, ticks : 0 .. MAX_TICKS + 1]

\* The message of a system call.  target is the victim of a kill, ticks the
\* number of timer interrupts a sleep counts.
Messages == [pid : Pids, call : AllCalls, target : Pids, ticks : 0 .. MAX_TICKS]

VARIABLES
    proc,       \* proc[p]: what process p is doing, "free" if slot unused
    mpc,        \* program counter of the system call thread
    msg,        \* the message it is serving
    haveReply,  \* have_reply of handle_syscall_loop
    mcap,       \* its caller slot, or the slot SaveCaller moved the reply
                \* capability to: the process a reply would resume, or None
    mworker,    \* the worker sysworker_dispatch_thread has chosen
    busy,       \* workers[w].busy
    job,        \* workers[w].fn and data
    rcap,       \* the reply capability saved for the job of w, or None
    wpc,        \* program counter of worker w
    vpc,        \* program counter of the page-fault thread
    vcap,       \* its caller slot
    resume      \* resume of handle_vmfault_loop

mainVars   == <<mpc, msg, haveReply, mcap, mworker>>
workerVars == <<busy, job, rcap, wpc>>
faultVars  == <<vpc, vcap, resume>>
vars       == <<proc, mainVars, workerVars, faultVars>>

NoJob     == [pid |-> 0, call |-> "null", ticks |-> 0]
NoMessage == [pid |-> 0, call |-> "inline", target |-> 0, ticks |-> 0]

(***************************************************************************)
(* Process states: "run", "send" (seL4_Call waits for a receiver), "reply" *)
(* (call received, waits for the answer), "fault" and "freply" (the same   *)
(* for a fault message).  A thread of the server is in "abort" after a     *)
(* failed assertion and "dead" when the kernel has stopped it.             *)
(***************************************************************************)
ProcStates   == {"free", "run", "send", "reply", "fault", "freply"}
MainStates   == {"recv", "handle", "fs", "dispatch", "signal", "loop", "abort", "dead"}
WorkerStates == {"idle", "wait", "begin", "block", "run", "fs", "done", "abort", "dead"}
FaultStates  == {"recv", "handle", "fs", "loop", "abort", "dead"}

TypeOK ==
    /\ proc \in [Pids -> ProcStates]
    /\ mpc \in MainStates
    /\ msg \in Messages
    /\ haveReply \in BOOLEAN
    /\ mcap \in Pids \cup {None}
    /\ mworker \in Workers
    /\ busy \in [Workers -> BOOLEAN]
    /\ job \in [Workers -> Jobs]
    /\ rcap \in [Workers -> Pids \cup {None}]
    /\ wpc \in [Workers -> WorkerStates]
    /\ vpc \in FaultStates
    /\ vcap \in Pids \cup {None}
    /\ resume \in BOOLEAN

(***************************************************************************)
(* main, after load_shell: the shell is process 0, the workers have been   *)
(* started but not scheduled yet, main is about to enter its loop.         *)
(***************************************************************************)
Init ==
    /\ proc = [p \in Pids |-> IF p = 0 THEN "run" ELSE "free"]
    /\ mpc = "loop" /\ msg = NoMessage /\ haveReply = FALSE
    /\ mcap = None /\ mworker = 0
    /\ busy = [w \in Workers |-> FALSE]
    /\ job = [w \in Workers |-> NoJob]
    /\ rcap = [w \in Workers |-> None]
    /\ wpc = [w \in Workers |-> "idle"]
    /\ vpc = "recv" /\ vcap = None /\ resume = FALSE

-----------------------------------------------------------------------------
(***************************************************************************)
(* The scheduler: who may take the next step.                              *)
(***************************************************************************)
MainRunnable ==
    CASE mpc = "recv"   -> \E p \in Pids : proc[p] = "send"
      [] mpc = "signal" -> wpc[mworker] = "wait"
      [] mpc = "dead"   -> FALSE
      [] OTHER          -> TRUE

FaultRunnable ==
    \/ vpc \notin {"recv", "dead"}
    \/ vpc = "recv" /\ \E p \in Pids : proc[p] = "fault"

WorkerRunnable(w) == wpc[w] \notin {"wait", "block", "dead"}

FaultMayRun     == FaultRunnable /\ ~MainRunnable
WorkerMayRun_above(w) == WorkerRunnable(w) /\ ~FaultRunnable
WorkerMayRun(w) == WorkerRunnable(w) /\ ~MainRunnable /\ ~FaultRunnable
UserMayRun_flat(p) == proc[p] = "run"
UserMayRun(p)   == /\ proc[p] = "run"
                   /\ ~MainRunnable /\ ~FaultRunnable
                   /\ \A w \in Workers : ~WorkerRunnable(w)

-----------------------------------------------------------------------------
(***************************************************************************)
(* User processes.                                                         *)
(***************************************************************************)
\* syscall_ipc_normal, syscall_ipc_execve: seL4_Call on the server endpoint.
UserCall(p) ==
    /\ UserMayRun(p)
    /\ proc' = [proc EXCEPT ![p] = "send"]
    /\ UNCHANGED <<mainVars, workerVars, faultVars>>

\* A page fault or an exception: the kernel calls the fault endpoint.
UserFault(p) ==
    /\ UserMayRun(p)
    /\ proc' = [proc EXCEPT ![p] = "fault"]
    /\ UNCHANGED <<mainVars, workerVars, faultVars>>

(***************************************************************************)
(* syscall_kill for a slot in use.  Destroying the process deletes its     *)
(* thread, and with it, wherever it was kept, the reply capability that    *)
(* would resume it.  The slot is zeroed, hence free.  A worker that serves *)
(* the process is not told: it keeps a pointer to the slot.                *)
(***************************************************************************)
Destroy_keep(p) ==
    /\ proc' = [proc EXCEPT ![p] = "free"]
    /\ mcap' = IF mcap = p THEN None ELSE mcap
    /\ vcap' = IF vcap = p THEN None ELSE vcap
    /\ UNCHANGED rcap

Destroy(p) ==
    /\ proc' = [proc EXCEPT ![p] = "free"]
    /\ mcap' = IF mcap = p THEN None ELSE mcap
    /\ rcap' = [w \in Workers |-> IF rcap[w] = p THEN None ELSE rcap[w]]
    /\ vcap' = IF vcap = p THEN None ELSE vcap

-----------------------------------------------------------------------------
(***************************************************************************)
(* The system call thread.                                                 *)
(***************************************************************************)
\* seL4_Recv returns with the call of p.  What the message asks for was
\* chosen by p; nobody could tell before now.
MainReceive(p) ==
    /\ mpc = "recv" /\ proc[p] = "send"
    /\ proc' = [proc EXCEPT ![p] = "reply"]
    /\ \E c \in Calls, t \in Pids, n \in 0 .. MAX_TICKS :
          /\ c # "kill" => t = p
          /\ c # "sleep" => n = 0
          /\ msg' = [pid |-> p, call |-> c, target |-> t, ticks |-> n]
    /\ mpc' = "handle" /\ mcap' = p
    /\ UNCHANGED <<haveReply, mworker, workerVars, faultVars>>

\* The end of a call that main serves: an answer, or, for a bad call, a failed
\* assertion (an unknown number, brk, ls of a path that is not there) or a write
\* through a null mapping.
Finish ==
    \/ mpc' = "loop" /\ haveReply' = TRUE
    \/ BadCalls /\ mpc' \in {"abort", "dead"} /\ UNCHANGED haveReply

\* handle_syscall, the calls answered from the process table alone.
HandleInline ==
    /\ mpc = "handle" /\ msg.call = "inline" /\ Finish
    /\ UNCHANGED <<proc, msg, mcap, mworker, workerVars, faultVars>>

\* SYSCALL_KILL and SYSCALL_EXIT.  A slot not in use, or another signal than
\* 9 and 15, is answered with -1.
HandleKill ==
    /\ mpc = "handle" /\ msg.call \in {"kill", "exit"}
    /\ \/ proc[msg.target] # "free" /\ Destroy(msg.target)
       \/ msg.call = "kill" /\ UNCHANGED <<proc, mcap, rcap, vcap>>
    /\ mpc' = "loop" /\ haveReply' = TRUE
    /\ UNCHANGED <<msg, mworker, busy, job, wpc, vpc, resume>>

\* SYSCALL_LS and SYSCALL_EXECVE read the disk in this thread.
HandleEnterFs ==
    /\ mpc = "handle" /\ msg.call \in {"ls", "execve"}
    /\ mpc' = "fs"
    /\ UNCHANGED <<proc, msg, haveReply, mcap, mworker, workerVars, faultVars>>

HandleLs ==
    /\ mpc = "fs" /\ msg.call = "ls" /\ Finish
    /\ UNCHANGED <<proc, msg, mcap, mworker, workerVars, faultVars>>

\* alloc_pid: the lowest slot not in use.
FreePids == {p \in Pids : proc[p] = "free"}

\* syscall_execve once the file is read.  The new process starts beside its
\* parent.  Without a free slot, or with a file that is no ELF image, an
\* assertion fails; a path without a frame is read through a null mapping.
HandleExecve ==
    /\ mpc = "fs" /\ msg.call = "execve"
    /\ \/ \E p \in FreePids :
             /\ \A q \in FreePids : p <= q
             /\ proc' = [proc EXCEPT ![p] = "run"]
             /\ mpc' = "loop" /\ haveReply' = TRUE
       \/ mpc' = "abort" /\ UNCHANGED <<proc, haveReply>>
       \/ BadCalls /\ mpc' = "dead" /\ UNCHANGED <<proc, haveReply>>
    /\ UNCHANGED <<msg, mcap, mworker, workerVars, faultVars>>

\* The calls for a worker: save the reply capability, build the job.
HandleForWorker ==
    /\ mpc = "handle" /\ msg.call \in WorkerCalls
    /\ mpc' = "dispatch"
    /\ UNCHANGED <<proc, msg, haveReply, mcap, mworker, workerVars, faultVars>>

IdleWorkers == {w \in Workers : ~busy[w]}

\* sysworker_dispatch_thread, the loop: no worker is idle, look again.
DispatchSpin ==
    /\ mpc = "dispatch" /\ IdleWorkers = {}
    /\ UNCHANGED vars

\* sysworker_dispatch_thread: the first idle worker gets the job.
Dispatch ==
    /\ mpc = "dispatch"
    /\ \E w \in IdleWorkers :
          /\ \A v \in IdleWorkers : w <= v
          /\ mworker' = w
          /\ busy' = [busy EXCEPT ![w] = TRUE]
          /\ job' = [job EXCEPT ![w] = [pid   |-> msg.pid, call |-> msg.call,
                                       ticks |-> IF msg.call = "stdin" THEN 1
                                                 ELSE msg.ticks]]
          /\ rcap' = [rcap EXCEPT ![w] = mcap]
    /\ mpc' = "signal" /\ mcap' = None
    /\ UNCHANGED <<proc, msg, haveReply, wpc, faultVars>>

\* seL4_Signal meets the seL4_Wait of the chosen worker.
Signal ==
    /\ mpc = "signal" /\ wpc[mworker] = "wait"
    /\ wpc' = [wpc EXCEPT ![mworker] = "begin"]
    /\ mpc' = "loop" /\ haveReply' = FALSE /\ mworker' = 0
    /\ UNCHANGED <<proc, msg, mcap, busy, job, rcap, faultVars>>

\* handle_syscall_loop: seL4_ReplyRecv resumes the caller if it still exists,
\* seL4_Recv does not.  Either leaves the caller slot empty; the message
\* registers and the locals of the handler are dead.
MainLoop_silent ==
    /\ mpc = "loop"
    /\ mpc' = "recv" /\ mcap' = None /\ msg' = NoMessage
    /\ UNCHANGED <<proc, haveReply, mworker, workerVars, faultVars>>

MainLoop ==
    /\ mpc = "loop"
    /\ proc' = IF haveReply /\ mcap # None
               THEN [proc EXCEPT ![mcap] = "run"] ELSE proc
    /\ mpc' = "recv" /\ mcap' = None /\ msg' = NoMessage
    /\ UNCHANGED <<haveReply, mworker, workerVars, faultVars>>

Main == \/ \E p \in Pids : MainReceive(p)
        \/ HandleInline \/ HandleKill
        \/ HandleEnterFs \/ HandleLs \/ HandleExecve
        \/ HandleForWorker \/ Dispatch \/ Signal
        \/ MainLoop

-----------------------------------------------------------------------------
(***************************************************************************)
(* The workers: sysworker_loop and the handler it calls.                   *)
(***************************************************************************)
\* fn(data) starts: a file handler enters the file system, a sleep or a read
\* of the keyboard waits for its notification, the rest just runs.
WorkerBegin(w) ==
    /\ WorkerMayRun(w) /\ wpc[w] = "begin"
    /\ job[w].call # "null"
    /\ wpc' = [wpc EXCEPT ![w] = IF job[w].call = "file" THEN "fs"
                                ELSE IF job[w].ticks > 0 THEN "block"
                                ELSE "run"]
    /\ UNCHANGED <<proc, mainVars, busy, job, rcap, faultVars>>

\* An interrupt signals the notification the handler waits for: the timer
\* for a sleep, the Enter key for a read.  Interrupts obey no priority.
Interrupt_any(w) ==
    /\ wpc[w] \in {"block", "run"}
    /\ wpc' = [wpc EXCEPT ![w] = "run"]
    /\ job' = [job EXCEPT ![w].ticks = @ - 1]
    /\ UNCHANGED <<proc, mainVars, busy, rcap, faultVars>>

Interrupt(w) ==
    /\ wpc[w] = "block"
    /\ wpc' = [wpc EXCEPT ![w] = "run"]
    /\ job' = [job EXCEPT ![w].ticks = @ - 1]
    /\ UNCHANGED <<proc, mainVars, busy, rcap, faultVars>>

\* timer_sleep, the loop: count < milisec.
WorkerWaitAgain(w) ==
    /\ WorkerMayRun(w) /\ wpc[w] = "run" /\ job[w].ticks > 0
    /\ wpc' = [wpc EXCEPT ![w] = "block"]
    /\ UNCHANGED <<proc, mainVars, busy, job, rcap, faultVars>>

WorkerLeaveFs(w) ==
    /\ WorkerMayRun(w) /\ wpc[w] = "fs"
    /\ wpc' = [wpc EXCEPT ![w] = "run"]
    /\ UNCHANGED <<proc, mainVars, busy, job, rcap, faultVars>>

\* readstdin_handler maps the caller's page through its PCB pointer, whose
\* process may have been killed during the wait.  The slot is then zeroed, or
\* belongs to another process, which may have no frame at that address.
PcbGone(w)  == job[w].call = "stdin" /\ proc[job[w].pid] = "free"
PcbStale(w) == job[w].call = "stdin" /\ rcap[w] = None

\* The handler's seL4_NBSend: no effect if the capability is gone.
WorkerReply(w) ==
    /\ WorkerMayRun(w) /\ wpc[w] = "run" /\ job[w].ticks = 0
    /\ ~PcbGone(w)
    /\ proc' = IF rcap[w] = None THEN proc
               ELSE [proc EXCEPT ![rcap[w]] = "run"]
    /\ rcap' = [rcap EXCEPT ![w] = None]
    /\ wpc' = [wpc EXCEPT ![w] = "done"]
    /\ UNCHANGED <<mainVars, busy, job, faultVars>>

\* A handler that uses a buffer of its caller, at that point.
AtBuffer(w) == \/ wpc[w] = "run" /\ job[w].ticks = 0 /\ job[w].call \in {"stdin", "stdout"}
               \/ wpc[w] = "fs"

\* setup_projection_space on a stale PCB, or of a buffer without a frame,
\* yields no mapping: the thread faults, has no fault handler and stops.
WorkerCrash(w) ==
    /\ WorkerMayRun(w) /\ AtBuffer(w)
    /\ BadCalls \/ PcbStale(w)
    /\ wpc' = [wpc EXCEPT ![w] = "dead"]
    /\ UNCHANGED <<proc, mainVars, busy, job, rcap, faultVars>>

\* A buffer across two pages, a full disk: an assertion of the handler fails.
WorkerAbort(w) ==
    /\ WorkerMayRun(w) /\ AtBuffer(w) /\ BadCalls
    /\ wpc' = [wpc EXCEPT ![w] = "abort"]
    /\ UNCHANGED <<proc, mainVars, busy, job, rcap, faultVars>>

\* The handler has freed its data and returned: busy = 0.  fn stays.
WorkerDone_busy(w) ==
    /\ WorkerMayRun(w) /\ wpc[w] = "done"
    /\ wpc' = [wpc EXCEPT ![w] = "idle"]
    /\ UNCHANGED <<proc, mainVars, busy, job, rcap, faultVars>>

WorkerDone(w) ==
    /\ WorkerMayRun(w) /\ wpc[w] = "done"
    /\ wpc' = [wpc EXCEPT ![w] = "idle"]
    /\ busy' = [busy EXCEPT ![w] = FALSE]
    /\ job' = [job EXCEPT ![w].pid = 0]
    /\ UNCHANGED <<proc, mainVars, rcap, faultVars>>

WorkerWait_again(w) ==
    /\ WorkerMayRun(w) /\ wpc[w] = "idle"
    /\ wpc' = [wpc EXCEPT ![w] = "begin"]
    /\ UNCHANGED <<proc, mainVars, busy, job, rcap, faultVars>>

WorkerWait(w) ==
    /\ WorkerMayRun(w) /\ wpc[w] = "idle"
    /\ wpc' = [wpc EXCEPT ![w] = "wait"]
    /\ UNCHANGED <<proc, mainVars, busy, job, rcap, faultVars>>

Worker(w) == \/ WorkerBegin(w) \/ WorkerWaitAgain(w) \/ WorkerLeaveFs(w)
             \/ WorkerReply(w) \/ WorkerCrash(w) \/ WorkerAbort(w)
             \/ WorkerDone(w) \/ WorkerWait(w)

-----------------------------------------------------------------------------
(***************************************************************************)
(* The page-fault thread: handle_vmfault_loop and handle_vmfault.          *)
(***************************************************************************)
FaultReceive(p) ==
    /\ FaultMayRun /\ vpc = "recv" /\ proc[p] = "fault"
    /\ proc' = [proc EXCEPT ![p] = "freply"]
    /\ vpc' = "handle" /\ vcap' = p
    /\ UNCHANGED <<mainVars, workerVars, resume>>

\* A stack or heap page and a frame within the limit.
FaultAlloc ==
    /\ FaultMayRun /\ vpc = "handle"
    /\ vpc' = "loop" /\ resume' = TRUE
    /\ UNCHANGED <<proc, mainVars, workerVars, vcap>>

\* The process has all its frames: page_replace uses the swap files.
FaultEnterFs ==
    /\ FaultMayRun /\ vpc = "handle"
    /\ vpc' = "fs"
    /\ UNCHANGED <<proc, mainVars, workerVars, vcap, resume>>

FaultReplaced ==
    /\ FaultMayRun /\ vpc = "fs"
    /\ vpc' = "loop" /\ resume' = TRUE
    /\ UNCHANGED <<proc, mainVars, workerVars, vcap>>

\* No page there: a process that returned to address 0 has ended, any other
\* is left blocked.
FaultNoPage ==
    /\ FaultMayRun /\ vpc = "handle"
    /\ \/ Destroy(vcap)
       \/ UNCHANGED <<proc, mcap, rcap, vcap>>
    /\ vpc' = "loop" /\ resume' = FALSE
    /\ UNCHANGED <<mpc, msg, haveReply, mworker, busy, job, wpc>>

\* Not a VM fault: resume keeps the value the previous fault left.
FaultOther ==
    /\ FaultMayRun /\ vpc = "handle"
    /\ vpc' = "loop"
    /\ UNCHANGED <<proc, mainVars, workerVars, vcap, resume>>

\* expand_stack of a page that was swapped out: alloc_frame or page_replace
\* reads through a null reservation (see Paging).
FaultCrash ==
    /\ FaultMayRun /\ vpc \in {"handle", "fs"}
    /\ vpc' = "dead"
    /\ UNCHANGED <<proc, mainVars, workerVars, vcap, resume>>

\* A swap file that does not fit the disk, or comes back short.
FaultAbort ==
    /\ FaultMayRun /\ vpc = "fs" /\ BadCalls
    /\ vpc' = "abort"
    /\ UNCHANGED <<proc, mainVars, workerVars, vcap, resume>>

FaultLoop ==
    /\ FaultMayRun /\ vpc = "loop"
    /\ proc' = IF resume /\ vcap # None
               THEN [proc EXCEPT ![vcap] = "run"] ELSE proc
    /\ vpc' = "recv" /\ vcap' = None
    /\ UNCHANGED <<mainVars, workerVars, resume>>

Fault == \/ \E p \in Pids : FaultReceive(p)
         \/ FaultAlloc \/ FaultEnterFs \/ FaultReplaced
         \/ FaultNoPage \/ FaultOther \/ FaultCrash \/ FaultAbort
         \/ FaultLoop

-----------------------------------------------------------------------------
\* while (1) in abort: the thread uses the time that threads below it would have.
AbortSpin ==
    /\ \/ mpc = "abort"
       \/ vpc = "abort" /\ FaultMayRun
       \/ \E w \in Workers : wpc[w] = "abort" /\ WorkerMayRun(w)
    /\ UNCHANGED vars

Next ==
    \/ \E p \in Pids : UserCall(p) \/ UserFault(p)
    \/ Main \/ DispatchSpin \/ AbortSpin
    \/ Fault
    \/ \E w \in Workers : Worker(w) \/ Interrupt(w)

Spec == Init /\ [][Next]_vars

(***************************************************************************)
(* Fairness: the kernel runs a runnable thread of the highest priority and *)
(* rotates threads of equal priority, and the timer keeps interrupting, so *)
(* a sleeping handler is woken.  Nothing obliges a user to press Enter or  *)
(* a process to make progress.                                             *)
(***************************************************************************)
Fairness ==
    /\ WF_vars(Main)
    /\ WF_vars(Fault)
    /\ \A w \in Workers :
          /\ WF_vars(Worker(w))
          /\ WF_vars(job[w].call = "sleep" /\ Interrupt(w))

FairSpec == Spec /\ Fairness

-----------------------------------------------------------------------------
(***************************************************************************)
(* Safety.                                                                 *)
(***************************************************************************)
\* The file system, which has no lock, is never entered by two threads at
\* once: not by main (ls, execve), the page-fault thread (swap) and a worker
\* (open, read, write, unlink, lseek) in any combination.
FsExclusive ==
    /\ mpc = "fs" => vpc # "fs" /\ \A w \in Workers : wpc[w] # "fs"
    /\ vpc = "fs" => \A w \in Workers : wpc[w] # "fs"
    /\ \A v, w \in Workers : wpc[v] = "fs" /\ wpc[w] = "fs" => v = w

\* While a system call is being served by main, no other thread of the server
\* is in the middle of its work: the page-fault thread is waiting, and a worker
\* waits for a job or stands at the wait inside its handler, or the kernel has
\* stopped it.  So nothing changes the unlocked process table and allocators
\* under main.
CallsAtomic ==
    mpc \in {"handle", "fs", "dispatch", "signal"} =>
        /\ vpc \in {"recv", "dead"}
        /\ \A w \in Workers :
              \/ wpc[w] \in {"wait", "block", "dead"}
              \/ wpc[w] = "run" /\ job[w].call \in {"sleep", "stdin"}

\* A process blocked in a call can be resumed by exactly one holder of its
\* reply capability (main or one worker), and no capability outlives the
\* call: no answer is lost, none is given twice, whatever kills intervene.
ReplyHeldOnce ==
    \A p \in Pids :
        /\ proc[p] = "reply" <=> mcap = p \/ \E w \in Workers : rcap[w] = p
        /\ mcap = p => \A w \in Workers : rcap[w] # p
        /\ \A v, w \in Workers : rcap[v] = p /\ rcap[w] = p => v = w

\* A worker inside the handler of its job, before the answer.
Serving == {"begin", "block", "run", "fs"}

\* A signalled worker has a handler to call (the assertion of sysworker_loop),
\* and the handler works for a process that is still there and still waits for
\* it.  Only a sleep or a read of the keyboard can lose its caller, to a kill
\* during the wait.  Nobody then holds a reply capability, so whoever has the
\* slot next is not answered in its place (though the line read goes to its
\* page).  The PCB and FCB pointers of a file call or of a write to the screen
\* are never stale.
JobHasCaller ==
    \A w \in Workers : wpc[w] \in Serving =>
        /\ job[w].call # "null"
        /\ \/ rcap[w] = job[w].pid /\ proc[job[w].pid] = "reply"
           \/ rcap[w] = None /\ job[w].call \in {"sleep", "stdin"}

\* Main searches for an idle worker in vain.
Spinning == mpc = "dispatch" /\ IdleWorkers = {}

\* The search for an idle worker fails only when every worker is taken: by a
\* handler that waits for the clock or the keyboard, with or without a caller,
\* or for ever.  No worker is on its way back from a call it has answered, and
\* file calls and output never use up the pool, although processes outnumber
\* workers.
NoSpin ==
    Spinning => \A w \in Workers :
        \/ wpc[w] = "dead"
        \/ wpc[w] \in {"block", "run"} /\ job[w].call \in {"sleep", "stdin"}

\* What the search costs: main searches at a priority at which no worker can run
\* and become idle, so a search that fails once never ends, even if the key or
\* the tick that a handler waits for comes.
SpinIsFinal == [][Spinning => Spinning']_vars

(***************************************************************************)
(* Liveness.                                                               *)
(***************************************************************************)
Reading(p) == \E w \in Workers : /\ job[w].pid = p /\ job[w].call = "stdin"
                                 /\ wpc[w] = "block"

\* Main has taken the processor for good: the pool was used up, or an execve
\* found no slot or no program.
Hung == Spinning \/ mpc = "abort"

\* Every call is answered, unless the process ended by it or was killed, waits
\* for the keyboard, or main hangs.  With 8 workers for 16 processes it can:
\* when eight handlers wait, the next read, write, sleep, open, unlink or lseek
\* hangs main, and nobody is answered any more.  (Only without bad calls.)
Answered == \A p \in Pids :
    proc[p] = "send" ~> proc[p] \in {"run", "free"} \/ Reading(p) \/ Hung

\* A worker that was given a job or woken gets back to a wait, unless main
\* hangs: the pool shrinks only by the workers that read the keyboard for a
\* process that was killed.  (Only without bad calls.)
WorkerReturns == \A w \in Workers :
    WorkerRunnable(w) ~> \/ wpc[w] \in {"wait", "block"} \/ Hung
                         \/ wpc[w] = "dead" /\ PcbStale(w)

-----------------------------------------------------------------------------
(***************************************************************************)
(* Why the safety properties hold: an inductive invariant.                 *)
(***************************************************************************)
\* Main has work, or a message is waiting for it.
MainBusy ==
    \/ mpc \notin {"recv", "dead"}
    \/ mpc = "recv" /\ \E p \in Pids : proc[p] = "send"

\* Worker w stands at a blocking point.
AtWait(w) ==
    \/ wpc[w] \in {"wait", "block", "dead"}
    \/ wpc[w] = "run" /\ job[w].call \in {"sleep", "stdin"}

\* Once main has work, every other thread of the server is at a blocking
\* point, for the process that gave main its work could run.  The exceptions
\* are the worker main has just signalled and the workers before their first
\* wait, at start-up.
MainAlone ==
    /\ MainBusy => ~FaultRunnable
    /\ MainBusy => \A w \in Workers :
          AtWait(w) \/ (mpc = "loop" /\ wpc[w] \in {"begin", "idle"})

\* The same for the page-fault thread.
FaultAlone == FaultRunnable => \A w \in Workers : AtWait(w)

\* At most one worker is on its way into the file system or inside it.
OneFileWorker ==
    \A v, w \in Workers :
        wpc[v] \in {"begin", "fs"} /\ wpc[w] \in {"begin", "fs"} => v = w

\* Calls are served one at a time: no second one is ever queued.
OneSender ==
    /\ mpc \notin {"recv", "dead"} => \A p \in Pids : proc[p] # "send"
    /\ mpc = "recv" => \A p, q \in Pids : proc[p] = "send" /\ proc[q] = "send" => p = q

\* Where main's capability is, by program counter.
MainCap ==
    /\ mpc \in {"handle", "fs", "dispatch"} => mcap = msg.pid
    /\ mpc \in {"recv", "signal"} => mcap = None
    /\ mpc = "loop" /\ ~haveReply => mcap = None

FaultCap ==
    /\ vpc = "recv" => vcap = None
    /\ vpc \in {"handle", "fs"} => vcap # None
    /\ vcap # None => proc[vcap] = "freply"

Signalling(w) == mpc = "signal" /\ w = mworker

\* busy is set exactly while a worker has a job.
BusyAccurate ==
    \A w \in Workers :
        /\ busy[w] <=> wpc[w] \notin {"wait", "idle"} \/ Signalling(w)
        /\ Signalling(w) => wpc[w] = "wait"

\* A saved capability is that of the job's process and not yet used; a job has
\* a handler, and only a sleep or a read waits.
JobConsistent ==
    \A w \in Workers :
        /\ rcap[w] # None =>
              /\ rcap[w] = job[w].pid
              /\ wpc[w] \in Serving \cup {"abort", "dead"} \/ Signalling(w)
        /\ busy[w] => job[w].call # "null"
        /\ job[w].ticks > 0 => job[w].call \in {"sleep", "stdin"}
        /\ wpc[w] = "block" => job[w].ticks > 0

MessageConsistent ==
    /\ msg.call \in Calls \cup {"inline"}
    /\ msg.ticks > 0 => msg.call = "sleep"
    /\ msg.call = "exit" => msg.target = msg.pid
    /\ mpc = "dispatch" => msg.call \in WorkerCalls

\* Only the job of a handler that waits has lost its caller.
OrphansWait ==
    \A w \in Workers : wpc[w] \in Serving \/ Signalling(w) =>
        \/ rcap[w] = job[w].pid
        \/ rcap[w] = None /\ job[w].call \in {"sleep", "stdin"}

\* The inductive invariant of the server.
Inv ==
    /\ TypeOK /\ ReplyHeldOnce /\ MainAlone /\ FaultAlone
    /\ OneFileWorker /\ OneSender /\ MainCap /\ FaultCap
    /\ BusyAccurate /\ JobConsistent /\ MessageConsistent /\ OrphansWait

=============================================================================
