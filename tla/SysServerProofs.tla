--------------------------- MODULE SysServerProofs ---------------------------
(***************************************************************************)
(* Proofs about SysServer, for any number of processes and workers: Inv is *)
(* an inductive invariant, and the safety properties follow from it.       *)
(***************************************************************************)
EXTENDS SysServer, TLAPS

\* The seconds each prover has for a leaf.
USE ZenonT(20), SMTT(20)

USE DEF mainVars, workerVars, faultVars

\* An empty slot is no process; process 0 and worker 0 exist.
LEMMA Basics == None \notin Pids /\ 0 \in Pids /\ 0 \in Workers
BY SMTT(30), ServerAssumption DEF Pids, Workers, None

\* The server starts in a state of the invariant.
LEMMA InitInv == Init => Inv
<1> SUFFICES ASSUME Init PROVE Inv
  OBVIOUS
<1> USE Basics, ServerAssumption DEF Init, NoMessage, NoJob
<1>1. TypeOK
  <2>1. msg \in Messages /\ job \in [Workers -> Jobs]
    BY SMTT(30) DEF Messages, Jobs, AllCalls
  <2>2. proc \in [Pids -> ProcStates] /\ wpc \in [Workers -> WorkerStates]
    BY DEF ProcStates, WorkerStates
  <2> QED BY <2>1, <2>2 DEF TypeOK, MainStates, FaultStates
<1>2. ReplyHeldOnce /\ OneSender /\ MainCap /\ FaultCap /\ MessageConsistent
  BY SMTT(30) DEF ReplyHeldOnce, OneSender, MainCap, FaultCap, MessageConsistent
<1>3. MainAlone /\ FaultAlone
  BY DEF MainAlone, FaultAlone, MainBusy, FaultRunnable
<1>4. OneFileWorker /\ BusyAccurate /\ JobConsistent /\ OrphansWait
  BY SMTT(30) DEF OneFileWorker, BusyAccurate, JobConsistent, OrphansWait, Signalling, Serving
<1> QED BY <1>1, <1>2, <1>3, <1>4 DEF Inv

-----------------------------------------------------------------------------
\* User processes.
LEMMA UserCallPreserves ==
  ASSUME Inv, NEW p \in Pids, UserCall(p)
  PROVE  Inv'
<1> USE Basics, ServerAssumption DEF Inv, TypeOK, UserCall, UserMayRun
<1>1. TypeOK'
  BY DEF Messages, Jobs, MainStates, ProcStates, WorkerStates, FaultStates
<1>2. ReplyHeldOnce'
  BY SMTT(30) DEF ReplyHeldOnce
<1>3. MainAlone'
  BY DEF MainAlone, MainBusy, AtWait, FaultRunnable, MainRunnable,
     WorkerRunnable
<1>4. FaultAlone'
  BY DEF FaultAlone, AtWait, FaultRunnable
<1>5. OneSender'
  BY DEF OneSender, MainRunnable, FaultRunnable, WorkerRunnable, BusyAccurate,
     Signalling
<1>6. FaultCap'
  BY DEF FaultCap
<1>7. OneFileWorker' /\ MainCap' /\ BusyAccurate' /\ JobConsistent' /\ MessageConsistent' /\ OrphansWait'
  <2>1. OneFileWorker'
    BY DEF OneFileWorker
  <2>2. MainCap'
    BY DEF MainCap
  <2>3. BusyAccurate'
    BY DEF BusyAccurate, Signalling
  <2>4. JobConsistent'
    BY DEF JobConsistent, Serving, Signalling
  <2>5. MessageConsistent'
    BY DEF MessageConsistent
  <2>6. OrphansWait'
    BY DEF OrphansWait, Serving, Signalling
  <2> QED BY <2>1, <2>2, <2>3, <2>4, <2>5, <2>6
<1> QED BY <1>1, <1>2, <1>3, <1>4, <1>5, <1>6, <1>7

LEMMA UserFaultPreserves ==
  ASSUME Inv, NEW p \in Pids, UserFault(p)
  PROVE  Inv'
<1> USE Basics, ServerAssumption DEF Inv, TypeOK, UserFault, UserMayRun
<1>1. TypeOK'
  BY DEF Messages, Jobs, MainStates, ProcStates, WorkerStates, FaultStates
<1>2. ReplyHeldOnce'
  BY SMTT(30) DEF ReplyHeldOnce
<1>3. MainAlone'
  BY DEF MainAlone, MainBusy, AtWait, FaultRunnable, MainRunnable,
     WorkerRunnable, BusyAccurate, Signalling
<1>4. FaultAlone'
  BY DEF FaultAlone, AtWait, FaultRunnable, MainRunnable, WorkerRunnable
<1>5. OneSender'
  BY DEF OneSender
<1>6. FaultCap'
  BY DEF FaultCap
<1>7. OneFileWorker' /\ MainCap' /\ BusyAccurate' /\ JobConsistent' /\ MessageConsistent' /\ OrphansWait'
  <2>1. OneFileWorker'
    BY DEF OneFileWorker
  <2>2. MainCap'
    BY DEF MainCap
  <2>3. BusyAccurate'
    BY DEF BusyAccurate, Signalling
  <2>4. JobConsistent'
    BY DEF JobConsistent, Serving, Signalling
  <2>5. MessageConsistent'
    BY DEF MessageConsistent
  <2>6. OrphansWait'
    BY DEF OrphansWait, Serving, Signalling
  <2> QED BY <2>1, <2>2, <2>3, <2>4, <2>5, <2>6
<1> QED BY <1>1, <1>2, <1>3, <1>4, <1>5, <1>6, <1>7

-----------------------------------------------------------------------------
\* The system call thread.
LEMMA MainReceivePreserves ==
  ASSUME Inv, NEW p \in Pids, MainReceive(p)
  PROVE  Inv'
<1> USE Basics, ServerAssumption DEF Inv, TypeOK, MainReceive, AllCalls
<1>1. TypeOK'
  BY SMTT(30) DEF Messages, Jobs, MainStates, ProcStates, WorkerStates, FaultStates
<1>2. ReplyHeldOnce'
  BY SMTT(30) DEF ReplyHeldOnce, MainRunnable, FaultRunnable, WorkerRunnable, MainCap
<1>3. MainAlone'
  BY DEF MainAlone, MainBusy, AtWait, FaultRunnable
<1>4. FaultAlone'
  BY DEF FaultAlone, AtWait, FaultRunnable
<1>5. OneSender'
  BY DEF OneSender
<1>6. MainCap'
  BY SMTT(30) DEF MainCap
<1>7. FaultCap'
  BY DEF FaultCap
<1>8. BusyAccurate'
  BY DEF BusyAccurate, Signalling
<1>9. JobConsistent'
  BY DEF JobConsistent, Serving, Signalling
<1>10. MessageConsistent'
  BY SMTT(30) DEF MessageConsistent
<1>11. OrphansWait'
  BY DEF OrphansWait, Serving, Signalling
<1>12. OneFileWorker'
  BY DEF OneFileWorker
<1> QED BY <1>1, <1>2, <1>3, <1>4, <1>5, <1>6, <1>7, <1>8, <1>9, <1>10, <1>11, <1>12

\* The steps of main that only move it on, with an answer or towards a worker.
LEMMA MainMovesPreserve ==
  ASSUME Inv, HandleInline \/ HandleEnterFs \/ HandleLs \/ HandleForWorker
  PROVE  Inv'
<1>1. /\ UNCHANGED <<proc, msg, mcap, mworker, workerVars, faultVars>>
      /\ mpc \in {"handle", "fs"}
      /\ \/ mpc' = "loop" /\ haveReply' = TRUE
         \/ mpc' = "fs" /\ UNCHANGED haveReply
         \/ mpc' \in {"abort", "dead"} /\ UNCHANGED haveReply
         \/ mpc' = "dispatch" /\ msg.call \in WorkerCalls /\ UNCHANGED haveReply
  BY DEF Finish, HandleInline, HandleEnterFs, HandleLs, HandleForWorker
<1>2. TypeOK'
  BY <1>1 DEF Inv, TypeOK, MainStates
<1>3. ReplyHeldOnce' /\ OneSender' /\ MainCap' /\ FaultCap' /\ MessageConsistent'
  <2>1. ReplyHeldOnce'
    BY <1>1 DEF Inv, ReplyHeldOnce
  <2>2. OneSender'
    BY <1>1 DEF Inv, OneSender
  <2>3. MainCap'
    BY <1>1 DEF Inv, MainCap
  <2>4. FaultCap'
    BY <1>1 DEF Inv, FaultCap
  <2>5. MessageConsistent'
    BY <1>1 DEF Inv, MessageConsistent
  <2> QED BY <2>1, <2>2, <2>3, <2>4, <2>5
<1>4. MainAlone' /\ FaultAlone' /\ OneFileWorker'
  BY <1>1 DEF Inv, MainAlone, FaultAlone, MainBusy, AtWait, FaultRunnable, OneFileWorker
<1>5. BusyAccurate'
  BY <1>1 DEF Inv, BusyAccurate, Signalling
<1>6. JobConsistent'
  BY <1>1 DEF Inv, JobConsistent, Signalling
<1>7. OrphansWait'
  BY <1>1 DEF Inv, OrphansWait, Signalling
<1> QED BY <1>2, <1>3, <1>4, <1>5, <1>6, <1>7 DEF Inv

LEMMA HandleKillPreserves ==
  ASSUME Inv, HandleKill
  PROVE  Inv'
<1> USE Basics, ServerAssumption DEF Inv, TypeOK, HandleKill, Destroy
<1>1. TypeOK'
  BY SMTT(30) DEF Messages, Jobs, MainStates, ProcStates, WorkerStates, FaultStates
<1>2. ReplyHeldOnce'
  BY SMTT(30) DEF ReplyHeldOnce
<1>3. MainAlone'
  BY DEF MainAlone, MainBusy, AtWait, FaultRunnable
<1>4. FaultAlone'
  BY DEF FaultAlone, AtWait, FaultRunnable
<1>5. OneSender'
  BY DEF OneSender
<1>6. MainCap'
  BY DEF MainCap
<1>7. FaultCap'
  BY DEF FaultCap, MainRunnable, FaultRunnable, WorkerRunnable, MainAlone,
     MainBusy, AtWait
<1>8. BusyAccurate'
  BY DEF BusyAccurate, Signalling
<1>9. JobConsistent'
  BY SMTT(30) DEF JobConsistent, Serving, Signalling
<1>10. OrphansWait'
  BY SMTT(30) DEF OrphansWait, Serving, Signalling, MainRunnable, FaultRunnable,
     WorkerRunnable, ReplyHeldOnce, MainAlone, FaultAlone, OneFileWorker,
     OneSender, MainCap, FaultCap, BusyAccurate, JobConsistent,
     MessageConsistent, WorkerCalls, AllCalls, Messages, Jobs, MainBusy, AtWait
<1>11. OneFileWorker' /\ MessageConsistent'
  BY DEF OneFileWorker, MessageConsistent
<1> QED BY <1>1, <1>2, <1>3, <1>4, <1>5, <1>6, <1>7, <1>8, <1>9, <1>10, <1>11

LEMMA HandleExecvePreserves ==
  ASSUME Inv, HandleExecve
  PROVE  Inv'
<1> USE Basics, ServerAssumption DEF Inv, TypeOK, HandleExecve, FreePids
<1>1. TypeOK'
  BY DEF Messages, Jobs, MainStates, ProcStates, WorkerStates, FaultStates
<1>2. ReplyHeldOnce'
  BY SMTT(30) DEF ReplyHeldOnce
<1>3. MainAlone'
  BY DEF MainAlone, MainBusy, AtWait, FaultRunnable
<1>4. FaultAlone'
  BY DEF FaultAlone, AtWait, FaultRunnable
<1>5. OneSender'
  BY DEF OneSender
<1>6. MainCap'
  BY DEF MainCap
<1>7. FaultCap'
  BY DEF FaultCap
<1>8. BusyAccurate'
  BY DEF BusyAccurate, Signalling
<1>9. JobConsistent'
  BY DEF JobConsistent, Serving, Signalling
<1>10. OrphansWait'
  BY DEF OrphansWait, Serving, Signalling
<1>11. OneFileWorker' /\ MessageConsistent'
  BY DEF OneFileWorker, MessageConsistent
<1> QED BY <1>1, <1>2, <1>3, <1>4, <1>5, <1>6, <1>7, <1>8, <1>9, <1>10, <1>11

LEMMA DispatchPreserves ==
  ASSUME Inv, Dispatch
  PROVE  Inv'
<1> DEFINE ticks == IF msg.call = "stdin" THEN 1 ELSE msg.ticks
           newJob == [pid |-> msg.pid, call |-> msg.call, ticks |-> ticks]
<1>1. PICK w \in Workers :
        /\ ~busy[w]
        /\ mworker' = w
        /\ busy' = [busy EXCEPT ![w] = TRUE]
        /\ job' = [job EXCEPT ![w] = newJob]
        /\ rcap' = [rcap EXCEPT ![w] = mcap]
  BY DEF Dispatch, IdleWorkers
<1>2. /\ mpc = "dispatch" /\ mpc' = "signal" /\ mcap' = None
      /\ UNCHANGED <<proc, msg, haveReply, wpc, faultVars>>
  BY DEF Dispatch
<1>3. /\ mcap = msg.pid /\ mcap \in Pids /\ mcap # None
      /\ msg.call \in WorkerCalls
  BY <1>2, Basics DEF Inv, TypeOK, MainCap, MessageConsistent, Messages
<1>4. rcap[w] = None /\ wpc[w] = "wait"
  BY <1>1, <1>2 DEF Inv, TypeOK, BusyAccurate, JobConsistent, MainAlone,
     MainBusy, AtWait, Signalling, Serving
<1>5. /\ newJob \in Jobs
      /\ newJob.pid = mcap /\ newJob.call # "null"
      /\ newJob.ticks > 0 => newJob.call \in {"sleep", "stdin"}
  <2>1. /\ ticks \in 0 .. MAX_TICKS + 1
        /\ ticks > 0 => msg.call \in {"sleep", "stdin"}
    BY SMTT(30), ServerAssumption DEF Inv, TypeOK, Messages, MessageConsistent
  <2> QED BY <1>3, <2>1 DEF Jobs, WorkerCalls
<1> HIDE DEF newJob
<1>6. TypeOK'
  BY <1>1, <1>2, <1>3, <1>5 DEF Inv, TypeOK, MainStates
<1>7. ReplyHeldOnce'
  <2>1. \A v \in Workers : rcap'[v] = IF v = w THEN mcap ELSE rcap[v]
    BY <1>1 DEF Inv, TypeOK
  <2> QED BY SMTT(30), <1>2, <1>3, <1>4, <2>1, Basics DEF Inv, ReplyHeldOnce
<1>8. MainAlone' /\ FaultAlone'
  BY <1>1, <1>2, <1>4 DEF Inv, TypeOK, MainAlone, FaultAlone, MainBusy, AtWait,
     FaultRunnable
<1>9. BusyAccurate'
  BY <1>1, <1>2, <1>4 DEF Inv, TypeOK, BusyAccurate, Signalling
<1>10. JobConsistent'
  BY <1>1, <1>2, <1>4, <1>5 DEF Inv, TypeOK, JobConsistent, Signalling
<1>11. OrphansWait'
  BY <1>1, <1>2, <1>4, <1>5 DEF Inv, TypeOK, OrphansWait, Signalling, Serving
<1>12. /\ OneFileWorker' /\ OneSender' /\ MainCap' /\ FaultCap'
       /\ MessageConsistent'
  BY <1>2 DEF Inv, OneFileWorker, OneSender, MainCap, FaultCap, MessageConsistent
<1> QED BY <1>6, <1>7, <1>8, <1>9, <1>10, <1>11, <1>12 DEF Inv

LEMMA SignalPreserves ==
  ASSUME Inv, Signal
  PROVE  Inv'
<1> USE Basics, ServerAssumption DEF Inv, TypeOK, Signal
<1>1. TypeOK'
  BY DEF Messages, Jobs, MainStates, ProcStates, WorkerStates, FaultStates
<1>2. MainAlone'
  BY DEF MainAlone, MainBusy, AtWait, FaultRunnable
<1>3. FaultAlone'
  BY DEF FaultAlone, AtWait, FaultRunnable, MainRunnable, WorkerRunnable,
     MainAlone, MainBusy
<1>4. OneFileWorker'
  BY SMTT(30) DEF OneFileWorker, MainRunnable, FaultRunnable, WorkerRunnable, MainAlone,
     MainBusy, AtWait
<1>5. OneSender'
  BY DEF OneSender
<1>6. MainCap'
  BY DEF MainCap
<1>7. BusyAccurate'
  BY DEF BusyAccurate, Signalling
<1>8. JobConsistent'
  BY DEF JobConsistent, Serving, Signalling
<1>9. OrphansWait'
  BY DEF OrphansWait, Serving, Signalling
<1>10. ReplyHeldOnce' /\ FaultCap' /\ MessageConsistent'
  BY SMTT(30) DEF ReplyHeldOnce, FaultCap, MessageConsistent
<1> QED BY <1>1, <1>2, <1>3, <1>4, <1>5, <1>6, <1>7, <1>8, <1>9, <1>10

LEMMA MainLoopPreserves ==
  ASSUME Inv, MainLoop
  PROVE  Inv'
<1> USE Basics, ServerAssumption DEF Inv, TypeOK, MainLoop, NoMessage
<1>1. TypeOK'
  BY SMTT(30) DEF Messages, Jobs, MainStates, ProcStates, WorkerStates, FaultStates,
     MainRunnable, FaultRunnable, WorkerRunnable, WorkerCalls, AllCalls
<1>2. ReplyHeldOnce'
  BY DEF ReplyHeldOnce, MainRunnable, FaultRunnable, WorkerRunnable, MainCap
<1>3. MainAlone'
  BY DEF MainAlone, MainBusy, AtWait, FaultRunnable, MainRunnable,
     WorkerRunnable, OneSender
<1>4. FaultAlone'
  BY DEF FaultAlone, AtWait, FaultRunnable
<1>5. OneSender'
  BY DEF OneSender
<1>6. MainCap'
  BY DEF MainCap
<1>7. FaultCap'
  BY DEF FaultCap, MainRunnable, FaultRunnable, WorkerRunnable, ReplyHeldOnce
<1>8. BusyAccurate'
  BY DEF BusyAccurate, Signalling
<1>9. JobConsistent'
  BY DEF JobConsistent, Serving, Signalling
<1>10. MessageConsistent'
  BY SMTT(30) DEF MessageConsistent
<1>11. OrphansWait'
  BY DEF OrphansWait, Serving, Signalling
<1>12. OneFileWorker'
  BY DEF OneFileWorker
<1> QED BY <1>1, <1>2, <1>3, <1>4, <1>5, <1>6, <1>7, <1>8, <1>9, <1>10, <1>11, <1>12

-----------------------------------------------------------------------------
\* The workers, and the interrupts that wake them.
LEMMA WorkerBeginPreserves ==
  ASSUME Inv, NEW w \in Workers, WorkerBegin(w)
  PROVE  Inv'
<1> USE Basics, ServerAssumption DEF Inv, TypeOK, WorkerBegin, WorkerMayRun
<1>1. TypeOK'
  BY DEF Messages, Jobs, MainStates, ProcStates, WorkerStates, FaultStates
<1>2. MainAlone'
  BY DEF MainAlone, MainBusy, AtWait, FaultRunnable, MainRunnable,
     WorkerRunnable
<1>3. FaultAlone'
  BY DEF FaultAlone, AtWait, FaultRunnable
<1>4. OneFileWorker'
  BY DEF OneFileWorker
<1>5. BusyAccurate'
  BY DEF BusyAccurate, Signalling
<1>6. JobConsistent'
  BY DEF JobConsistent, Serving, Signalling
<1>7. OrphansWait'
  BY DEF OrphansWait, Serving, Signalling
<1>8. ReplyHeldOnce' /\ OneSender' /\ MainCap' /\ FaultCap' /\ MessageConsistent'
  <2>1. ReplyHeldOnce'
    BY SMTT(30) DEF ReplyHeldOnce
  <2>2. OneSender'
    BY DEF OneSender
  <2>3. MainCap'
    BY DEF MainCap
  <2>4. FaultCap'
    BY DEF FaultCap
  <2>5. MessageConsistent'
    BY DEF MessageConsistent
  <2> QED BY <2>1, <2>2, <2>3, <2>4, <2>5
<1> QED BY <1>1, <1>2, <1>3, <1>4, <1>5, <1>6, <1>7, <1>8

LEMMA WorkerWaitAgainPreserves ==
  ASSUME Inv, NEW w \in Workers, WorkerWaitAgain(w)
  PROVE  Inv'
<1> USE Basics, ServerAssumption DEF Inv, TypeOK, WorkerWaitAgain, WorkerMayRun
<1>1. TypeOK'
  BY DEF Messages, Jobs, MainStates, ProcStates, WorkerStates, FaultStates
<1>2. MainAlone'
  BY DEF MainAlone, MainBusy, AtWait, FaultRunnable
<1>3. FaultAlone'
  BY DEF FaultAlone, AtWait, FaultRunnable
<1>4. OneFileWorker'
  BY DEF OneFileWorker
<1>5. BusyAccurate'
  BY DEF BusyAccurate, Signalling
<1>6. JobConsistent'
  BY DEF JobConsistent, Serving, Signalling
<1>7. OrphansWait'
  BY DEF OrphansWait, Serving, Signalling
<1>8. ReplyHeldOnce' /\ OneSender' /\ MainCap' /\ FaultCap' /\ MessageConsistent'
  <2>1. ReplyHeldOnce'
    BY SMTT(30) DEF ReplyHeldOnce
  <2>2. OneSender'
    BY DEF OneSender
  <2>3. MainCap'
    BY DEF MainCap
  <2>4. FaultCap'
    BY DEF FaultCap
  <2>5. MessageConsistent'
    BY DEF MessageConsistent
  <2> QED BY <2>1, <2>2, <2>3, <2>4, <2>5
<1> QED BY <1>1, <1>2, <1>3, <1>4, <1>5, <1>6, <1>7, <1>8

LEMMA WorkerLeaveFsPreserves ==
  ASSUME Inv, NEW w \in Workers, WorkerLeaveFs(w)
  PROVE  Inv'
<1> USE Basics, ServerAssumption DEF Inv, TypeOK, WorkerLeaveFs, WorkerMayRun
<1>1. TypeOK'
  BY DEF Messages, Jobs, MainStates, ProcStates, WorkerStates, FaultStates
<1>2. MainAlone'
  BY DEF MainAlone, MainBusy, AtWait, FaultRunnable
<1>3. FaultAlone'
  BY DEF FaultAlone, AtWait, FaultRunnable
<1>4. OneFileWorker'
  BY DEF OneFileWorker
<1>5. BusyAccurate'
  BY DEF BusyAccurate, Signalling
<1>6. JobConsistent'
  BY DEF JobConsistent, Serving, Signalling
<1>7. OrphansWait'
  BY DEF OrphansWait, Serving, Signalling
<1>8. ReplyHeldOnce' /\ OneSender' /\ MainCap' /\ FaultCap' /\ MessageConsistent'
  <2>1. ReplyHeldOnce'
    BY SMTT(30) DEF ReplyHeldOnce
  <2>2. OneSender'
    BY DEF OneSender
  <2>3. MainCap'
    BY DEF MainCap
  <2>4. FaultCap'
    BY DEF FaultCap
  <2>5. MessageConsistent'
    BY DEF MessageConsistent
  <2> QED BY <2>1, <2>2, <2>3, <2>4, <2>5
<1> QED BY <1>1, <1>2, <1>3, <1>4, <1>5, <1>6, <1>7, <1>8

LEMMA WorkerReplyPreserves ==
  ASSUME Inv, NEW w \in Workers, WorkerReply(w)
  PROVE  Inv'
<1> USE Basics, ServerAssumption DEF Inv, TypeOK, WorkerReply, WorkerMayRun, PcbGone
<1>1. TypeOK'
  BY DEF Messages, Jobs, MainStates, ProcStates, WorkerStates, FaultStates
<1>2. ReplyHeldOnce'
  BY SMTT(30) DEF ReplyHeldOnce
<1>3. MainAlone'
  BY DEF MainAlone, MainBusy, AtWait, FaultRunnable, MainRunnable,
     WorkerRunnable, BusyAccurate, Signalling
<1>4. FaultAlone'
  BY DEF FaultAlone, AtWait, FaultRunnable
<1>5. OneFileWorker'
  BY DEF OneFileWorker
<1>6. OneSender'
  BY DEF OneSender
<1>7. FaultCap'
  <2>1. rcap[w] # None => rcap[w] \in Pids /\ proc[rcap[w]] = "reply"
    BY SMTT(30) DEF ReplyHeldOnce
  <2> QED BY <2>1 DEF FaultCap
<1>8. BusyAccurate'
  BY DEF BusyAccurate, Signalling
<1>9. JobConsistent'
  BY DEF JobConsistent, Serving, Signalling
<1>10. OrphansWait'
  BY DEF OrphansWait, Serving, Signalling, MainRunnable, FaultRunnable,
     WorkerRunnable, BusyAccurate
<1>11. MainCap' /\ MessageConsistent'
  BY DEF MainCap, MessageConsistent
<1> QED BY <1>1, <1>2, <1>3, <1>4, <1>5, <1>6, <1>7, <1>8, <1>9, <1>10, <1>11

\* A worker stops, or spins, in the middle of a handler.
LEMMA WorkerEndsPreserve ==
  ASSUME Inv, NEW w \in Workers, WorkerCrash(w) \/ WorkerAbort(w)
  PROVE  Inv'
<1> USE Basics, ServerAssumption DEF Inv, TypeOK
<1>0. /\ wpc[w] \in {"run", "fs"} /\ ~MainRunnable /\ ~FaultRunnable
      /\ wpc' = [wpc EXCEPT ![w] = "dead"] \/ wpc' = [wpc EXCEPT ![w] = "abort"]
      /\ UNCHANGED <<proc, mainVars, busy, job, rcap, faultVars>>
  BY DEF WorkerCrash, WorkerAbort, WorkerMayRun, AtBuffer
<1>1. TypeOK'
  BY <1>0 DEF WorkerStates
<1>2. MainAlone'
  BY <1>0 DEF MainAlone, MainBusy, AtWait, FaultRunnable, MainRunnable,
     BusyAccurate, Signalling
<1>3. FaultAlone'
  BY <1>0 DEF FaultAlone, AtWait, FaultRunnable
<1>4. OneFileWorker'
  BY <1>0 DEF OneFileWorker
<1>5. BusyAccurate'
  BY <1>0 DEF BusyAccurate, Signalling
<1>6. JobConsistent'
  BY <1>0 DEF JobConsistent, Serving, Signalling
<1>7. OrphansWait'
  BY <1>0 DEF OrphansWait, Serving, Signalling
<1>8. ReplyHeldOnce' /\ OneSender' /\ MainCap' /\ FaultCap' /\ MessageConsistent'
  <2>1. ReplyHeldOnce'
    BY SMTT(30), <1>0 DEF ReplyHeldOnce
  <2>2. OneSender'
    BY <1>0 DEF OneSender
  <2>3. MainCap'
    BY <1>0 DEF MainCap
  <2>4. FaultCap'
    BY <1>0 DEF FaultCap
  <2>5. MessageConsistent'
    BY <1>0 DEF MessageConsistent
  <2> QED BY <2>1, <2>2, <2>3, <2>4, <2>5
<1> QED BY <1>1, <1>2, <1>3, <1>4, <1>5, <1>6, <1>7, <1>8

LEMMA WorkerDonePreserves ==
  ASSUME Inv, NEW w \in Workers, WorkerDone(w)
  PROVE  Inv'
<1> USE Basics, ServerAssumption DEF Inv, TypeOK, WorkerDone, WorkerMayRun
<1>1. TypeOK'
  BY SMTT(60) DEF Messages, Jobs, MainStates, ProcStates, WorkerStates, FaultStates
<1>2. MainAlone'
  BY DEF MainAlone, MainBusy, AtWait, FaultRunnable
<1>3. FaultAlone'
  BY DEF FaultAlone, AtWait, FaultRunnable
<1>4. OneFileWorker'
  BY DEF OneFileWorker
<1>5. BusyAccurate'
  BY DEF BusyAccurate, Signalling
<1>6. JobConsistent'
  BY SMTT(30) DEF JobConsistent, Serving, Signalling, MainRunnable, FaultRunnable,
     WorkerRunnable, BusyAccurate
<1>7. OrphansWait'
  BY DEF OrphansWait, Serving, Signalling, MainRunnable, FaultRunnable,
     WorkerRunnable, BusyAccurate
<1>8. ReplyHeldOnce' /\ OneSender' /\ MainCap' /\ FaultCap' /\ MessageConsistent'
  <2>1. ReplyHeldOnce'
    BY SMTT(30) DEF ReplyHeldOnce
  <2>2. OneSender'
    BY DEF OneSender
  <2>3. MainCap'
    BY DEF MainCap
  <2>4. FaultCap'
    BY DEF FaultCap
  <2>5. MessageConsistent'
    BY DEF MessageConsistent
  <2> QED BY <2>1, <2>2, <2>3, <2>4, <2>5
<1> QED BY <1>1, <1>2, <1>3, <1>4, <1>5, <1>6, <1>7, <1>8

LEMMA WorkerWaitPreserves ==
  ASSUME Inv, NEW w \in Workers, WorkerWait(w)
  PROVE  Inv'
<1> USE Basics, ServerAssumption DEF Inv, TypeOK, WorkerWait, WorkerMayRun
<1>1. TypeOK'
  BY DEF Messages, Jobs, MainStates, ProcStates, WorkerStates, FaultStates
<1>2. MainAlone'
  BY DEF MainAlone, MainBusy, AtWait, FaultRunnable
<1>3. FaultAlone'
  BY DEF FaultAlone, AtWait, FaultRunnable
<1>4. OneFileWorker'
  BY DEF OneFileWorker
<1>5. BusyAccurate'
  BY DEF BusyAccurate, Signalling
<1>6. JobConsistent'
  BY DEF JobConsistent, Serving, Signalling
<1>7. OrphansWait'
  BY DEF OrphansWait, Serving, Signalling
<1>8. ReplyHeldOnce' /\ OneSender' /\ MainCap' /\ FaultCap' /\ MessageConsistent'
  <2>1. ReplyHeldOnce'
    BY SMTT(30) DEF ReplyHeldOnce
  <2>2. OneSender'
    BY DEF OneSender
  <2>3. MainCap'
    BY DEF MainCap
  <2>4. FaultCap'
    BY DEF FaultCap
  <2>5. MessageConsistent'
    BY DEF MessageConsistent
  <2> QED BY <2>1, <2>2, <2>3, <2>4, <2>5
<1> QED BY <1>1, <1>2, <1>3, <1>4, <1>5, <1>6, <1>7, <1>8

LEMMA InterruptPreserves ==
  ASSUME Inv, NEW w \in Workers, Interrupt(w)
  PROVE  Inv'
<1> USE Basics, ServerAssumption DEF Inv, TypeOK, Interrupt
<1>1. TypeOK'
  BY SMTT(30) DEF Messages, Jobs, MainStates, ProcStates, WorkerStates, FaultStates,
     MainRunnable, FaultRunnable, WorkerRunnable, JobConsistent
<1>2. MainAlone'
  BY SMTT(30) DEF MainAlone, MainBusy, AtWait, FaultRunnable, MainRunnable,
     WorkerRunnable, JobConsistent
<1>3. FaultAlone'
  BY SMTT(30) DEF FaultAlone, AtWait, FaultRunnable, MainRunnable, WorkerRunnable,
     JobConsistent
<1>4. OneFileWorker'
  BY DEF OneFileWorker
<1>5. BusyAccurate'
  BY DEF BusyAccurate, Signalling
<1>6. JobConsistent'
  BY SMTT(30) DEF JobConsistent, Serving, Signalling
<1>7. OrphansWait'
  BY SMTT(30) DEF OrphansWait, Serving, Signalling
<1>8. ReplyHeldOnce' /\ OneSender' /\ MainCap' /\ FaultCap' /\ MessageConsistent'
  <2>1. ReplyHeldOnce'
    BY SMTT(30) DEF ReplyHeldOnce
  <2>2. OneSender'
    BY DEF OneSender
  <2>3. MainCap'
    BY DEF MainCap
  <2>4. FaultCap'
    BY DEF FaultCap
  <2>5. MessageConsistent'
    BY DEF MessageConsistent
  <2> QED BY <2>1, <2>2, <2>3, <2>4, <2>5
<1> QED BY <1>1, <1>2, <1>3, <1>4, <1>5, <1>6, <1>7, <1>8

-----------------------------------------------------------------------------
\* The page-fault thread.
LEMMA FaultReceivePreserves ==
  ASSUME Inv, NEW p \in Pids, FaultReceive(p)
  PROVE  Inv'
<1> USE Basics, ServerAssumption DEF Inv, TypeOK, FaultReceive, FaultMayRun
<1>1. TypeOK'
  BY DEF Messages, Jobs, MainStates, ProcStates, WorkerStates, FaultStates
<1>2. ReplyHeldOnce'
  BY SMTT(30) DEF ReplyHeldOnce
<1>3. MainAlone'
  BY DEF MainAlone, MainBusy, AtWait, FaultRunnable
<1>4. FaultAlone'
  BY DEF FaultAlone, AtWait, FaultRunnable
<1>5. OneSender'
  BY DEF OneSender
<1>6. FaultCap'
  BY DEF FaultCap
<1>7. OneFileWorker' /\ MainCap' /\ BusyAccurate' /\ JobConsistent' /\ MessageConsistent' /\ OrphansWait'
  <2>1. OneFileWorker'
    BY DEF OneFileWorker
  <2>2. MainCap'
    BY DEF MainCap
  <2>3. BusyAccurate'
    BY DEF BusyAccurate, Signalling
  <2>4. JobConsistent'
    BY DEF JobConsistent, Serving, Signalling
  <2>5. MessageConsistent'
    BY DEF MessageConsistent
  <2>6. OrphansWait'
    BY DEF OrphansWait, Serving, Signalling
  <2> QED BY <2>1, <2>2, <2>3, <2>4, <2>5, <2>6
<1> QED BY <1>1, <1>2, <1>3, <1>4, <1>5, <1>6, <1>7

\* The steps between the receipt of a fault and the end of its handler.
LEMMA FaultMovesPreserve ==
  ASSUME Inv, \/ FaultAlloc \/ FaultEnterFs \/ FaultReplaced \/ FaultOther
              \/ FaultCrash \/ FaultAbort
  PROVE  Inv'
<1>1. /\ UNCHANGED <<proc, mainVars, workerVars, vcap>>
      /\ vpc \in {"handle", "fs"} /\ vpc' \in {"fs", "loop", "abort", "dead"}
      /\ FaultRunnable /\ resume' \in BOOLEAN
  BY DEF FaultAlloc, FaultEnterFs, FaultReplaced, FaultOther, FaultCrash, FaultAbort,
     FaultMayRun, Inv, TypeOK
<1>2. TypeOK'
  BY <1>1 DEF Inv, TypeOK, FaultStates
<1>3. ReplyHeldOnce' /\ OneSender' /\ MainCap' /\ FaultCap' /\ MessageConsistent'
  <2>1. ReplyHeldOnce'
    BY <1>1 DEF Inv, ReplyHeldOnce
  <2>2. OneSender'
    BY <1>1 DEF Inv, OneSender
  <2>3. MainCap'
    BY <1>1 DEF Inv, MainCap
  <2>4. FaultCap'
    BY <1>1 DEF Inv, FaultCap
  <2>5. MessageConsistent'
    BY <1>1 DEF Inv, MessageConsistent
  <2> QED BY <2>1, <2>2, <2>3, <2>4, <2>5
<1>4. MainAlone' /\ FaultAlone' /\ OneFileWorker'
  BY <1>1 DEF Inv, MainAlone, FaultAlone, MainBusy, AtWait, FaultRunnable, OneFileWorker
<1>5. BusyAccurate'
  BY <1>1 DEF Inv, BusyAccurate, Signalling
<1>6. JobConsistent'
  BY <1>1 DEF Inv, JobConsistent, Signalling
<1>7. OrphansWait'
  BY <1>1 DEF Inv, OrphansWait, Signalling
<1> QED BY <1>2, <1>3, <1>4, <1>5, <1>6, <1>7 DEF Inv

LEMMA FaultNoPagePreserves ==
  ASSUME Inv, FaultNoPage
  PROVE  Inv'
<1>1. /\ FaultRunnable /\ vpc = "handle" /\ vpc' = "loop" /\ resume' = FALSE
      /\ UNCHANGED <<mpc, msg, haveReply, mworker, busy, job, wpc>>
  BY DEF FaultNoPage, FaultMayRun
<1>2. vcap \in Pids /\ proc[vcap] = "freply"
  BY <1>1 DEF Inv, TypeOK, FaultCap
<1>3. mcap # vcap /\ \A w \in Workers : rcap[w] # vcap
  BY <1>2 DEF Inv, ReplyHeldOnce
<1>4. /\ UNCHANGED <<mcap, rcap>>
      /\ \/ proc' = [proc EXCEPT ![vcap] = "free"] /\ vcap' = None
         \/ UNCHANGED <<proc, vcap>>
  <2>1. CASE Destroy(vcap)
    <3>1. rcap' = [w \in Workers |-> rcap[w]] /\ mcap' = mcap
      BY <1>3, <2>1 DEF Destroy
    <3> QED BY <2>1, <3>1 DEF Destroy, Inv, TypeOK
  <2>2. CASE UNCHANGED <<proc, mcap, rcap, vcap>>
    BY <2>2
  <2> QED BY <2>1, <2>2 DEF FaultNoPage
<1>5. TypeOK'
  BY <1>1, <1>2, <1>4 DEF Inv, TypeOK, FaultStates, ProcStates
<1>6. ReplyHeldOnce' /\ OneSender' /\ FaultCap'
  BY <1>1, <1>2, <1>3, <1>4, Basics, SMTT(40) DEF Inv, TypeOK, ReplyHeldOnce, OneSender, FaultCap
<1>7. MainAlone' /\ FaultAlone'
  BY <1>1, <1>2, <1>4 DEF Inv, TypeOK, MainAlone, FaultAlone, MainBusy, AtWait,
     FaultRunnable
<1>8. OneFileWorker' /\ MainCap' /\ MessageConsistent'
  BY <1>1, <1>4 DEF Inv, OneFileWorker, MainCap, MessageConsistent
<1>9. BusyAccurate'
  BY <1>1 DEF Inv, BusyAccurate, Signalling
<1>10. JobConsistent'
  BY <1>1, <1>4 DEF Inv, JobConsistent, Signalling
<1>11. OrphansWait'
  BY <1>1, <1>4 DEF Inv, OrphansWait, Signalling
<1> QED BY <1>5, <1>6, <1>7, <1>8, <1>9, <1>10, <1>11 DEF Inv

LEMMA FaultLoopPreserves ==
  ASSUME Inv, FaultLoop
  PROVE  Inv'
<1> USE Basics, ServerAssumption DEF Inv, TypeOK, FaultLoop, FaultMayRun
<1>1. TypeOK'
  BY DEF Messages, Jobs, MainStates, ProcStates, WorkerStates, FaultStates
<1>2. ReplyHeldOnce'
  BY SMTT(30) DEF ReplyHeldOnce, MainRunnable, FaultRunnable, WorkerRunnable, FaultCap
<1>3. MainAlone'
  BY DEF MainAlone, MainBusy, AtWait, FaultRunnable
<1>4. FaultAlone'
  BY DEF FaultAlone, AtWait, FaultRunnable
<1>5. OneSender'
  BY DEF OneSender
<1>6. FaultCap'
  BY DEF FaultCap
<1>7. OneFileWorker' /\ MainCap' /\ BusyAccurate' /\ JobConsistent' /\ MessageConsistent' /\ OrphansWait'
  <2>1. OneFileWorker'
    BY DEF OneFileWorker
  <2>2. MainCap'
    BY DEF MainCap
  <2>3. BusyAccurate'
    BY DEF BusyAccurate, Signalling
  <2>4. JobConsistent'
    BY DEF JobConsistent, Serving, Signalling
  <2>5. MessageConsistent'
    BY DEF MessageConsistent
  <2>6. OrphansWait'
    BY DEF OrphansWait, Serving, Signalling
  <2> QED BY <2>1, <2>2, <2>3, <2>4, <2>5, <2>6
<1> QED BY <1>1, <1>2, <1>3, <1>4, <1>5, <1>6, <1>7

-----------------------------------------------------------------------------
\* Every step of the server, and stuttering, preserves the invariant.
LEMMA NextInv == Inv /\ [Next]_vars => Inv'
<1> SUFFICES ASSUME Inv, [Next]_vars PROVE Inv'
  OBVIOUS
<1>1. CASE UNCHANGED vars
  <2> USE <1>1 DEF vars, Inv
  <2>1. TypeOK' /\ ReplyHeldOnce' /\ OneSender' /\ MainCap' /\ FaultCap'
    <3>1. TypeOK'
      BY DEF TypeOK
    <3>2. ReplyHeldOnce'
      BY DEF ReplyHeldOnce
    <3>3. OneSender'
      BY DEF OneSender
    <3>4. MainCap'
      BY DEF MainCap
    <3>5. FaultCap'
      BY DEF FaultCap
    <3> QED BY <3>1, <3>2, <3>3, <3>4, <3>5
  <2>2. MainAlone' /\ FaultAlone' /\ OneFileWorker'
    BY DEF MainAlone, FaultAlone, OneFileWorker, MainBusy, FaultRunnable, AtWait
  <2>3. BusyAccurate'
    BY DEF BusyAccurate, Signalling
  <2>4. JobConsistent'
    BY DEF JobConsistent, Signalling
  <2>5. MessageConsistent' /\ OrphansWait'
    BY DEF MessageConsistent, OrphansWait, Signalling
  <2> QED BY <2>1, <2>2, <2>3, <2>4, <2>5
<1>2. CASE DispatchSpin \/ AbortSpin
  BY <1>1, <1>2 DEF DispatchSpin, AbortSpin
<1>3. CASE \E p \in Pids : UserCall(p) \/ UserFault(p)
  BY <1>3, UserCallPreserves, UserFaultPreserves
<1>4. CASE Main
  BY <1>4, MainReceivePreserves, MainMovesPreserve, HandleKillPreserves,
     HandleExecvePreserves, DispatchPreserves, SignalPreserves, MainLoopPreserves
     DEF Main
<1>5. CASE Fault
  BY <1>5, FaultReceivePreserves, FaultMovesPreserve, FaultNoPagePreserves,
     FaultLoopPreserves DEF Fault
<1>6. CASE \E w \in Workers : Worker(w)
  BY <1>6, WorkerBeginPreserves, WorkerWaitAgainPreserves, WorkerLeaveFsPreserves,
     WorkerReplyPreserves, WorkerEndsPreserve, WorkerDonePreserves,
     WorkerWaitPreserves DEF Worker
<1>7. CASE \E w \in Workers : Interrupt(w)
  BY <1>7, InterruptPreserves
<1> QED BY <1>1, <1>2, <1>3, <1>4, <1>5, <1>6, <1>7 DEF Next

-----------------------------------------------------------------------------
\* The invariant of the server (one thread active at a time, busy flags and
\* saved capabilities accurate) holds in every reachable state, for any number
\* of processes and workers and any mix of system calls.
THEOREM Invariance == Spec => []Inv
<1>1. Init => Inv
  BY InitInv
<1>2. Inv /\ [Next]_vars => Inv'
  BY NextInv
<1> QED BY <1>1, <1>2, PTL DEF Spec

\* The variables of the server's threads keep their types: in particular no
\* handler counts an interrupt it did not wait for.
THEOREM TypeCorrect == Spec => []TypeOK
<1>1. Inv => TypeOK
  BY DEF Inv
<1> QED BY <1>1, Invariance, PTL

\* Main (ls, execve), the page-fault thread (swap) and the workers (file calls)
\* never use the lockless file system at the same time.
THEOREM FileSystemExclusive == Spec => []FsExclusive
<1>1. Inv => FsExclusive
  <2> SUFFICES ASSUME Inv PROVE FsExclusive
    OBVIOUS
  <2>1. \A w \in Workers : wpc[w] = "fs" => ~AtWait(w)
    BY DEF AtWait
  <2>2. mpc = "fs" => vpc # "fs" /\ \A w \in Workers : wpc[w] # "fs"
    BY <2>1 DEF Inv, MainAlone, MainBusy, FaultRunnable
  <2>3. vpc = "fs" => \A w \in Workers : wpc[w] # "fs"
    BY <2>1 DEF Inv, FaultAlone, FaultRunnable
  <2>4. \A v, w \in Workers : wpc[v] = "fs" /\ wpc[w] = "fs" => v = w
    BY DEF Inv, OneFileWorker
  <2> QED BY <2>2, <2>3, <2>4 DEF FsExclusive
<1> QED BY <1>1, Invariance, PTL

\* While main serves a call, every other thread of the server stands at a
\* blocking point: system calls are atomic although nothing is locked.
THEOREM SystemCallsAtomic == Spec => []CallsAtomic
<1>1. Inv => CallsAtomic
  BY DEF Inv, CallsAtomic, MainAlone, MainBusy, FaultRunnable, AtWait
<1> QED BY <1>1, Invariance, PTL

\* A blocked caller has exactly one holder of its reply capability, and a
\* capability never outlives its call, whatever kills intervene.
THEOREM RepliesHeldOnce == Spec => []ReplyHeldOnce
<1>1. Inv => ReplyHeldOnce
  BY DEF Inv
<1> QED BY <1>1, Invariance, PTL

\* Whatever kills intervene, the process a worker serves is there and waits for
\* the worker's answer; only a sleep or a read of the keyboard can have lost it,
\* and then the worker holds no capability with which it would answer another.
THEOREM JobsHaveCallers == Spec => []JobHasCaller
<1>1. Inv => JobHasCaller
  <2> SUFFICES ASSUME Inv, NEW w \in Workers, wpc[w] \in Serving
               PROVE  /\ job[w].call # "null"
                      /\ \/ rcap[w] = job[w].pid /\ proc[job[w].pid] = "reply"
                         \/ rcap[w] = None /\ job[w].call \in {"sleep", "stdin"}
    BY DEF JobHasCaller
  <2>1. busy[w]
    BY DEF Inv, BusyAccurate, Serving
  <2>2. job[w].call # "null"
    BY <2>1 DEF Inv, JobConsistent
  <2>3. job[w].pid \in Pids
    BY DEF Inv, TypeOK, Jobs
  <2>4. rcap[w] = job[w].pid => proc[job[w].pid] = "reply"
    BY <2>3 DEF Inv, ReplyHeldOnce
  <2> QED BY <2>2, <2>4 DEF Inv, OrphansWait
<1> QED BY <1>1, Invariance, PTL

\* Main searches for an idle worker in vain only when each worker is inside the
\* wait of a sleep or of a read, or was stopped: no worker is between its answer
\* and busy = 0 when a call reaches main, however many processes there are.
THEOREM SpinsOnlyWhenFull == Spec => []NoSpin
<1>1. Inv => NoSpin
  <2> SUFFICES ASSUME Inv, mpc = "dispatch", IdleWorkers = {}, NEW w \in Workers
               PROVE  \/ wpc[w] = "dead"
                      \/ wpc[w] \in {"block", "run"} /\ job[w].call \in {"sleep", "stdin"}
    BY DEF NoSpin, Spinning
  <2>1. busy[w]
    BY DEF IdleWorkers
  <2>2. wpc[w] # "wait"
    BY <2>1 DEF Inv, BusyAccurate, Signalling
  <2>3. AtWait(w)
    BY DEF Inv, MainAlone, MainBusy
  <2>4. wpc[w] = "block" => job[w].call \in {"sleep", "stdin"}
    BY DEF Inv, JobConsistent
  <2> QED BY <2>2, <2>3, <2>4 DEF AtWait
<1> QED BY <1>1, Invariance, PTL

\* A search for an idle worker that fails once never ends: while main searches no
\* other thread runs, and an interrupt alone makes no worker idle.
THEOREM SpinningIsFinal == Spec => SpinIsFinal
<1>1. Spinning /\ [Next]_vars => Spinning'
  <2> SUFFICES ASSUME Spinning, [Next]_vars PROVE Spinning'
    OBVIOUS
  <2>1. mpc = "dispatch" /\ IdleWorkers = {} /\ MainRunnable
    BY DEF Spinning, MainRunnable
  <2>2. CASE UNCHANGED vars
    BY <2>1, <2>2 DEF vars, Spinning, IdleWorkers
  <2>3. CASE DispatchSpin \/ AbortSpin
    BY <2>2, <2>3 DEF DispatchSpin, AbortSpin
  <2>4. CASE \E p \in Pids : UserCall(p) \/ UserFault(p)
    BY <2>1, <2>4 DEF UserCall, UserFault, UserMayRun
  <2>5. CASE Main
    BY <2>1, <2>5 DEF Main, MainReceive, HandleInline, HandleKill, HandleEnterFs,
       HandleLs, HandleExecve, HandleForWorker, Dispatch, Signal, MainLoop
  <2>6. CASE Fault
    BY <2>1, <2>6 DEF Fault, FaultReceive, FaultAlloc, FaultEnterFs, FaultReplaced,
       FaultNoPage, FaultOther, FaultCrash, FaultAbort, FaultLoop, FaultMayRun
  <2>7. CASE \E w \in Workers : Worker(w)
    BY <2>1, <2>7 DEF Worker, WorkerBegin, WorkerWaitAgain, WorkerLeaveFs, WorkerReply,
       WorkerCrash, WorkerAbort, WorkerDone, WorkerWait, WorkerMayRun
  <2>8. CASE \E w \in Workers : Interrupt(w)
    BY <2>1, <2>8 DEF Interrupt, Spinning, IdleWorkers
  <2> QED BY <2>2, <2>3, <2>4, <2>5, <2>6, <2>7, <2>8 DEF Next
<1> QED BY <1>1, PTL DEF Spec, SpinIsFinal

=============================================================================
