-------------------------------- MODULE Timer --------------------------------
(***************************************************************************)
(* Sleeping workers and the timer they share (timer.c, with the parts of   *)
(* libsel4platsupport and libplatsupport it calls).  All sleepers wait for *)
(* one notification; an interrupt wakes the first of them, and that one    *)
(* acknowledges it.  The HPET is set for one interrupt at a time: the      *)
(* sleeper that handles an interrupt sets it for the next.  The PIT, used  *)
(* on a machine without an HPET, is periodic.                              *)
(***************************************************************************)
EXTENDS Integers, Sequences

CONSTANTS
    Workers,
    MAX_TICKS,  \* bound: interrupts a sleep counts
    RETRIES     \* turns of the loop that sets the HPET, 10 in the code

ASSUME TimerAssumption == MAX_TICKS \in Nat /\ RETRIES \in Nat \ {0}

VARIABLES
    type,       \* "HPET" or "PIT"
    comparator, \* who has set the HPET: a worker, "init" or "none" when it has fired
    masked,     \* the interrupt is masked
    active,     \* timer_ntfn is signalled and nobody waits
    waiters,    \* the workers that wait for it, in order
    pc, count, milisec, retries,  \* of each worker
    passed,     \* the workers whose timeout has passed
    halted      \* the timeout could not be set: ZF_LOGF aborts

hardware == <<type, comparator, masked, active, waiters>>
vars == <<hardware, pc, count, milisec, retries, passed, halted>>

-----------------------------------------------------------------------------

\* handleInterrupt of the kernel: the signal, and the mask.
handleInterrupt ==
    /\ masked' = TRUE
    /\ IF waiters = << >> THEN active' = TRUE /\ UNCHANGED <<waiters, pc>>
       ELSE /\ pc' = [pc EXCEPT ![Head(waiters)] = "handle"]
            /\ waiters' = Tail(waiters)
            /\ UNCHANGED active

\* The time of the HPET comes.  An edge while it is masked is lost.
FireHpet ==
    /\ type = "HPET" /\ comparator # "none"
    /\ comparator' = "none"
    /\ passed' = passed \cup ({comparator} \cap Workers)
    /\ IF masked THEN UNCHANGED <<masked, active, waiters, pc>> ELSE handleInterrupt
    /\ UNCHANGED <<type, count, milisec, retries, halted>>

FirePit ==
    /\ type = "PIT" /\ ~masked
    /\ handleInterrupt
    /\ UNCHANGED <<type, comparator, count, milisec, retries, passed, halted>>

\* The time of a worker comes whose timeout another worker has overwritten.
Elapse(w) ==
    /\ pc[w] = "check" /\ comparator # w
    /\ passed' = passed \cup {w}
    /\ UNCHANGED <<hardware, pc, count, milisec, retries, halted>>

-----------------------------------------------------------------------------
(***************************************************************************)
(* timer_sleep.                                                            *)
(***************************************************************************)
Goto(w, from, to) == pc[w] = from /\ pc' = [pc EXCEPT ![w] = to]

Sleep(w) ==
    /\ Goto(w, "idle", "test")
    /\ \E n \in 0 .. MAX_TICKS : milisec' = [milisec EXCEPT ![w] = n]
    /\ UNCHANGED <<hardware, count, retries, passed, halted>>

\* while (count < milisec) seL4_Wait(...); after the loop the reply
\* and the end of the locals.
Wait(w) ==
    /\ count[w] < milisec[w]
    /\ IF active THEN Goto(w, "test", "handle") /\ active' = FALSE /\ UNCHANGED waiters
       ELSE Goto(w, "test", "wait") /\ waiters' = Append(waiters, w) /\ UNCHANGED active
    /\ UNCHANGED <<type, comparator, masked, count, milisec, retries, passed, halted>>

Return(w) ==
    /\ count[w] >= milisec[w]
    /\ Goto(w, "test", "idle")
    /\ count' = [count EXCEPT ![w] = 0] /\ milisec' = [milisec EXCEPT ![w] = 0]
    /\ UNCHANGED <<hardware, retries, passed, halted>>

\* sel4platsupport_irq_handle calls handle_irq, which acknowledges first; for
\* the PIT nothing more is to do.
Acknowledge(w) ==
    /\ masked' = FALSE
    /\ IF type = "HPET"
       THEN Goto(w, "handle", "set") /\ UNCHANGED count
       ELSE Goto(w, "handle", "test") /\ count' = [count EXCEPT ![w] = @ + 1]
    /\ UNCHANGED <<type, comparator, active, waiters, milisec, retries, passed, halted>>

\* hpet_set_timeout writes the comparator, in time or, if the worker did not
\* run for long after it read the clock, too late: the HPET will not fire.
SetTimeout(w) ==
    /\ Goto(w, "set", "check")
    /\ \/ comparator' = w /\ passed' = passed \ {w}
       \/ comparator' = "none" /\ passed' = passed \cup {w}
    /\ retries' = [retries EXCEPT ![w] = @ - 1]
    /\ UNCHANGED <<type, masked, active, waiters, count, milisec, halted>>

\* It reads the clock again: ETIME if the time has passed, and the loop of
\* hpet_ltimer_handle_irq tries again, or gives up.
CheckTimeout_once(w) ==
    /\ Goto(w, "check", "test")
    /\ count' = [count EXCEPT ![w] = @ + 1]
    /\ passed' = passed \ {w}
    /\ UNCHANGED <<hardware, milisec, retries, halted>>

CheckTimeout(w) ==
    /\ \/ /\ w \notin passed
          /\ Goto(w, "check", "test")
          /\ count' = [count EXCEPT ![w] = @ + 1]
          /\ retries' = [retries EXCEPT ![w] = RETRIES]
          /\ UNCHANGED halted
       \/ /\ w \in passed
          /\ Goto(w, "check", "set")
          /\ halted' = (retries[w] = 0)
          /\ UNCHANGED <<count, retries>>
    /\ passed' = passed \ {w}
    /\ UNCHANGED <<hardware, milisec>>

-----------------------------------------------------------------------------

\* timer_init has registered the interrupt and set the first timeout.
Init ==
    /\ type \in {"HPET", "PIT"}
    /\ comparator = IF type = "HPET" THEN "init" ELSE "none"
    /\ masked = FALSE /\ active = FALSE /\ waiters = << >>
    /\ pc = [w \in Workers |-> "idle"]
    /\ count = [w \in Workers |-> 0] /\ milisec = [w \in Workers |-> 0]
    /\ retries = [w \in Workers |-> RETRIES]
    /\ passed = {} /\ halted = FALSE

Fire == FireHpet \/ FirePit

Step(w) == Wait(w) \/ Return(w) \/ Acknowledge(w) \/ SetTimeout(w) \/ CheckTimeout(w)

Next ==
    /\ ~halted
    /\ Fire \/ \E w \in Workers : Sleep(w) \/ Step(w) \/ Elapse(w)

\* A worker that is not blocked runs, and time passes.  (As long as main does
\* not spin above the workers for want of one or after a failed assertion: see
\* SysServer.)
Fairness == WF_vars(~halted /\ Fire) /\ \A w \in Workers : WF_vars(~halted /\ Step(w))

Spec == Init /\ [][Next]_vars /\ Fairness

-----------------------------------------------------------------------------
(***************************************************************************)
(* Properties.                                                             *)
(***************************************************************************)

\* Every sleep ends: the sleepers of timer_sleep pass the one interrupt from
\* hand to hand, and none of them waits for an interrupt that no one has
\* acknowledged or set a timeout for, unless setting it fails for good.  (Main
\* leaves the processor to workers: see Fairness.)
SleepEnds == \A w \in Workers : pc[w] # "idle" ~> pc[w] = "idle" \/ halted

=============================================================================
