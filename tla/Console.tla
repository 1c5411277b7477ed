------------------------------- MODULE Console -------------------------------
(***************************************************************************)
(* The keyboard and standard input: the thread that handles a scan code    *)
(* (keyboard.c), the ring buffer it fills, the notification that a line is *)
(* there, and the workers that serve read (readstdin_handler).  Nothing    *)
(* excludes them from one another.  The keyboard thread has the highest    *)
(* priority, so a scan code is handled in one step; it comes between any   *)
(* two steps of a reader, which are the accesses to buffer_head that the   *)
(* code makes.                                                             *)
(***************************************************************************)
EXTENDS Integers, Sequences, FiniteSets

CONSTANTS
    Readers,             \* workers that serve reads
    MAX_KEYBUFFER_SIZE,  \* places of the ring buffer
    Keys,                \* scan codes of keys that have a character: letters
    Enter,               \* and the one whose character is a new line
    Uses                 \* bound: sets of readers and of lengths they ask for, and
                         \* whether the keys that change the case are used

ASSUME ConsoleAssumption ==
    /\ MAX_KEYBUFFER_SIZE \in Nat \ {0, 1}
    /\ Enter \in Keys
    /\ Uses \subseteq [readers : SUBSET Readers, lens : SUBSET Nat, caseKeys : BOOLEAN]

VARIABLES
    key_buffer, buffer_head, buffer_tail,
    caps, shift,   \* state of the Caps Lock key and of the two shift keys
    pending,       \* buf_full_ntfn is signalled and nobody waits
    waiters,       \* the readers that wait for it, in order
    pc, max_len,   \* what a reader does, and how much it is to read
    place,         \* the place it is about to copy
    read_len,      \* how many characters it has copied
    use,           \* bound: the member of Uses chosen at the start
    queue,         \* the characters typed and not yet deleted, read or dropped
    due,           \* the one of them that a reader is to copy next
    torn           \* a thread has changed the buffer under a step of another

keyboard == <<caps, shift>>
buffer == <<key_buffer, buffer_head, buffer_tail>>
reader == <<pc, max_len, place, read_len, due>>
vars == <<buffer, keyboard, pending, waiters, reader, use, queue, torn>>

SIZE == MAX_KEYBUFFER_SIZE

BUFFER_FULL == (buffer_tail + 1) % SIZE = buffer_head
BUFFER_EMPTY == buffer_head = buffer_tail

\* code_to_char: a letter is a capital if exactly one of Caps Lock (bit 1 of
\* caps) and shift is on; a new line is one in every row of keyTable.
Chars == [key : Keys, capital : BOOLEAN]
code_to_char(code) ==
    [key |-> code, capital |-> code # Enter /\ (caps \in {2, 3} <=> shift = {})]

-----------------------------------------------------------------------------

\* seL4_Signal(buf_full_ntfn): the first reader that waits goes on.
Signal ==
    IF waiters = <<>> THEN pending' = TRUE /\ UNCHANGED <<waiters, pc>>
    ELSE /\ pc' = [pc EXCEPT ![Head(waiters)] = "test"]
         /\ waiters' = Tail(waiters)
         /\ UNCHANGED pending

\* The races that break the buffer.  A key comes while buffer_head is one too
\* high and not reduced, so that the tests for full and empty go wrong; or
\* Backspace takes the one character a reader has found but not yet taken.
Unreduced == buffer_head = SIZE
TakesFound == Len(queue) = 1 /\ \E r \in Readers : pc[r] = "advance"

(***************************************************************************)
(* kbd_irq_handle_mainloop for a key that has a character: it is stored,   *)
(* and a new line, or any key when the buffer is full, signals.            *)
(***************************************************************************)
StoreKey(code) ==
    /\ ~BUFFER_FULL
    /\ key_buffer' = [key_buffer EXCEPT ![buffer_tail] = code_to_char(code)]
    /\ buffer_tail' = (buffer_tail + 1) % SIZE
    /\ queue' = Append(queue, code_to_char(code))
    /\ IF code = Enter THEN Signal ELSE UNCHANGED <<pending, waiters, pc>>
    /\ torn' = Unreduced
    /\ UNCHANGED <<buffer_head, keyboard, max_len, place, read_len, due>>

DropKey(code) ==
    /\ BUFFER_FULL
    /\ Signal
    /\ UNCHANGED <<buffer, keyboard, max_len, place, read_len, due, queue, torn>>

\* Backspace takes the last character back.
Backspace_any ==
    /\ buffer_tail' = (buffer_tail + SIZE - 1) % SIZE
    /\ queue' = IF queue = <<>> THEN <<>> ELSE SubSeq(queue, 1, Len(queue) - 1)
    /\ torn' = (Unreduced \/ TakesFound)
    /\ UNCHANGED <<key_buffer, buffer_head, keyboard, pending, waiters, reader>>

Backspace ==
    /\ buffer_tail' = IF BUFFER_EMPTY THEN buffer_tail ELSE (buffer_tail + SIZE - 1) % SIZE
    /\ queue' = IF queue = <<>> THEN <<>> ELSE SubSeq(queue, 1, Len(queue) - 1)
    /\ torn' = (Unreduced \/ TakesFound)
    /\ UNCHANGED <<key_buffer, buffer_head, keyboard, pending, waiters, reader>>

\* update_kbd_state: Caps Lock passes through four states, so that a key that
\* is held down and repeats its code counts once; each shift key is its own.
CapsPress == caps' = CASE caps = 0 -> 2 [] caps = 3 -> 1 [] OTHER -> caps
CapsRelease == caps' = CASE caps = 2 -> 3 [] caps = 1 -> 0 [] OTHER -> caps

CaseKey ==
    /\ use.caseKeys
    /\ \/ (CapsPress \/ CapsRelease) /\ UNCHANGED shift
       \/ \E k \in {"left", "right"} : shift' \in {shift \cup {k}, shift \ {k}} /\ UNCHANGED caps
    /\ UNCHANGED <<buffer, pending, waiters, reader, queue, torn>>

-----------------------------------------------------------------------------
(***************************************************************************)
(* readstdin_handler.                                                      *)
(***************************************************************************)
\* Two readers at a time: one comes in while another is between its test and
\* the reduction of buffer_head.
Overlap(r) == \E x \in Readers \ {r} : pc[x] \in {"advance", "copy", "wrap"}

\* buffer_tail = buffer_head: what was typed before is dropped.
ReadStart(r) ==
    /\ pc[r] = "idle"
    /\ pc' = [pc EXCEPT ![r] = "enter"]
    /\ buffer_tail' = buffer_head
    /\ queue' = <<>>
    /\ \E n \in use.lens : max_len' = [max_len EXCEPT ![r] = n]
    /\ read_len' = [read_len EXCEPT ![r] = 0]
    /\ torn' = Overlap(r)
    /\ UNCHANGED <<key_buffer, buffer_head, keyboard, pending, waiters, place, due>>

\* seL4_Wait(buf_full_ntfn): a pending signal, also one left by a key that came
\* after the buffer was dropped, ends the wait at once.
ReadWait_forget(r) ==
    /\ pc[r] = "enter"
    /\ pending' = FALSE
    /\ pc' = [pc EXCEPT ![r] = "wait"] /\ waiters' = Append(waiters, r)
    /\ UNCHANGED <<buffer, keyboard, max_len, place, read_len, queue, due, torn>>

ReadWait(r) ==
    /\ pc[r] = "enter"
    /\ \/ pending /\ pending' = FALSE /\ pc' = [pc EXCEPT ![r] = "test"] /\ UNCHANGED waiters
       \/ ~pending /\ pc' = [pc EXCEPT ![r] = "wait"] /\ waiters' = Append(waiters, r) /\ UNCHANGED pending
    /\ UNCHANGED <<buffer, keyboard, max_len, place, read_len, queue, due, torn>>

\* while (buffer_head != buffer_tail && read_len < max_len)
ReadTest(r) ==
    /\ pc[r] = "test"
    /\ pc' = [pc EXCEPT ![r] = IF ~BUFFER_EMPTY /\ read_len[r] < max_len[r] THEN "advance" ELSE "reply"]
    /\ torn' = Overlap(r)
    /\ UNCHANGED <<buffer, keyboard, pending, waiters, max_len, place, read_len, queue, due>>

\* buffer_head++ of key_buffer[buffer_head++]
ReadAdvance(r) ==
    /\ pc[r] = "advance"
    /\ place' = [place EXCEPT ![r] = buffer_head]
    /\ buffer_head' = buffer_head + 1
    /\ due' = [due EXCEPT ![r] = IF queue = <<>> THEN @ ELSE Head(queue)]
    /\ queue' = IF queue = <<>> THEN <<>> ELSE Tail(queue)
    /\ pc' = [pc EXCEPT ![r] = "copy"]
    /\ torn' = Overlap(r)
    /\ UNCHANGED <<key_buffer, buffer_tail, keyboard, pending, waiters, max_len, read_len>>

\* read_data[read_len] = key_buffer[...]
ReadCopy(r) ==
    /\ pc[r] = "copy"
    /\ pc' = [pc EXCEPT ![r] = "wrap"]
    /\ UNCHANGED <<buffer, keyboard, pending, waiters, max_len, place, read_len, queue, due, torn>>

\* buffer_head %= MAX_KEYBUFFER_SIZE; read_len += 1
ReadWrap_still(r) ==
    /\ pc[r] = "wrap"
    /\ buffer_head' = buffer_head % SIZE
    /\ pc' = [pc EXCEPT ![r] = "test"]
    /\ torn' = Overlap(r)
    /\ UNCHANGED <<key_buffer, buffer_tail, keyboard, pending, waiters, max_len, place, read_len, queue, due>>

ReadWrap(r) ==
    /\ pc[r] = "wrap"
    /\ buffer_head' = buffer_head % SIZE
    /\ read_len' = [read_len EXCEPT ![r] = @ + 1]
    /\ pc' = [pc EXCEPT ![r] = "test"]
    /\ torn' = Overlap(r)
    /\ UNCHANGED <<key_buffer, buffer_tail, keyboard, pending, waiters, max_len, place, queue, due>>

ReadReply(r) ==
    /\ pc[r] = "reply"
    /\ pc' = [pc EXCEPT ![r] = "idle"]
    /\ UNCHANGED <<buffer, keyboard, pending, waiters, max_len, place, read_len, queue, due, torn>>

-----------------------------------------------------------------------------

Init ==
    /\ key_buffer = [k \in 0 .. SIZE - 1 |-> [key |-> Enter, capital |-> FALSE]]
    /\ buffer_head = 0 /\ buffer_tail = 0
    /\ caps = 0 /\ shift = {}
    /\ pending = FALSE /\ waiters = <<>>
    /\ pc = [r \in Readers |-> "idle"]
    /\ max_len = [r \in Readers |-> 0]
    /\ place = [r \in Readers |-> 0]
    /\ read_len = [r \in Readers |-> 0]
    /\ due = [r \in Readers |-> key_buffer[0]]
    /\ use \in Uses
    /\ queue = <<>>
    /\ torn = FALSE

ReadStep(r) == ReadWait(r) \/ ReadTest(r) \/ ReadAdvance(r) \/ ReadCopy(r) \/ ReadWrap(r) \/ ReadReply(r)

\* After a race the contents of the buffer mean nothing, and the model ends.
Next ==
    /\ ~torn
    /\ UNCHANGED use
    /\ \/ \E code \in Keys : StoreKey(code) \/ DropKey(code)
       \/ Backspace
       \/ CaseKey
       \/ \E r \in use.readers : ReadStart(r) \/ ReadStep(r)

\* A worker that is not blocked runs: the keyboard thread blocks after each key,
\* and workers of equal priority take turns.  (As long as main does not spin
\* above them for want of a worker or after a failed assertion: see SysServer.)
Fairness == \A r \in Readers : WF_vars(~torn /\ UNCHANGED use /\ ReadStep(r))

Spec == Init /\ [][Next]_vars /\ Fairness

-----------------------------------------------------------------------------
(***************************************************************************)
(* Properties.                                                             *)
(***************************************************************************)

Content ==
    [k \in 1 .. (buffer_tail - buffer_head) % SIZE |-> key_buffer[(buffer_head + k - 1) % SIZE]]

\* The ring buffer is a queue of at most MAX_KEYBUFFER_SIZE - 1 characters, and
\* a reader copies them in the order in which they were typed and not taken
\* back, while keys are handled between any two steps of its loop, also
\* between buffer_head++ and the copy: the races named above are the only
\* ones there are.
QueueExact ==
    ~torn => /\ Content = queue
             /\ \A r \in Readers : pc[r] = "copy" => key_buffer[place[r]] = due[r]

\* No wakeup is lost: while the only reader waits in readstdin_handler,
\* buf_full_ntfn is not signalled and no new line is in the buffer, also when
\* the line was typed after the reader dropped the buffer and before it waits.
LineWakes ==
    \A r \in Readers :
        use.readers = {r} /\ pc[r] = "wait" =>
            ~pending /\ \A k \in DOMAIN Content : Content[k].key # Enter

\* A read that has been woken returns, however fast keys refill the buffer.
ReadReturns == \A r \in Readers : pc[r] \notin {"idle", "enter", "wait"} ~> pc[r] = "idle" \/ torn

=============================================================================
