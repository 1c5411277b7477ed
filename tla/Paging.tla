------------------------------- MODULE Paging -------------------------------
(***************************************************************************)
(* Demand paging: the virtual frames (VFrame) of every process, the page-  *)
(* fault handler that gives them physical frames, the second-chance        *)
(* replacement of a process that has all its frames, and the swap files.   *)
(*                                                                         *)
(* Handlers are atomic with respect to each other and to the processes:    *)
(* module SysServer shows that the threads of the server exclude each      *)
(* other.  Only the replacement loop is taken step by step, for it has to  *)
(* terminate.                                                              *)
(*                                                                         *)
(* An address is a page number: 1 is HEAP_BASE_VADDR, PAGES the last page  *)
(* below STACK_TOP_VADDR, and 0 stands for whatever lies outside.  A       *)
(* process is well behaved: it uses its heap, pages 1 .. heapTop - 1 (at   *)
(* most HEAP_LIMIT), its stack, pages above HEAP_LIMIT, or address 0, to   *)
(* which it returns when main of the program ends.                         *)
(***************************************************************************)
EXTENDS Integers, FiniteSets

CONSTANTS
    Procs,           \* slots of proc_table
    PAGES,           \* pages between HEAP_BASE_VADDR and STACK_TOP_VADDR
    STACK_SIZE,      \* pages of the initial stack
    BOOT_FILES,      \* swap files found at boot
    Values, Unset,   \* page contents, and the content nobody relies on
    ServerValues,    \* what the server stores: values, or Unset if it need not be kept
    Sizes            \* bound: sets of processes and of values, the pages the heap may
                     \* take, the lowest page of the stack, the frames of a process

ASSUME PagingAssumption ==
    /\ PAGES \in Nat
    /\ STACK_SIZE \in Nat \ {0} /\ BOOT_FILES \in Nat
    /\ Unset \notin Values
    /\ ServerValues \subseteq Values \cup {Unset}
    /\ \A x \in Sizes :
          /\ x.procs \subseteq Procs /\ x.values \subseteq Values
          /\ x.heap \in Nat /\ x.frames \in Nat /\ x.stack \in Nat
          /\ STACK_SIZE <= x.frames
          /\ x.heap < x.stack /\ x.stack + STACK_SIZE <= PAGES + 1

Pages    == 1 .. PAGES
Contents == Values \cup {Unset}
Null     == 0   \* the NULL of a list of VFrames
NoFile   == -1  \* pagefile == NULL

InitialStack == PAGES - STACK_SIZE + 1 .. PAGES

VARIABLES
    status,       \* status[p]: "free", "run", "paging" while page_replace looks
                  \* for a frame for it, "blocked" by a fault never answered
    target,       \* the page a "paging" process faulted at
    heapTop,      \* heap_top, 0 in a fresh PCB
    frames,       \* the pages of p that have a VFrame
    vframes,      \* the first of them, in list order
    next,         \* the list
    twin,         \* expand_stack has put a second VFrame, without reservation, frame
                  \* or file, before the first, for a page that has one in the list
    replacer,     \* the hand of the second-chance clock
    used,         \* pframes_used
    inRAM, accessed, dirty, pagefile,   \* the fields of a VFrame
    pte,          \* the accessed and dirty bits the processor keeps
    ram,          \* contents of the frame mapped at a resident page
    inuse,        \* swap files in use
    pagefile_num, \* number of swap files
    disk,         \* their contents
    faultUp,      \* the page-fault thread has not crashed
    mainUp,       \* the system call thread has not crashed
    size,         \* bound: the member of Sizes chosen at the start
    mem           \* not in the code: what the process last stored in a page

listVars  == <<frames, vframes, next, twin>>
frameVars == <<inRAM, accessed, dirty, pagefile>>
fileVars  == <<inuse, pagefile_num, disk>>
upVars    == <<faultUp, mainUp>>
vars == <<status, target, heapTop, listVars, replacer, used, frameVars, pte,
          ram, fileVars, upVars, size, mem>>

HEAP_LIMIT     == size.heap
MAX_PFRAME_NUM == size.frames

Bits  == [accessed : BOOLEAN, dirty : BOOLEAN]
Clear == [accessed |-> FALSE, dirty |-> FALSE]
Files == 0 .. pagefile_num - 1

TypeOK ==
    /\ status \in [Procs -> {"free", "run", "paging", "blocked"}]
    /\ target \in [Procs -> Pages \cup {Null}]
    /\ heapTop \in [Procs -> 0 .. HEAP_LIMIT + 1]
    /\ frames \in [Procs -> SUBSET Pages]
    /\ vframes \in [Procs -> Pages \cup {Null}]
    /\ next \in [Procs -> [Pages -> Pages \cup {Null}]]
    /\ twin \in [Procs -> BOOLEAN]
    /\ replacer \in [Procs -> Pages \cup {Null}]
    /\ used \in [Procs -> 0 .. MAX_PFRAME_NUM]
    /\ inRAM \in [Procs -> [Pages -> BOOLEAN]]
    /\ accessed \in [Procs -> [Pages -> 0 .. 2]]
    /\ dirty \in [Procs -> [Pages -> 0 .. 2]]
    /\ pagefile_num \in Nat
    /\ inuse \in SUBSET Files
    /\ pagefile \in [Procs -> [Pages -> Files \cup {NoFile}]]
    /\ pte \in [Procs -> [Pages -> Bits]]
    /\ ram \in [Procs -> [Pages -> Contents]]
    /\ disk \in [Files -> Contents]
    /\ faultUp \in BOOLEAN /\ mainUp \in BOOLEAN
    /\ size \in Sizes
    /\ mem \in [Procs -> [Pages -> Contents]]

\* The same value for every page of every process.
Everywhere(x) == [p \in Procs |-> [a \in Pages |-> x]]

\* A zeroed process table, and the files of /swap (pagefile_init).
Init ==
    /\ status = [p \in Procs |-> "free"]
    /\ target = [p \in Procs |-> Null]
    /\ heapTop = [p \in Procs |-> 0]
    /\ frames = [p \in Procs |-> {}]
    /\ vframes = [p \in Procs |-> Null]
    /\ next = Everywhere(Null)
    /\ twin = [p \in Procs |-> FALSE]
    /\ replacer = [p \in Procs |-> Null]
    /\ used = [p \in Procs |-> 0]
    /\ inRAM = Everywhere(FALSE)
    /\ accessed = Everywhere(0) /\ dirty = Everywhere(0)
    /\ pagefile = Everywhere(NoFile)
    /\ pte = Everywhere(Clear)
    /\ ram = Everywhere(Unset) /\ mem = Everywhere(Unset)
    /\ inuse = {} /\ pagefile_num = BOOT_FILES
    /\ disk = [f \in Files |-> Unset]
    /\ faultUp = TRUE /\ mainUp = TRUE
    /\ size \in Sizes

-----------------------------------------------------------------------------
(***************************************************************************)
(* Processes start and end.                                                *)
(***************************************************************************)
\* No fault is being served, so other threads run.
Idle == \A p \in Procs : status[p] # "paging"

\* syscall_execve or load_shell: vspace_new_sized_stack maps the initial stack
\* and pushes one VFrame per page, lowest page first.
Exec(p) ==
    /\ mainUp /\ Idle /\ status[p] = "free"
    /\ status' = [status EXCEPT ![p] = "run"]
    /\ frames' = [frames EXCEPT ![p] = InitialStack]
    /\ vframes' = [vframes EXCEPT ![p] = PAGES]
    /\ next' = [next EXCEPT ![p] = [a \in Pages |->
                    IF a - 1 \in InitialStack THEN a - 1 ELSE Null]]
    /\ replacer' = [replacer EXCEPT ![p] = PAGES]
    /\ used' = [used EXCEPT ![p] = STACK_SIZE]
    /\ inRAM' = [inRAM EXCEPT ![p] = [a \in Pages |-> a \in InitialStack]]
    /\ UNCHANGED <<target, heapTop, twin, accessed, dirty, pagefile, pte, ram, mem,
                   fileVars, upVars>>

\* A page of p as in a zeroed PCB.
Wipe(f, p, x) == [f EXCEPT ![p] = [a \in Pages |-> x]]

\* syscall_kill: the swap files of the process are free again, its slot is
\* zeroed, its frames are gone.
Destroy(p) ==
    /\ status' = [status EXCEPT ![p] = "free"]
    /\ inuse' = inuse \ {pagefile[p][a] : a \in frames[p]}
    /\ heapTop' = [heapTop EXCEPT ![p] = 0]
    /\ frames' = [frames EXCEPT ![p] = {}]
    /\ vframes' = [vframes EXCEPT ![p] = Null]
    /\ next' = Wipe(next, p, Null)
    /\ twin' = [twin EXCEPT ![p] = FALSE]
    /\ replacer' = [replacer EXCEPT ![p] = Null]
    /\ used' = [used EXCEPT ![p] = 0]
    /\ inRAM' = Wipe(inRAM, p, FALSE)
    /\ accessed' = Wipe(accessed, p, 0) /\ dirty' = Wipe(dirty, p, 0)
    /\ pagefile' = Wipe(pagefile, p, NoFile)
    /\ pte' = Wipe(pte, p, Clear)
    /\ ram' = Wipe(ram, p, Unset) /\ mem' = Wipe(mem, p, Unset)
    /\ UNCHANGED <<target, pagefile_num, disk, upVars>>

Kill(p) == mainUp /\ Idle /\ status[p] # "free" /\ Destroy(p)

-----------------------------------------------------------------------------
(***************************************************************************)
(* The heap.                                                               *)
(***************************************************************************)
\* SYSCALL_BRK with 0.
BrkQuery(p) ==
    /\ mainUp /\ Idle /\ status[p] = "run"
    /\ heapTop' = [heapTop EXCEPT ![p] = 1]
    /\ UNCHANGED <<status, target, listVars, replacer, used, frameVars, pte,
                   ram, fileVars, upVars, mem>>

\* SYSCALL_BRK: one VFrame, without a frame, per new page.
Brk(p, n) ==
    LET top == heapTop[p]
        New == top .. top + n - 1
    IN  /\ mainUp /\ Idle /\ status[p] = "run" /\ top > 0
        /\ top + n <= HEAP_LIMIT + 1
        /\ heapTop' = [heapTop EXCEPT ![p] = top + n]
        /\ frames' = [frames EXCEPT ![p] = @ \cup New]
        /\ next' = [next EXCEPT ![p] = [a \in Pages |->
                       IF a = top THEN vframes[p]
                       ELSE IF a \in New THEN a - 1 ELSE @[a]]]
        /\ vframes' = [vframes EXCEPT ![p] = top + n - 1]
        /\ UNCHANGED <<status, target, twin, replacer, used, frameVars, pte, ram,
                       fileVars, upVars, mem>>

\* How the C library of a process uses the call: it asks for the break once,
\* before its first allocation, and then only raises it.
AsksOnce(p) == heapTop[p] = 0

-----------------------------------------------------------------------------
(***************************************************************************)
(* Memory accesses that hit a mapped page.                                 *)
(***************************************************************************)
Usable(p) == 1 .. heapTop[p] - 1 \cup size.stack .. PAGES

\* The processor sets both bits of the page table entry.
Store(p, a, v) ==
    /\ Idle /\ status[p] = "run" /\ inRAM[p][a]
    /\ ram' = [ram EXCEPT ![p][a] = v]
    /\ mem' = [mem EXCEPT ![p][a] = v]
    /\ pte' = [pte EXCEPT ![p][a] = [accessed |-> TRUE, dirty |-> TRUE]]
    /\ UNCHANGED <<status, target, heapTop, listVars, replacer, used, frameVars,
                   fileVars, upVars>>

Load(p, a) ==
    /\ Idle /\ status[p] = "run" /\ inRAM[p][a]
    /\ pte' = [pte EXCEPT ![p][a] = [accessed |-> TRUE, dirty |-> @.dirty]]
    /\ UNCHANGED <<status, target, heapTop, listVars, replacer, used, frameVars,
                   ram, fileVars, upVars, mem>>

\* A system call that fills a buffer of the caller (read, getcwd, ls, ps) maps
\* the frame into the server and writes there: the page table entry of the
\* process does not change.  A page without a frame has no capability to map:
\* the thread, main or a worker, writes through a null pointer and stops.
ServerStore(p, a, v) ==
    /\ mainUp /\ Idle /\ status[p] = "run" /\ a \in Usable(p)
    /\ IF inRAM[p][a]
       THEN /\ ram' = [ram EXCEPT ![p][a] = v]
            /\ mem' = [mem EXCEPT ![p][a] = v]
            /\ UNCHANGED <<mainUp, status>>
       ELSE /\ mainUp' \in BOOLEAN
            /\ status' = [status EXCEPT ![p] = "blocked"]
            /\ UNCHANGED <<ram, mem>>
    /\ UNCHANGED <<target, heapTop, listVars, replacer, used, frameVars, pte,
                   fileVars, faultUp>>

-----------------------------------------------------------------------------
(***************************************************************************)
(* Page faults: handle_vmfault.                                            *)
(***************************************************************************)
\* The fault of p at a page it may use, or at address 0.
Faults(p, a) ==
    /\ Idle /\ status[p] = "run"
    /\ a \in Usable(p) => ~inRAM[p][a]

\* Nobody receives the fault message any more.
FaultIgnored(p) ==
    /\ ~faultUp /\ \E a \in Usable(p) \cup {0} : Faults(p, a)
    /\ status' = [status EXCEPT ![p] = "blocked"]
    /\ UNCHANGED <<target, heapTop, listVars, replacer, used, frameVars, pte,
                   ram, fileVars, upVars, mem>>

\* alloc_frame: a new frame ...
TakeFrame_uncounted(p, a) ==
    /\ inRAM' = [inRAM EXCEPT ![p][a] = TRUE]
    /\ ram' = [ram EXCEPT ![p][a] = Unset]
    /\ pte' = [pte EXCEPT ![p][a] = Clear]
    /\ UNCHANGED <<used, status, target, accessed, dirty>>

TakeFrame(p, a) ==
    /\ used' = [used EXCEPT ![p] = @ + 1]
    /\ inRAM' = [inRAM EXCEPT ![p][a] = TRUE]
    /\ ram' = [ram EXCEPT ![p][a] = Unset]
    /\ pte' = [pte EXCEPT ![p][a] = Clear]
    /\ UNCHANGED <<status, target, accessed, dirty>>

\* ... or page_replace, its first loop: update dirty and accessed information.
BeginReplace(p, a) ==
    /\ status' = [status EXCEPT ![p] = "paging"]
    /\ target' = [target EXCEPT ![p] = a]
    /\ accessed' = [accessed EXCEPT ![p] = [b \in Pages |->
          IF inRAM[p][b] THEN (IF pte[p][b].accessed THEN 2 ELSE 0) ELSE @[b]]]
    /\ dirty' = [dirty EXCEPT ![p] = [b \in Pages |->
          IF inRAM[p][b] THEN (IF pte[p][b].dirty THEN 2 ELSE 0) ELSE @[b]]]
    /\ UNCHANGED <<used, inRAM, ram, pte>>

AllocFrame_late(p, a) ==
    IF used[p] <= MAX_PFRAME_NUM THEN TakeFrame(p, a) ELSE BeginReplace(p, a)

AllocFrame(p, a) ==
    IF used[p] < MAX_PFRAME_NUM THEN TakeFrame(p, a) ELSE BeginReplace(p, a)

\* The condition under which handle_vmfault takes a fault for a growing stack.
AboveHeap(p, a) == a >= heapTop[p] /\ a \in Pages

\* expand_stack.
ExpandStack(p, a) ==
    /\ faultUp /\ Faults(p, a) /\ AboveHeap(p, a) /\ a \notin frames[p]
    /\ frames' = [frames EXCEPT ![p] = @ \cup {a}]
    /\ next' = [next EXCEPT ![p][a] = vframes[p]]
    /\ vframes' = [vframes EXCEPT ![p] = a]
    /\ AllocFrame(p, a)
    /\ UNCHANGED <<heapTop, twin, replacer, pagefile, fileVars, upVars, mem>>

\* expand_stack for a stack page that was swapped out: its range is reserved
\* already, so the new VFrame in the list has a null reservation, and
\* alloc_frame reads through it after it has counted a frame, or page_replace
\* after it has taken one from another page (ReplaceFails).  The thread has no
\* fault handler and stops, with the process unanswered.
ExpandStackFails(p, a) ==
    /\ faultUp /\ Faults(p, a) /\ AboveHeap(p, a) /\ a \in frames[p]
    /\ twin' = [twin EXCEPT ![p] = TRUE]
    /\ IF used[p] < MAX_PFRAME_NUM
       THEN /\ used' = [used EXCEPT ![p] = @ + 1]
            /\ faultUp' = FALSE
            /\ status' = [status EXCEPT ![p] = "blocked"]
            /\ UNCHANGED <<target, inRAM, accessed, dirty, pte, ram>>
       ELSE BeginReplace(p, a) /\ UNCHANGED faultUp
    /\ UNCHANGED <<heapTop, frames, vframes, next, replacer, pagefile, fileVars,
                   mainUp, mem>>

\* A heap page, touched for the first time or swapped out.
FaultHeap(p, a) ==
    /\ faultUp /\ Faults(p, a) /\ ~AboveHeap(p, a) /\ a \in frames[p]
    /\ AllocFrame(p, a)
    /\ UNCHANGED <<heapTop, listVars, replacer, pagefile, fileVars, upVars, mem>>

\* No VFrame: a process that jumped to 0 has ended, any other stays blocked.
FaultNoPage(p) ==
    /\ faultUp /\ Faults(p, 0)
    /\ \/ Destroy(p)
       \/ /\ status' = [status EXCEPT ![p] = "blocked"]
          /\ UNCHANGED <<target, heapTop, listVars, replacer, used, frameVars,
                         pte, ram, fileVars, upVars, mem>>

-----------------------------------------------------------------------------
(***************************************************************************)
(* page_replace, from the search for a victim on.                          *)
(***************************************************************************)
\* while (replaced_page == NULL): the victim has both bits below 2.
Evictable(p, a) == inRAM[p][a] /\ accessed[p][a] < 2 /\ dirty[p][a] < 2

Advance_stuck(p, r) == IF next[p][r] # Null THEN next[p][r] ELSE r
\* The hand goes round the list.  (A twin at its head has no frame: the hand
\* passes it without effect.)
Advance(p, r) == IF next[p][r] # Null THEN next[p][r] ELSE vframes[p]

\* One iteration that does not find the victim: a second chance, and the hand
\* moves on.
Sweep(p) ==
    LET r == replacer[p] IN
    /\ status[p] = "paging" /\ ~Evictable(p, r)
    /\ IF inRAM[p][r] /\ dirty[p][r] = 2
       THEN dirty' = [dirty EXCEPT ![p][r] = 1] /\ UNCHANGED accessed
       ELSE IF inRAM[p][r]
       THEN accessed' = [accessed EXCEPT ![p][r] = 1] /\ UNCHANGED dirty
       ELSE UNCHANGED <<accessed, dirty>>
    /\ replacer' = [replacer EXCEPT ![p] = Advance(p, r)]
    /\ UNCHANGED <<status, target, heapTop, listVars, used, inRAM, pagefile, pte,
                   ram, fileVars, upVars, mem>>

FreeFiles_any == Files
FreeFiles == Files \ inuse

\* get_pagefile: the first file of the list not in use, and the list has the
\* newest file first; without one, a new file, named by its number.
GetPagefile(f) ==
    IF FreeFiles # {}
    THEN f \in FreeFiles /\ \A g \in FreeFiles : g <= f
    ELSE f = pagefile_num

MustSave_new(p, v) == pagefile[p][v] = NoFile
\* save: modified since it was mapped, or never saved.
MustSave(p, v) == dirty[p][v] # 0 \/ pagefile[p][v] = NoFile

\* The victim gets a swap file, if it has none, and is saved there if it was
\* modified or never saved.
SaveVictim(p, v) ==
    \E f \in 0 .. pagefile_num :
        /\ IF pagefile[p][v] = NoFile THEN GetPagefile(f) ELSE f = pagefile[p][v]
        /\ pagefile' = [pagefile EXCEPT ![p][v] = f]
        /\ inuse' = inuse \cup {f}
        /\ pagefile_num' = IF f = pagefile_num THEN f + 1 ELSE pagefile_num
        /\ disk' = [g \in 0 .. pagefile_num' - 1 |->
                      IF g = f /\ MustSave(p, v) THEN ram[p][v] ELSE disk[g]]

\* The rest of page_replace: save the victim, unmap it, fill the frame from the
\* swap file of the target, if it has one, and map it there.
Replace(p) ==
    LET v == replacer[p]
        a == target[p]
    IN  /\ status[p] = "paging" /\ Evictable(p, v) /\ ~twin[p]
        /\ SaveVictim(p, v)
        /\ inRAM' = [inRAM EXCEPT ![p][v] = FALSE, ![p][a] = TRUE]
        /\ ram' = [ram EXCEPT ![p][a] = IF pagefile[p][a] # NoFile
                                        THEN disk'[pagefile[p][a]] ELSE ram[p][v]]
        /\ pte' = [pte EXCEPT ![p][a] = Clear]
        /\ status' = [status EXCEPT ![p] = "run"]
        /\ target' = [target EXCEPT ![p] = Null]
        /\ UNCHANGED <<heapTop, listVars, replacer, used, accessed, dirty,
                       upVars, mem>>

\* The same for a VFrame without reservation: the victim is saved and unmapped,
\* and then the thread stops with its frame in hand.
ReplaceFails(p) ==
    LET v == replacer[p] IN
    /\ status[p] = "paging" /\ Evictable(p, v) /\ twin[p]
    /\ SaveVictim(p, v)
    /\ inRAM' = [inRAM EXCEPT ![p][v] = FALSE]
    /\ faultUp' = FALSE
    /\ status' = [status EXCEPT ![p] = "blocked"]
    /\ target' = [target EXCEPT ![p] = Null]
    /\ UNCHANGED <<heapTop, listVars, replacer, used, accessed, dirty, pte, ram,
                   mainUp, mem>>

-----------------------------------------------------------------------------
Step(p) ==
    \/ Exec(p) \/ Kill(p)
    \/ AsksOnce(p) /\ BrkQuery(p)
    \/ \E n \in 1 .. HEAP_LIMIT : Brk(p, n)
    \/ \E a \in Pages, v \in size.values : Store(p, a, v)
    \/ \E a \in Pages, v \in ServerValues : ServerStore(p, a, v)
    \/ \E a \in Pages : Load(p, a)
    \/ FaultIgnored(p) \/ FaultNoPage(p)
    \/ \E a \in Usable(p) : ExpandStack(p, a) \/ ExpandStackFails(p, a) \/ FaultHeap(p, a)
    \/ Sweep(p) \/ Replace(p) \/ ReplaceFails(p)

Next == UNCHANGED size /\ \E p \in size.procs : Step(p)

Spec == Init /\ [][Next]_vars

\* The page-fault thread outranks workers and processes: page_replace runs on.
\* (As long as main does not spin above it for want of a worker or after a
\* failed assertion: see SysServer.)
FairSpec ==
    /\ Spec
    /\ \A p \in Procs : WF_vars(UNCHANGED size /\ (Sweep(p) \/ Replace(p) \/ ReplaceFails(p)))

-----------------------------------------------------------------------------
(***************************************************************************)
(* Properties.                                                             *)
(***************************************************************************)
\* No process ever has more frames than its share, and pframes_used counts the
\* resident pages exactly: replacement trades one frame for another.  Only of
\* the process whose expand_stack stopped the page-fault thread one frame that
\* is counted is mapped nowhere.
Resident(p)  == {a \in Pages : inRAM[p][a]}
InHand(p)    == IF twin[p] /\ status[p] # "paging" THEN 1 ELSE 0
FramesCounted == \A p \in Procs : Cardinality(Resident(p)) + InHand(p) = used[p]

\* No two pages, of one process or of two, share a swap file, and a file in use
\* belongs to a page: swap files are neither overwritten by others nor leaked
\* when processes end.
Owners(f) == {o \in Procs \X Pages : pagefile[o[1]][o[2]] = f}
FilesOwned ==
    \A f \in Files : Cardinality(Owners(f)) = IF f \in inuse THEN 1 ELSE 0

\* Paging is transparent: a resident page holds what was last stored in it, and
\* the swap file of a page that is not resident does.  (Only for what the
\* process itself has stored, see ServerValues.)
Transparent ==
    \A p \in Procs, a \in Pages : mem[p][a] # Unset =>
        IF inRAM[p][a] THEN ram[p][a] = mem[p][a]
        ELSE pagefile[p][a] # NoFile /\ disk[pagefile[p][a]] = mem[p][a]

\* The search for a victim terminates: every resident page that is passed loses
\* a bit, and the list closes on itself.  The process then runs on, unless the
\* page was one that expand_stack cannot give a frame.
SweepEnds ==
    \A p \in Procs : status[p] = "paging" ~>
        status[p] = "run" \/ (status[p] = "blocked" /\ twin[p] /\ ~faultUp)

=============================================================================
