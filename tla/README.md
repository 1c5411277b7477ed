# Formal models of seL4sys

seL4sys (`src/projects/seL4sys`) is a small operating system on the seL4 kernel
(ia32, one core).  One root server offers processes, demand paging, files, a
console and a timer to user programs, which reach it by IPC.  This directory
holds TLA+ models of the server and of the parts of the kernel it relies on, what
TLC checks about them on small instances, and what TLAPS proves about them for
instances of every size.

## The system and its parts

| Part | Source (in `src/`) | Module |
|---|---|---|
| system call thread (main) | `projects/seL4sys/os/src/root.c`, `syscall_handler.c` | `SysServer` |
| worker pool | `projects/seL4sys/os/src/worker/sys_worker.c` | `SysServer` |
| process table: execve, kill, exit | `projects/seL4sys/os/src/process.c` | `SysServer` |
| page-fault thread | `projects/seL4sys/os/src/vm/vmfault_handler.c` | `SysServer` (thread), `Paging` (what it does) |
| server access to user memory | `projects/seL4sys/os/src/vm/mem_projection.c` | `Paging` |
| swap files | `projects/seL4sys/os/src/filesystem/pagefile.c` | `Paging` |
| block and inode bitmaps | `projects/seL4sys/os/src/filesystem/ext.c` | `Bitmap` |
| blocks of files | `projects/seL4sys/os/src/filesystem/ext.c` | `ExtFile`, `FileStore` |
| directories and inodes | `projects/seL4sys/os/src/filesystem/ext.c` | `Files`, `NameSpace` |
| file calls and file control blocks | `projects/seL4sys/os/src/filesystem/fs.c` | `Files` |
| layout of block groups | `projects/seL4sys/os/src/filesystem/ext.c` | `Layout` |
| disk driver | `projects/seL4sys/os/src/filesystem/disk.c` | `Disk` |
| keyboard and standard input | `projects/seL4sys/os/src/console/` | `Console` |
| timer | `projects/seL4sys/os/src/timer/timer.c`, `platsupport` | `Timer`; sleeping jobs in `SysServer` |
| kernel: endpoints, notifications, replies | `kernel/src/object/`, `kernel/src/api/` | `KernelIPC` |
| kernel: scheduler | `kernel/src/kernel/thread.c`, `fastpath/fastpath.c` | `Scheduler` |
| screen; rest of the kernel; libraries | | not modelled |

A process calls the server with `seL4_Call`.  Main answers short calls itself
and gives the others (sleep, console, files) to one of 8 workers together with
the reply capability.  A page fault goes to a thread of its own, which may
replace a page and then uses swap files, that is, the file system.  The server
has no lock: main runs at priority 255, the page-fault thread at 254, workers at
253 and processes at 1, and everything the threads share relies on that.

The modules rest on one another, from the bottom:

* `Scheduler` shows that the kernel runs a thread of the highest priority, and
  `KernelIPC` that a reply capability names one waiting caller.  `SysServer`
  assumes both.
* `SysServer` shows that the threads of the server exclude each other where they
  must.  `Paging`, `ExtFile`, `Files` and `Disk` take a whole handler, call or
  transfer as one step, or as the only thread that steps, because of this.
* `Timer` shows that sleeps end, which is the fairness of sleeping jobs in
  `SysServer`.  `Console` and `Timer` are where threads of the server are *not*
  excluded from one another, and they take the steps apart.
* `ExtFile` implements the block layer that `FileStore` describes, with all levels
  of pointers; `Files` is above it and has direct pointers, because what it is
  about includes pointers that are not the file's own.  Both allocate with the
  operators of `Bitmap`.

## Modules

### SysServer

State: the state of every process (`proc`), a program counter and the locals for
main (`mpc`, `msg`, `haveReply`, `mcap`, `mworker`), for every worker (`wpc`,
`busy`, `job`, `rcap`) and for the page-fault thread (`vpc`, `vcap`, `resume`).
`mcap`, `rcap` and `vcap` are where the kernel keeps the reply capability of a
blocked caller; `None` is an empty slot.

Each action is a stretch of code between two points where another thread may
intervene.  `UserCall` and `UserFault` are the processes; `MainReceive`,
`Handle...`, `Dispatch`, `Signal`, `MainLoop` are `handle_syscall_loop`,
`handle_syscall` and `sysworker_dispatch_thread`; `Worker...` are
`sysworker_loop` and the handlers it calls; `Interrupt` is the timer or the Enter
key; `Fault...` are `handle_vmfault_loop` and `handle_vmfault`.  The guards
`FaultMayRun`, `WorkerMayRun` and `UserMayRun` state the priorities: no thread
of a higher one is runnable.  Workers of equal priority interleave freely.
`DispatchSpin` is the turn of `while ((idle_worker = get_idle_worker()) ==
NULL);` that finds nothing.

A thread of the server can end in two ways.  `"dead"` is a thread the kernel has
stopped at an access it cannot make: a null pointer, a buffer on a page without a
frame.  `"abort"` is a failed assertion.  In this build `abort` is a loop, so such
a thread stays runnable and keeps every thread below it from running
(`AbortSpin`); in main, at 255, that is everything.

The constant `Calls` selects the calls of an instance.  `BadCalls` adds those
the server does not survive: an unknown call number, a `brk` below the top of
the heap, a buffer on a page without a frame, a swap file that does not fit.

### Paging

State: for every process its list of virtual frames in list order, the clock
hand, the fields of each `VFrame`, the bits the processor keeps for a resident
page, the contents of memory and of the swap files.  `mem` is not in the code: it
is what the process last stored, which paging must preserve.  `Exec` and `Kill`
create and end a process, `Brk` and `BrkQuery` are `SYSCALL_BRK`, `Load` and
`Store` are accesses that do not fault, `ServerStore` is a handler that writes
into the caller's memory through its own mapping, and the other actions are the
branches of `handle_vmfault`.  The loop of `page_replace` is one `Sweep` step per
turn, because it has to end; the rest of a replacement is one step, `Replace`.
A fault of a stack page that was swapped out puts a second `VFrame` for its range
into the list, without a reservation (`twin`).  `ExpandStackFails` and, at the
limit of frames, `ReplaceFails` go as far as the code does with it: the frame is
counted, or taken from its page, before the null reservation stops the thread.
`ServerValues` is what the server stores: with `Unset` alone nobody relies on
it, and with values the process does.

### Bitmap, ExtFile, FileStore

`Bitmap` has the search of `getAvailBlock` and `getAvailInode` and the release of
`setAllocBlock` and `setAllocInode` as operators on a set of marked entries and a
count.  The disk (8196 sectors) has one group, so the counts of the super block
and of the group are one number.  If the search ends at a full byte the shift
count in the code is -1; the processor takes it modulo 32 and no bit is set.

`ExtFile` has the inodes, the bitmap and the disk, whose blocks hold data or
pointers.  `allocBlock`, `writeBlock` and `freeLastBlock` (one turn of
`freeBlock`) are its actions; `BlockAt` is the way from an index to a block that
`readBlock` and `writeBlock` share, and `calNeededPointerBlocks`,
`allocLastBlock` and `EmptyTables` are the three places of the code that decide,
each for itself, where pointer blocks begin and end.  Pointers left in inodes and
on the disk by emptied files stay there, as in the code.

`FileStore` is what the block layer promises: a file is a sequence of blocks
that grows and shrinks at its end and is written in place.  `written` records the
last write in both modules, so the refinement also checks the index that is hit.

### Files, NameSpace

`Files` has the inodes and the two bitmaps, the contents of the blocks and the
file control blocks of processes.  `OpenFile`, `CreateFile`, `Unlink`, `Read`,
`Write`, `Seek`, `Close` and `Ls` are the calls of `fs.c`, `Kill` ends a process;
`readInode`, `allocInode` and `freeInode` are operators, `readfile` and
`writefile` take a block per turn as the code does.  A block is a sequence of
cells, and a cell a directory entry or data, since the code reads and writes
directories as files, and looks for names in files.  Inodes have direct pointers
only (`ExtFile` has the others).  A new inode keeps the pointers of the last one
`readInode` has read, blocks keep what they hold when they are freed, and reads
and writes follow a pointer whether or not it is below `blockCount`.  A pointer
that was never set leads to the super block; the server works on a copy of that in
memory, so no block of the model changes.  A name is a model value and a path a
sequence of names with or without a slash at the end; `Longer` says which names
begin with another, because the code compares only as many characters as the name
it looks for has.  `halted` names the call whose assertion failed: its worker does
not come back, and what the call has done so far stays.

Three variables are not in the code.  `want` is what processes have written, which
reads must return.  `lost` are the files that a block given to two files, or a
write to a block of another, has cost part of their contents.  `harm` is what the
code does not guard against and has happened:

| `harm` | What has happened |
|---|---|
| `half` | the search of a bitmap has failed, beyond half of the disk (`ext.c:380`, `961`) |
| `stray` | a write behind the block after the last went through a pointer that is not the file's (`fs.c:167`) |
| `copies` | a new block of a directory holds copies of entries: `memset` with its arguments swapped (`ext.c:1078`) |
| `below` | a file was created in one that is no directory (`ext.c:895`) |
| `dangling` | an open file was unlinked (`fs.c:116`) |
| `ghost` | a file was written to after it was unlinked, and has got a block |
| `overwritten` | a directory was written to (`fs.c:154`) |

None of it stops the model; each property says how much of it it survives.
`NameSpace` is what directories promise: names stand for files that exist, one
name each.

### Layout, Disk

`Layout` has no state of its own: it is the arithmetic of `calGroupNum`, `calGroupSize`,
`calInodesPerGroup`, `calBlocksPerGroup` and `initGroupHeader`, and the two ways
between an entry of a bitmap and its address.  `Disk` takes `read_disk` and
`write_disk` byte by byte and sector by sector, and `Crash` is a stop of the
machine between two sectors.  `sectorNum`, the size of the disk, is any size up to
`MAX_SECTOR`; the layout is examined at each, and transfers at one (`SECTORS`).

### Console

The ring buffer with its two indices, the keyboard thread, the notification and
the loop of `readstdin_handler`.  A scan code is one step, since the keyboard
thread has the highest priority; the steps of a reader are its accesses to
`buffer_head` and the wait, so that a key can come between dropping the buffer
(`ReadStart`) and waiting (`ReadWait`).  `queue` is not in the code: it is the line as typed.  Three races
break the buffer, and `torn` marks them and ends the behaviour: a key comes
between `buffer_head++` and its reduction to the size of the buffer, while it is
one too high; Backspace takes the one character a reader has found and not yet
taken; two readers are in the loop at once.

### Timer

The sleepers of `timer_sleep`, which share one notification: the interrupt masks
its line and wakes the first of them, that one acknowledges it and, with the
HPET, sets the next timeout.  Setting it may find that the time has passed
already and is tried again up to `RETRIES` times, after which the code aborts
(`halted`).  An edge while the line is masked is lost, as on the hardware.

### KernelIPC

The state of the kernel is one record, and a kernel entry is one step.
Operators named for the C functions (`sendIPC`, `receiveIPC`, `cancelIPC`,
`doReplyTransfer`, `sendSignal`, ...) take a state to the next; the actions are
the system calls, faults and invocations that use them, in the order in which
the code calls them.  A queue is a sequence of threads.  What a blocked thread's
state says of the object and the message is cleared when it stops being read.
Binding of notifications and cancelling of badged sends are entries of the
kernel that this server does not use.  Two details of the code are kept: the
fault of a thread that is suspended while it waits to send stays recorded, and
binding a notification that is already active does not wake a thread that is
waiting in a receive.

### Scheduler

Ready queues, the two-level bitmap over priorities, the pending action and
`schedule`, with the fast paths of call and reply-receive that switch without
it.  Any blocked thread may be woken: what wakes it is `KernelIPC`'s subject.

## Runs

| Run | Instance | Checks | Result |
|---|---|---|---|
| `kill` | 3 processes, 2 workers, kill, bad calls | `TypeOK`, `FsExclusive`, `CallsAtomic`, `ReplyHeldOnce`, `JobHasCaller`, `NoSpin`, `SpinIsFinal`, `Inv` | holds, 2,365,154 states |
| `live` | 3 processes, 1 worker, all calls | `Answered`, `WorkerReturns` | holds, 227,329 states |
| `paging` | 3 pages; one process on 1 or 2 frames, or two on 1 each | `TypeOK`, `Transparent`, `FramesCounted`, `FilesOwned`, `SweepEnds` | holds, 392,655 states |
| `dirty` | the same, and what the server stores is relied on | `Transparent` | violated, as it is by the code |
| `ext` | one file of up to 15 blocks, or two of up to 4 and 2 | `TypeOK`, `SpaceExact`, `GrowthAnnounced`, `IsFileStore` | holds, 40,475 states |
| `ext_half` | 1 file on 16 blocks | `AvailableOnly` | violated, as it is by the code |
| `files` | paths of up to 2 names, one of which begins with the other; one file by two control blocks; two files, open and unlinked, and a full disk; a new directory; the root as a file | `IsNameSpace`, `ReadBack`, `BlocksOwned` | holds, 174,363 states |
| `disk` | 4 sectors of 3 bytes, 2 transfers; disks of up to 700 sectors | `ReadExact`, `WritePrefix`, `GroupsFit`, `PlacesFound` | holds, 117,695 states |
| `console` | buffer of 3; one reader and all keys, or two readers | `QueueExact`, `LineWakes`, `ReadReturns` | holds, 391,751 states |
| `timer` | 3 sleepers, HPET or PIT | `SleepEnds` | holds, 25,112 states |
| `kernel_ipc` | 3 threads, 2 endpoints, 1 notification, 1 saved reply | `QueuesSound`, `RepliesSound`, `BindingsSound` | holds, 278,344 states |
| `scheduler` | 3 threads, 4 priorities in 2 words | `ReadyExact`, `HighestRuns`, `AssertionsHold` | holds, 11,072 states |

What they show:

* **Exclusion without locks** (`FsExclusive`, `CallsAtomic`).  No two threads are
  ever in the file system, and while main serves a call every other thread stands
  at a blocking call.  Giving processes the right to run beside a
  runnable worker breaks both: the priorities are what carries them.
* **Priorities** (`HighestRuns`, `ReadyExact`, `AssertionsHold`).  The kernel
  leaves to a runnable thread of the highest priority, on the fast paths too; no
  runnable thread is outside the ready queues, and the bitmaps name exactly the
  queues that are not empty.
* **Answers** (`ReplyHeldOnce`, `Answered`; `RepliesSound`, `QueuesSound`,
  `BindingsSound` in the kernel).  A blocked caller is held by exactly one reply
  capability, also when processes are killed.  Every call is answered unless its
  process ends or waits for the keyboard, or main hangs.  In the code, with 8
  workers for 16 processes, main does hang when eight handlers wait and one more
  call needs a worker, and then nobody is answered any more; likewise after the
  assertion of `alloc_pid`, which leaves main in the loop of `abort`.
* **The pool** (`NoSpin`, `SpinIsFinal`, `JobHasCaller`, `WorkerReturns`).  Both
  runs have fewer workers than processes, as the code does.  Main searches in
  vain only when every worker waits for the keyboard or the clock, or was
  stopped; a worker on its way back, a file call or output never uses up the
  pool.  But such a search never ends: it is at a priority at which no worker can
  become idle, even if the key or the tick comes.  A kill takes the caller from a
  job only while it sleeps or reads the keyboard, and then the worker holds no
  reply capability, so nobody else gets the answer; the PCB of a file call is
  never stale.
* **Paging** (`Transparent`, `FilesOwned`, `FramesCounted`, `SweepEnds`).
  Replacement keeps what processes store, swap files have one owner and are not
  lost, the clock finds a victim.  Frames are counted exactly: one is counted and
  in no page only after the page-fault thread has stopped with it in its hands.
* **Blocks** (`IsFileStore`, `SpaceExact`, `GrowthAnnounced`).  The four places of
  the code that compute pointer paths agree at every boundary of the direct and
  the three indirect ranges; no block belongs to two files or is lost; growing
  takes exactly the blocks `allocBlock` has tested for.  All of this as long as
  less than half of the disk is in use.
* **Files** (`IsNameSpace`, `ReadBack`, `BlocksOwned`).  Up to the first harm
  directories implement a name space, also with names that begin with others: a
  path may find another file than the one it names, but what is found, created or
  unlinked is always one whole file.  Reads return what was written through any
  control block, at every offset and across blocks, for every file but those in
  `lost`: copied entries, dangling handles, files below files and writes to a
  directory cost no other file its contents, and a stray write only the owner of
  the block it reaches.  Every block in use belongs to one file with an inode, and
  unlinking returns it, until a search fails or an unlinked file grows.
* **The disk** (`ReadExact`, `WritePrefix`, `GroupsFit`, `PlacesFound`).  Transfers
  of any range change and return that range and no byte beside it, and a stop in
  the middle leaves a beginning of the new contents.  Groups end on the disk and
  do not overlap, and an address leads back to its entry.  A group that is lost
  because its descriptor needs another block wastes space and no more.
* **Console and timer** (`QueueExact`, `LineWakes`, `ReadReturns`, `SleepEnds`).
  Away from the three races that `torn` marks, readers get what was typed, in
  order, and there is no fourth race; within them nothing is claimed.  A single
  reader is not left waiting beside a line, though a signal left over from an
  earlier line may end its wait too soon and the read is empty.  A woken read
  returns; every sleep ends, unless the timeout cannot be set.

Where the code and what it says of itself disagree (`findings` of
`PROJECT.json`):

* `dirty`: a page the server has written into for a system call is not saved,
  because only the dirty bit of the process's own mapping is looked at.
* `ext_half`: `getAvailBlock` looks at as many bytes of the bitmap as the
  *available* blocks would fill.  Beyond half of the disk it ends at a full byte
  and hands out a block that is in use.

Limits within which the passing runs hold, each of them listed among the hazards
of `PROJECT.json` or met by a bound named below:

* An execve that finds no free slot fails the assertion of `alloc_pid`
  (`process.c:26`) and main loops in `abort`.  A stack page that was swapped out is
  taken for a new one (`vmfault_handler.c:131`); its range is reserved already, and
  the page-fault thread stops.  An assertion after `allocInode` (`fs.c:111`) stops
  the worker that creates a directory by a path with a slash at its end, or any
  file when space has run out.  The models have these stops, and the invariants
  hold in them; of liveness nothing is claimed after them.
* The kinds of `harm` in `Files` are all within reach of the calls a process can
  make, and `IsNameSpace` ends at each.  A full disk is reached only beyond a
  failed search, so `BlocksOwned` says nothing of it.

## Bounds

Several bounds differ between the cases a run is to cover: many names with no
data, or one name with much.  These modules take a set of bounds as a constant
(`Sizes` of `Paging`, `Quotas` of `ExtFile`, `Uses` of `Files` and `Console`) and
choose one member at the start (`size`, `quota`, `use`), which no step changes.
One run then covers several small instances.

Two or three processes and workers are enough for one of each kind to be in every
phase while a further one arrives; with fewer workers than processes the pool
runs out, with and without a kill.  `MAX_TICKS` bounds the interrupts a sleep
counts, and the 2 of `live` make it wait again.  In `Paging`, 2 heap pages and one of stack on 2 frames make
replacement choose between pages with and without a swap file; one frame makes
the hand pass pages that are not resident, a low stack limit lets the stack grow,
and two processes compete for swap files.  The heap limit keeps the heap from
meeting the stack.  In `ExtFile`, one direct pointer and two pointers in a block
put a boundary of every kind within 15 blocks; `Quotas` bounds the blocks of each
file, `EMPTYINGS` how often files are emptied (stale pointers then differ),
`WRITES` how many blocks hold a distinguished value.  One such value is enough to
tell where a block is read from, since no code looks at contents.  The disk of
`ext` is more than twice as large as what the files use.

In `Files`, paths of two names over two names reach directories in directories
and the same name in two places; blocks of 2 cells with lengths up to 3 and
offsets up to 4 start and end on, before and behind a boundary, and two entries in
a block leave one that a new block can copy.  With bytes of 2 bits and 6 inodes and
6 blocks the fifth of either is where the search fails.  `FullUse` goes on until
the disk is full.  Calls end when more than `harms` kinds of harm are done: with 0
the run covers everything up to the first, with 1 or 2 what a harm leads to, in
instances with few paths.  In `Disk`, ranges of up to 9 bytes over sectors of 3 begin and end
anywhere and contain whole sectors; two calls let the second meet what a stop of
the first left.  The sizes of `Layout` are scaled down so that 700 sectors hold
several groups and more than one block of descriptors.  A buffer of 3 places is
full with two characters, so keys are dropped and both indices wrap.  Three
sleepers let one handle an interrupt, one wait and one arrive.  In `KernelIPC` a
third thread can cancel or answer what two others do; in `Scheduler` two
priorities in each of two words exercise both levels of the bitmap.

`CHECK_DEADLOCK FALSE` stands where the system may stop: after an assertion of
the server or the kernel, when every thread waits for an outside event the
instance does not have, or when a bound is reached.

## Fairness

`live` assumes weak fairness of main, of the page-fault thread and of every
worker, and of the timer interrupt for a sleeping job.  The kernel runs a
runnable thread of the highest priority and rotates threads of equal priority;
that sleeps end is shown by `timer`.  When main loops, in the search for a worker
or in `abort`, no worker is runnable under these guards and none is assumed to
step; the properties except that case (`Hung`).  `console` and `timer` do not have
main, so their fairness, and with it `ReadReturns` and `SleepEnds`, is that of a
system in which main does not loop.  Nothing is assumed of the keyboard or of
processes.  `SweepEnds` assumes that `page_replace` goes on while it is in its
loop, which follows from the priority of its thread.  `console` assumes that a
reader that is not blocked goes on: the keyboard thread blocks after each key, so
it does not keep workers from running.  `timer` assumes the same of sleepers, and
that a timer that is set and not masked fires.  That threads of equal priority
take turns is the round robin of `timerTick`, which `Scheduler` has; it is used
here and not proved as a liveness property.

## Proofs

`SysServerProofs` proves, for every number of processes and workers and every
set of calls, `Spec => []Inv` (`Invariance`), and from it `TypeCorrect`,
`FileSystemExclusive`, `SystemCallsAtomic`, `RepliesHeldOnce`, `JobsHaveCallers`,
`SpinsOnlyWhenFull` (`[]NoSpin`) and `SpinningIsFinal` (`SpinIsFinal`), with kill
and with any relation between the numbers.  The only assumption is
`ServerAssumption`, the types of the constants.

The exclusion properties are not inductive.  A worker could be inside the file
system when a process calls, if a process could run then; it cannot, because a
worker inside the file system is runnable.  `Inv` makes this explicit:
`MainAlone` and `FaultAlone` say that once main or the page-fault thread has
work every thread below is at a blocking point, except the worker that was just
signalled; `OneFileWorker` and `OneSender` say that because of this calls and
jobs arrive one at a time; `MainCap`, `FaultCap`, `BusyAccurate`,
`JobConsistent`, `MessageConsistent` and `OrphansWait` tie program counters,
capabilities and jobs together; `OrphansWait` says that a worker without a caller
is one that sleeps or reads the keyboard.  There is one lemma for each action, and
in it one step for each conjunct the action can disturb.  `SpinsOnlyWhenFull` is
`MainAlone` read the other way: a worker that is not idle while main searches
stands at a wait.  `SpinningIsFinal` needs only the guards: of the other threads
only an interrupt has a step, and that makes no worker idle.

`ExtFileProofs` is about the block layer, for every size of group, byte, inode and
pointer block, any files, quotas and contents, from `BitmapAssumption` and
`FileAssumption`: sizes are positive, an inode has fewer direct pointers than a
block has pointers, data is not mistaken for pointers.  `getAvailBlock` and
`getAvailInode` hand out an available entry and keep the count exact while less
than half of the group is in use (`GetAvailSound`): if the search met only full
bytes, as many entries would be marked as are available.  Releasing keeps the
count exact (`SetAllocSound`).  `Spec => GrowthAnnounced` (`GrowthIsAnnounced`)
has no condition.  `[]TypeOK` (`TypeCorrect`), `[]SpaceExact` (`SpaceStaysExact`),
`AvailableOnly` (`OnlyAvailable`) and `IsFileStore` (`FilesAreStore`) have the
hypothesis `[]HalfFree`: with the blocks that a growing file takes next, less
than half of the group is in use.  `ext_half` shows that `AvailableOnly` fails
without it: two data blocks of a file become one block of the disk.

`SpaceExact` is not inductive: it says which blocks a file gives back, not that
the pointers to the others lead through blocks that are in use.  The invariant
adds `Tree`, of `PointerTreeProofs`.  Block `n` of a file is below `Area(n)`
levels of pointer blocks and the first below `calNeededPointerBlocks(n)` of them;
so each block, of data or of pointers, has exactly one place, a file, a number
and a level, and `Tree` says that the bitmap marks the blocks at these places,
that no two places share a block, and that the blocks above level 0 hold
pointers.  The lemmas follow the code: the quotients and remainders by which
`readBlock` finds its way are unique (`Areas`, `Starts`, `Climb`);
`allocLastBlock` adds the places of block `n` and disturbs no other
(`TreeGrown`, `AttachedIs`); `freeLastBlock` gives back the places of the last
block (`TreeFreed`, `FreedIs`); `writeBlock` changes one data block
(`TreeWritten`).  For the refinement, `View` reads a file as a sequence, and
there is one lemma for what each operation does to it (`ViewGrown`,
`ViewWritten`, `ViewShrunk`).

`KernelIPCProofs` proves, for every number of threads, endpoints, notifications
and saved replies, `Spec => []TypeOK` (`KernelTypes`), `[]QueuesSound`
(`KernelQueues`), `[]RepliesSound` (`KernelReplies`) and `[]BindingsSound`
(`KernelBindings`), from `KernelAssumption` alone: the constants are disjoint and
there is a badge.  None of the four is inductive by itself (a reply capability
names a waiting thread only if cancelling takes blocked threads out of the queue
they are in, and a bound notification has no other waiter only if queues are
exact), so the invariant is their conjunction, `Good`.  It is a predicate of a
kernel state, and the actions are compositions of operators on such states: one
lemma for each operator says under which condition it leads from a good state to
a good one, and the lemma for an action follows the order of its calls.

`PagingProofs` proves, for every number of processes, pages, frames and values,
`Spec => []TypeOK` (`PagingTypes`), `[]FramesCounted` (`FramesAreCounted`) and
`[]FilesOwned` (`FilesHaveOneOwner`) from `PagingAssumption`, the types of the
constants and that the initial stack fits the frames.  `[]Transparent`
(`PagingIsTransparent`) has the hypothesis that the server stores nothing the
process relies on, which `dirty` shows to be needed.  `Inv` adds `Shape` and
`Owned`.  The decisive conjunct of `Shape` is that a page has a swap file only in
a process that has had all its frames: otherwise `alloc_frame` would give a new,
empty frame to a page that was saved.  `Transparent` needs `Clean`: a resident
page whose dirty bit is off is what its swap file holds, and `page_replace` has
collected every dirty bit before it chooses a victim.

`DiskProofs` proves, for sectors, blocks, inodes, descriptors, disks and ranges
of every size, `Spec => []ReadExact`, `Spec => WritePrefix`, `[]GroupsFit` and
`[]PlacesFound`, from `DiskAssumption` and `LayoutAssumption`: sizes are positive,
the super block is a number of sectors and a sector a number of descriptors.  The
invariant of a transfer says what the sector buffer holds in terms of the byte
that is next (`Reading`, `Writing`) and that the sectors before it are on the
disk (`Done`).  The two facts about the layout hold of every size of disk by
arithmetic: `calGroupNum` stops at the least number of descriptor blocks at which
one of its returns is taken, and quotients and remainders lead back from an
address.

`ConsoleProofs` proves, for a ring buffer of every size and any number of readers
and keys, `Spec => []QueueExact` (`QueueIsExact`) and `[]LineWakes` (`LinesWake`)
from `ConsoleAssumption`: the buffer has at least two places and Enter is a key.
The invariant says that the queue lies between the two indices (`Held`), that at
most one reader is between its test and the reduction of `buffer_head`, and only
then the index may be one too high (`Reader`); and of a single reader that it
waits only while no signal is pending and no new line has come (`Alone`).

`SchedulerProofs` proves, for every finite set of threads and every split of any
number of priorities into words, `Spec => []ReadyExact` (`QueuesAreExact`),
`[]HighestRuns` (`TheHighestRuns`) and `[]AssertionsHold` (`AssertionsAreKept`),
from `SchedulerAssumption`: sizes are positive, and the idle thread and the two
marks of the pending action are not among the threads.  Outside the kernel the
invariant is `Left(k)`.  Inside an entry the queues are not exact, since a thread
that was woken may be held by the pending action alone, so the argument is about
`Ready(s)`: every runnable thread is current, queued or pending; a pending thread
is runnable, and beside it no runnable thread is above the current one; and if
nothing is pending the current thread can go on.
One lemma says that `schedule` and `activateThread` lead from any such state to
one that is `Left` (`Leaves`), one for each operation that it keeps `Ready`, and
the lemma for an entry follows the order of its calls.  That the bitmaps name the
highest queue that is not empty is arithmetic on quotients and remainders
(`HighestPrio`).  Deletion goes through queues of any length: the induction over
the loop is `Counting`, on a set of numbers, because the induction rules of the
library cannot be used.

Only model-checked: liveness (`Answered`, `WorkerReturns`, `SweepEnds`,
`ReadReturns`, `SleepEnds`), which is out of reach of the prover; and the
properties of `Files`, including the refinement of `NameSpace`.  What the loops of
`readfile` and of the search for a directory entry compute for every length needs
induction over data, which the prover does not have.  The three levels of pointer
blocks are a fixed number of steps, so `ExtFile` needs none.

The modules cite the Zenon prover by default and the SMT solver on the leaves that
need arithmetic; the theorems of the library about finite sets are instantiated
where they are first needed.

## Not modelled

`src/` holds the whole seL4 kernel for all its platforms, the seL4 and util
libraries and a C library, some 398,000 lines, most of which this build does not
compile.  The models cover the server itself and the two parts of the kernel its
correctness argument rests on; the mapped share of all lines is small for that
reason.

* The rest of the kernel: capability spaces and the derivation tree, untyped
  memory, address spaces, interrupts beyond the signal they send, boot.  Rights
  and transfer of capabilities, contents of messages and the links of queues are
  left out of `KernelIPC` and `Scheduler`.
* `vka`, `vspace`, `malloc` and the ELF loader: libraries, present by what the
  server uses of them.  The allocators have no lock either; for main and the
  page-fault thread `CallsAtomic` covers this, for workers it is an open hazard.
* The contents of messages and replies, and the wording of `ls` and `ps`.
* The screen: output that no other part reads.  Echo and output share the cursor
  without a lock, and scrolling tests the cursor for equality (`vga.c:70`); both
  are among the hazards.
* In `Files`: negative offsets, unlinking the root, data that looks like an entry
  with a name that a path has, and the super block under a stray write.
* Power failure between the writes of one call to different structures: nothing
  repairs the file system at start, and nothing says what should survive.  `Disk`
  has the failure inside one transfer.
* In `Timer`: the set-up of the devices and the reading of the time; a write of
  the 64-bit comparator is one step.
* User programs: they make any call at any time.
