-------------------------------- MODULE Files --------------------------------
(***************************************************************************)
(* Directories, inodes and the files of a process: readInode, allocInode,  *)
(* freeInode and getDirEntry of ext.c, and the calls of fs.c on top of     *)
(* them.  A call is one step, because no two threads are in the file       *)
(* system at once (FsExclusive of SysServer).  Inodes and blocks are named *)
(* by their places in the bitmaps, names are model values, and a path is   *)
(* the sequence of its names and whether it ends with a slash.  A block is *)
(* a sequence of cells; a cell is a directory entry, or as many bytes of a *)
(* file, and which of the two depends on who looks.  Files stay within the *)
(* direct pointers of an inode (ExtFile has the others).  The last three   *)
(* variables are history: no action reads them but for the bound in Next.  *)
(***************************************************************************)
EXTENDS Bitmap, SequencesExt

CONSTANTS
    Procs,         \* processes
    MAX_FILE_NUM,  \* file control blocks of a process; the first 3 are not used
    Names,         \* names of files
    Longer,        \* Longer[n]: the names that begin with n and go on
    InitDirs,      \* names of the directories on the disk at the start
    CELLS,         \* cells of a block: blockSize / sizeof(DirEntry)
    BLOCKS,        \* data blocks of the disk
    POINTER_NUM,   \* pointers of an inode; bound: no file has more blocks
    Values,        \* what a process writes into a cell: as an entry it is in
                   \* use, with a name no path has
    Gap,           \* stands for what a cell holds that nobody has written
    Uses           \* bound: sets of paths, of modes of open, of file control
                   \* blocks, of lengths to read, of what is written and of
                   \* offsets that processes use, and how many kinds of harm
                   \* are waited for

ASSUME FilesAssumption ==
    /\ \A x \in {MAX_FILE_NUM, CELLS, BLOCKS, POINTER_NUM} : x \in Nat \ {0}
    /\ Longer \in [Names -> SUBSET Names]
    /\ \A n \in Names : n \notin Longer[n] /\ \A m \in Longer[n] : Longer[m] \subseteq Longer[n]
    /\ InitDirs \subseteq Names /\ Cardinality(InitDirs) <= CELLS
    /\ Gap \notin Values
    /\ \A u \in Uses : /\ u.fds \subseteq 3 .. MAX_FILE_NUM - 1 /\ u.lens \subseteq Nat \ {0}
                       /\ u.strs \subseteq Seq(Values) /\ u.harms \in Nat
                       /\ u.offsets \subseteq 0 .. POINTER_NUM * CELLS

VARIABLES
    inode,   \* inode[i]: the inode as it is on the disk
    ispace,  \* bitmap and count of available inodes
    bspace,  \* bitmap and count of available blocks
    data,    \* data[b]: the cells of a block
    fcb,     \* fcb[p][fd]: the file control blocks of a process
    halted,  \* the call whose assertion has failed, or "no"
    use,     \* bound: the member of Uses chosen at the start
    want,    \* want[i]: what processes have written into the file
    lost,    \* files some of whose blocks another file has got or overwritten
    harm     \* what has happened that the code does not guard against

disk == <<inode, ispace, bspace, data>>
past == <<want, lost, harm>>
vars == <<disk, fcb, halted, use, past>>

REGULAR_TYPE == "regular"
DIRECTORY_TYPE == "directory"

\* inodeOffset of '/': the first inode of the table.
Root == 0

\* An inode offset of 0 in an entry, a pointer that was never set, and the
\* answer -1.  Such a pointer leads to the super block, of which the server works
\* on a copy in memory.
None == -1

\* Entries and file control blocks that are not in use: no code looks at their
\* other fields.
Fds == 3 .. MAX_FILE_NUM - 1
Unused == [inode |-> None, name |-> CHOOSE n \in Names : TRUE]
Closed == [inuse |-> FALSE, inode |-> Root, offset |-> 0, mode |-> [creat |-> FALSE, dir |-> FALSE, access |-> "O_RDONLY"]]

Blank == [k \in 1 .. CELLS |-> Unused]

-----------------------------------------------------------------------------

\* readBlock, which does not look at blockCount.
readBlock(ino, q) == IF ino.pointer[q] = None THEN Blank ELSE data[ino.pointer[q]]

\* The cells of a file, taken for directory entries.
Cells(i) == FlattenSeq([k \in 1 .. inode[i].blockCount |-> readBlock(inode[i], k - 1)])

InUse(c) == c \in Values \/ c.inode # None

\* strncmp(dirEntry[j].name, n, length of n) == 0
Matches(c, n) == c \notin Values /\ c.inode # None /\ c.name \in Longer[n] \cup {n}

\* The first entry of a directory that matches, 0 if none does.
FirstMatch(es, n) ==
    LET found == {k \in DOMAIN es : Matches(es[k], n)}
    IN  IF found = {} THEN 0 ELSE Least(found)

\* One turn of the loop of readInode.  The type of the file in which it looks
\* matters only if a slash follows.
Descend(at, c) ==
    LET k == IF at.found /\ (c.slash => inode[at.inode].type # REGULAR_TYPE)
             THEN FirstMatch(Cells(at.inode), c.name) ELSE 0
    IN  IF k = 0 THEN [at EXCEPT !.found = FALSE]
        ELSE [inode |-> Cells(at.inode)[k].inode, found |-> TRUE]

\* readInode: the last inode it reads, and whether that is the one the path
\* leads to.
Walk(path) ==
    FoldLeft(Descend, [inode |-> Root, found |-> TRUE],
             [k \in DOMAIN path.names |->
                 [name |-> path.names[k], slash |-> k < Len(path.names) \/ path.slash]])

readInode(path) == IF Walk(path).found THEN Walk(path).inode ELSE None

\* getDirEntry: the entries in use, in the order in which ls shows them.
DirEntries(i) == SelectSeq(Cells(i), InUse)

\* get_father_path, and the name after the last slash: none for "x/".
Father(path) == [names |-> Front(path.names), slash |-> FALSE]
HasName(path) == path.names # <<>> /\ ~path.slash

-----------------------------------------------------------------------------

\* The blocks of a file, and the files that have block b besides file i, whose
\* inode in memory is ino.
BlocksOf(ino) == {ino.pointer[q] : q \in 0 .. ino.blockCount - 1}
Sharers(b, i, ino) ==
    {x \in Entries : b \in BlocksOf(IF x = i THEN ino ELSE inode[x])}

\* The search of the bitmap ends at a full byte: what it hands out may be in
\* use, and is not marked.
SearchFails(space) == FirstBit(space.bits, FirstByte(space)) = BYTE

\* allocBlock within the direct pointers, once a block is available.
allocBlock(ino, space) ==
    LET got == GetAvail(space)
    IN  [ino   |-> [ino EXCEPT !.pointer[ino.blockCount] = got.entry, !.blockCount = @ + 1],
         space |-> got.space,
         block |-> got.entry]

\* What may go wrong in allocBlock for file i: the search fails, the file has no
\* inode any more, or the block is another's.
AllocHarm(i, space) == (IF SearchFails(space) THEN {"half"} ELSE {})
                       \cup (IF i \notin ispace.bits THEN {"ghost"} ELSE {})
AllocLost(i, ino, space) ==
    LET sharers == Sharers(GetAvail(space).entry, i, ino)
    IN  IF sharers = {} THEN {} ELSE sharers \cup {i}

\* What a file is to hold once str is written at offset and its size is len.
Overlay(w, offset, str, len) ==
    [j \in 1 .. len |-> IF j - offset \in DOMAIN str THEN str[j - offset]
                        ELSE IF j \in DOMAIN w THEN w[j] ELSE Gap]

-----------------------------------------------------------------------------

\* open stores the inode in the first file control block that is free.  With
\* none it answers -1, and what it has done so far stays done.
OpenFcb(p, i, mode) ==
    LET unused == {fd \in use.fds : ~fcb[p][fd].inuse}
    IN  fcb' = IF unused = {} THEN fcb
               ELSE [fcb EXCEPT ![p][Least(unused)] =
                        [inuse |-> TRUE, inode |-> i, offset |-> 0, mode |-> mode]]

\* The entry that allocInode fills: the first that is not in use, or 0.
FreeSlot(es) ==
    LET unused == {k \in DOMAIN es : ~InUse(es[k])}
    IN  IF unused = {} THEN 0 ELSE Least(unused)

\* What the buffer of allocInode holds when a directory gets a new block: the
\* memset has its arguments swapped and clears nothing.  It is the last block
\* of the directory, or, before its first, what the stack holds: nothing or
\* a block some other call has read.
Leftover(d) ==
    IF inode[d].blockCount # 0 THEN {readBlock(inode[d], inode[d].blockCount - 1)}
    ELSE {Blank} \cup {data[b] : b \in bspace.bits}

\* allocInode fails without a name, an inode or, where it needs one, a block,
\* and if it meets the name before the entry it is looking for.
allocFails(d, path) ==
    LET es   == Cells(d)
        slot == FreeSlot(es)
    IN  \/ ~HasName(path)
        \/ ispace.avail = 0
        \/ slot = 0 /\ bspace.avail = 0
        \/ \E k \in DOMAIN es : Matches(es[k], Last(path.names)) /\ (slot = 0 \/ k < slot)

\* allocInode otherwise: entry and inode of the new file.  Of the inode it sets
\* all but the pointers, which are those of dest, the one readInode read last.
allocInode(d, n, type, dest) ==
    LET slot   == FreeSlot(Cells(d))
        grow   == slot = 0
        got    == GetAvail(ispace)
        i      == got.entry
        grown  == allocBlock(inode[d], bspace)
        father == IF grow THEN [grown.ino EXCEPT !.size = grown.ino.blockCount * CELLS]
                  ELSE inode[d]
        q      == IF grow THEN inode[d].blockCount ELSE (slot - 1) \div CELLS
        j      == IF grow THEN 1 ELSE ((slot - 1) % CELLS) + 1
        below  == inode[d].type = REGULAR_TYPE
    IN  \E buffer \in IF grow THEN Leftover(d) ELSE {readBlock(inode[d], q)} :
        /\ data' = [data EXCEPT ![father.pointer[q]] =
                       [buffer EXCEPT ![j] = [inode |-> i, name |-> n]]]
        /\ bspace' = IF grow THEN grown.space ELSE bspace
        /\ ispace' = got.space
        /\ inode' = [inode EXCEPT ![d] = father,
                        ![i] = [type |-> type, linkCount |-> 1, blockCount |-> 0,
                                size |-> 0, pointer |-> dest.pointer]]
        /\ want' = [want EXCEPT ![d] = IF below THEN Overlay(@, 0, <<>>, father.size) ELSE @,
                                ![i] = <<>>]
        /\ lost' = (IF i \in ispace.bits THEN lost \cup {i} ELSE lost \ {i})
                   \cup (IF grow THEN AllocLost(d, inode[d], bspace) ELSE {})
        /\ harm' = harm \cup (IF grow THEN AllocHarm(d, bspace) ELSE {})
                   \cup (IF SearchFails(ispace) THEN {"half"} ELSE {})
                   \cup (IF below THEN {"below"} ELSE {})
                   \cup (IF grow /\ \E k \in 2 .. CELLS : InUse(buffer[k]) THEN {"copies"} ELSE {})

(***************************************************************************)
(* openfile_handler with syscall_open: a file that is there, one that is   *)
(* not created, one that is, and the assertion after allocInode.  The file *)
(* in which a new one is created need not be a directory.                  *)
(***************************************************************************)
Refused(path, mode) ==
    \/ ~mode.creat
    \/ path.slash /\ ~mode.dir
    \/ readInode(Father(path)) = None

OpenFile(p, path, mode) ==
    /\ readInode(path) # None
    /\ OpenFcb(p, readInode(path), mode)
    /\ UNCHANGED <<disk, halted, past>>

CreateFile(p, path, mode) ==
    LET d == readInode(Father(path))
    IN  /\ readInode(path) = None
        /\ ~Refused(path, mode)
        /\ FreeSlot(Cells(d)) = 0 => inode[d].blockCount < POINTER_NUM  \* bound
        /\ \/ /\ ~allocFails(d, path)
              /\ allocInode(d, Last(path.names),
                            IF mode.dir THEN DIRECTORY_TYPE ELSE REGULAR_TYPE,
                            inode[Walk(path).inode])
              /\ OpenFcb(p, GetAvail(ispace).entry, mode)
              /\ UNCHANGED halted
           \/ /\ allocFails(d, path)
              /\ halted' = "open"
              /\ UNCHANGED <<disk, fcb, past>>

(***************************************************************************)
(* unlink_handler with syscall_unlink and freeInode.  With linkCount 0 the *)
(* inode reaches the disk only with a block that is freed.                 *)
(***************************************************************************)
Opened(i) == \E p \in Procs, fd \in Fds : fcb[p][fd].inuse /\ fcb[p][fd].inode = i

IsEmptyDir(i) == DirEntries(i) = <<>>

freeInode_keep(d, k) ==
    LET i == Cells(d)[k].inode
    IN  /\ data' = [data EXCEPT ![inode[d].pointer[(k - 1) \div CELLS]][((k - 1) % CELLS) + 1] = Unused]
        /\ ispace' = SetAlloc(ispace, {i})
        /\ UNCHANGED <<bspace, inode, harm>>

freeInode(d, k) ==
    LET i    == Cells(d)[k].inode
        ino  == inode[i]
        last == ino.linkCount = 1
    IN  /\ data' = [data EXCEPT ![inode[d].pointer[(k - 1) \div CELLS]][((k - 1) % CELLS) + 1] = Unused]
        /\ bspace' = IF last THEN SetAlloc(bspace, BlocksOf(ino)) ELSE bspace
        /\ ispace' = IF last THEN SetAlloc(ispace, {i}) ELSE ispace
        /\ inode' = IF last /\ ino.blockCount = 0 THEN inode
                    ELSE [inode EXCEPT ![i].linkCount = @ - 1,
                                       ![i].blockCount = IF last THEN 0 ELSE @]
        /\ harm' = IF Opened(i) THEN harm \cup {"dangling"} ELSE harm

Unlink_any(path) ==
    LET d == readInode(Father(path))
        k == FirstMatch(Cells(d), Last(path.names))
    IN  /\ readInode(path) # None
        /\ HasName(path)
        /\ freeInode(d, k)
        /\ UNCHANGED <<fcb, halted, want, lost>>

Unlink(path) ==
    LET i == readInode(path)
        d == readInode(Father(path))
        k == FirstMatch(Cells(d), Last(path.names))
    IN  /\ i # None
        /\ inode[i].type = DIRECTORY_TYPE => IsEmptyDir(i)
        /\ HasName(path)
        /\ d # None /\ k # 0
        /\ LET f == Cells(d)[k].inode
           IN  /\ inode[f].type = inode[i].type
               /\ inode[f].type = DIRECTORY_TYPE => IsEmptyDir(f)
        /\ freeInode(d, k)
        /\ UNCHANGED <<fcb, halted, want, lost>>

(***************************************************************************)
(* The loop of syscall_readfile, a block at a turn.                        *)
(***************************************************************************)
readfile(i, offset, max_len) ==
    LET Turn(st, k) ==
            LET r == st.offset % CELLS
                n == Min({CELLS - r, inode[i].size - st.offset, max_len - Len(st.str)})
            IN  IF n <= 0 THEN st
                ELSE [offset |-> st.offset + n,
                      str |-> st.str \o SubSeq(readBlock(inode[i], st.offset \div CELLS), r + 1, r + n)]
    IN  FoldLeft(Turn, [offset |-> offset, str |-> <<>>], [k \in 1 .. max_len |-> k]).str

\* What one turn of syscall_writefile writes: up to the end of a block.
WriteLen_block(offset, left) == Min({CELLS, left})
WriteLen(offset, left) == Min({CELLS - (offset % CELLS), left})

(***************************************************************************)
(* The loop of syscall_writefile.  A turn allocates one block if the file  *)
(* has none for the offset, which saves the inode, and writes into the     *)
(* block to which the pointer at the offset leads, set or not.  The inode  *)
(* is saved again at the end.  A turn that gets no block stops the server. *)
(***************************************************************************)
writefile(i, offset, str) ==
    LET Turn(st, k) ==
            LET r     == st.offset % CELLS
                q     == st.offset \div CELLS
                n     == WriteLen(st.offset, Len(str) - st.done)
                grow  == q >= st.ino.blockCount
                grown == allocBlock(st.ino, st.space)
                ino   == IF grow THEN grown.ino ELSE st.ino
                at    == ino.pointer[q]
                stray == q >= ino.blockCount
                Put(j, c) == IF j - r \in 1 .. n THEN str[st.done + j - r] ELSE c
            IN  IF n = 0 \/ st.failed THEN st
                ELSE IF grow /\ st.space.avail = 0 THEN [st EXCEPT !.failed = TRUE]
                ELSE [ino    |-> [ino EXCEPT !.size = Max({@, st.offset + n})],
                      saved  |-> IF grow THEN ino ELSE st.saved,
                      space  |-> IF grow THEN grown.space ELSE st.space,
                      data   |-> IF at = None THEN st.data
                                 ELSE [st.data EXCEPT ![at] = [j \in 1 .. CELLS |-> Put(j, @[j])]],
                      offset |-> st.offset + n,
                      done   |-> st.done + n,
                      failed |-> FALSE,
                      lost   |-> st.lost \cup (IF grow THEN AllocLost(i, st.ino, st.space) ELSE {})
                                 \cup (IF stray THEN {i} \cup Sharers(at, i, ino) ELSE {}),
                      harm   |-> st.harm \cup (IF grow THEN AllocHarm(i, st.space) ELSE {})
                                 \cup (IF stray THEN {"stray"} ELSE {})]
    IN  FoldLeft(Turn, [ino |-> inode[i], saved |-> inode[i], space |-> bspace, data |-> data,
                        offset |-> offset, done |-> 0, failed |-> FALSE, lost |-> lost, harm |-> harm],
                 str)

MayRead(f) == f.inuse /\ f.mode.access # "O_WRONLY"
MayWrite(f) == f.inuse /\ f.mode.access # "O_RDONLY"

Read(p, fd, max_len) ==
    LET f == fcb[p][fd]
    IN  /\ MayRead(f)
        /\ fcb' = [fcb EXCEPT ![p][fd].offset = @ + Len(readfile(f.inode, f.offset, max_len))]
        /\ UNCHANGED <<disk, halted, past>>

\* A file that is a directory is written like any other.  A write that fails
\* keeps what its first turns have done, and promises nothing of it.
Write(p, fd, str) ==
    LET f    == fcb[p][fd]
        i    == f.inode
        w    == writefile(i, f.offset, str)
        ino  == IF w.failed THEN w.saved ELSE w.ino
        done == IF w.failed THEN [k \in 1 .. w.done |-> Gap] ELSE str
    IN  /\ MayWrite(f)
        /\ f.offset + Len(str) \in use.offsets
        /\ inode' = [inode EXCEPT ![i] = ino]
        /\ bspace' = w.space
        /\ data' = w.data
        /\ fcb' = [fcb EXCEPT ![p][fd].offset = w.offset]
        /\ halted' = IF w.failed THEN "write" ELSE halted
        /\ want' = [want EXCEPT ![i] = Overlay(@, f.offset, done, ino.size)]
        /\ lost' = w.lost
        /\ harm' = w.harm \cup (IF inode[i].type = DIRECTORY_TYPE THEN {"overwritten"} ELSE {})
        /\ UNCHANGED ispace

\* lseek_handler; a negative offset is left out.
Seek(p, fd, offset, whence) ==
    LET f  == fcb[p][fd]
        to == CASE whence = "SEEK_SET" -> offset
                [] whence = "SEEK_CUR" -> f.offset + offset
                [] whence = "SEEK_END" -> inode[f.inode].size + offset
    IN  /\ f.inuse
        /\ to \in use.offsets
        /\ fcb' = [fcb EXCEPT ![p][fd].offset = to]
        /\ UNCHANGED <<disk, halted, past>>

Close(p, fd) ==
    /\ fcb[p][fd].inuse
    /\ fcb' = [fcb EXCEPT ![p][fd] = Closed]
    /\ UNCHANGED <<disk, halted, past>>

\* syscall_kill clears the slot of the process.
Kill(p) ==
    /\ fcb' = [fcb EXCEPT ![p] = [fd \in Fds |-> Closed]]
    /\ UNCHANGED <<disk, halted, past>>

\* ls asserts that the directory is there.
Ls(path) ==
    /\ readInode(path) = None
    /\ halted' = "ls"
    /\ UNCHANGED <<disk, fcb, past>>

-----------------------------------------------------------------------------

\* The disk as it is made: one block in the root and in each directory.
Init ==
    LET dirs == SetToSeq(InitDirs)
        used == 0 .. Len(dirs)
        root == [k \in 1 .. CELLS |-> IF k \in DOMAIN dirs
                                      THEN [inode |-> k, name |-> dirs[k]] ELSE Unused]
        Made(i) == [type       |-> IF i \in used THEN DIRECTORY_TYPE ELSE REGULAR_TYPE,
                    linkCount  |-> 1,
                    blockCount |-> IF i \in used THEN 1 ELSE 0,
                    size       |-> IF i \in used THEN CELLS ELSE 0,
                    pointer    |-> [q \in 0 .. POINTER_NUM - 1 |-> IF i \in used /\ q = 0 THEN i ELSE None]]
    IN  /\ inode = [i \in Entries |-> Made(i)]
        /\ ispace = [bits |-> used, avail |-> SIZE - Cardinality(used)]
        /\ bspace = [bits |-> used, avail |-> BLOCKS - Cardinality(used)]
        /\ data = [b \in 0 .. BLOCKS - 1 |-> IF b = 0 THEN root ELSE Blank]
        /\ fcb = [p \in Procs |-> [fd \in Fds |-> Closed]]
        /\ halted = "no"
        /\ use \in Uses
        /\ want = [i \in Entries |-> <<>>]
        /\ lost = {} /\ harm = {}

\* Calls are made until more than use.harms kinds of harm are done.
Next ==
    /\ halted = "no"
    /\ Cardinality(harm) <= use.harms
    /\ \/ \E p \in Procs, path \in use.paths, mode \in use.modes :
             OpenFile(p, path, mode) \/ CreateFile(p, path, mode)
       \/ \E path \in use.paths : Unlink(path) \/ Ls(path)
       \/ \E p \in Procs, fd \in Fds :
             \/ \E n \in use.lens : Read(p, fd, n)
             \/ \E str \in use.strs : Write(p, fd, str)
             \/ \E n \in use.offsets, whence \in {"SEEK_SET", "SEEK_CUR", "SEEK_END"} :
                   Seek(p, fd, n, whence)
             \/ Close(p, fd)
       \/ \E p \in Procs : Kill(p)
    /\ UNCHANGED use

Spec == Init /\ [][Next]_vars

-----------------------------------------------------------------------------
(***************************************************************************)
(* Properties.  What the code does not guard against does not stop the     *)
(* model: harm says what has happened, and each property how much of it    *)
(* it survives.                                                            *)
(*   "half"         the search of a bitmap has failed (ext.c:380, 961)     *)
(*   "ghost"        a file without an inode has got a block                *)
(*   "stray"        a write went through a pointer that was never set, or  *)
(*                  is left over from another file (fs.c:167)              *)
(*   "copies"       a new block of a directory holds copies of other       *)
(*                  entries (ext.c:1078)                                   *)
(*   "below"        a file was created in a file that is no directory      *)
(*                  (ext.c:895)                                            *)
(*   "dangling"     an open file was unlinked (fs.c:116)                   *)
(*   "overwritten"  a directory was written to (fs.c:154)                  *)
(***************************************************************************)

\* The directories implement a name space: allocInode gives a new name an
\* inode of its own, freeInode ends the file with its name and only without
\* entries below it, and the inode bitmap marks exactly the files with names,
\* up to the first harm of any kind.  That names which begin with others are
\* taken for them (strncmp) does no harm to it.
Links == {<<d, c.name, c.inode>> :
            <<d, c>> \in UNION {{<<d, c>> : c \in ToSet(DirEntries(d)) \ Values} : d \in Entries}}

Tree == INSTANCE NameSpace
            WITH Nodes <- Entries, links <- Links, live <- ispace.bits

IsNameSpace == Tree!Init /\ [][harm' = {} => Tree!Next]_(Tree!vars)

\* Reads return what was written: for every offset and length the loop over
\* blocks of syscall_readfile yields what writes through any file control block
\* have left there, and ends with the file.  Harm is confined: whatever happens,
\* only the files whose blocks were handed out twice or reached by a stray write,
\* and the file that made it, may lose what they hold.
ReadBack ==
    \A i \in ispace.bits \ lost :
        inode[i].type = REGULAR_TYPE =>
        \A offset \in use.offsets, n \in use.lens :
            LET str == readfile(i, offset, n)
            IN  /\ Len(str) = Max({0, Min({n, Len(want[i]) - offset})})
                /\ \A k \in DOMAIN str : want[i][offset + k] \in {Gap, str[k]}

\* No block is shared and none is lost: the blocks that are marked are those of
\* files with an inode, each of one file, so that unlinking a file returns all of
\* its blocks, whatever was opened, written and unlinked before, and also when a
\* write finds the disk full after its first turns.  It holds until the search of
\* a bitmap fails or a file without an inode grows.
BlocksOwned ==
    harm \cap {"half", "ghost"} = {} =>
        /\ bspace.bits = UNION {BlocksOf(inode[i]) : i \in ispace.bits}
        /\ bspace.avail = BLOCKS - Cardinality(bspace.bits)
        /\ Cardinality(bspace.bits) = MapThenSumSet(LAMBDA i : inode[i].blockCount, ispace.bits)
        /\ \A i \in Entries \ ispace.bits : inode[i].blockCount = 0

=============================================================================
